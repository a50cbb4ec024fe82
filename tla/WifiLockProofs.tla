--------------------------- MODULE WifiLockProofs ---------------------------
(***************************************************************************)
(* Theorems about WifiLock, for any number of actors, modes, signals and   *)
(* deaths.  The first holds however the windows overlap; the others are    *)
(* about the timing assumption ~Overlap.                                   *)
(***************************************************************************)
EXTENDS WifiLock, TLAPS

\* An actor that goes on to an engine call has one left to make.
Counted ==
    \A p \in Actor :
        pc[p] \in {"ready", "call"} \/ (pc[p] \in Removal /\ back[p] \in {"ready", "call"})
            => left[p] # 0

TypeInv == TypeOK /\ Counted

LEMMA TypeInvHolds == Spec => []TypeInv
<1>1. Init => TypeInv
  <2> SUFFICES ASSUME Init PROVE TypeInv
    OBVIOUS
  <2>1. TypeOK
    <3>1. "idle" \in PC
      BY DEF PC
    <3> QED BY <3>1 DEF Init, TypeOK
  <2>2. Counted
    BY DEF Init, Counted, Removal
  <2> QED BY <2>1, <2>2 DEF TypeInv
<1>2. TypeInv /\ [Next]_vars => TypeInv'
  <2> SUFFICES ASSUME TypeOK, Counted, [Next]_vars PROVE TypeOK' /\ Counted'
    BY DEF TypeInv
  <2> USE ActorAssumption DEF TypeOK, Counted
  <2>1. CASE UNCHANGED vars
    BY <2>1 DEF vars, files
  <2>2. ASSUME NEW p \in Actor, Start(p) PROVE TypeOK' /\ Counted'
    BY <2>2 DEF Start, At, Goto, PC, Removal, files
  <2>3. ASSUME NEW p \in Actor, Acquire(p) PROVE TypeOK' /\ Counted'
    <3>1. CASE Mkdir(p)
      BY <3>1 DEF Mkdir, At, Goto, PC, Setup, Look, Removal
    <3>2. CASE WriteOwner(p)
      BY <3>2 DEF WriteOwner, At, Goto, PC, Setup, Removal
    <3>3. CASE WriteMarks(p)
      <4>1. marks' \in SUBSET {"ts", "preempt"}
        BY <3>3 DEF WriteMarks
      <4> QED BY <3>3, <4>1 DEF WriteMarks, At, Goto, PC, Setup, Removal
    <3>4. CASE Verify(p)
      BY <3>4 DEF Verify, At, Goto, PC, Using, Removal, files
    <3>5. CASE ReadOwner(p)
      BY <3>5 DEF ReadOwner, At, Goto, PC, Look, Removal, files
    <3>6. CASE Reclaim(p)
      BY <3>6 DEF Reclaim, At, RemoveThen, Goto, Forget, PC, Removal, files
    <3>7. CASE Busy(p)
      BY <3>7 DEF Busy, At, Goto, Over, Forget, PC, Removal, files
    <3>8. CASE Peek(p)
      BY <3>8 DEF Peek, At, Goto, PC, Look, Removal, files
    <3>9. CASE Preempt(p)
      BY <3>9 DEF Preempt, At, Goto, Forget, PC, Alive, Removal, files
    <3>10. CASE Await(p)
      BY <3>10 DEF Await, At, Goto, PC, Removal, files
    <3> QED BY <2>3, <3>1, <3>2, <3>3, <3>4, <3>5, <3>6, <3>7, <3>8, <3>9, <3>10
            DEF Acquire
  <2>4. ASSUME NEW p \in Actor, Remove(p) PROVE TypeOK' /\ Counted'
    <3>1. CASE RmOwner(p)
      BY <3>1 DEF RmOwner, At, Goto, PC, Removal
    <3>2. CASE RmMarks(p)
      BY <3>2 DEF RmMarks, At, Goto, PC, Removal
    <3>3. CASE Rmdir(p)
      BY <3>3 DEF Rmdir, At, Goto, PC, Removal
    <3>4. CASE Release(p)
      BY <3>4 DEF Release, At, ReleaseThen, RemoveThen, Goto, Over, PC, Removal, files
    <3>5. CASE Exit(p)
      BY <3>5 DEF Exit, At, ReleaseThen, RemoveThen, Goto, PC, Removal, files
    <3> QED BY <2>4, <3>1, <3>2, <3>3, <3>4, <3>5 DEF Remove
  <2>5. ASSUME NEW p \in Actor, Work(p) PROVE TypeOK' /\ Counted'
    <3>1. CASE LinkUp(p)
      BY <3>1 DEF LinkUp, At, Goto, PC, Using, Removal, files
    <3>2. CASE LinkFails(p)
      BY <3>2 DEF LinkFails, At, Goto, PC, Removal, files
    <3>3. CASE StartCall(p)
      BY <3>3 DEF StartCall, At, Goto, PC, Using, Removal, files
    <3>4. CASE EndCall(p)
      BY <3>4 DEF EndCall, At, Goto, PC, Using, Removal
    <3>5. CASE GiveUp(p)
      BY <3>5 DEF GiveUp, At, Goto, PC, Removal, files
    <3> QED BY <2>5, <3>1, <3>2, <3>3, <3>4, <3>5 DEF Work
  <2>6. ASSUME NEW p \in Actor, Trap(p) PROVE TypeOK' /\ Counted'
    <3>1. CASE pc[p] \in Removal \/ owner # p
      BY <2>6, <3>1 DEF Trap, ReleaseThen, Goto, files
    <3>2. CASE pc[p] \notin Removal /\ owner = p
      BY <2>6, <3>2 DEF Trap, ReleaseThen, RemoveThen, Goto, PC, Removal, files
    <3> QED BY <3>1, <3>2
  <2>7. ASSUME NEW p \in Actor, TimeOut(p) \/ Die(p) PROVE TypeOK' /\ Counted'
    <3>1. CASE TimeOut(p)
      BY <3>1 DEF TimeOut, files
    <3>2. CASE Die(p)
      BY <3>2 DEF Die, Goto, PC, Removal, files
    <3> QED BY <2>7, <3>1, <3>2
  <2> QED BY <2>1, <2>2, <2>3, <2>4, <2>5, <2>6, <2>7 DEF Next, Run
<1> QED BY <1>1, <1>2, PTL DEF Spec

\* Type correctness.
THEOREM TypeCorrect == Spec => []TypeOK
<1>1. TypeInv => TypeOK
  BY DEF TypeInv
<1> QED BY <1>1, TypeInvHolds, PTL

-----------------------------------------------------------------------------
(* However the windows overlap.                                            *)

\* Where a live owner can be: it has still to release, or to give up.
Named == {"mark", "verify", "rmowner", "release", "exit", "dead"} \cup Using

OwnerPlaced == \A p \in Actor : owner = p => pc[p] \in Named

LEMMA OwnerPlacedStep ==
    ASSUME TypeInv, OwnerPlaced, [Next]_vars
    PROVE  OwnerPlaced'
<1> USE ActorAssumption DEF OwnerPlaced, Named
<1>t. pc \in [Actor -> PC] /\ owner \in Actor \cup {NoPid}
  BY DEF TypeInv, TypeOK
<1>1. CASE UNCHANGED vars
  BY <1>1 DEF vars, files
<1>2. ASSUME NEW p \in Actor, Start(p) PROVE OwnerPlaced'
  BY <1>t, <1>2 DEF Start, At, Goto, Using, files
<1>3. ASSUME NEW p \in Actor, Acquire(p) PROVE OwnerPlaced'
  <2>1. CASE Mkdir(p)
    BY <1>t, <2>1 DEF Mkdir, At, Goto, Using
  <2>2. CASE WriteOwner(p)
    BY <1>t, <2>2 DEF WriteOwner, At, Goto, Using
  <2>3. CASE WriteMarks(p)
    BY <1>t, <2>3 DEF WriteMarks, At, Goto, Using
  <2>4. CASE Verify(p)
    BY <1>t, <2>4 DEF Verify, At, Goto, Using, files
  <2>5. CASE ReadOwner(p)
    BY <1>t, <2>5 DEF ReadOwner, At, Goto, Using, files
  <2>6. CASE Reclaim(p)
    BY <1>t, <2>6 DEF Reclaim, At, RemoveThen, Goto, Using, files
  <2>7. CASE Busy(p)
    BY <1>t, <2>7 DEF Busy, At, Goto, Over, Using, files
  <2>8. CASE Peek(p)
    BY <1>t, <2>8 DEF Peek, At, Goto, Using, files
  <2>9. CASE Preempt(p)
    BY <1>t, <2>9 DEF Preempt, At, Goto, Using, files
  <2>10. CASE Await(p)
    BY <1>t, <2>10 DEF Await, At, Goto, Using, files
  <2> QED BY <1>3, <2>1, <2>2, <2>3, <2>4, <2>5, <2>6, <2>7, <2>8, <2>9, <2>10
          DEF Acquire
<1>4. ASSUME NEW p \in Actor, Remove(p) PROVE OwnerPlaced'
  <2>1. CASE RmOwner(p)
    BY <1>t, <2>1 DEF RmOwner
  <2>2. CASE RmMarks(p)
    BY <1>t, <2>2 DEF RmMarks, At, Goto, Using
  <2>3. CASE Rmdir(p)
    BY <1>t, <2>3 DEF Rmdir, At, Goto, Using
  <2>4. CASE Release(p)
    BY <1>t, <2>4 DEF Release, At, ReleaseThen, RemoveThen, Goto, Over, Using, files
  <2>5. CASE Exit(p)
    BY <1>t, <2>5 DEF Exit, At, ReleaseThen, RemoveThen, Goto, Using, files
  <2> QED BY <1>4, <2>1, <2>2, <2>3, <2>4, <2>5 DEF Remove
<1>5. ASSUME NEW p \in Actor, Work(p) PROVE OwnerPlaced'
  BY <1>t, <1>5 DEF Work, LinkUp, LinkFails, StartCall, EndCall, GiveUp, At, Goto,
                    Using, files
<1>6. ASSUME NEW p \in Actor, Trap(p) PROVE OwnerPlaced'
  <2>1. CASE pc[p] \in Removal \/ owner # p
    BY <1>t, <1>6, <2>1 DEF Trap, ReleaseThen, Goto, files
  <2>2. CASE pc[p] \notin Removal /\ owner = p
    BY <1>t, <1>6, <2>2 DEF Trap, ReleaseThen, RemoveThen, Goto, files
  <2> QED BY <2>1, <2>2
<1>7. ASSUME NEW p \in Actor, TimeOut(p) PROVE OwnerPlaced'
  BY <1>t, <1>7 DEF TimeOut, files
<1>8. ASSUME NEW p \in Actor, Die(p) PROVE OwnerPlaced'
  BY <1>t, <1>8 DEF Die, Goto, files
<1> QED BY <1>1, <1>2, <1>3, <1>4, <1>5, <1>6, <1>7, <1>8 DEF Next, Run

\* A lock never names a live actor that has moved on from it.
THEOREM NoLockIsForgotten == Spec => []NoForgottenLock
<1>1. Init => OwnerPlaced
  BY ActorAssumption DEF Init, OwnerPlaced
<1>2. TypeInv /\ OwnerPlaced /\ [Next]_vars => OwnerPlaced'
  BY OwnerPlacedStep
<1>3. OwnerPlaced => NoForgottenLock
  BY DEF OwnerPlaced, NoForgottenLock, Named, Using, Look
<1> QED BY <1>1, <1>2, <1>3, TypeInvHolds, PTL DEF Spec

-----------------------------------------------------------------------------
(* When nobody enters the lock's files in the middle of another's commands. *)

Inside(p) == pc[p] \in Setup \cup Look \cup Removal

OneInside == \A p, q \in Actor : Inside(p) /\ Inside(q) => p = q

EmptyWithoutDir == ~dir => owner = NoPid /\ marks = {}

\* Only the lock of a push carries the preempt mark.
PushMark == "preempt" \in marks => owner = NoPid \/ Mode[owner] = "push"

\* What an actor knows at each of its steps.
Knows(p) ==
    /\ pc[p] = "owner" => owner = NoPid /\ marks = {}
    /\ pc[p] = "mark" => marks = {} /\ (owner = p \/ ~dir)
    /\ pc[p] \in {"judge", "peek"} => seen[p] = owner
    /\ pc[p] = "peek" => seen[p] \in Actor
    /\ pc[p] = "rmowner" => owner = p \/ Reclaimable(owner)
    /\ pc[p] \in {"rmmarks", "rmdir"} => owner = NoPid
    /\ pc[p] = "rmdir" => marks = {}
    /\ pc[p] \in Removal =>
         /\ back[p] \notin Look \cup Removal
         /\ back[p] \in Using => trapped[p]

QuietInv ==
    /\ OneInside
    /\ EmptyWithoutDir
    /\ PushMark
    /\ \A p \in Actor : Knows(p)
    /\ OwnsWhileUsing
    /\ OnlyPushPreempted

LEMMA QuietStep ==
    ASSUME ~Overlap, TypeOK, QuietInv, OwnerPlaced, [Next]_vars
    PROVE  QuietInv'
<1> USE ActorAssumption DEF TypeOK, QuietInv, OneInside, EmptyWithoutDir, PushMark,
        Knows, OwnsWhileUsing, OnlyPushPreempted, Inside, Setup, Look, Removal, Using,
        Alive, Reclaimable, PC
<1>1. CASE UNCHANGED vars
  BY <1>1 DEF vars, files
<1>2. ASSUME NEW p \in Actor, Start(p) PROVE QuietInv'
  BY <1>2 DEF Start, At, Goto, files
<1>3. ASSUME NEW p \in Actor, Acquire(p) PROVE QuietInv'
  <2>1. CASE Mkdir(p)
    BY <2>1 DEF Mkdir, Undisturbed, At, Goto
  <2>2. CASE WriteOwner(p)
    BY <2>2 DEF WriteOwner, At, Goto
  <2>3. CASE WriteMarks(p)
    <3>1. CASE ~dir
      BY <2>3, <3>1 DEF WriteMarks, At, Goto
    <3>2. CASE dir /\ Mode[p] = "push"
      <4>1. owner = p /\ marks' = {"ts", "preempt"}
        BY <2>3, <3>2 DEF WriteMarks, At
      <4> QED BY <2>3, <3>2, <4>1 DEF WriteMarks, At, Goto
    <3>3. CASE dir /\ Mode[p] # "push"
      <4>1. owner = p /\ marks' = {"ts"}
        BY <2>3, <3>3 DEF WriteMarks, At
      <4> QED BY <2>3, <3>3, <4>1 DEF WriteMarks, At, Goto
    <3> QED BY <3>1, <3>2, <3>3
  <2>4. CASE Verify(p)
    BY <2>4 DEF Verify, At, Goto, files
  <2>5. CASE ReadOwner(p)
    BY <2>5 DEF ReadOwner, At, Goto, files
  <2>6. CASE Reclaim(p)
    BY <2>6 DEF Reclaim, At, Goto, RemoveThen, Forget, files
  <2>7. CASE Busy(p)
    BY <2>7 DEF Busy, At, Goto, Over, Forget, files
  <2>8. CASE Peek(p)
    BY <2>8 DEF Peek, At, Goto, files
  <2>9. CASE Preempt(p)
    BY <2>9 DEF Preempt, At, Goto, Forget, files
  <2>10. CASE Await(p)
    BY <2>10 DEF Await, At, Goto, files
  <2> QED BY <1>3, <2>1, <2>2, <2>3, <2>4, <2>5, <2>6, <2>7, <2>8, <2>9, <2>10
          DEF Acquire
<1>4. ASSUME NEW p \in Actor, Remove(p) PROVE QuietInv'
  <2>1. CASE RmOwner(p)
    BY <2>1 DEF RmOwner, At, Goto
  <2>2. CASE RmMarks(p)
    BY <2>2 DEF RmMarks, At, Goto
  <2>3. CASE Rmdir(p)
    <3>1. owner = NoPid /\ marks = {} /\ ~dir' /\ owner' = NoPid /\ marks' = {}
      BY <2>3 DEF Rmdir, At
    <3>2. /\ pc' = [pc EXCEPT ![p] = back[p]]
          /\ back[p] \notin Look \cup Removal
          /\ back[p] \in Using => trapped[p]
          /\ UNCHANGED <<seen, term, trapped>>
          /\ \A q \in Actor \ {p} : back'[q] = back[q]
      BY <2>3 DEF Rmdir, At, Goto
    <3>3. OneInside'
      BY <2>3, <3>2 DEF Rmdir, At
    <3>4. ASSUME NEW q \in Actor PROVE Knows(q)'
      <4>1. CASE q = p
        BY <3>1, <3>2, <4>1
      <4>2. CASE q # p
        BY <2>3, <3>1, <3>2, <4>2 DEF Rmdir, At
      <4> QED BY <4>1, <4>2
    <3>5. OwnsWhileUsing'
      BY <2>3, <3>1, <3>2 DEF Rmdir, At
    <3> QED BY <3>1, <3>2, <3>3, <3>4, <3>5
  <2>4. CASE Release(p)
    BY <2>4 DEF Release, Undisturbed, At, Goto, ReleaseThen, RemoveThen, Over, files
  <2>5. CASE Exit(p)
    BY <2>5 DEF Exit, Undisturbed, At, Goto, ReleaseThen, RemoveThen, files
  <2> QED BY <1>4, <2>1, <2>2, <2>3, <2>4, <2>5
          DEF Remove
<1>5. ASSUME NEW p \in Actor, Work(p) PROVE QuietInv'
  <2>1. CASE LinkUp(p)
    BY <2>1 DEF LinkUp, At, Goto, files
  <2>2. CASE LinkFails(p)
    BY <2>2 DEF LinkFails, At, Goto, files
  <2>3. CASE StartCall(p)
    BY <2>3 DEF StartCall, At, Goto, files
  <2>4. CASE EndCall(p)
    BY <2>4 DEF EndCall, At, Goto
  <2>5. CASE GiveUp(p)
    BY <2>5 DEF GiveUp, At, Goto, files
  <2> QED BY <1>5, <2>1, <2>2, <2>3, <2>4, <2>5
          DEF Work
<1>6. ASSUME NEW p \in Actor, Trap(p) PROVE QuietInv'
  <2>1. CASE pc[p] \in Removal \/ owner # p
    BY <1>6, <2>1 DEF Trap, ReleaseThen, Goto, files, Undisturbed
  <2>2. CASE pc[p] \notin Removal /\ owner = p
    BY <1>6, <2>2 DEF Trap, ReleaseThen, RemoveThen, Goto, files, Undisturbed,
                      OwnerPlaced, Named
  <2> QED BY <2>1, <2>2
<1>7. ASSUME NEW p \in Actor, TimeOut(p) PROVE QuietInv'
  BY <1>7 DEF TimeOut, files
<1>8. ASSUME NEW p \in Actor, Die(p) PROVE QuietInv'
  BY <1>8 DEF Die, Goto, files
<1> QED BY <1>1, <1>2, <1>3, <1>4, <1>5, <1>6, <1>7, <1>8 DEF Next, Run

LEMMA QuietInvHolds ==
    ASSUME ~Overlap
    PROVE  Spec => []QuietInv
<1>1. Init => OwnerPlaced /\ QuietInv
  BY ActorAssumption DEF Init, OwnerPlaced, QuietInv, OneInside, Inside, EmptyWithoutDir,
        PushMark, Knows, OwnsWhileUsing, OnlyPushPreempted, Setup, Look, Removal, Using
<1>2. TypeInv /\ OwnerPlaced /\ [Next]_vars => OwnerPlaced'
  BY OwnerPlacedStep
<1>3. TypeInv /\ OwnerPlaced /\ QuietInv /\ [Next]_vars => QuietInv'
  BY QuietStep DEF TypeInv
<1> QED BY <1>1, <1>2, <1>3, TypeInvHolds, PTL DEF Spec

\* A live holder that no TERM has hit keeps the lock while it works under it.
THEOREM HolderKeepsTheLock ==
    ASSUME ~Overlap
    PROVE  Spec => []OwnsWhileUsing
<1>1. QuietInv => OwnsWhileUsing
  BY DEF QuietInv
<1> QED BY <1>1, QuietInvHolds, PTL

\* wifi_acquire TERMs nobody but post-game pushes.
THEOREM OnlyPushesArePreempted ==
    ASSUME ~Overlap
    PROVE  Spec => []OnlyPushPreempted
<1>1. QuietInv => OnlyPushPreempted
  BY DEF QuietInv
<1> QED BY <1>1, QuietInvHolds, PTL
-----------------------------------------------------------------------------
(* The files and the commands on them implement Mutex, step by step.       *)

\* A step that moves neither the owner, nor the workers, nor the trapped.
Unmoved ==
    /\ owner' = owner
    /\ \A q \in Actor : Works(q)' = Works(q)
    /\ trapped' = trapped

LEMMA UnmovedStutters ==
    ASSUME Unmoved
    PROVE  Lock!Next \/ UNCHANGED <<owner, {p \in Actor : Works(p)}, {p \in Actor : trapped[p]}>>
<1>1. {q \in Actor : Works(q)}' = {q \in Actor : Works(q)}
  BY DEF Unmoved
<1> QED BY <1>1 DEF Unmoved

\* A step that only ends p's work, or begins none.
Ends(p) ==
    /\ owner' = owner /\ trapped' = trapped
    /\ \A q \in Actor \ {p} : Works(q)' = Works(q)
    /\ ~Works(p)'

LEMMA EndsIsEnd ==
    ASSUME NEW p \in Actor, Ends(p)
    PROVE  Lock!Next
<1>1. {q \in Actor : Works(q)}' = {q \in Actor : Works(q)} \ {p}
  BY DEF Ends
<1>2. Lock!End(p)
  BY <1>1 DEF Ends, Lock!End
<1> QED BY <1>2 DEF Lock!Next

LEMMA StepIsMutexStep ==
    ASSUME ~Overlap, TypeOK, QuietInv, [Next]_vars
    PROVE  Lock!Next \/ UNCHANGED <<owner, {p \in Actor : Works(p)}, {p \in Actor : trapped[p]}>>
<1> DEFINE Goal == Lock!Next
                   \/ UNCHANGED <<owner, {p \in Actor : Works(p)}, {p \in Actor : trapped[p]}>>
<1>s. Unmoved => Goal
  BY UnmovedStutters
<1>e. \A p \in Actor : Ends(p) => Goal
  BY EndsIsEnd
<1> SUFFICES Goal
  OBVIOUS
<1> HIDE DEF Goal
<1>t. /\ pc \in [Actor -> PC] /\ back \in [Actor -> PC]
      /\ owner \in Actor \cup {NoPid}
      /\ trapped \in [Actor -> BOOLEAN]
      /\ \A p \in Actor : Knows(p)
  BY DEF TypeOK, QuietInv
<1>p. /\ Using \cap Removal = {}
      /\ {"idle", "mkdir", "await", "release", "exit", "dead", "owner", "mark", "verify",
          "read", "judge", "peek"} \cap (Using \cup Removal) = {}
  BY DEF Using, Removal
<1>1. CASE UNCHANGED vars
  <2> Unmoved
    BY <1>1 DEF vars, files, Unmoved, Works
  <2> QED BY <1>s
<1>2. ASSUME NEW p \in Actor, Start(p) PROVE Goal
  <2>1. /\ owner' = owner
        /\ \A q \in Actor : Works(q)' = Works(q)
        /\ ~Works(p)
        /\ trapped' = [trapped EXCEPT ![p] = FALSE]
    BY <1>2, <1>t, <1>p DEF Start, At, Goto, Works, files, Using, Removal
  <2>2. {q \in Actor : Works(q)}' = {q \in Actor : Works(q)}
    BY <2>1
  <2>3. {q \in Actor : trapped[q]}' = {q \in Actor : trapped[q]} \ {p}
    BY <2>1, <1>t
  <2>4. Lock!TryAgain(p)
    BY <2>1, <2>2, <2>3 DEF Lock!TryAgain
  <2> QED BY <2>4 DEF Lock!Next, Goal
<1>3. ASSUME NEW p \in Actor, Acquire(p) PROVE Goal
  <2>1. CASE Mkdir(p) \/ WriteMarks(p) \/ ReadOwner(p) \/ Busy(p) \/ Peek(p) \/ Preempt(p)
             \/ Await(p)
    <3> Unmoved
      BY <2>1, <1>t DEF Mkdir, WriteMarks, ReadOwner, Busy, Peek, Preempt, Await, At, Goto,
            Over, files, Unmoved, Works, Using, Removal
    <3> QED BY <1>s
  <2>2. CASE Reclaim(p)
    <3> Unmoved
      BY <2>2, <1>t DEF Reclaim, RemoveThen, At, Goto, files, Unmoved, Works, Using, Removal
    <3> QED BY <1>s
  <2>3. CASE WriteOwner(p)
    <3>1. \A q \in Actor : Works(q)' = Works(q)
      BY <2>3, <1>t DEF WriteOwner, At, Goto, Works, Using, Removal
    <3>2. CASE ~dir
      BY <2>3, <3>1, <3>2, <1>s DEF WriteOwner, Unmoved
    <3>3. CASE dir
      <4>1. {q \in Actor : Works(q)}' = {q \in Actor : Works(q)}
        BY <3>1
      <4>2. owner = NoPid /\ owner' = p /\ trapped' = trapped
        BY <2>3, <3>3, <1>t DEF WriteOwner, At, Knows
      <4>3. Lock!Grant(p)
        BY <4>1, <4>2 DEF Lock!Grant
      <4> QED BY <4>3 DEF Lock!Next, Goal
    <3> QED BY <3>2, <3>3
  <2>4. CASE Verify(p)
    <3>1. CASE owner # p
      <4> Unmoved
        BY <2>4, <3>1, <1>t DEF Verify, At, Goto, files, Unmoved, Works, Using, Removal
      <4> QED BY <1>s
    <3>2. CASE owner = p
      <4>1. /\ owner' = owner /\ trapped' = trapped
            /\ \A q \in Actor \ {p} : Works(q)' = Works(q)
            /\ Works(p)'
        BY <2>4, <3>2, <1>t DEF Verify, At, Goto, files, Works, Using, Removal
      <4>2. {q \in Actor : Works(q)}' = {q \in Actor : Works(q)} \cup {p}
        BY <4>1
      <4>3. Lock!Begin(p)
        BY <3>2, <4>1, <4>2 DEF Lock!Begin
      <4> QED BY <4>3 DEF Lock!Next, Goal
    <3> QED BY <3>1, <3>2
  <2> QED BY <1>3, <2>1, <2>2, <2>3, <2>4 DEF Acquire
<1>4. ASSUME NEW p \in Actor, Remove(p) PROVE Goal
  <2>1. CASE RmOwner(p)
    <3>1. /\ owner' = NoPid /\ trapped' = trapped
          /\ \A q \in Actor : Works(q)' = Works(q)
      BY <2>1, <1>t DEF RmOwner, At, Goto, Works, Using, Removal
    <3>2. {q \in Actor : Works(q)}' = {q \in Actor : Works(q)}
      BY <3>1
    <3>3. owner = p \/ Reclaimable(owner)
      BY <2>1, <1>t DEF RmOwner, At, Knows
    <3>4. owner \notin {q \in Actor : Works(q)} \ {q \in Actor : trapped[q]}
      <4>1. CASE owner = p
        BY <2>1, <4>1, <1>t DEF RmOwner, At, Knows, Works, Using, Removal
      <4>2. CASE owner \notin Actor
        BY <4>2
      <4>3. CASE owner \in Actor /\ ~Alive(owner)
        BY <4>3, <1>p DEF Alive, Works
      <4> QED BY <3>3, <4>1, <4>2, <4>3 DEF Reclaimable
    <3>5. Lock!Free
      BY <3>1, <3>2, <3>4 DEF Lock!Free
    <3> QED BY <3>5 DEF Lock!Next, Goal
  <2>2. CASE RmMarks(p)
    <3> Unmoved
      BY <2>2, <1>t DEF RmMarks, At, Goto, Unmoved, Works, Using, Removal
    <3> QED BY <1>s
  <2>3. CASE Rmdir(p)
    <3>1. back[p] \notin Removal
      BY <2>3, <1>t DEF Rmdir, At, Knows, Removal
    <3> Unmoved
      BY <2>3, <3>1, <1>t, <1>p DEF Rmdir, At, Goto, Unmoved, Works, Removal
    <3> QED BY <1>s
  <2>4. CASE Release(p)
    <3> Unmoved
      BY <2>4, <1>t DEF Release, ReleaseThen, RemoveThen, At, Goto, Over, files,
                        Unmoved, Works, Using, Removal
    <3> QED BY <1>s
  <2>5. CASE Exit(p)
    <3> Unmoved
      BY <2>5, <1>t DEF Exit, ReleaseThen, RemoveThen, At, Goto, files,
                        Unmoved, Works, Using, Removal
    <3> QED BY <1>s
  <2> QED BY <1>4, <2>1, <2>2, <2>3, <2>4, <2>5 DEF Remove
<1>5. ASSUME NEW p \in Actor, Work(p) PROVE Goal
  <2>1. CASE LinkUp(p) \/ StartCall(p)
    <3> Unmoved
      BY <2>1, <1>t DEF LinkUp, StartCall, At, Goto, files, Unmoved, Works, Using, Removal
    <3> QED BY <1>s
  <2>2. CASE LinkFails(p) \/ GiveUp(p)
    <3> Ends(p)
      BY <2>2, <1>t DEF LinkFails, GiveUp, At, Goto, files, Ends, Works, Using, Removal
    <3> QED BY <1>e
  <2>3. CASE EndCall(p)
    <3>1. CASE left[p] = 1
      <4> Ends(p)
        BY <2>3, <3>1, <1>t DEF EndCall, Goto, Ends, Works, Using, Removal
      <4> QED BY <1>e
    <3>2. CASE left[p] # 1
      <4> Unmoved
        BY <2>3, <3>2, <1>t DEF EndCall, Goto, Unmoved, Works, Using, Removal
      <4> QED BY <1>s
    <3> QED BY <3>1, <3>2
  <2> QED BY <1>5, <2>1, <2>2, <2>3 DEF Work
<1>6. ASSUME NEW p \in Actor, Trap(p) PROVE Goal
  <2>1. \A q \in Actor : Works(q)' = Works(q)
    <3>1. CASE pc[p] \in Removal \/ owner # p
      BY <1>6, <3>1, <1>t DEF Trap, ReleaseThen, Goto, Works
    <3>2. CASE pc[p] \notin Removal /\ owner = p
      BY <1>6, <3>2, <1>t DEF Trap, ReleaseThen, RemoveThen, Goto, Works, Removal, Using
    <3> QED BY <3>1, <3>2
  <2>2. owner' = owner /\ trapped' = [trapped EXCEPT ![p] = TRUE]
    BY <1>6 DEF Trap, files
  <2>3. {q \in Actor : Works(q)}' = {q \in Actor : Works(q)}
    BY <2>1
  <2>4. {q \in Actor : trapped[q]}' = {q \in Actor : trapped[q]} \cup {p}
    BY <2>2, <1>t
  <2>5. Lock!Revoke(p)
    BY <2>2, <2>3, <2>4 DEF Lock!Revoke
  <2> QED BY <2>5 DEF Lock!Next, Goal
<1>7. ASSUME NEW p \in Actor, TimeOut(p) PROVE Goal
  <2> Unmoved
    BY <1>7 DEF TimeOut, files, Unmoved, Works
  <2> QED BY <1>s
<1>8. ASSUME NEW p \in Actor, Die(p) PROVE Goal
  <2> Ends(p)
    BY <1>8, <1>t DEF Die, Goto, files, Ends, Works, Using, Removal
  <2> QED BY <1>e
<1> QED BY <1>1, <1>2, <1>3, <1>4, <1>5, <1>6, <1>7, <1>8 DEF Next, Run

\* The shell's lock is a mutex: it passes only through nobody's hands, is
\* entered only while owned, and is never taken from a working actor that no
\* TERM has hit.
THEOREM ImplementsMutex ==
    ASSUME ~Overlap
    PROVE  Spec => IsMutex
<1>1. Init => Lock!Init
  BY DEF Init, Lock!Init, Works, Using, Removal
<1>2. TypeInv /\ QuietInv /\ [Next]_vars
      => Lock!Next \/ UNCHANGED <<owner, {p \in Actor : Works(p)}, {p \in Actor : trapped[p]}>>
  BY StepIsMutexStep DEF TypeInv
<1>3. Spec => []QuietInv
  BY QuietInvHolds
<1> QED BY <1>1, <1>2, <1>3, TypeInvHolds, PTL DEF Spec, IsMutex, Lock!Spec
=============================================================================
