------------------------------ MODULE WifiLock ------------------------------
(***************************************************************************)
(* The Wi-Fi mutex of the shell layer: wifi_acquire and wifi_release       *)
(* (paks/Lodor.pak/lib/romm-sync-lib.sh) and the scripts that transfer     *)
(* under it (bin/romm-run, bin/romm-session-sync, bin/romm-syncd,          *)
(* bin/lodor-bg-covers).                                                   *)
(*                                                                         *)
(* The mutex is the directory /tmp/romm-wifi.lock.  An actor is one shell  *)
(* process; each step is one command of it, and the commands of different  *)
(* actors interleave.  A TERM is held until the foreground command is over *)
(* and then runs the trap `wifi_release', after which the script GOES ON.  *)
(* Process identifiers are not reused, so an owner file is never           *)
(* unparseable and the age tie-break never decides.                        *)
(***************************************************************************)
EXTENDS Naturals

CONSTANTS
    Actor,    \* shell processes
    Mode,     \* [Actor -> {"fg", "push", "bg"}]: the argument of wifi_acquire
    Calls,    \* [Actor -> Nat]: engine calls an actor makes under the lock
    Daemon,   \* actors that start over after each cycle
    Timed,    \* actors run under `timeout', which may TERM them once a cycle
    Mortal,   \* actors that may be killed outright, engine call included
    Overlap,  \* FALSE: nobody enters the lock's files while another actor is
              \* between two commands on them (the windows are milliseconds)
    NoPid     \* no owner file, or an empty one

ASSUME ActorAssumption ==
    /\ NoPid \notin Actor
    /\ Mode \in [Actor -> {"fg", "push", "bg"}]
    /\ Calls \in [Actor -> Nat \ {0}]
    /\ Daemon \subseteq Actor /\ Timed \subseteq Actor /\ Mortal \subseteq Actor
    /\ Overlap \in BOOLEAN

VARIABLES
    dir,      \* the lock directory exists
    owner,    \* the pid in its owner file
    marks,    \* its other files: a subset of {"ts", "preempt"}
    pc,
    seen,     \* $owner: the pid this actor last read
    left,     \* engine calls still to make
    back,     \* where to go on after removing the lock
    term,     \* a TERM is pending
    trapped   \* history: the trap has run during this cycle

files == <<dir, owner, marks>>
vars  == <<files, pc, seen, left, back, term, trapped>>

Setup   == {"owner", "mark", "verify"}
Look    == {"read", "judge", "peek"}
Removal == {"rmowner", "rmmarks", "rmdir"}
Using   == {"link", "ready", "call"}
PC == {"idle", "mkdir", "await", "release", "exit", "dead"}
        \cup Setup \cup Look \cup Removal \cup Using

TypeOK ==
    /\ dir \in BOOLEAN
    /\ owner \in Actor \cup {NoPid}
    /\ marks \in SUBSET {"ts", "preempt"}
    /\ pc \in [Actor -> PC]
    /\ seen \in [Actor -> Actor \cup {NoPid}]
    /\ left \in [Actor -> Nat]
    /\ back \in [Actor -> PC]
    /\ term \in [Actor -> BOOLEAN]
    /\ trapped \in [Actor -> BOOLEAN]

Init ==
    /\ dir = FALSE /\ owner = NoPid /\ marks = {}
    /\ pc = [p \in Actor |-> "idle"]
    /\ seen = [p \in Actor |-> NoPid]
    /\ left = [p \in Actor |-> 0]
    /\ back = [p \in Actor |-> "idle"]
    /\ term = [p \in Actor |-> FALSE]
    /\ trapped = [p \in Actor |-> FALSE]

Alive(p) == pc[p] # "dead"      \* kill -0

Undisturbed(p) ==
    Overlap \/ \A q \in Actor \ {p} : pc[q] \notin Setup \cup Look \cup Removal

\* An actor is at s and no signal has to be handled first.
At(p, s) == pc[p] = s /\ ~term[p]
Goto(p, s) == pc' = [pc EXCEPT ![p] = s]

\* $owner is not used again once it has decided a turn of the loop.
Forget(p) == seen' = [seen EXCEPT ![p] = NoPid]

\* rm -f owner ts preempt; rmdir; then go on at s.
RemoveThen(p, s) ==
    /\ Goto(p, "rmowner")
    /\ back' = [back EXCEPT ![p] = s]

\* What follows a cycle: a daemon polls again, the others exit.
Over(p) == IF p \in Daemon THEN "idle" ELSE "exit"

-----------------------------------------------------------------------------
(* wifi_acquire                                                            *)

Start(p) ==
    /\ At(p, "idle")
    /\ Goto(p, "mkdir")
    /\ trapped' = [trapped EXCEPT ![p] = FALSE]
    /\ UNCHANGED <<files, seen, left, back, term>>

Mkdir(p) ==
    /\ At(p, "mkdir") /\ Undisturbed(p)
    /\ dir' = TRUE
    /\ Goto(p, IF dir THEN "read" ELSE "owner")
    /\ UNCHANGED <<owner, marks, seen, left, back, term, trapped>>

\* Without the directory the redirection fails and the script goes on.
WriteOwner(p) ==
    /\ At(p, "owner")
    /\ owner' = IF dir THEN p ELSE owner
    /\ Goto(p, "mark")
    /\ UNCHANGED <<dir, marks, seen, left, back, term, trapped>>

WriteMarks(p) ==
    /\ At(p, "mark")
    /\ marks' = IF ~dir THEN marks
                ELSE {"ts"} \cup {m \in {"preempt"} : Mode[p] = "push"}
    /\ Goto(p, "verify")
    /\ UNCHANGED <<dir, owner, seen, left, back, term, trapped>>

Verify(p) ==
    /\ At(p, "verify")
    /\ Goto(p, IF owner = p THEN "link" ELSE "mkdir")
    /\ UNCHANGED <<files, seen, left, back, term, trapped>>

ReadOwner(p) ==
    /\ At(p, "read")
    /\ seen' = [seen EXCEPT ![p] = owner]
    /\ Goto(p, "judge")
    /\ UNCHANGED <<files, left, back, term, trapped>>

\* Wrong: whoever is named is taken for dead, without kill -0.
PresumedDead(o) == o \in Actor \cup {NoPid}

Reclaimable(o) == o \in Actor => ~Alive(o)

\* Wrong: the reclaim drops the files but leaves the directory.
ReclaimKeepsLock(p) ==
    /\ At(p, "judge")
    /\ Reclaimable(seen[p])
    /\ owner' = NoPid /\ marks' = {}
    /\ Goto(p, "mkdir")
    /\ Forget(p)
    /\ UNCHANGED <<dir, left, back, term, trapped>>

\* A dead or absent owner: remove its files and try again.
Reclaim(p) ==
    /\ At(p, "judge")
    /\ Reclaimable(seen[p])
    /\ RemoveThen(p, "mkdir")
    /\ Forget(p)
    /\ UNCHANGED <<files, left, term, trapped>>

Busy(p) ==
    /\ \/ At(p, "judge") /\ ~Reclaimable(seen[p]) /\ Mode[p] # "fg"
       \/ At(p, "peek") /\ "preempt" \notin marks
    /\ Goto(p, Over(p))
    /\ Forget(p)
    /\ UNCHANGED <<files, left, back, term, trapped>>

\* A foreground actor looks whether the lock is a preemptible push's.
Peek(p) ==
    /\ At(p, "judge")
    /\ ~Reclaimable(seen[p]) /\ Mode[p] = "fg"
    /\ Goto(p, "peek")
    /\ UNCHANGED <<files, seen, left, back, term, trapped>>

\* Wrong: a foreground actor preempts whoever holds the lock.
PreemptAnyone(p) ==
    /\ At(p, "peek")
    /\ term' = [term EXCEPT ![seen[p]] = Alive(seen[p])]
    /\ Goto(p, "await")
    /\ Forget(p)
    /\ UNCHANGED <<files, left, back, trapped>>

Preempt(p) ==
    /\ At(p, "peek")
    /\ "preempt" \in marks
    /\ term' = [term EXCEPT ![seen[p]] = Alive(seen[p])]
    /\ Goto(p, "await")
    /\ Forget(p)
    /\ UNCHANGED <<files, left, back, trapped>>

\* At most 3 s for the holder to die, then the loop looks again.
Await(p) ==
    /\ At(p, "await")
    /\ Goto(p, "mkdir")
    /\ UNCHANGED <<files, seen, left, back, term, trapped>>

-----------------------------------------------------------------------------
(* Removing the lock: the tail of a reclaim and of wifi_release.            *)

RmOwner(p) ==
    /\ At(p, "rmowner")
    /\ owner' = NoPid
    /\ Goto(p, "rmmarks")
    /\ UNCHANGED <<dir, marks, seen, left, back, term, trapped>>

RmMarks(p) ==
    /\ At(p, "rmmarks")
    /\ marks' = {}
    /\ Goto(p, "rmdir")
    /\ UNCHANGED <<dir, owner, seen, left, back, term, trapped>>

\* rmdir of a directory that is not empty fails, and nobody looks.
Rmdir(p) ==
    /\ At(p, "rmdir")
    /\ dir' = (dir /\ (owner # NoPid \/ marks # {}))
    /\ Goto(p, back[p])
    /\ back' = [back EXCEPT ![p] = "idle"]
    /\ UNCHANGED <<owner, marks, seen, left, term, trapped>>

\* Wrong: the release does not look whose lock it is.
ReleaseUnscoped(p, s) == RemoveThen(p, s)

\* wifi_release, then go on at s: only the lock that names this process.
ReleaseThen(p, s) ==
    IF owner = p THEN RemoveThen(p, s) ELSE Goto(p, s) /\ UNCHANGED back

Release(p) ==
    /\ At(p, "release") /\ Undisturbed(p)
    /\ ReleaseThen(p, Over(p))
    /\ UNCHANGED <<files, seen, left, term, trapped>>

\* The EXIT trap.
Exit(p) ==
    /\ At(p, "exit") /\ Undisturbed(p)
    /\ ReleaseThen(p, "dead")
    /\ UNCHANGED <<files, seen, left, term, trapped>>

-----------------------------------------------------------------------------
(* The actor's own work under the lock.                                    *)

\* The radio is up and the clock is set, or the bring-up fails.
LinkUp(p) ==
    /\ At(p, "link")
    /\ Goto(p, "ready")
    /\ left' = [left EXCEPT ![p] = Calls[p]]
    /\ UNCHANGED <<files, seen, back, term, trapped>>

\* Wrong: the failed bring-up returns without wifi_release.
LinkFailsForgets(p) ==
    /\ At(p, "link")
    /\ Goto(p, Over(p))
    /\ UNCHANGED <<files, seen, left, back, term, trapped>>

LinkFails(p) ==
    /\ At(p, "link")
    /\ Goto(p, "release")
    /\ UNCHANGED <<files, seen, left, back, term, trapped>>

StartCall(p) ==
    /\ At(p, "ready")
    /\ Goto(p, "call")
    /\ UNCHANGED <<files, seen, left, back, term, trapped>>

\* The engine returns, also when a TERM is waiting for it.  A daemon
\* refreshes its lock's ts (wifi_lock_refresh).
EndCall(p) ==
    /\ pc[p] = "call"
    /\ left' = [left EXCEPT ![p] = @ - 1]
    /\ marks' = IF p \in Daemon /\ owner = p THEN marks \cup {"ts"} ELSE marks
    /\ Goto(p, IF left[p] = 1 THEN "release" ELSE "ready")
    /\ UNCHANGED <<dir, owner, seen, back, term, trapped>>

\* A script that gives up before its engine call leaves it to the EXIT trap.
GiveUp(p) ==
    /\ At(p, "ready")
    /\ p \notin Daemon
    /\ Goto(p, "exit")
    /\ UNCHANGED <<files, seen, left, back, term, trapped>>

-----------------------------------------------------------------------------
(* Signals.                                                                *)

\* `trap wifi_release TERM': the lock is dropped, the script goes on.  In the
\* middle of a removal the trap has nothing to add.
Trap(p) ==
    /\ term[p] /\ pc[p] \notin {"call", "dead"}
    /\ Undisturbed(p) \/ pc[p] \in Setup \cup Look \cup Removal
    /\ term' = [term EXCEPT ![p] = FALSE]
    /\ trapped' = [trapped EXCEPT ![p] = TRUE]
    /\ IF pc[p] \in Removal THEN UNCHANGED <<pc, back>> ELSE ReleaseThen(p, pc[p])
    /\ UNCHANGED <<files, seen, left>>

\* `timeout' runs out.
TimeOut(p) ==
    /\ p \in Timed
    /\ pc[p] \notin {"idle", "dead"} /\ ~trapped[p]
    /\ ~term[p]
    /\ term' = [term EXCEPT ![p] = TRUE]
    /\ UNCHANGED <<files, pc, seen, left, back, trapped>>

Die(p) ==
    /\ p \in Mortal
    /\ pc[p] \notin {"idle", "dead"}
    /\ Goto(p, "dead")
    /\ term' = [term EXCEPT ![p] = FALSE]
    /\ UNCHANGED <<files, seen, left, back, trapped>>

-----------------------------------------------------------------------------
Acquire(p) ==
    \/ Mkdir(p) \/ WriteOwner(p) \/ WriteMarks(p) \/ Verify(p)
    \/ ReadOwner(p) \/ Reclaim(p) \/ Busy(p) \/ Peek(p) \/ Preempt(p) \/ Await(p)

Remove(p) == RmOwner(p) \/ RmMarks(p) \/ Rmdir(p) \/ Release(p) \/ Exit(p)

Work(p) == LinkUp(p) \/ LinkFails(p) \/ StartCall(p) \/ EndCall(p) \/ GiveUp(p)

\* What the process does by itself once it has started.
Run(p) == Acquire(p) \/ Remove(p) \/ Work(p) \/ Trap(p)

Next == \E p \in Actor : Start(p) \/ Run(p) \/ TimeOut(p) \/ Die(p)

Spec == Init /\ [][Next]_vars

\* The kernel runs every process, and an engine call ends: its own network
\* time-outs bound it.  Nothing forces a cycle to start, or a signal.  Strong
\* fairness, because the guard Undisturbed is an assumption on the timing and
\* not a wait in the code: without overlap it is false only for milliseconds.
FairSpec == Spec /\ \A p \in Actor : SF_vars(Run(p))

-----------------------------------------------------------------------------
(* Properties.                                                             *)

\* Whatever interleaves, is signalled or dies: a lock that names a live
\* process names one that is still on its way to releasing it, so nobody is
\* told "busy" for ever by an actor that has moved on.
NoForgottenLock ==
    \A p \in Actor :
        owner = p => pc[p] \notin {"idle", "mkdir", "owner", "await"} \cup Look

\* A live holder is never revoked: an actor no TERM has hit owns the lock for
\* as long as it works under it, whoever dies, is preempted or reclaims.
OwnsWhileUsing ==
    \A p \in Actor : pc[p] \in Using /\ ~trapped[p] => owner = p

\* Only post-game pushes are preempted: no other actor gets a TERM from
\* wifi_acquire (lines 592-593).
OnlyPushPreempted ==
    \A p \in Actor \ Timed : term[p] => Mode[p] = "push"

\* p is in the middle of work it began as the owner; its TERM trap may be
\* removing the lock right now.
Works(p) == \/ pc[p] \in Using
            \/ pc[p] \in Removal /\ back[p] \in Using

Lock == INSTANCE Mutex WITH
            Nobody <- NoPid,
            holder <- owner,
            working <- {p \in Actor : Works(p)},
            revoked <- {p \in Actor : trapped[p]}

\* The directory, its files and the order of the commands on them implement a
\* mutex: the lock passes only through nobody's hands, is entered only while
\* owned, and is taken from no working actor whose own trap did not drop it.
IsMutex == Lock!Spec

\* Every attempt comes to an end: with the lock, or told that it is busy.
AttemptReturns ==
    \A p \in Actor \ Mortal :
        pc[p] = "mkdir" ~> pc[p] \in {"link", "idle", "exit"}

\* Every actor that is not killed lets go of the lock.
LockGivenUp ==
    \A p \in Actor \ Mortal : owner = p ~> owner # p
=============================================================================
