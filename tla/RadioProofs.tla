---------------------------- MODULE RadioProofs ----------------------------
(***************************************************************************)
(* Proofs about Radio: its type invariant, the spacing of automatic        *)
(* re-enumerations, and that none of them falls into another session's     *)
(* transfer.                                                               *)
(***************************************************************************)
EXTENDS Radio, TLAPS

\* Who is past the mutex holds it.
HoldersHold == \A s \in Session : pc[s] \in Held => lock = s

\* The mark is no older by the clock than by time, unless the clock was stepped.
MarkNotOlder == stepped \/ since = Cooldown \/ age <= since

\* What _reenum_recent answered still holds when the reset is done.
ConfirmedSpaced == \A s \in Session : pc[s] = "confirmed" => stepped \/ since = Cooldown

Inv == TypeOK /\ HoldersHold /\ MarkNotOlder /\ ConfirmedSpaced

LEMMA InitHolds == Init => Inv
<1> SUFFICES ASSUME Init PROVE Inv
    OBVIOUS
<1>1. platform \in Platform /\ calm \in BOOLEAN /\ ap \in BOOLEAN /\ on \in BOOLEAN /\ assoc \in BOOLEAN
      BY DEF Init
<1>2. lease \in BOOLEAN /\ marker \in BOOLEAN /\ stepped \in BOOLEAN /\ wedge \in Wedges
      BY DEF Init, Wedges
<1>3. age \in -1..Never /\ since \in 0..Cooldown /\ since = Cooldown
      BY CooldownAssumption DEF Init, Never
<1>4. pc \in [Session -> Held \cup {"idle", "gate", "pak"}] /\ then \in [Session -> {"acquire", "bringup", "reach"}]
      BY DEF Init
<1>5. \A s \in Session : pc[s] = "idle"
      BY DEF Init
<1>6. lock \in Session \cup {Free}
      BY DEF Init
<1>7. HoldersHold /\ ConfirmedSpaced
      BY <1>5 DEF HoldersHold, ConfirmedSpaced, Held
<1>8. QED
      BY <1>1, <1>2, <1>3, <1>4, <1>6, <1>7 DEF Inv, TypeOK, MarkNotOlder

\* A reset leaves the radio off, and a chip that is sound or as it was.
LEMMA ResetTyped ==
    ASSUME TypeOK, Reset
    PROVE  on' \in BOOLEAN /\ assoc' \in BOOLEAN /\ lease' \in BOOLEAN /\ wedge' \in Wedges
<1>1. CASE platform = "miyoomini"
  <2>1. lease' = FALSE /\ wedge' \in {"none"} \cup IF calm THEN {} ELSE {wedge}
        BY <1>1 DEF Reset
  <2>2. wedge' = "none" \/ wedge' = wedge
        BY <2>1
  <2>3. QED
        BY <2>1, <2>2 DEF Reset, TypeOK, Wedges
<1>2. CASE platform # "miyoomini"
      BY <1>2 DEF Reset, TypeOK
<1>3. QED
      BY <1>1, <1>2

\* The radio, the air and time.
LEMMA AirKeeps ==
    ASSUME Inv, Air \/ Wedge \/ Roam \/ ComeToRest \/ UNCHANGED vars
    PROVE  Inv'
<1> USE SessionAssumption, CooldownAssumption
    DEF Inv, TypeOK, HoldersHold, MarkNotOlder, ConfirmedSpaced, Session, Held, Wedges, Never,
        vars, env, radio, marks
<1>1. CASE Associate
      BY <1>1 DEF Associate
<1>2. CASE LeaseArrives
      BY <1>2 DEF LeaseArrives
<1>3. CASE Tick
      BY <1>3 DEF Tick
<1>4. CASE Wedge
      BY <1>4 DEF Wedge
<1>5. CASE Roam
      BY <1>5 DEF Roam
<1>6. CASE ComeToRest
      BY <1>6 DEF ComeToRest
<1>7. CASE UNCHANGED vars
      BY <1>7
<1>8. QED
      BY <1>1, <1>2, <1>3, <1>4, <1>5, <1>6, <1>7 DEF Air

\* wifi_acquire, step by step.
LEMMA AcquireKeeps ==
    ASSUME Inv, NEW s \in Session, WifiAcquire(s)
    PROVE  Inv'
<1> USE SessionAssumption, CooldownAssumption
    DEF Inv, TypeOK, HoldersHold, MarkNotOlder, ConfirmedSpaced, Session, Held, Wedges, Never,
        env, radio, marks, Goto
<1>1. CASE Acquire(s)
      BY <1>1 DEF Acquire
<1>2. CASE Reuse(s)
      BY <1>2 DEF Reuse
<1>3. CASE PowerOn(s)
      BY <1>3 DEF PowerOn, ServiceOn
<1>4. CASE CameUp(s)
      BY <1>4 DEF CameUp
<1>5. CASE NeverCameUp(s)
      BY <1>5 DEF NeverCameUp
<1>6. CASE Associated(s)
      BY <1>6 DEF Associated, After
<1>7. CASE NotAssociated(s)
      BY <1>7 DEF NotAssociated, After
<1>8. CASE Leased(s)
      BY <1>8 DEF Leased, After
<1>9. CASE NotLeased(s)
      BY <1>9 DEF NotLeased, After
<1>10. CASE BringupRecover(s)
  <2>1. on' \in BOOLEAN /\ assoc' \in BOOLEAN /\ lease' \in BOOLEAN /\ wedge' \in Wedges
        BY <1>10, ResetTyped DEF BringupRecover
  <2>2. age' = 0 /\ since' = 0 /\ stepped' = FALSE /\ lock' = lock
        BY <1>10 DEF BringupRecover, Mark
  <2>3. pc' \in [Session -> Held \cup {"idle", "gate", "pak"}] /\ then' \in [Session -> {"acquire", "bringup", "reach"}]
        BY <1>10 DEF BringupRecover
  <2>4. TypeOK'
    <3>1. platform' = platform /\ calm' = calm /\ ap' = ap /\ marker' = marker
          BY <1>10 DEF BringupRecover
    <3>2. age' \in -1..Never /\ since' \in 0..Cooldown
          BY <2>2
    <3>3. QED
          BY <2>1, <2>2, <2>3, <3>1, <3>2
  <2>5. HoldersHold' /\ lock = s
        BY <1>10, <2>2 DEF BringupRecover
  <2>6. \A t \in Session : pc'[t] # "confirmed"
        BY <1>10, <2>5 DEF BringupRecover
  <2>7. QED
        BY <2>2, <2>4, <2>5, <2>6
<1>11. CASE NoRecovery(s)
      BY <1>11 DEF NoRecovery
<1>12. CASE Restart(s)
      BY <1>12 DEF Restart, ServiceOn
<1>13. CASE Verify(s)
      BY <1>13 DEF Verify
<1>14. CASE Fail(s)
      BY <1>14 DEF Fail
<1>15. QED
      BY <1>1, <1>2, <1>3, <1>4, <1>5, <1>6, <1>7, <1>8, <1>9, <1>10, <1>11, <1>12, <1>13, <1>14
      DEF WifiAcquire

\* The clock, the probes and the engine.
LEMMA HolderKeeps ==
    ASSUME Inv, NEW s \in Session, Holder(s)
    PROVE  Inv'
<1> USE SessionAssumption, CooldownAssumption
    DEF Inv, TypeOK, HoldersHold, MarkNotOlder, ConfirmedSpaced, Session, Held, Wedges, Never,
        env, radio, marks, Goto
<1>1. CASE SetClock(s)
  <2>1. age' \in {age, -1, Cooldown}
        BY <1>1 DEF SetClock
  <2>2. age' \in -1..Never
        BY <2>1
  <2>3. stepped' \in BOOLEAN /\ (stepped => stepped') /\ (stepped' \/ age' <= age)
    <3>1. CASE age' > age
          BY <1>1, <3>1 DEF SetClock
    <3>2. CASE ~(age' > age)
          BY <1>1, <2>2, <3>2 DEF SetClock
    <3>3. QED
          BY <3>1, <3>2
  <2>4. MarkNotOlder'
        BY <1>1, <2>2, <2>3 DEF SetClock
  <2>5. ConfirmedSpaced' /\ HoldersHold'
        BY <1>1, <2>3 DEF SetClock
  <2>6. TypeOK'
        BY <1>1, <2>2, <2>3 DEF SetClock
  <2>7. QED
        BY <2>4, <2>5, <2>6
<1>2. CASE Leave(s)
      BY <1>2 DEF Leave
<1>3. CASE ProbeServer(s)
      BY <1>3 DEF ProbeServer
<1>4. CASE ProbeGateway(s)
      BY <1>4 DEF ProbeGateway, Recent
<1>5. CASE Recover(s)
  <2>1. on' \in BOOLEAN /\ assoc' \in BOOLEAN /\ lease' \in BOOLEAN /\ wedge' \in Wedges
        BY <1>5, ResetTyped DEF Recover
  <2>2. age' = 0 /\ since' = 0 /\ stepped' = FALSE /\ lock' = lock
        BY <1>5 DEF Recover, Mark
  <2>3. pc' \in [Session -> Held \cup {"idle", "gate", "pak"}] /\ then' \in [Session -> {"acquire", "bringup", "reach"}]
        BY <1>5 DEF Recover
  <2>4. TypeOK'
    <3>1. platform' = platform /\ calm' = calm /\ ap' = ap /\ marker' = marker
          BY <1>5 DEF Recover
    <3>2. age' \in -1..Never /\ since' \in 0..Cooldown
          BY <2>2
    <3>3. QED
          BY <2>1, <2>2, <2>3, <3>1, <3>2
  <2>5. HoldersHold' /\ lock = s
        BY <1>5, <2>2 DEF Recover
  <2>6. \A t \in Session : pc'[t] # "confirmed"
        BY <1>5, <2>5 DEF Recover
  <2>7. QED
        BY <2>2, <2>4, <2>5, <2>6
<1>6. CASE EngineAgain(s)
      BY <1>6 DEF EngineAgain
<1>7. CASE EngineEnds(s)
      BY <1>7 DEF EngineEnds
<1>8. QED
      BY <1>1, <1>2, <1>3, <1>4, <1>5, <1>6, <1>7 DEF Holder

\* What the user does by hand.
LEMMA HandKeeps ==
    ASSUME Inv, NEW s \in Session, Hand(s)
    PROVE  Inv'
<1> USE SessionAssumption, CooldownAssumption
    DEF Inv, TypeOK, HoldersHold, MarkNotOlder, ConfirmedSpaced, Session, Held, Wedges, Never,
        env, radio, marks, Goto
<1>1. CASE GateReset(s)
  <2>1. on' \in BOOLEAN /\ assoc' \in BOOLEAN /\ lease' \in BOOLEAN /\ wedge' \in Wedges
        BY <1>1, ResetTyped DEF GateReset
  <2>2. QED
        BY <1>1, <2>1 DEF GateReset
<1>2. CASE PakChecks(s)
      BY <1>2 DEF PakChecks
<1>3. CASE PakResets(s)
  <2>1. on' \in BOOLEAN /\ assoc' \in BOOLEAN /\ lease' \in BOOLEAN /\ wedge' \in Wedges
    <3>1. CASE platform = "miyoomini"
          BY <1>3, <3>1, ResetTyped DEF PakResets
    <3>2. CASE platform # "miyoomini"
          BY <1>3, <3>2 DEF PakResets, ServiceOff
    <3>3. QED
          BY <3>1, <3>2
  <2>2. age' = 0 \/ age' = age
        BY <1>3 DEF PakResets
  <2>3. age' \in -1..Never /\ (age' <= age \/ age' <= 0)
        BY <2>2
  <2>4. stepped' \/ since' = Cooldown \/ age' <= since'
        BY <1>3, <2>2 DEF PakResets
  <2>5. QED
        BY <1>3, <2>1, <2>3, <2>4 DEF PakResets
<1>4. CASE SwitchOff(s)
      BY <1>4 DEF SwitchOff, ServiceOff
<1>5. QED
      BY <1>1, <1>2, <1>3, <1>4 DEF Hand

LEMMA NextKeeps == Inv /\ [Next]_vars => Inv'
BY AirKeeps, AcquireKeeps, HolderKeeps, HandKeeps DEF Next

LEMMA InvHolds == Spec => []Inv
BY InitHolds, NextKeeps, PTL DEF Spec

\* Every variable keeps its type.
THEOREM TypeCorrect == Spec => []TypeOK
<1>1. Inv => TypeOK
      BY DEF Inv
<1>2. QED
      BY <1>1, InvHolds, PTL

\* At most one automatic re-enumeration per cooldown (_reenum_recent and
\* _mark_reenum), for every cooldown.
THEOREM ReenumsAreSpaced == Spec => ReenumSpaced
<1>1. Inv /\ [Next]_vars => [(\E s \in Session : Reenumerates(s)) => since = Cooldown \/ stepped]_vars
  <2> SUFFICES ASSUME Inv, NEW s \in Session, Reenumerates(s)
               PROVE  since = Cooldown \/ stepped
      OBVIOUS
  <2>1. CASE BringupRecover(s)
        BY <2>1, CooldownAssumption DEF BringupRecover, Recent, Inv, TypeOK, MarkNotOlder, Never
  <2>2. CASE Recover(s)
        BY <2>2 DEF Recover, Inv, ConfirmedSpaced
  <2>3. QED
        BY <2>1, <2>2 DEF Reenumerates
<1>2. QED
      BY <1>1, InvHolds, PTL DEF Spec, ReenumSpaced

\* The radio re-enumerates itself only under the mutex, so that nobody else is
\* transferring (_bringup_recover, wifi_ensure_reachable).
THEOREM NoTransferCut == Spec => NobodyCut
<1>1. Inv /\ [Next]_vars => [\A s, t \in Session : s # t /\ Reenumerates(s) => pc[t] # "engine"]_vars
  <2> SUFFICES ASSUME Inv, NEW s \in Session, NEW t \in Session, s # t, Reenumerates(s), pc[t] = "engine"
               PROVE  FALSE
      OBVIOUS
  <2>1. pc[s] \in {"bringup", "confirmed"}
        BY DEF Reenumerates, BringupRecover, Recover
  <2>2. lock = s /\ lock = t
        BY <2>1 DEF Inv, HoldersHold, Held
  <2>3. QED
        BY <2>2
<1>2. QED
      BY <1>1, InvHolds, PTL DEF Spec, NobodyCut
=============================================================================
