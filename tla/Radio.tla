------------------------------- MODULE Radio -------------------------------
(***************************************************************************)
(* The Wi-Fi radio as paks/Lodor.pak/lib/romm-sync-lib.sh uses it: brought *)
(* up once by whoever holds the mutex, left up, and re-enumerated on USB   *)
(* when it has wedged, at most once per cooldown; with the resets a user   *)
(* can ask for.  The mutex itself is WifiLock's; here it is free or held.  *)
(***************************************************************************)
EXTENDS Integers

CONSTANTS
    Ui,         \* what the launcher runs: romm-run, Reset WiFi.pak, Wifi.pak
    Daemon,     \* romm-syncd
    Free,       \* nobody holds the mutex
    Platform,   \* subset of {"miyoomini", "my355"}: the USB radio, an SDIO one
    Cooldown    \* _REENUM_COOLDOWN, in ticks

Session == {Ui, Daemon}

ASSUME SessionAssumption == Ui # Daemon /\ Free \notin Session
ASSUME CooldownAssumption == Cooldown \in Nat \ {0}

Never == Cooldown + 1   \* the age of a mark that does not exist

VARIABLES
    platform,
    calm,       \* nothing breaks any more and the user is away
    ap,         \* the network is in range and the password right
    on,         \* wpa_supplicant runs
    wedge,      \* what is wrong with the chip
    assoc,      \* wpa_state=COMPLETED
    lease,      \* wlan0 has an IPv4 address, stale or not
    marker,     \* .wifi-8188fu
    age,        \* what the clock says has passed since /tmp/romm-last-reenum
    since,      \* what has passed since the last automatic re-enumeration
    stepped,    \* the clock was stepped forward in that time
    lock,
    pc, then    \* where a session is; what its wait_net was called for

radio == <<on, wedge, assoc, lease>>
marks == <<age, since, stepped>>
env   == <<platform, calm, ap>>
vars  == <<env, radio, marker, marks, lock, pc, then>>

Wedges == {"none", "absent", "nolease", "notraffic"}
Held   == {"check", "waitup", "waitassoc", "waitlease", "bringup", "restart", "verify",
           "clock", "reach", "gateway", "confirmed", "engine", "failed"}

Init ==
    /\ platform \in Platform /\ calm = FALSE /\ ap \in BOOLEAN
    /\ on = FALSE /\ wedge = "none" /\ assoc = FALSE /\ lease = FALSE
    /\ marker = FALSE
    /\ age = Never /\ since = Cooldown /\ stepped = FALSE
    /\ lock = Free
    /\ pc = [s \in Session |-> "idle"] /\ then = [s \in Session |-> "acquire"]

\* _have_up: on the my355 wlan0 stays up with a stale address.
Up      == assoc \/ (platform = "my355" /\ on /\ lease)
Ready   == Up /\ lease /\ (platform = "my355" => assoc)
Traffic == Ready /\ wedge # "notraffic"
Recent  == age < Cooldown

Goto(s, to) == pc' = [pc EXCEPT ![s] = to]

-----------------------------------------------------------------------------
(* the radio                                                               *)

\* service-on restarts wpa_supplicant and puts a udhcpc in the background.
ServiceOn  == on' = TRUE /\ assoc' = FALSE /\ UNCHANGED <<wedge, lease>>
ServiceOff == on' = FALSE /\ assoc' = FALSE /\ lease' = FALSE /\ UNCHANGED wedge

\* bin/wifi-reset: kills wpa_supplicant, unbinds and binds the USB device.
\* On SDIO there is nothing to bind.
Reset ==
    /\ on' = FALSE /\ assoc' = FALSE
    /\ IF platform = "miyoomini" THEN lease' = FALSE /\ wedge' \in {"none"} \cup IF calm THEN {} ELSE {wedge}
                                 ELSE UNCHANGED <<lease, wedge>>

Associate ==
    /\ on /\ ap /\ ~assoc /\ wedge # "absent"
    /\ assoc' = TRUE
    /\ UNCHANGED <<env, on, wedge, lease, marker, marks, lock, pc, then>>

\* To the stock udhcpc, or to _dhcp_takeover's.
LeaseArrives ==
    /\ assoc /\ ~lease /\ wedge = "none"
    /\ lease' = TRUE
    /\ UNCHANGED <<env, on, wedge, assoc, marker, marks, lock, pc, then>>

Wedge ==
    /\ ~calm /\ wedge = "none"
    /\ wedge' \in Wedges
    /\ IF wedge' = "absent" THEN assoc' = FALSE /\ lease' = FALSE ELSE UNCHANGED <<assoc, lease>>
    /\ UNCHANGED <<env, on, marker, marks, lock, pc, then>>

\* The access point goes or comes.
Roam ==
    /\ ~calm
    /\ ap' = ~ap /\ assoc' = (assoc /\ ~ap)
    /\ UNCHANGED <<platform, calm, on, wedge, lease, marker, marks, lock, pc, then>>

Tick ==
    /\ since < Cooldown \/ age < Cooldown
    /\ since' = IF since < Cooldown THEN since + 1 ELSE since
    /\ age' = IF age < Cooldown THEN age + 1 ELSE age
    /\ UNCHANGED <<env, radio, marker, stepped, lock, pc, then>>

ComeToRest ==
    /\ calm' = TRUE
    /\ UNCHANGED <<platform, ap, radio, marker, marks, lock, pc, then>>

-----------------------------------------------------------------------------
(* wifi_acquire                                                            *)

\* The mutex; a busy one ends the attempt, and nothing has changed.
Acquire(s) ==
    /\ pc[s] = "idle" /\ lock = Free /\ (s = Ui => ~calm)
    /\ lock' = s /\ Goto(s, "check")
    /\ UNCHANGED <<env, radio, marker, marks, then>>

Reuse(s) ==
    /\ pc[s] = "check" /\ Ready
    /\ Goto(s, "clock")
    /\ UNCHANGED <<env, radio, marker, marks, lock, then>>

\* The marker tells that the Realtek radio has enumerated.
PowerOn(s) ==
    /\ pc[s] = "check" /\ ~Ready
    /\ ServiceOn
    /\ marker' = (marker \/ (platform = "miyoomini" /\ wedge # "absent"))
    /\ Goto(s, "waitup") /\ then' = [then EXCEPT ![s] = "acquire"]
    /\ UNCHANGED <<env, marks, lock>>

Late(possible) == ~possible \/ ~calm
MayAssociate   == on /\ ap /\ wedge # "absent"
MayLease       == assoc /\ wedge = "none"

CameUp(s) ==
    /\ pc[s] = "waitup" /\ (Up \/ assoc)
    /\ Goto(s, "waitassoc")
    /\ UNCHANGED <<env, radio, marker, marks, lock, then>>

NeverCameUp(s) ==
    /\ pc[s] = "waitup" /\ ~(Up \/ assoc) /\ Late(MayAssociate)
    /\ Goto(s, "bringup")
    /\ UNCHANGED <<env, radio, marker, marks, lock, then>>

\* What the caller of wait_net does with its result.
After(s, rc) ==
    Goto(s, CASE then[s] = "bringup" -> "verify"
              [] then[s] = "reach" -> "engine"
              [] OTHER -> CASE rc = 0 -> "clock" [] rc = 10 -> "failed" [] rc = 11 -> "bringup")

Associated(s) ==
    /\ pc[s] = "waitassoc" /\ assoc
    /\ IF Ready THEN After(s, 0) ELSE Goto(s, "waitlease")
    /\ UNCHANGED <<env, radio, marker, marks, lock, then>>

NotAssociated(s) ==
    /\ pc[s] = "waitassoc" /\ ~assoc /\ Late(MayAssociate)
    /\ After(s, 10)
    /\ UNCHANGED <<env, radio, marker, marks, lock, then>>

Leased(s) ==
    /\ pc[s] = "waitlease" /\ lease
    /\ After(s, 0)
    /\ UNCHANGED <<env, radio, marker, marks, lock, then>>

NotLeased(s) ==
    /\ pc[s] = "waitlease" /\ ~lease /\ Late(MayLease)
    /\ After(s, 11)
    /\ UNCHANGED <<env, radio, marker, marks, lock, then>>

\* Wrong: forgets the mark.
Unmarked == age' = age /\ since' = 0 /\ stepped' = FALSE

\* _mark_reenum
Mark == age' = 0 /\ since' = 0 /\ stepped' = FALSE

\* _bringup_recover, and _wifi_recover_wedge as far as the reset.
BringupRecover(s) ==
    /\ pc[s] = "bringup" /\ platform = "miyoomini" /\ marker /\ ~Recent
    /\ Mark /\ Reset
    /\ Goto(s, "restart") /\ then' = [then EXCEPT ![s] = "bringup"]
    /\ UNCHANGED <<env, marker, lock>>

NoRecovery(s) ==
    /\ pc[s] = "bringup" /\ ~(platform = "miyoomini" /\ marker /\ ~Recent)
    /\ Goto(s, "failed")
    /\ UNCHANGED <<env, radio, marker, marks, lock, then>>

\* The rest of _wifi_recover_wedge, but for its wait_net.
Restart(s) ==
    /\ pc[s] = "restart"
    /\ ServiceOn
    /\ Goto(s, "waitassoc")
    /\ UNCHANGED <<env, marker, marks, lock, then>>

Verify(s) ==
    /\ pc[s] = "verify"
    /\ Goto(s, IF Ready THEN "clock" ELSE "failed")
    /\ UNCHANGED <<env, radio, marker, marks, lock, then>>

\* Wrong: a failed bring-up keeps the mutex.
FailKeeping(s) ==
    /\ pc[s] = "failed"
    /\ Goto(s, "idle")
    /\ UNCHANGED <<env, radio, marker, marks, lock, then>>

Fail(s) ==
    /\ pc[s] = "failed"
    /\ lock' = Free /\ Goto(s, "idle")
    /\ UNCHANGED <<env, radio, marker, marks, then>>

-----------------------------------------------------------------------------
(* what the holder does: set_clock, wifi_ensure_reachable, the engine      *)

\* Once per boot NTP may step the clock, which may take the mark for old, or
\* for one of the future.
SetClock(s) ==
    /\ pc[s] = "clock"
    /\ Goto(s, "reach")
    /\ age' \in IF calm \/ age = Never THEN {age} ELSE {age, -1, Cooldown}
    /\ stepped' = (stepped \/ age' > age)
    /\ UNCHANGED <<env, radio, marker, since, lock, then>>

\* Reset WiFi.pak and romm-run --wifi-connect want no more than the link.
Leave(s) ==
    /\ pc[s] = "clock" /\ s = Ui
    /\ lock' = Free /\ Goto(s, "idle")
    /\ UNCHANGED <<env, radio, marker, marks, then>>

\* _romm_reachable: the server may be down.
ProbeServer(s) ==
    /\ pc[s] = "reach"
    /\ \/ Traffic /\ Goto(s, "engine")
       \/ Goto(s, "gateway")
    /\ UNCHANGED <<env, radio, marker, marks, lock, then>>

\* _gateway_reachable, _have_ip, _reenum_recent
ProbeGateway(s) ==
    /\ pc[s] = "gateway"
    /\ \/ (Traffic \/ ~lease \/ Recent) /\ Goto(s, "engine")
       \/ ~(Traffic /\ calm) /\ lease /\ ~Recent /\ Goto(s, "confirmed")
    /\ UNCHANGED <<env, radio, marker, marks, lock, then>>

\* On any platform.
Recover(s) ==
    /\ pc[s] = "confirmed"
    /\ Mark /\ Reset
    /\ Goto(s, "restart") /\ then' = [then EXCEPT ![s] = "reach"]
    /\ UNCHANGED <<env, marker, lock>>

\* The daemon runs the engine several times, with a probe before each.
EngineAgain(s) ==
    /\ pc[s] = "engine" /\ s = Daemon /\ ~calm
    /\ Goto(s, "reach")
    /\ UNCHANGED <<env, radio, marker, marks, lock, then>>

\* romm-run's verdict lets the launcher offer a reset.
EngineEnds(s) ==
    /\ pc[s] = "engine"
    /\ lock' = Free
    /\ \/ Goto(s, "idle")
       \/ s = Ui /\ marker /\ ~calm /\ Goto(s, "gate")
    /\ UNCHANGED <<env, radio, marker, marks, then>>

-----------------------------------------------------------------------------
(* the user                                                                *)

\* The launcher's offer: no mutex and no mark; the operation is then tried again.
GateReset(s) ==
    /\ pc[s] = "gate" /\ s = Ui
    /\ \/ Reset
       \/ UNCHANGED radio
    /\ Goto(s, "idle")
    /\ UNCHANGED <<env, marker, marks, lock, then>>

\* Reset WiFi.pak looks whether somebody transfers; with the means to ask, it asks.
PakChecks(s) ==
    /\ pc[s] = "idle" /\ s = Ui /\ ~calm
    /\ lock = Free \/ platform # "miyoomini"
    /\ Goto(s, "pak")
    /\ UNCHANGED <<env, radio, marker, marks, lock, then>>

PakResets(s) ==
    /\ pc[s] = "pak" /\ s = Ui
    /\ IF platform = "miyoomini" THEN Reset /\ age' = 0 ELSE ServiceOff /\ UNCHANGED age
    /\ Goto(s, "idle")
    /\ UNCHANGED <<env, marker, since, stepped, lock, then>>

\* Wifi.pak switches Wi-Fi off.
SwitchOff(s) ==
    /\ pc[s] = "idle" /\ s = Ui /\ ~calm
    /\ ServiceOff
    /\ UNCHANGED <<env, marker, marks, lock, pc, then>>

-----------------------------------------------------------------------------

WifiAcquire(s) ==
    \/ Acquire(s) \/ Reuse(s) \/ PowerOn(s) \/ CameUp(s) \/ NeverCameUp(s) \/ Associated(s) \/ NotAssociated(s)
    \/ Leased(s) \/ NotLeased(s) \/ BringupRecover(s) \/ NoRecovery(s) \/ Restart(s) \/ Verify(s) \/ Fail(s)

Holder(s) ==
    \/ SetClock(s) \/ Leave(s) \/ ProbeServer(s) \/ ProbeGateway(s) \/ Recover(s) \/ EngineAgain(s) \/ EngineEnds(s)

Hand(s) == GateReset(s) \/ PakChecks(s) \/ PakResets(s) \/ SwitchOff(s)

Air == Associate \/ LeaseArrives \/ Tick

Next ==
    \/ Air \/ Wedge \/ Roam \/ ComeToRest
    \/ \E s \in Session : WifiAcquire(s) \/ Holder(s) \/ Hand(s)

Spec == Init /\ [][Next]_vars

\* The radio does what it can, time passes, the daemon has a save to upload and
\* keeps polling, and what the launcher has begun goes on.
FairSpec ==
    /\ Spec
    /\ WF_vars(Associate) /\ WF_vars(LeaseArrives) /\ WF_vars(Tick)
    /\ WF_vars(WifiAcquire(Daemon) \/ Holder(Daemon))
    /\ WF_vars((WifiAcquire(Ui) \/ Holder(Ui) \/ Hand(Ui)) /\ pc[Ui] # "idle")

-----------------------------------------------------------------------------

TypeOK ==
    /\ platform \in Platform /\ calm \in BOOLEAN /\ ap \in BOOLEAN
    /\ on \in BOOLEAN /\ wedge \in Wedges /\ assoc \in BOOLEAN /\ lease \in BOOLEAN
    /\ marker \in BOOLEAN
    /\ age \in -1..Never /\ since \in 0..Cooldown /\ stepped \in BOOLEAN
    /\ lock \in Session \cup {Free}
    /\ pc \in [Session -> Held \cup {"idle", "gate", "pak"}]
    /\ then \in [Session -> {"acquire", "bringup", "reach"}]

Reenumerates(s) == BringupRecover(s) \/ Recover(s)

\* The radio re-enumerates itself at most once per cooldown, whichever of the
\* two recoveries asks and however sessions alternate, unless the clock was
\* stepped forward in between (_REENUM_COOLDOWN, 342-355).
ReenumSpaced == [][(\E s \in Session : Reenumerates(s)) => since = Cooldown \/ stepped]_vars

\* An automatic re-enumeration never falls into another session's transfer.
NobodyCut == [][\A s, t \in Session : s # t /\ Reenumerates(s) => pc[t] # "engine"]_vars

\* Nobody needs to reset the radio by hand: once nothing breaks any more, with
\* the network in range, a daemon with a save to upload has the USB radio
\* working again for good, however it was wedged or left, unless it never
\* enumerated on this card.
Recovers == calm /\ ap /\ platform = "miyoomini" /\ (marker \/ wedge # "absent") ~> []Traffic
=============================================================================
