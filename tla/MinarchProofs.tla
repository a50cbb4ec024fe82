--------------------------- MODULE MinarchProofs ----------------------------
(***************************************************************************)
(* Proofs about the two places where minarch's threads meet: ThreadedVideo *)
(* (the core thread and the main thread), for any set of button            *)
(* combinations, and AudioRing (the thread that runs the core and SDL's),  *)
(* for every ring size, rates, arrays and reads.                           *)
(***************************************************************************)
EXTENDS ThreadedVideo, AudioRing, SequenceTheorems, TLAPS

(* ThreadedVideo                                                           *)

\* A core thread lives with thread_video, or until it is joined; the mutex is
\* held in one place of each thread.
Threads ==
    /\ ~thread_video => core_pt = "gone" \/ main = "join"
    /\ main = "join" \/ main = "poll" \/ main = "video" => ~thread_video
    /\ core_mx = "main" <=> main = "draw"
    /\ core_mx = "core" <=> core_pt = "copy"
    /\ main \in {"poll", "video"} => core_pt = "gone"

\* What a waiting toggle is going to do agrees with the option.
Preference ==
    \/ "pending" \in slips
    \/ /\ ~toggle_thread => option = (thread_video \/ was_threaded)
       /\ toggle_thread => option = (thread_video = was_threaded)
       /\ thread_video /\ was_threaded => toggle_thread
       /\ ~thread_video /\ was_threaded /\ toggle_thread => main \in {"menu", "toggle"}

ThreadsInv == VideoTypeOK /\ Threads

\* One poll of the buttons leaves flags of their types.
LEMMA ButtonsType ==
    ASSUME VideoTypeOK, NEW b \in Pressed, Buttons(b)
    PROVE  /\ was_threaded' \in BOOLEAN /\ toggle_thread' \in BOOLEAN /\ fast_forward' \in BOOLEAN
           /\ quit' \in BOOLEAN /\ show_menu' \in BOOLEAN
<1> b.ff \in BOOLEAN /\ b.menu \in BOOLEAN /\ b.quit \in BOOLEAN
    BY PressedAssumption
<1> QED BY DEF VideoTypeOK, Buttons, Released

LEMMA ThreadsInitially == VideoInit => ThreadsInv
<1> SUFFICES ASSUME VideoInit PROVE ThreadsInv
    OBVIOUS
<1>1. CASE option = TRUE
      BY <1>1 DEF VideoInit, ThreadsInv, VideoTypeOK, Threads
<1>2. CASE option = FALSE
      BY <1>2 DEF VideoInit, ThreadsInv, VideoTypeOK, Threads
<1> QED BY <1>1, <1>2 DEF VideoInit

LEMMA ThreadsPreserved == ThreadsInv /\ [VideoNext]_videoVars => ThreadsInv'
<1> SUFFICES ASSUME ThreadsInv, [VideoNext]_videoVars PROVE ThreadsInv'
    OBVIOUS
<1> USE DEF ThreadsInv, Threads, flags, ctl
<1>1. CASE CorePoll
  <2>1. PICK b \in Pressed : Buttons(b)
        BY <1>1 DEF CorePoll
  <2>2. VideoTypeOK'
        BY <1>1, <2>1, ButtonsType DEF CorePoll, VideoTypeOK
  <2>3. Threads'
        BY <1>1 DEF CorePoll, VideoTypeOK
  <2> QED BY <2>2, <2>3
<1>2. CASE MainPoll
  <2>1. PICK b \in Pressed : Buttons(b)
        BY <1>2 DEF MainPoll
  <2>2. VideoTypeOK'
        BY <1>2, <2>1, ButtonsType DEF MainPoll, VideoTypeOK
  <2>3. Threads'
        BY <1>2 DEF MainPoll, VideoTypeOK
  <2> QED BY <2>2, <2>3
<1>3. CASE StopCore
      BY <1>3 DEF VideoTypeOK, StopCore
<1>4. CASE RunCore
      BY <1>4 DEF VideoTypeOK, RunCore
<1>5. CASE CoreExits
      BY <1>5 DEF VideoTypeOK, CoreExits
<1>6. CASE DupeFrame
      BY <1>6 DEF VideoTypeOK, DupeFrame, Unsignalled
<1>7. CASE LockFrame
      BY <1>7 DEF VideoTypeOK, LockFrame
<1>8. CASE DrawFrame
      BY <1>8 DEF VideoTypeOK, DrawFrame
<1>9. CASE SignalFrame
      BY <1>9 DEF VideoTypeOK, SignalFrame, Unsignalled
<1>10. CASE RunOver
      BY <1>10 DEF VideoTypeOK, RunOver
<1>11. CASE Turn
      BY <1>11 DEF VideoTypeOK, Turn
<1>12. CASE MainVideo
      BY <1>12 DEF VideoTypeOK, MainVideo
<1>13. CASE WaitFrame
      BY <1>13 DEF VideoTypeOK, WaitFrame
<1>14. CASE Draw
      BY <1>14 DEF VideoTypeOK, Draw
<1>15. CASE Drawn
      BY <1>15 DEF VideoTypeOK, Drawn
<1>16. CASE CheckMenu
      BY <1>16 DEF VideoTypeOK, CheckMenu
<1>17. CASE SetOption
      BY <1>17 DEF VideoTypeOK, SetOption
<1>18. CASE LeaveMenu
      BY <1>18 DEF VideoTypeOK, LeaveMenu
<1>19. CASE QuitMenu
      BY <1>19 DEF VideoTypeOK, QuitMenu
<1>20. CASE NoToggle
      BY <1>20 DEF VideoTypeOK, NoToggle
<1>21. CASE Enable
      BY <1>21 DEF VideoTypeOK, Enable, Undone
<1>22. CASE Disable
      BY <1>22 DEF VideoTypeOK, Disable, Undone
<1>23. CASE Cancel
      BY <1>23 DEF VideoTypeOK, Cancel
<1>24. CASE Join
      BY <1>24 DEF VideoTypeOK, Join
<1>25. CASE SameHDMI
      BY <1>25 DEF VideoTypeOK, SameHDMI
<1>26. CASE HDMIChange
      BY <1>26 DEF VideoTypeOK, HDMIChange
<1>27. CASE UNCHANGED videoVars
      BY <1>27 DEF VideoTypeOK, videoVars
<1>28. CASE WantFrame
      BY <1>28 DEF VideoTypeOK, WantFrame
<1> QED BY <1>1, <1>2, <1>3, <1>4, <1>5, <1>6, <1>7, <1>8, <1>9, <1>10, <1>11, <1>12, <1>13, <1>14, <1>15,
           <1>16, <1>17, <1>18, <1>19, <1>20, <1>21, <1>22, <1>23, <1>24, <1>25, <1>26, <1>27, <1>28
    DEF VideoNext, CoreThread, Main

LEMMA ThreadsAlways == VideoSpec => []ThreadsInv
BY ThreadsInitially, ThreadsPreserved, PTL DEF VideoSpec

\* The flags, the two threads and the mutex have their types (minarch.c 25-38
\* and the two loops).
THEOREM VideoTypeCorrect == VideoSpec => []VideoTypeOK
BY ThreadsAlways, PTL DEF ThreadsInv

\* The core is never run by two threads, and the backbuffer never drawn while it
\* is written (minarch.c 5165-5320).
THEOREM CoreRunsOnce == VideoSpec => []OneRunner
<1>1. ThreadsInv => OneRunner
      BY DEF ThreadsInv, Threads, VideoTypeOK, OneRunner
<1> QED BY ThreadsAlways, <1>1, PTL

LEMMA PreferenceInitially == VideoInit => Preference
BY DEF VideoInit, Preference

LEMMA PreferencePreserved == ThreadsInv /\ Preference /\ [VideoNext]_videoVars => Preference'
<1> SUFFICES ASSUME ThreadsInv, Preference, [VideoNext]_videoVars, "pending" \notin slips' PROVE Preference'
    BY DEF Preference
<1> USE DEF ThreadsInv, Threads, flags, ctl, VideoTypeOK, Preference
<1>1. CASE CorePoll
  <2>1. PICK b \in Pressed : Buttons(b)
        BY <1>1 DEF CorePoll
  <2>2. ~Takes /\ "pending" \notin slips
        BY <1>1 DEF CorePoll
  <2> QED BY <1>1, <2>1, <2>2, ButtonsType DEF CorePoll, Buttons, Released, Takes
<1>2. CASE MainPoll
  <2>1. PICK b \in Pressed : Buttons(b)
        BY <1>2 DEF MainPoll
  <2> QED BY <1>2, <2>1, ButtonsType DEF MainPoll, Buttons, Released
<1>3. CASE StopCore \/ RunCore \/ CoreExits \/ DupeFrame \/ LockFrame \/ DrawFrame \/ SignalFrame \/ RunOver
      BY <1>3 DEF StopCore, RunCore, CoreExits, DupeFrame, LockFrame, DrawFrame, SignalFrame, RunOver
<1>4. CASE Turn \/ WantFrame \/ MainVideo \/ WaitFrame \/ Draw \/ Drawn \/ CheckMenu
      BY <1>4 DEF Turn, WantFrame, MainVideo, WaitFrame, Draw, Drawn, CheckMenu
<1>5. CASE SetOption
      BY <1>5 DEF SetOption
<1>6. CASE LeaveMenu \/ QuitMenu
      BY <1>6 DEF LeaveMenu, QuitMenu
<1>7. CASE NoToggle \/ Cancel \/ Join \/ SameHDMI \/ HDMIChange
      BY <1>7 DEF NoToggle, Cancel, Join, SameHDMI, HDMIChange
<1>8. CASE Enable \/ Disable
      BY <1>8 DEF Enable, Disable, Undone
<1>9. CASE UNCHANGED videoVars
      BY <1>9 DEF videoVars
<1> QED BY <1>1, <1>2, <1>3, <1>4, <1>5, <1>6, <1>7, <1>8, <1>9 DEF VideoNext, CoreThread, Main

\* Fast forward and the power button give back the threading they took away
\* (setFastForward and input_poll_callback against Config_syncFrontend's toggle).
THEOREM PreferenceIsKept == VideoSpec => []PreferenceKept
<1>1. Preference => PreferenceKept
      BY DEF Preference, PreferenceKept
<1> QED BY ThreadsAlways, PreferenceInitially, PreferencePreserved, <1>1, PTL DEF VideoSpec

-----------------------------------------------------------------------------
(* AudioRing                                                               *)

\* Who is inside SDL's lock, and that a chunk lies within the core's array.
Holding ==
    /\ core \in {"chunk", "wait", "copy"} <=> lock = "core"
    /\ core \in {"wait", "delay", "copy"} => amount <= Len(left)

\* The remainder that SND_resampleNear keeps is the drift.
Kept == drift = (IF Near THEN diff ELSE 0)

Inv == TypeOK /\ Holding /\ RingSound

USE SizeAssumption, FrameAssumption DEF Slot

LEMMA RatesPositive == rate \in Rates => In \in Nat \ {0} /\ Out \in Nat \ {0}
BY RateAssumption DEF In, Out

LEMMA InitInv == Init => Inv /\ Kept /\ RatioKept
<1> SUFFICES ASSUME Init PROVE Inv /\ Kept /\ RatioKept
  OBVIOUS
<1> USE DEF Init
<1>1. TypeOK
  BY DEF TypeOK, Core
<1>2. Holding
  BY DEF Holding
<1>3. RingSound
  BY DEF RingSound, After, Count, At
<1>4. Kept /\ RatioKept
  BY RatesPositive DEF Kept, RatioKept
<1> QED BY <1>1, <1>2, <1>3, <1>4 DEF Inv

\* A write extends the ring by the slot frame_in.
LEMMA CountGrows ==
    ASSUME TypeOK, frame_out = After(frame_filled), ~Full,
           frame_in' = After(frame_in), frame_out' = frame_out
    PROVE  Count \in Nat /\ Count < N - 1 /\ Count' = Count + 1 /\ At(Count + 1) = frame_in
BY DEF TypeOK, Full, After, Count, At

\* One step of the resampler, seen from the ring.
LEMMA CopyStep ==
    ASSUME Inv, Copy
    PROVE  /\ Inv' /\ Head(left) \in Frame
           /\ Writes => /\ buffer' = [buffer EXCEPT ![frame_in] = Head(left)]
                        /\ frame_in' = After(frame_in)
           /\ ~Writes => buffer' = buffer /\ frame_in' = frame_in
<1> USE DEF Inv, Copy
<1>1. left # <<>> /\ Head(left) \in Frame /\ Tail(left) \in Seq(Frame) /\ Len(Tail(left)) = Len(left) - 1
  BY DEF TypeOK, Holding
<1>2. diff' \in Nat /\ drift' \in Int
  BY RatesPositive DEF TypeOK, DiffKept, Grown, Consumes, Writes
<1>3. TypeOK'
  <2>1. left' \in Seq(Frame) /\ amount' \in Nat
    <3>1. CASE Consumes
      BY <1>1, <3>1 DEF TypeOK
    <3>2. CASE ~Consumes
      BY <3>2 DEF TypeOK
    <3> QED BY <3>1, <3>2
  <2>2. buffer' \in [Slot -> Frame \cup {Silence}] /\ frame_in' \in Slot
    <3>1. CASE Writes
      BY <1>1, <3>1 DEF TypeOK, After
    <3>2. CASE ~Writes
      BY <3>2 DEF TypeOK
    <3> QED BY <3>1, <3>2
  <2> QED BY <1>2, <2>1, <2>2 DEF TypeOK
<1>4. Holding'
  <2>1. CASE Consumes
    BY <1>1, <2>1 DEF Holding, TypeOK
  <2>2. CASE ~Consumes
    BY <2>2 DEF Holding, TypeOK
  <2> QED BY <2>1, <2>2
<1>5. RingSound'
  <2>1. CASE Writes
    <3>1. Count \in Nat /\ Count < N - 1 /\ Count' = Count + 1 /\ At(Count + 1) = frame_in
      BY <2>1, CountGrows DEF RingSound
    <3>2. frame_out' = After(frame_filled')
      BY DEF RingSound
    <3>3. \A i \in 1..Count + 1 : At(i)' = At(i) /\ At(i) \in Slot
      BY <3>1 DEF At, TypeOK
    <3>4. \A i \in 1..Count + 1 : buffer'[At(i)] \in Frame
      BY <1>1, <2>1, <3>1, <3>3 DEF RingSound, TypeOK
    <3> QED BY <3>1, <3>2, <3>3, <3>4 DEF RingSound
  <2>2. CASE ~Writes
    BY <2>2 DEF RingSound, TypeOK, Count, At
  <2> QED BY <2>1, <2>2
<1> QED BY <1>1, <1>3, <1>4, <1>5

\* The callback takes the oldest frame.
LEMMA DrainStep ==
    ASSUME Inv, Drain
    PROVE  Inv'
<1> USE DEF Inv, Drain, Advance, batch
<1>1. TypeOK'
  BY DEF TypeOK, After
<1>2. Holding'
  BY DEF Holding
<1>3. RingSound'
  <2>1. /\ Count \in Nat /\ Count <= N - 1 /\ Count' = Count - 1
        /\ frame_out' = After(frame_filled')
    BY DEF Empty, TypeOK, After, Count
  <2>2. \A i \in 1..Count - 1 : At(i)' = At(i + 1)
    BY <2>1 DEF At, After, TypeOK
  <2> QED BY <2>1, <2>2 DEF RingSound
<1> QED BY <1>1, <1>2, <1>3

\* The other steps leave the ring alone.
LEMMA OtherStep ==
    ASSUME Inv, UNCHANGED ring,
           \/ Call \/ TakeLock \/ NextChunk \/ Return \/ Wait \/ WaitOver \/ ChunkOver
           \/ Ask \/ Pad \/ Pause \/ Resume \/ Quit \/ UNCHANGED vars
    PROVE  Inv'
<1> USE DEF Inv, ring, batch
<1>1. RingSound'
  BY DEF RingSound, Count, At, TypeOK
<1>2. CASE Call
  BY <1>1, <1>2 DEF Call, TypeOK, Holding, Core
<1>3. CASE TakeLock
  BY <1>1, <1>3 DEF TakeLock, TypeOK, Holding, Core
<1>4. CASE NextChunk
  BY <1>1, <1>4 DEF NextChunk, TypeOK, Holding, Core
<1>5. CASE Return
  BY <1>1, <1>5 DEF Return, TypeOK, Holding, Core
<1>6. CASE Wait
  BY <1>1, <1>6 DEF Wait, TypeOK, Holding, Core
<1>7. CASE WaitOver
  BY <1>1, <1>7 DEF WaitOver, TypeOK, Holding, Core
<1>8. CASE ChunkOver
  BY <1>1, <1>8 DEF ChunkOver, TypeOK, Holding, Core
<1>9. CASE Ask
  BY <1>1, <1>9 DEF Ask, TypeOK, Holding, Core
<1>10. CASE Pad
  BY <1>1, <1>10 DEF Pad, TypeOK, Holding, Core
<1>11. CASE Pause \/ Resume \/ Quit
  BY <1>1, <1>11 DEF Pause, Resume, Quit, TypeOK, Holding, Core
<1>12. CASE UNCHANGED vars
  BY <1>1, <1>12 DEF vars, TypeOK, Holding
<1> QED BY <1>2, <1>3, <1>4, <1>5, <1>6, <1>7, <1>8, <1>9, <1>10, <1>11, <1>12

\* Every step copies, drains or leaves the ring alone.
LEMMA Steps ==
    ASSUME [Next]_vars
    PROVE  \/ Copy
           \/ Drain
           \/ /\ UNCHANGED ring
              /\ \/ Call \/ TakeLock \/ NextChunk \/ Return \/ Wait \/ WaitOver \/ ChunkOver
                 \/ Ask \/ Pad \/ Pause \/ Resume \/ Quit \/ UNCHANGED vars
BY DEF Next, BatchSamples, Callback, Call, TakeLock, NextChunk, Return, Wait, WaitOver, ChunkOver,
       Ask, Pad, Pause, Resume, Quit, vars

LEMMA StepInv == Inv /\ [Next]_vars => Inv'
BY Steps, CopyStep, DrainStep, OtherStep

\* The ring's variables keep their types.
THEOREM RingTypeCorrect == Spec => []TypeOK
<1>1. Inv => TypeOK
  BY DEF Inv
<1> QED BY <1>1, InitInv, StepInv, PTL DEF Spec

\* Full and empty are told apart, whatever the two threads do.
THEOREM RingIsSound == Spec => []RingSound
<1>1. Inv => RingSound
  BY DEF Inv
<1> QED BY <1>1, InitInv, StepInv, PTL DEF Spec

-----------------------------------------------------------------------------

\* What is written never strays from the ratio of the rates by a frame.
THEOREM RatioIsKept == Spec => []RatioKept
<1>1. TypeOK /\ Kept /\ RatioKept /\ [Next]_vars => (Kept /\ RatioKept)'
  <2> SUFFICES ASSUME TypeOK, Kept, RatioKept, [Next]_vars
               PROVE  (Kept /\ RatioKept)'
    OBVIOUS
  <2> USE RatesPositive DEF TypeOK, Kept, RatioKept, Near
  <2>1. CASE Copy
    <3>1. In \in Nat \ {0} /\ Out \in Nat \ {0} /\ In' = In /\ Out' = Out
      BY <2>1 DEF Copy, In, Out
    <3> QED BY <2>1, <3>1 DEF Copy, Writes, Consumes, Grown, DiffKept
  <2>2. CASE UNCHANGED <<rate, diff, drift>>
    BY <2>2 DEF In, Out
  <2> QED BY <2>1, <2>2 DEF Next, BatchSamples, Callback, Call, TakeLock, NextChunk, Return, Wait,
             WaitOver, ChunkOver, Ask, Drain, Pad, Pause, Resume, Quit, batch, vars
<1> QED BY <1>1, InitInv, RingTypeCorrect, PTL DEF Spec

-----------------------------------------------------------------------------

LEMMA WriteMaps ==
    ASSUME Inv, Copy, Writes
    PROVE  Queue!Write(Head(left))
<1> USE DEF Inv
<1>1. /\ Inv' /\ Head(left) \in Frame
      /\ buffer' = [buffer EXCEPT ![frame_in] = Head(left)]
      /\ frame_in' = After(frame_in) /\ frame_out' = frame_out /\ heard' = heard
  BY CopyStep DEF Copy
<1>2. Count \in Nat /\ Count < N - 1 /\ Count' = Count + 1
  BY <1>1, CountGrows DEF Copy, RingSound
<1>3. /\ At(Count + 1) = frame_in
      /\ \A i \in 1..Count : At(i) \in Slot /\ At(i) # frame_in
  BY <1>2 DEF Count, At, TypeOK
<1>4. \A i \in 1..Count + 1 : At(i)' = At(i)
  BY <1>1 DEF At
<1>5. Contents \in Seq(Frame) /\ Len(Contents) = Count /\ \A i \in 1..Count : Contents[i] = buffer[At(i)]
  BY <1>2 DEF Contents, RingSound
<1>6. Contents' = [i \in 1..Count + 1 |-> buffer'[At(i)]]
  BY <1>2, <1>4 DEF Contents
<1>7. \A i \in 1..Count + 1 : buffer'[At(i)] = IF i = Count + 1 THEN Head(left) ELSE Contents[i]
  BY <1>1, <1>2, <1>3, <1>5 DEF TypeOK
<1>8. Contents' \in Seq(Frame) /\ Len(Contents') = Count + 1
  BY <1>1, <1>2, <1>5, <1>6, <1>7
<1>9. Contents' = Append(Contents, Head(left))
  BY <1>1, <1>2, <1>5, <1>6, <1>7, <1>8, AppendProperties, SeqEqual
<1> QED BY <1>1, <1>2, <1>5, <1>9 DEF Queue!Write

LEMMA PlayMaps ==
    ASSUME Inv, Drain
    PROVE  Queue!Play
<1> USE DEF Inv, Drain, Advance
<1>1. Count \in Nat /\ Count > 0 /\ Count <= N - 1 /\ Count' = Count - 1
  BY DEF Empty, TypeOK, After, Count
<1>2. At(1) = frame_out /\ \A i \in 1..Count - 1 : At(i)' = At(i + 1)
  BY <1>1 DEF At, After, TypeOK
<1>3. Contents \in Seq(Frame) /\ Len(Contents) = Count /\ \A i \in 1..Count : Contents[i] = buffer[At(i)]
  BY <1>1 DEF Contents, RingSound
<1>4. Head(Contents) = buffer[frame_out] /\ Contents # <<>>
  BY <1>1, <1>2, <1>3
<1>5. Contents' = [i \in 1..Count - 1 |-> buffer[At(i + 1)]]
  BY <1>1, <1>2 DEF Contents
<1>6. \A i \in 1..Count - 1 : Contents'[i] = Contents[i + 1] /\ Contents'[i] \in Frame
  BY <1>1, <1>3, <1>5 DEF RingSound
<1>7. Contents' \in Seq(Frame) /\ Len(Contents') = Count - 1
  BY <1>1, <1>5, <1>6
<1>8. Contents' = Tail(Contents)
  BY <1>1, <1>3, <1>4, <1>6, <1>7, HeadTailProperties, SeqEqual
<1> QED BY <1>4, <1>8 DEF Queue!Play

\* The ring implements a queue of frame_count - 1 frames.
THEOREM RingPlaysInOrder == Spec => PlaysInOrder
<1>1. Init => Queue!Init
  <2> SUFFICES ASSUME Init PROVE Contents = <<>> /\ heard = Silence
    BY DEF Queue!Init
  <2>1. Count = 0
    BY DEF Init, Count
  <2> QED BY <2>1 DEF Init, Contents
<1>2. Inv /\ [Next]_vars => [Queue!Next]_<<Contents, heard>>
  <2> SUFFICES ASSUME Inv, [Next]_vars PROVE [Queue!Next]_<<Contents, heard>>
    OBVIOUS
  <2>1. CASE Copy /\ Writes
    BY <2>1, WriteMaps, CopyStep DEF Queue!Next
  <2>2. CASE Copy /\ ~Writes
    BY <2>2, CopyStep DEF Contents, Count, At, Copy
  <2>3. CASE Drain
    BY <2>3, PlayMaps DEF Queue!Next
  <2>4. CASE UNCHANGED ring
    BY <2>4 DEF ring, Contents, Count, At
  <2> QED BY <2>1, <2>2, <2>3, <2>4, Steps
<1> QED BY <1>1, <1>2, InitInv, StepInv, PTL DEF Spec, PlaysInOrder, Queue!Spec
=============================================================================
