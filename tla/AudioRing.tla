----------------------------- MODULE AudioRing ------------------------------
(***************************************************************************)
(* The audio ring of workspace/all/common/api.c.  The thread that runs the *)
(* core writes frames in SND_batchSamples, through a resampler, and waits  *)
(* while the ring is full; SDL's audio thread plays them in                *)
(* SND_audioCallback.  Both hold SDL's audio lock.  Sleep pauses the       *)
(* device and with it the callback.                                        *)
(***************************************************************************)
EXTENDS Integers, Sequences

CONSTANTS
    Frame,      \* what a frame may contain
    Silence,    \* what is heard before the first frame
    N,          \* frame_count: five seconds of frames
    Rates,      \* pairs of sample_rate_in and sample_rate_out
    Batch,      \* BATCH_SIZE
    MaxTries,   \* waits of 1 ms before the loop starts over
    Offers,     \* the arrays of frames a core may pass
    Reads       \* the lengths SDL may ask for, in frames

ASSUME SizeAssumption == N \in Nat /\ N >= 2 /\ Batch \in Nat \ {0} /\ MaxTries \in Nat
ASSUME RateAssumption == Rates \subseteq (Nat \ {0}) \X (Nat \ {0})
ASSUME FrameAssumption == Silence \notin Frame /\ Offers \subseteq Seq(Frame) /\ Reads \subseteq Nat \ {0}

VARIABLES
    rate,                           \* sample_rate_in, sample_rate_out
    buffer,                         \* buffer, a function of 0..N-1
    frame_in, frame_out, frame_filled,
    diff,                           \* the static of SND_resampleNear
    left, amount, tries,            \* SND_batchSamples: frames still to consume, of this chunk, waits
    core,                           \* where SND_batchSamples is
    len,                            \* SND_audioCallback: frames still wanted
    lock,                           \* who holds SDL's audio lock
    paused,                         \* SDL_PauseAudio
    open,                           \* from SND_init to SND_quit
    heard,                          \* history: the last frame given to SDL
    drift                           \* history: sample_rate_in per frame written, less sample_rate_out per frame consumed

ring  == <<buffer, frame_in, frame_out, frame_filled, heard>>
batch == <<diff, left, amount, tries, core, drift>>
vars  == <<rate, ring, batch, len, lock, paused, open>>

Slot == 0..N - 1
In   == rate[1]
Out  == rate[2]

\* the index after i
After(i) == IF i + 1 >= N THEN 0 ELSE i + 1

\* Wrong: the writer overtakes the reader.
NeverFull == FALSE

Full  == frame_in = frame_filled
Empty == frame_in = frame_out

\* The ring is empty and one slot, frame_filled, is never written.
Init ==
    /\ rate \in Rates
    /\ buffer = [i \in Slot |-> Silence]
    /\ frame_in = 0 /\ frame_out = 0 /\ frame_filled = N - 1
    /\ diff = 0
    /\ left = <<>> /\ amount = 0 /\ tries = 0 /\ core = "idle" /\ drift = 0
    /\ len = 0 /\ lock = "free" /\ paused = FALSE /\ open = TRUE
    /\ heard = Silence

-----------------------------------------------------------------------------
(* SND_batchSamples, in the thread that runs the core                      *)

\* The core hands over an array.
Call ==
    /\ open /\ core = "idle"
    /\ left' \in Offers
    /\ core' = "enter"
    /\ UNCHANGED <<rate, ring, diff, drift, amount, tries, len, lock, paused, open>>

\* SDL_LockAudio, on entry and after each wait.
TakeLock ==
    /\ core \in {"enter", "delay"} /\ lock = "free"
    /\ lock' = "core"
    /\ core' = IF core = "enter" THEN "chunk" ELSE "wait"
    /\ UNCHANGED <<rate, ring, diff, left, amount, tries, len, paused, open, drift>>

\* while (frame_count > 0): the next chunk of at most BATCH_SIZE frames.
NextChunk ==
    /\ core = "chunk" /\ left # <<>>
    /\ tries' = 0
    /\ amount' = IF Batch < Len(left) THEN Batch ELSE Len(left)
    /\ core' = "wait"
    /\ UNCHANGED <<rate, ring, diff, left, len, lock, paused, open, drift>>

Return ==
    /\ core = "chunk" /\ left = <<>>
    /\ lock' = "free" /\ core' = "idle"
    /\ UNCHANGED <<rate, ring, diff, left, amount, tries, len, paused, open, drift>>

\* Wrong: sleeps with the lock.
WaitHolding ==
    /\ core = "wait" /\ Full /\ tries < MaxTries
    /\ tries' = tries + 1
    /\ UNCHANGED <<rate, ring, diff, left, amount, core, len, lock, paused, open, drift>>

\* The ring is full: let the callback in.
Wait ==
    /\ core = "wait" /\ Full /\ tries < MaxTries
    /\ tries' = tries + 1
    /\ lock' = "free" /\ core' = "delay"
    /\ UNCHANGED <<rate, ring, diff, left, amount, len, paused, open, drift>>

WaitOver ==
    /\ core = "wait" /\ ~(Full /\ tries < MaxTries)
    /\ core' = "copy"
    /\ UNCHANGED <<rate, ring, diff, left, amount, tries, len, lock, paused, open, drift>>

\* SND_resampleNone writes and consumes; SND_resampleNear writes while diff is
\* below the output rate and consumes when it is not.
Near     == In # Out
Writes   == Near => diff < Out
Grown    == IF Near /\ Writes THEN diff + In ELSE diff
Consumes == Near => Grown >= Out

\* Wrong: drops the remainder.
DiffReset == IF Near /\ Consumes THEN 0 ELSE Grown

DiffKept == IF Near /\ Consumes THEN Grown - Out ELSE Grown

\* One turn of the inner loop: resample(*frames).
Copy ==
    /\ core = "copy" /\ amount > 0 /\ ~Full
    /\ IF Writes
          THEN /\ buffer' = [buffer EXCEPT ![frame_in] = Head(left)]
               /\ frame_in' = After(frame_in)
          ELSE UNCHANGED <<buffer, frame_in>>
    /\ IF Consumes
          THEN left' = Tail(left) /\ amount' = amount - 1
          ELSE UNCHANGED <<left, amount>>
    /\ diff' = DiffKept
    /\ drift' = drift + (IF Writes THEN In ELSE 0) - (IF Consumes THEN Out ELSE 0)
    /\ UNCHANGED <<rate, frame_out, frame_filled, heard, tries, core, len, lock, paused, open>>

ChunkOver ==
    /\ core = "copy" /\ (amount = 0 \/ Full)
    /\ core' = "chunk"
    /\ UNCHANGED <<rate, ring, diff, left, amount, tries, len, lock, paused, open, drift>>

-----------------------------------------------------------------------------
(* SND_audioCallback, in SDL's thread                                      *)

Ask ==
    /\ open /\ ~paused /\ lock = "free"
    /\ len' \in Reads
    /\ lock' = "sdl"
    /\ UNCHANGED <<rate, ring, batch, paused, open>>

\* Wrong: marks the slot that is played next.
AdvanceBoth == frame_filled' = After(frame_out) /\ frame_out' = After(frame_out)

Advance == frame_filled' = frame_out /\ frame_out' = After(frame_out)

Drain ==
    /\ lock = "sdl" /\ ~Empty /\ len > 0
    /\ heard' = buffer[frame_out]
    /\ Advance
    /\ len' = len - 1
    /\ UNCHANGED <<rate, buffer, frame_in, batch, lock, paused, open>>

\* What is still wanted is padded with what was just played, or with zeros.
Pad ==
    /\ lock = "sdl" /\ (Empty \/ len = 0)
    /\ len' = 0 /\ lock' = "free"
    /\ UNCHANGED <<rate, ring, batch, paused, open>>

-----------------------------------------------------------------------------
(* the main thread                                                         *)

\* SDL_PauseAudio in PWR_enterSleep and PWR_exitSleep.
Pause  == open /\ ~paused /\ paused' = TRUE /\ UNCHANGED <<rate, ring, batch, len, lock, open>>
Resume == open /\ paused /\ paused' = FALSE /\ UNCHANGED <<rate, ring, batch, len, lock, open>>

\* SND_quit, when the core has returned.
Quit ==
    /\ open /\ core = "idle" /\ lock = "free"
    /\ open' = FALSE /\ paused' = TRUE
    /\ UNCHANGED <<rate, ring, batch, len, lock>>

BatchSamples == TakeLock \/ NextChunk \/ Return \/ Wait \/ WaitOver \/ Copy \/ ChunkOver
Callback     == Ask \/ Drain \/ Pad

Next == Call \/ BatchSamples \/ Callback \/ Pause \/ Resume \/ Quit

Spec == Init /\ [][Next]_vars

\* The core's thread runs, and SDL goes on asking while the device plays: both
\* get the lock again and again when they wait for it.
FairSpec == Spec /\ SF_vars(BatchSamples) /\ SF_vars(Callback)

-----------------------------------------------------------------------------

\* Frames in the ring, oldest first.
Count == IF frame_in >= frame_out THEN frame_in - frame_out ELSE frame_in + N - frame_out
At(i) == IF frame_out + i - 1 >= N THEN frame_out + i - 1 - N ELSE frame_out + i - 1
Contents == [i \in 1..Count |-> buffer[At(i)]]

Core == {"idle", "enter", "chunk", "wait", "delay", "copy"}

TypeOK ==
    /\ rate \in Rates
    /\ buffer \in [Slot -> Frame \cup {Silence}]
    /\ frame_in \in Slot /\ frame_out \in Slot /\ frame_filled \in Slot
    /\ diff \in Nat /\ drift \in Int
    /\ left \in Seq(Frame) /\ amount \in Nat /\ tries \in 0..MaxTries
    /\ core \in Core /\ len \in Nat /\ lock \in {"free", "core", "sdl"}
    /\ paused \in BOOLEAN /\ open \in BOOLEAN
    /\ heard \in Frame \cup {Silence}

\* The slot that is never written is always the one before frame_out, whatever
\* the two threads do, so that `in == filled' means full and `in == out' empty;
\* and what lies between has been written (SND_resizeBuffer sets frame_filled,
\* SND_audioCallback moves it, SND_batchSamples reads it).
RingSound ==
    /\ frame_out = After(frame_filled)
    /\ \A i \in 1..Count : buffer[At(i)] \in Frame

\* The ring is a bounded queue of frame_count - 1 frames: SDL plays the frames
\* SND_batchSamples wrote, in order, each once.
Queue == INSTANCE FrameQueue WITH queue <- Contents, heard <- heard, Capacity <- N - 1
PlaysInOrder == Queue!Spec

\* What is written keeps the ratio of the rates to what is consumed, within one
\* frame, over all chunks and calls and whatever the ring does: SND_resampleNear
\* keeps the remainder in diff.
RatioKept == 0 <= drift /\ (drift < In \/ drift < Out)

\* SND_batchSamples returns once the device stays resumed: its wait for a full
\* ring has no other end (PWR_enterSleep pauses the device).
BatchReturns == <>[]~paused => (core # "idle" ~> core = "idle")
=============================================================================
