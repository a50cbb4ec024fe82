----------------------------- MODULE FrameQueue -----------------------------
(***************************************************************************)
(* What the audio ring of workspace/all/common/api.c promises: a bounded   *)
(* queue.  The frames that are played are the frames that were written,    *)
(* each once and in the order of the writes.                               *)
(***************************************************************************)
EXTENDS Naturals, Sequences

CONSTANTS Frame, Silence, Capacity

VARIABLES queue, heard

Init == queue = <<>> /\ heard = Silence

Write(f) ==
    /\ Len(queue) < Capacity
    /\ queue' = Append(queue, f)
    /\ UNCHANGED heard

Play ==
    /\ queue # <<>>
    /\ heard' = Head(queue)
    /\ queue' = Tail(queue)

Next == Play \/ \E f \in Frame : Write(f)

Spec == Init /\ [][Next]_<<queue, heard>>
=============================================================================
