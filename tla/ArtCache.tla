------------------------------ MODULE ArtCache ------------------------------
(***************************************************************************)
(* The box-art loader of workspace/all/minui/minui.c: a worker thread      *)
(* decodes images into a cache bounded by bytes, most recently used first; *)
(* the launcher's loop asks for the highlighted entry's art each time it   *)
(* paints, asks ahead for the neighbours', and paints again when a decode  *)
(* has landed.  Each function holds lodor_art_mutex and is one step.       *)
(***************************************************************************)
EXTENDS Integers, Sequences, SequencesExt, FiniteSetsExt

CONSTANTS
    Path,       \* image files
    Nothing,    \* "", no file
    Art,        \* per entry of the list, the files to try: folder thumb, cover
    Cover,      \* per entry, what the neighbours prefetch of it, or Nothing
    Bytes,      \* what a set of files takes, decoded and fitted to their slots
    Broken,     \* files that do not decode
    Budget      \* lodor_art_budget

ASSUME FileAssumption == Nothing \notin Path /\ Broken \subseteq Path
ASSUME ListAssumption == Art \in Seq(Seq(Path)) /\ Cover \in [DOMAIN Art -> Path \cup {Nothing}]
ASSUME BytesAssumption ==
    /\ Bytes \in [SUBSET Path -> Nat]
    /\ \A some, more \in SUBSET Path :
         some \cap more = {} => Bytes[some \cup more] = Bytes[some] + Bytes[more]
ASSUME BudgetAssumption == Budget \in Nat

VARIABLES
    selected, dirty,
    calm,           \* the player and the toasts have come to rest: nothing else paints or quits
    painting,       \* a frame is being composed
    wanted, ahead,  \* what is left of it: files to request, neighbours to prefetch
    held,           \* the surface this frame is going to blit, by its file
    shown,          \* what the last frame showed
    cache, newer,   \* the list from lodor_art_head: its files, which is before which
    bytes, pin, ready,
    queue,          \* 0 is the current request, 1 and 2 are prefetches
    worker,         \* where the worker is, and joined
    job, stale,     \* the request in flight: file and slot; its seq is superseded
    shutdown

frame == <<painting, wanted, ahead, held>>
ui    == <<selected, dirty, calm, frame, shown>>
store == <<cache, newer, bytes, pin>>
vars  == <<ui, store, ready, queue, worker, job, stale, shutdown>>

Entry == DOMAIN Art
Slot  == 0..2
NoJob == [file |-> Nothing, slot |-> 0]

Init ==
    /\ selected \in Entry /\ dirty = TRUE /\ calm = FALSE
    /\ painting = FALSE /\ wanted = <<>> /\ ahead = {} /\ held = Nothing /\ shown = Nothing
    /\ cache = {} /\ newer = {} /\ bytes = 0 /\ pin = Nothing /\ ready = FALSE
    /\ queue = [i \in Slot |-> Nothing]
    /\ worker = "look" /\ job = NoJob /\ stale = FALSE
    /\ shutdown = FALSE

-----------------------------------------------------------------------------
(* the list, under the mutex                                               *)

\* The list with what is kept of it and p, which is put first.
First(p, kept) ==
    (newer \cap ((kept \ {p}) \X (kept \ {p}))) \cup ({p} \X (kept \ {p}))

\* Lodor_artFind, when it finds p.
Find(p) ==
    /\ newer' = First(p, cache)
    /\ UNCHANGED <<cache, bytes, pin>>

\* Wrong: the surface on its way to the screen may go.
EvictableAny == cache

\* neither the head, which is new, nor the pin
Evictable == cache \ {pin}

\* These go for p: the least recently used, one by one until it fits.
Evicts(p, gone) ==
    LET Load(less) == bytes + Bytes[{p}] - Bytes[less]
    IN  /\ gone \in SUBSET Evictable
        /\ \A g \in gone, e \in Evictable \ gone : <<e, g>> \in newer
        /\ Load(gone) <= Budget \/ gone = Evictable
        /\ \A last \in gone :
             (\A g \in gone \ {last} : <<last, g>> \in newer) => Load(gone \ {last}) > Budget

\* Lodor_artInsert
Insert(p) ==
    \E gone \in SUBSET cache :
        /\ Evicts(p, gone)
        /\ cache' = (cache \ gone) \cup {p}
        /\ newer' = First(p, cache \ gone)
        /\ bytes' = bytes + Bytes[{p}] - Bytes[gone]
        /\ UNCHANGED pin

\* SDL_CondSignal
Signal == worker' = IF worker = "wait" THEN "look" ELSE worker

-----------------------------------------------------------------------------
(* the launcher's loop                                                     *)

Looping == ~painting /\ ~shutdown

\* The player moves the highlight.
Select(e) ==
    /\ Looping /\ ~calm
    /\ selected' = e /\ dirty' = TRUE
    /\ UNCHANGED <<calm, frame, shown, store, ready, queue, worker, job, stale, shutdown>>

\* A toast, a setting, the network: another reason to paint.
Repaint ==
    /\ Looping /\ ~calm
    /\ dirty' = TRUE
    /\ UNCHANGED <<selected, calm, frame, shown, store, ready, queue, worker, job, stale, shutdown>>

ComeToRest ==
    /\ Looping
    /\ calm' = TRUE
    /\ UNCHANGED <<selected, dirty, frame, shown, store, ready, queue, worker, job, stale, shutdown>>

\* Lodor_artPollReady
PollReady ==
    /\ Looping /\ ready
    /\ ready' = FALSE /\ dirty' = TRUE
    /\ UNCHANGED <<selected, calm, frame, shown, store, queue, worker, job, stale, shutdown>>

\* Above and below, where an entry has a cover.
Neighbours == {d \in {-1, 1} : selected + d \in Entry /\ Cover[selected + d] # Nothing}

\* A frame: the entry's files, its neighbours' covers, and the flip.
Paint ==
    /\ Looping /\ dirty
    /\ painting' = TRUE /\ wanted' = Art[selected] /\ ahead' = Neighbours
    /\ UNCHANGED <<selected, dirty, calm, held, shown, store, ready, queue, worker, job, stale, shutdown>>

\* Lodor_artRequest, in the cache: nothing else is tried.
Hit(p) ==
    /\ wanted # <<>> /\ Head(wanted) = p /\ p \in cache
    /\ newer' = First(p, cache) /\ pin' = p /\ held' = p
    /\ wanted' = <<>>
    /\ UNCHANGED <<selected, dirty, calm, painting, ahead, shown, cache, bytes, ready,
                   queue, worker, job, stale, shutdown>>

\* Lodor_artRequest, not in the cache: slot 0 and a new seq, unless it waits
\* there already.
Miss(p) ==
    /\ wanted # <<>> /\ Head(wanted) = p /\ p \notin cache
    /\ wanted' = Tail(wanted)
    /\ IF queue[0] = p THEN UNCHANGED <<queue, stale, worker>>
       ELSE queue' = [queue EXCEPT ![0] = p] /\ stale' = (worker = "decode") /\ Signal
    /\ UNCHANGED <<selected, dirty, calm, painting, ahead, held, shown, store, ready, job, shutdown>>

\* Lodor_artPrefetch, above and then below: dropped when both slots are taken.
Prefetch(d) ==
    /\ painting /\ wanted = <<>> /\ d \in ahead /\ \A other \in ahead : d <= other
    /\ ahead' = ahead \ {d}
    /\ LET p    == Cover[selected + d]
           free == {i \in 1..2 : queue[i] = Nothing}
       IN  /\ IF p \in cache THEN Find(p) ELSE UNCHANGED store
           /\ IF p \in cache \/ (\E i \in Slot : queue[i] = p) \/ free = {}
                 THEN UNCHANGED <<queue, worker>>
                 ELSE queue' = [queue EXCEPT ![Min(free)] = p] /\ Signal
    /\ UNCHANGED <<selected, dirty, calm, painting, wanted, held, shown, ready, job, stale, shutdown>>

\* Blit and flip.
FrameOver ==
    /\ painting /\ wanted = <<>> /\ ahead = {}
    /\ shown' = held /\ held' = Nothing /\ dirty' = FALSE
    /\ painting' = FALSE
    /\ UNCHANGED <<selected, calm, wanted, ahead, store, ready, queue, worker, job, stale, shutdown>>

\* Wrong: does not wake the worker.
QuitSilently ==
    /\ Looping /\ ~calm
    /\ shutdown' = TRUE
    /\ UNCHANGED <<ui, store, ready, queue, worker, job, stale>>

\* Lodor_artQuit
Quit ==
    /\ Looping /\ ~calm
    /\ shutdown' = TRUE /\ Signal
    /\ UNCHANGED <<ui, store, ready, queue, job, stale>>

\* SDL_WaitThread, and everything is freed.
Join ==
    /\ shutdown /\ worker = "gone"
    /\ worker' = "joined"
    /\ cache' = {} /\ newer' = {} /\ bytes' = 0
    /\ UNCHANGED <<ui, pin, ready, queue, job, stale, shutdown>>

-----------------------------------------------------------------------------
(* Lodor_artWorker                                                         *)

Requests == {i \in Slot : queue[i] # Nothing}

\* Current request first.
Take ==
    /\ worker = "look" /\ ~shutdown /\ Requests # {}
    /\ LET i == Min(Requests)
       IN  job' = [file |-> queue[i], slot |-> i] /\ queue' = [queue EXCEPT ![i] = Nothing]
    /\ stale' = FALSE /\ worker' = "decode"
    /\ UNCHANGED <<ui, store, ready, shutdown>>

Wait ==
    /\ worker = "look" /\ ~shutdown /\ Requests = {}
    /\ worker' = "wait"
    /\ UNCHANGED <<ui, store, ready, queue, job, stale, shutdown>>

WorkerExits ==
    /\ worker = "look" /\ shutdown
    /\ worker' = "gone"
    /\ UNCHANGED <<ui, store, ready, queue, job, stale, shutdown>>

Superseded == job.slot = 0 /\ stale

\* Wrong: nobody is told.
DropSilently ==
    /\ worker = "decode"
    /\ worker' = "look" /\ job' = NoJob /\ stale' = FALSE
    /\ IF job.file \in Broken \/ Superseded THEN UNCHANGED store
       ELSE IF job.file \in cache THEN Find(job.file)
       ELSE Insert(job.file)
    /\ UNCHANGED <<ui, ready, queue, shutdown>>

\* Wrong: inserts what raced a duplicate.
DeliverTwice ==
    /\ worker = "decode"
    /\ worker' = "look" /\ job' = NoJob /\ stale' = FALSE
    /\ IF job.file \in Broken \/ Superseded THEN UNCHANGED <<store, ready>>
       ELSE Insert(job.file) /\ ready' = TRUE
    /\ UNCHANGED <<ui, queue, shutdown>>

\* The decode is over: nothing to show, superseded, a duplicate, or new.
Deliver ==
    /\ worker = "decode"
    /\ worker' = "look" /\ job' = NoJob /\ stale' = FALSE
    /\ IF job.file \in Broken \/ Superseded THEN UNCHANGED <<store, ready>>
       ELSE IF job.file \in cache THEN Find(job.file) /\ UNCHANGED ready
       ELSE Insert(job.file) /\ ready' = TRUE
    /\ UNCHANGED <<ui, queue, shutdown>>

Worker == Take \/ Wait \/ WorkerExits \/ Deliver
Frame  ==
    \/ PollReady \/ Paint \/ FrameOver \/ Join
    \/ \E p \in Path : Hit(p) \/ Miss(p)
    \/ \E d \in {-1, 1} : Prefetch(d)

Next == Worker \/ Frame \/ Repaint \/ ComeToRest \/ Quit \/ \E e \in Entry : Select(e)

Spec == Init /\ [][Next]_vars

\* The worker runs, a decode ends, and the loop goes round.
FairSpec == Spec /\ WF_vars(Worker) /\ WF_vars(Frame)

-----------------------------------------------------------------------------

File == Path \cup {Nothing}

TypeOK ==
    /\ selected \in Entry /\ dirty \in BOOLEAN /\ calm \in BOOLEAN
    /\ painting \in BOOLEAN /\ wanted \in Seq(Path) /\ ahead \subseteq {-1, 1}
    /\ held \in File /\ shown \in File
    /\ cache \subseteq Path /\ newer \subseteq cache \X cache
    /\ bytes \in Nat /\ pin \in File /\ ready \in BOOLEAN
    /\ queue \in [Slot -> File]
    /\ worker \in {"look", "wait", "decode", "gone", "joined"}
    /\ job \in [file : File, slot : Slot] /\ stale \in BOOLEAN /\ shutdown \in BOOLEAN

\* The surface a frame got from Lodor_artRequest is not freed before the frame
\* has blitted it, whatever lands in the meantime: the pin goes by file, and
\* Lodor_artQuit runs between frames (2851, 2880, 3009-3014).
HeldNotFreed == held # Nothing => held \in cache

\* The count of bytes is what the cached files take, and it is within the budget
\* but for two files: the newest and the pin when the one was inserted, however
\* they were used since (Lodor_artInsert, 2876-2887).
CacheBounded ==
    /\ bytes = Bytes[cache]
    /\ bytes <= Budget \/ \E newest, kept \in File : cache \subseteq {newest, kept}

\* What should be seen of an entry: the first of its files that decodes.
Best(e) == LET good == SelectSeq(Art[e], LAMBDA p : p \notin Broken)
           IN  IF good = <<>> THEN Nothing ELSE Head(good)

\* The budget holds an entry's files, its neighbours' covers and any pin.
Fits(e) == LET near == {Cover[n] : n \in Entry \cap {e - 1, e + 1}} \ {Nothing}
           IN  \A p \in Path : Bytes[(ToSet(Art[e]) \cup near \cup {p}) \ Broken] <= Budget

\* When the player and the toasts have come to rest, the highlighted entry's art
\* is shown for good, though prefetches land, requests supersede each other and
\* the thumb's request can be overwritten by the cover's.
ArtIsShown == \A e \in Entry :
    Fits(e) => (calm /\ selected = e ~> [](shown = Best(e)))

\* Lodor_artQuit returns: the worker is woken and joined, from wherever it is.
QuitReturns == shutdown ~> worker = "joined"
=============================================================================
