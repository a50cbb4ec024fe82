--------------------------- MODULE ArtCacheProofs ---------------------------
(***************************************************************************)
(* Proofs about ArtCache, for any files, lists, sizes and budget: the      *)
(* surface that is on its way to the screen is not freed, and the cache    *)
(* keeps to its budget.                                                    *)
(***************************************************************************)
EXTENDS ArtCache, TLAPS

\* A surface that a frame holds is pinned, and nothing is freed for good while
\* a frame is composed.
Pinned ==
    /\ held # Nothing => held = pin /\ held \in cache /\ painting
    /\ painting => ~shutdown
    /\ wanted # <<>> \/ ahead # {} => painting

\* The neighbours that are left to prefetch are there, and what the worker
\* decodes is a file.
Queued ==
    /\ \A d \in ahead : selected + d \in Entry
    /\ worker = "decode" => job.file \in Path

\* The bytes are those of the files; over the budget there are two at most.
Counted == CacheBounded

ArtInv == TypeOK /\ Pinned /\ Queued /\ Counted

LEMMA Nowhere == <<>> \in Seq(Path) /\ Nothing \in File /\ {} \subseteq Path
BY DEF File

\* The smallest of some slots is one of them.
LEMMA MinSlot ==
    ASSUME NEW some \in SUBSET Slot, some # {}
    PROVE  Min(some) \in some
<1>1. \A x \in some : x = 0 \/ x = 1 \/ x = 2
  BY DEF Slot
<1>2. \E x \in some : \A y \in some : x <= y
  <2>1. CASE 0 \in some
    BY <1>1, <2>1
  <2>2. CASE 0 \notin some /\ 1 \in some
    BY <1>1, <2>2
  <2>3. CASE 0 \notin some /\ 1 \notin some
    <3>1. \A x \in some : x = 2
      BY <1>1, <2>3
    <3> QED
      BY <3>1
  <2> QED
    BY <2>1, <2>2, <2>3
<1> QED
  BY <1>2 DEF Min

\* The list stays a list of the cached files.
LEMMA FirstType ==
    ASSUME NEW kept, NEW p \in Path
    PROVE  First(p, kept) \subseteq (kept \cup {p}) \X (kept \cup {p})
BY DEF First

\* What is taken from the files is taken from the bytes.
LEMMA BytesTaken ==
    ASSUME NEW all \in SUBSET Path, NEW gone \in SUBSET all
    PROVE  /\ Bytes[all] = Bytes[all \ gone] + Bytes[gone]
           /\ Bytes[all] \in Nat /\ Bytes[gone] \in Nat /\ Bytes[all \ gone] \in Nat
<1> DEFINE rest == all \ gone
<1>1. rest \cap gone = {} /\ rest \cup gone = all
  OBVIOUS
<1>2. rest \in SUBSET Path /\ gone \in SUBSET Path
  OBVIOUS
<1> HIDE DEF rest
<1>3. Bytes[rest \cup gone] = Bytes[rest] + Bytes[gone]
  BY <1>1, <1>2, BytesAssumption
<1>4. Bytes[all] \in Nat /\ Bytes[gone] \in Nat /\ Bytes[rest] \in Nat
  BY <1>2, BytesAssumption
<1> QED
  BY <1>1, <1>3, <1>4 DEF rest

LEMMA NoBytes == Bytes[{}] = 0
<1> DEFINE none == {}
<1>1. none \in SUBSET Path /\ none \cap none = {} /\ none \cup none = none
  OBVIOUS
<1> HIDE DEF none
<1>2. Bytes[none] = Bytes[none] + Bytes[none] /\ Bytes[none] \in Nat
  BY <1>1, BytesAssumption
<1>3. \A n \in Nat : n = n + n => n = 0
  OBVIOUS
<1>4. Bytes[none] = 0
  BY <1>2, <1>3
<1> QED
  BY <1>4 DEF none

\* Lodor_artInsert of a file that is not there.
LEMMA Inserted ==
    ASSUME TypeOK, Counted, NEW p \in Path, p \notin cache, Insert(p)
    PROVE  /\ cache' \subseteq Path /\ newer' \subseteq cache' \X cache'
           /\ bytes' \in Nat /\ pin' = pin
           /\ Counted'
           /\ pin \in cache => pin \in cache'
<1>1. PICK gone \in SUBSET cache :
        /\ Evicts(p, gone)
        /\ cache' = (cache \ gone) \cup {p}
        /\ newer' = First(p, cache \ gone)
        /\ bytes' = bytes + Bytes[{p}] - Bytes[gone]
        /\ pin' = pin
  BY DEF Insert
<1>2. /\ gone \in SUBSET (cache \ {pin})
      /\ bytes + Bytes[{p}] - Bytes[gone] <= Budget \/ gone = cache \ {pin}
  BY <1>1 DEF Evicts, Evictable
<1>3. cache \subseteq Path /\ pin \in File
  BY DEF TypeOK
<1>4. cache' \subseteq Path /\ newer' \subseteq cache' \X cache'
  BY <1>1, <1>3, FirstType
<1>5. bytes' = Bytes[cache'] /\ bytes' \in Nat
  <2>1. /\ Bytes[cache] = Bytes[cache \ gone] + Bytes[gone]
        /\ Bytes[cache] \in Nat /\ Bytes[gone] \in Nat /\ Bytes[cache \ gone] \in Nat
    BY <1>3, BytesTaken
  <2>2. /\ Bytes[cache'] = Bytes[cache \ gone] + Bytes[{p}]
        /\ Bytes[{p}] \in Nat
    <3>1. (cache \ gone) \cap {p} = {} /\ cache \ gone \in SUBSET Path /\ {p} \in SUBSET Path
      BY <1>3
    <3> QED
      BY <1>1, <3>1, BytesAssumption
  <2>3. bytes = Bytes[cache]
    BY DEF Counted, CacheBounded
  <2> QED
    BY <1>1, <2>1, <2>2, <2>3
<1>6. bytes' <= Budget \/ \E newest, kept \in File : cache' \subseteq {newest, kept}
  <2>1. CASE gone = cache \ {pin}
    <3>1. cache' \subseteq {p, pin} /\ p \in File
      BY <1>1, <2>1 DEF File
    <3> QED
      BY <1>3, <3>1
  <2> QED
    BY <1>1, <1>2, <2>1
<1>7. pin \in cache => pin \in cache'
  BY <1>1, <1>2
<1> QED
  BY <1>1, <1>4, <1>5, <1>6, <1>7 DEF Counted, CacheBounded

-----------------------------------------------------------------------------

LEMMA InitArt == Init => ArtInv
<1> SUFFICES ASSUME Init PROVE ArtInv
  OBVIOUS
<1> USE DEF Init
<1>1. TypeOK
  BY Nowhere DEF TypeOK, NoJob, Slot
<1>2. Pinned
  BY DEF Pinned
<1>3. Queued
  BY DEF Queued, NoJob
<1>4. Counted
  BY NoBytes, Nowhere, BudgetAssumption DEF Counted, CacheBounded
<1> QED
  BY <1>1, <1>2, <1>3, <1>4 DEF ArtInv

\* The cache is what it was: so are its bytes.
LEMMA StillCounted ==
    ASSUME Counted, UNCHANGED <<cache, bytes>>
    PROVE  Counted'
BY DEF Counted, CacheBounded

\* The launcher's loop.
LEMMA FrameStep ==
    ASSUME ArtInv, Frame \/ Repaint \/ ComeToRest \/ Quit \/ \E e \in Entry : Select(e)
    PROVE  ArtInv'
<1> USE DEF ArtInv, frame, ui, store
<1>1. ASSUME NEW e \in Entry, Select(e) PROVE ArtInv'
  <2>1. TypeOK' /\ Pinned'
    BY <1>1 DEF Select, Looping, TypeOK, Pinned
  <2>2. Queued'
    BY <1>1 DEF Select, Looping, Pinned, Queued
  <2> QED
    BY <1>1, <2>1, <2>2, StillCounted DEF Select
<1>2. CASE Repaint \/ ComeToRest \/ PollReady
  <2>1. TypeOK'
    BY <1>2 DEF Repaint, ComeToRest, PollReady, TypeOK
  <2>2. Pinned' /\ Queued'
    BY <1>2 DEF Repaint, ComeToRest, PollReady, Pinned, Queued
  <2> QED
    BY <1>2, <2>1, <2>2, StillCounted DEF Repaint, ComeToRest, PollReady
<1>3. CASE Quit
  <2>1. TypeOK' /\ Pinned' /\ Queued'
    BY <1>3 DEF Quit, Signal, Looping, TypeOK, Pinned, Queued
  <2> QED
    BY <1>3, <2>1, StillCounted DEF Quit
<1>4. CASE Paint
  <2>1. Art[selected] \in Seq(Path)
    BY ListAssumption DEF TypeOK, Entry
  <2>2. TypeOK'
    BY <1>4, <2>1 DEF Paint, Neighbours, TypeOK
  <2>3. Pinned' /\ Queued'
    BY <1>4 DEF Paint, Neighbours, Looping, Pinned, Queued
  <2> QED
    BY <1>4, <2>2, <2>3, StillCounted DEF Paint
<1>5. ASSUME NEW p \in Path, Hit(p) PROVE ArtInv'
  <2>1. newer' \subseteq cache' \X cache'
    BY <1>5, FirstType DEF Hit
  <2>2. TypeOK'
    BY <1>5, <2>1, Nowhere DEF Hit, TypeOK, File
  <2>3. Pinned' /\ Queued'
    BY <1>5 DEF Hit, Pinned, Queued
  <2> QED
    BY <1>5, <2>2, <2>3, StillCounted DEF Hit
<1>6. ASSUME NEW p \in Path, Miss(p) PROVE ArtInv'
  <2>1. Tail(wanted) \in Seq(Path)
    BY <1>6 DEF Miss, TypeOK
  <2>2. queue' \in [Slot -> File] /\ stale' \in BOOLEAN
        /\ worker' \in {"look", "wait", "decode", "gone", "joined"}
    BY <1>6 DEF Miss, Signal, TypeOK, Slot, File
  <2>3. TypeOK'
    BY <1>6, <2>1, <2>2 DEF Miss, TypeOK
  <2>4. Pinned' /\ Queued'
    BY <1>6 DEF Miss, Signal, Pinned, Queued
  <2> QED
    BY <1>6, <2>3, <2>4, StillCounted DEF Miss
<1>7. ASSUME NEW d \in {-1, 1}, Prefetch(d) PROVE ArtInv'
  <2> DEFINE p == Cover[selected + d]
             free == {i \in 1..2 : queue[i] = Nothing}
  <2>1. \/ p \in cache /\ Find(p) /\ UNCHANGED <<queue, worker>>
        \/ p \notin cache /\ UNCHANGED store /\ UNCHANGED <<queue, worker>>
        \/ p \notin cache /\ UNCHANGED store /\ free # {}
           /\ queue' = [queue EXCEPT ![Min(free)] = p] /\ Signal
    BY <1>7 DEF Prefetch
  <2>2. /\ d \in ahead /\ ahead' = ahead \ {d}
        /\ UNCHANGED <<selected, dirty, calm, painting, wanted, held, shown, ready, job, stale, shutdown>>
    BY <1>7 DEF Prefetch
  <2>3. p \in File
    BY <2>2, ListAssumption DEF Queued, Entry, File
  <2> HIDE DEF p, free
  <2>4. newer' \subseteq cache' \X cache' /\ UNCHANGED <<cache, bytes, pin>>
    <3>1. CASE UNCHANGED store
      BY <3>1 DEF TypeOK
    <3>2. CASE p \in cache /\ Find(p)
      <4>1. p \in Path
        BY <3>2 DEF TypeOK
      <4> QED
        BY <3>2, <4>1, FirstType DEF Find
    <3> QED
      BY <2>1, <3>1, <3>2
  <2>5. queue' \in [Slot -> File] /\ worker' \in {"look", "wait", "decode", "gone", "joined"}
        /\ (worker' = "decode" => worker = "decode")
    BY <2>1, <2>3 DEF TypeOK, Signal
  <2>6. TypeOK'
    BY <2>2, <2>4, <2>5 DEF TypeOK
  <2>7. Pinned' /\ Queued'
    BY <2>2, <2>4, <2>5 DEF Pinned, Queued
  <2> QED
    BY <2>4, <2>6, <2>7, StillCounted
<1>8. CASE FrameOver
  <2>1. TypeOK' /\ Pinned' /\ Queued'
    BY <1>8, Nowhere DEF FrameOver, TypeOK, Pinned, Queued
  <2> QED
    BY <1>8, <2>1, StillCounted DEF FrameOver
\* Nothing is held any more when everything is freed.
<1>9. CASE Join
  <2>1. TypeOK' /\ Queued'
    BY <1>9, Nowhere DEF Join, TypeOK, Queued
  <2>2. Pinned'
    BY <1>9 DEF Join, Pinned
  <2>3. Counted'
    BY <1>9, NoBytes, Nowhere, BudgetAssumption DEF Join, Counted, CacheBounded
  <2> QED
    BY <2>1, <2>2, <2>3
<1> QED
  BY <1>1, <1>2, <1>3, <1>4, <1>5, <1>6, <1>7, <1>8, <1>9 DEF Frame

LEMMA WorkerStep ==
    ASSUME ArtInv, Worker
    PROVE  ArtInv'
<1> USE DEF ArtInv, frame, ui, store
<1>1. CASE Wait \/ WorkerExits
  <2>1. TypeOK'
    BY <1>1 DEF Wait, WorkerExits, TypeOK
  <2>2. Pinned' /\ Queued'
    BY <1>1 DEF Wait, WorkerExits, Pinned, Queued
  <2> QED
    BY <1>1, <2>1, <2>2, StillCounted DEF Wait, WorkerExits
<1>2. CASE Take
  <2>1. Requests # {} /\ Requests \in SUBSET Slot
    BY <1>2 DEF Take, Requests
  <2>2. Min(Requests) \in Requests
    BY <2>1, MinSlot
  <2>3. Min(Requests) \in Slot /\ queue[Min(Requests)] \in Path
    BY <2>2 DEF Requests, TypeOK, File
  <2>4. job' \in [file : File, slot : Slot] /\ queue' \in [Slot -> File] /\ job'.file \in Path
    BY <1>2, <2>3, Nowhere DEF Take, TypeOK, File
  <2>5. TypeOK' /\ Pinned' /\ Queued'
    BY <1>2, <2>4 DEF Take, TypeOK, Pinned, Queued
  <2> QED
    BY <1>2, <2>5, StillCounted DEF Take
<1>3. CASE Deliver
  <2> DEFINE p == job.file
  <2>1. /\ UNCHANGED <<ui, queue, shutdown>>
        /\ worker' = "look" /\ job' = NoJob /\ stale' = FALSE
    BY <1>3 DEF Deliver
  <2>2. \/ UNCHANGED <<store, ready>>
        \/ p \in cache /\ Find(p) /\ UNCHANGED ready
        \/ p \notin cache /\ Insert(p) /\ ready' = TRUE
    BY <1>3 DEF Deliver
  <2>3. NoJob \in [file : File, slot : Slot]
    BY Nowhere DEF NoJob, Slot
  <2>4. p \in Path
    BY <1>3 DEF Deliver, Queued
  <2> HIDE DEF p
  <2>5. Queued'
    BY <2>1 DEF Queued
  \* Whatever becomes of the list, the pin stays.
  <2>6. ASSUME cache' \subseteq Path, newer' \subseteq cache' \X cache', bytes' \in Nat,
               ready' \in BOOLEAN, pin' = pin, pin \in cache => pin \in cache'
        PROVE  TypeOK' /\ Pinned'
    <3>1. TypeOK'
      BY <2>1, <2>3, <2>6 DEF TypeOK
    <3>2. Pinned'
      BY <2>1, <2>6 DEF Pinned
    <3> QED
      BY <3>1, <3>2
  <2>7. CASE UNCHANGED <<store, ready>>
    <3>1. TypeOK' /\ Pinned'
      BY <2>6, <2>7 DEF TypeOK
    <3> QED
      BY <2>5, <2>7, <3>1, StillCounted
  <2>8. CASE p \in cache /\ Find(p) /\ UNCHANGED ready
    <3>1. newer' \subseteq cache' \X cache' /\ UNCHANGED <<cache, bytes, pin>>
      BY <2>4, <2>8, FirstType DEF Find
    <3>2. TypeOK' /\ Pinned'
      BY <2>6, <2>8, <3>1 DEF TypeOK
    <3> QED
      BY <2>5, <3>1, <3>2, StillCounted
  <2>9. CASE p \notin cache /\ Insert(p) /\ ready' = TRUE
    <3>1. /\ cache' \subseteq Path /\ newer' \subseteq cache' \X cache'
          /\ bytes' \in Nat /\ pin' = pin
          /\ Counted'
          /\ pin \in cache => pin \in cache'
      BY <2>4, <2>9, Inserted
    <3>2. TypeOK' /\ Pinned'
      BY <2>6, <2>9, <3>1
    <3> QED
      BY <2>5, <3>1, <3>2
  <2> QED
    BY <2>2, <2>7, <2>8, <2>9
<1> QED
  BY <1>1, <1>2, <1>3 DEF Worker

LEMMA ArtAlways == Spec => []ArtInv
<1>1. ArtInv /\ UNCHANGED vars => ArtInv'
  <2> SUFFICES ASSUME ArtInv, UNCHANGED vars PROVE ArtInv'
    OBVIOUS
  <2> USE DEF ArtInv, vars, ui, frame, store
  <2>1. TypeOK' /\ Pinned' /\ Queued'
    BY DEF TypeOK, Pinned, Queued
  <2> QED
    BY <2>1, StillCounted
<1>2. ArtInv /\ [Next]_vars => ArtInv'
  BY <1>1, FrameStep, WorkerStep DEF Next
<1> QED
  BY InitArt, <1>2, PTL DEF Spec

\* Every variable keeps to its type.
THEOREM TypeCorrect == Spec => []TypeOK
BY ArtAlways, PTL DEF ArtInv

\* No decode that lands between the request of a surface and its blit evicts
\* it, and the launcher does not quit in between (2867-2893, 3002-3019).
THEOREM SurfaceIsNotFreed == Spec => []HeldNotFreed
<1>1. ArtInv => HeldNotFreed
  BY DEF ArtInv, Pinned, HeldNotFreed
<1> QED
  BY ArtAlways, <1>1, PTL

\* lodor_art_bytes counts what is cached, and only a newest file and a pin can
\* be over the budget together (2874-2887).
THEOREM BudgetIsKept == Spec => []CacheBounded
BY ArtAlways, PTL DEF ArtInv, Counted
=============================================================================
