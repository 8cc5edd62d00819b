----------------------------- MODULE HeapSteps ------------------------------
(***************************************************************************)
(* The inductive invariant of the heap, and its preservation by the steps  *)
(* that take no frame.                                                     *)
(***************************************************************************)
EXTENDS HeapLemmas

\* No request is so close to 2^32 that align8 wraps.
NoSizeWraps ==
    /\ \A s \in Sizes : s + Alignment - 1 < AddrLimit
    /\ \A n \in Counts, s \in Sizes :
           n * s < AddrLimit => n * s + Alignment - 1 < AddrLimit

\* align8 rounds up unless it wraps.
LEMMA AlignUp ==
    ASSUME NEW size \in Nat
    PROVE  /\ align8(size) \in Nat
           /\ size + Alignment - 1 < AddrLimit => align8(size) >= size
<1>0. Alignment \in Nat \ {0} /\ AddrLimit \in Nat \ {0}
  BY HeapConstants
<1>1. PICK x : x = size + Alignment - 1
  OBVIOUS
<1>2. PICK sum : sum = x % AddrLimit
  OBVIOUS
<1>3. PICK r : r = sum % Alignment
  OBVIOUS
<1>4. x \in Nat /\ sum \in Nat /\ (x < AddrLimit => sum = x)
  BY <1>0, <1>1, <1>2
<1>5. r \in Nat /\ r <= sum /\ r <= Alignment - 1
  BY <1>0, <1>3, <1>4
<1>6. align8(size) = sum - r
  BY <1>1, <1>2, <1>3 DEF align8
<1> QED
  BY <1>0, <1>1, <1>4, <1>5, <1>6

\* kcalloc's division test accepts exactly the products that did not wrap.
LEMMA NoWrapProduct ==
    ASSUME NEW n \in Nat, NEW z \in Nat \ {0}, NEW t, t = (n * z) % AddrLimit, t \div z = n
    PROVE  t = n * z /\ n * z < AddrLimit
<1>0. AddrLimit \in Nat \ {0}
  BY HeapConstants
<1>1. PICK x : x = n * z
  OBVIOUS
<1>2. x \in Nat
  BY <1>1
<1>3. t \in Nat /\ t <= x /\ t < AddrLimit
  BY <1>0, <1>1, <1>2
<1>4. (t \div z) * z <= t
  BY <1>3
<1> QED
  BY <1>1, <1>2, <1>3, <1>4

\* The owned pointers are the payloads of the blocks in use.
Linked(U, lv) ==
    /\ \A p \in DOMAIN lv : \E b \in U : Ptr(b) = p
    /\ \A b \in U : Ptr(b) \in DOMAIN lv

\* Each block in use has the bytes its owner needs.
Roomy(U, lv) == \A b \in U : lv[Ptr(b)] <= b.size

\* The list and the chain being grown tile the frames held.
Tiled == Ordered(AllBlocks) /\ Bytes(AllBlocks) = FrameBytes

\* Frames still free lie above those held: the heap never returns a frame and
\* pmm_alloc_frame takes the lowest, so new blocks belong at the tail.
Ascending == \A f \in held, g \in FreeFrames : f < g

\* A chain exists only while heap_grow runs, and all of it is free.
ChainOK ==
    /\ \A i \in DOMAIN chain : chain[i].free
    /\ pc \notin {"init", "grow"} => chain = <<>>
    /\ ~up => heap = <<>> /\ chain = <<>> /\ pc = "idle"

\* Owned pointers and blocks in use correspond, and have room.
Backed ==
    /\ Linked(InUse(heap), live)
    /\ NoSizeWraps => Roomy(InUse(heap), live)

\* What a call's locals say about the list while the call is under way.
CallOK ==
    /\ pc \in {"init", "search", "grow", "copy", "release"} => call.op # "none"
    /\ pc \in {"search", "grow", "copy", "release"} => call.op # "heap_init"
    /\ pc \in {"copy", "release"} => call.op = "krealloc"
    /\ call.op \notin {"none", "heap_init"} =>
           /\ call.need = call.size
           /\ NoSizeWraps => call.size + Alignment - 1 < AddrLimit
    /\ call.op = "krealloc" /\ pc # "coalesce" =>
           \E b \in InUse(heap) : Ptr(b) = call.ptr /\ b.size < call.size
    /\ pc \in {"copy", "release"} /\ NoSizeWraps =>
           \E b \in InUse(heap) : Ptr(b) = call.new /\ b.size >= call.size
    /\ pc = "release" =>
           \E b \in InUse(heap) : Ptr(b) = call.ptr /\ b.size = call.len

\* The inductive invariant of the heap.
HeapInv ==
    /\ PMMInv
    /\ HeapTypeOK
    /\ Tiled
    /\ Ascending
    /\ ChainOK
    /\ Backed
    /\ CallOK

\* Outside heap_grow the list is all there is.
LEMMA WholeList ==
    ASSUME HeapTypeOK, chain = <<>>
    PROVE  AllBlocks = heap /\ (Tiled => Ordered(heap) /\ Bytes(heap) = FrameBytes)
<1>1. heap \in Seq(Block)
  BY DEF HeapTypeOK
<1>2. AllBlocks = heap
  BY <1>1, Linking DEF AllBlocks
<1> QED
  BY <1>2 DEF Tiled

\* The pointer arithmetic that leads from an owned pointer to its header.
LEMMA HeaderOf ==
    ASSUME HeapTypeOK, Ordered(heap), NEW b \in InUse(heap)
    PROVE  /\ IndexOf(Ptr(b)) \in DOMAIN heap
           /\ heap[IndexOf(Ptr(b))] = b
<1>0. heap \in Seq(Block) /\ HeaderSize \in Nat
  BY HeapConstants DEF HeapTypeOK
<1>1. PICK j \in DOMAIN heap : b = heap[j]
  BY InInUse
<1>2. PICK i : i = IndexOf(Ptr(b))
  OBVIOUS
<1>3. i \in DOMAIN heap /\ Ptr(heap[i]) = Ptr(b)
  BY <1>1, <1>2 DEF IndexOf
<1>4. heap[i].addr \in Nat /\ heap[j].addr \in Nat
  BY <1>0, <1>3, BlockFacts
<1>5. heap[i].addr = heap[j].addr
  BY <1>0, <1>1, <1>3, <1>4 DEF Ptr
<1>6. i = j
  BY <1>0, <1>3, <1>5, DistinctAddrs
<1> QED
  BY <1>1, <1>2, <1>6
-----------------------------------------------------------------------------
\* The empty heap satisfies the invariant.
LEMMA HeapInvInit == HeapInit => HeapInv
<1> SUFFICES ASSUME HeapInit
             PROVE  HeapInv
  OBVIOUS
<1>1. /\ PMMInit /\ heap = <<>> /\ chain = <<>> /\ pc = "idle" /\ call = NoCall
      /\ cur = 1 /\ live = <<>> /\ held = {}
  BY DEF HeapInit, PMMInit
<1>2. PMMInv
  BY <1>1, InvInit
<1>3. HeapTypeOK
  <2>1. heap \in Seq(Block) /\ chain \in Seq(Block) /\ DOMAIN live = {}
    BY <1>1
  <2>2. call \in [op : {"none", "heap_init", "kmalloc", "kcalloc", "krealloc"},
                  size : Nat, need : Nat, ptr : Nat, new : Nat, len : Nat]
    BY <1>1 DEF NoCall
  <2> QED
    BY <1>1, <1>2, <2>1, <2>2 DEF PMMInv, HeapTypeOK
<1>4. DOMAIN heap = {} /\ DOMAIN chain = {} /\ DOMAIN live = {}
  BY <1>1
<1>5. Ordered(heap) /\ Bytes(heap) = {} /\ InUse(heap) = {}
  BY <1>4 DEF Ordered, Bytes, InUse
<1>6. Tiled
  <2>1. AllBlocks = heap
    BY <1>1, <1>3, WholeList
  <2>2. FrameBytes = {}
    BY <1>1 DEF FrameBytes
  <2> QED
    BY <1>5, <2>1, <2>2 DEF Tiled
<1>7. Ascending
  BY <1>1 DEF Ascending
<1>8. ChainOK
  BY <1>1, <1>4 DEF ChainOK
<1>9. Backed
  BY <1>4, <1>5 DEF Backed, Linked, Roomy
<1>10. CallOK
  <2>1. call.op = "none"
    BY <1>1 DEF NoCall
  <2> QED
    BY <1>1, <2>1 DEF CallOK
<1> QED
  BY SMTT(30), <1>2, <1>3, <1>6, <1>7, <1>8, <1>9, <1>10 DEF HeapInv

\* What the manager's variables contribute when they do not change.
LEMMA PMMSame ==
    ASSUME HeapInv, UNCHANGED pmmVars
    PROVE  /\ PMMInv' /\ Ascending' /\ PMMTypeOK'
           /\ FrameBytes' = FrameBytes /\ up' = up
<1>1. PMMInv'
  BY InvNext DEF HeapInv
<1>2. PMMTypeOK'
  BY <1>1 DEF PMMInv
<1>3. UNCHANGED <<boot, up, pmm, held, ret>>
  BY DEF pmmVars
<1>4. Ascending'
  BY <1>3 DEF HeapInv, Ascending, FreeFrames
<1>5. FrameBytes' = FrameBytes
  BY <1>3 DEF FrameBytes
<1> QED
  BY <1>1, <1>2, <1>3, <1>4, <1>5

\* The list itself when it does not change.
LEMMA ListSame ==
    ASSUME HeapInv, UNCHANGED pmmVars, UNCHANGED <<heap, chain>>
    PROVE  /\ Tiled'
           /\ InUse(heap)' = InUse(heap)
           /\ heap' \in Seq(Block) /\ chain' \in Seq(Block)
<1>1. heap' = heap /\ chain' = chain
  OBVIOUS
<1>2. FrameBytes' = FrameBytes
  BY PMMSame
<1>3. AllBlocks' = AllBlocks
  BY <1>1 DEF AllBlocks
<1>4. Tiled'
  BY <1>2, <1>3 DEF HeapInv, Tiled
<1>5. InUse(heap)' = InUse(heap)
  BY <1>1
<1> QED
  BY <1>1, <1>4, <1>5 DEF HeapInv, HeapTypeOK

\* Entering kmalloc, on anyone's behalf, keeps the invariant.
LEMMA BeginStep ==
    ASSUME HeapInv, UNCHANGED pmmVars, pc = "idle", up,
           NEW op \in {"heap_init", "kmalloc", "kcalloc", "krealloc"},
           NEW size \in Nat, NEW need \in Nat, NEW ptr \in Nat,
           Begin(op, size, need, ptr),
           op = "heap_init" => heap = <<>>,
           op # "heap_init" => need = size,
           op # "heap_init" /\ NoSizeWraps => size + Alignment - 1 < AddrLimit,
           op = "krealloc" => \E b \in InUse(heap) : Ptr(b) = ptr /\ b.size < size
    PROVE  HeapInv'
<1>1. /\ UNCHANGED <<heap, chain, cur, live>>
      /\ pc' = IF heap = <<>> THEN "init" ELSE "search"
      /\ call' = [NoCall EXCEPT !.op = op, !.size = size, !.need = need, !.ptr = ptr]
  BY DEF Begin
<1>2. /\ call' \in [op : {"none", "heap_init", "kmalloc", "kcalloc", "krealloc"},
                    size : Nat, need : Nat, ptr : Nat, new : Nat, len : Nat]
      /\ call'.op = op /\ call'.size = size /\ call'.need = need /\ call'.ptr = ptr
  BY ZenonT(30), <1>1 DEF NoCall
<1>3. PMMInv' /\ Ascending' /\ PMMTypeOK' /\ up' = up
  BY PMMSame
<1>4. /\ Tiled' /\ InUse(heap)' = InUse(heap)
      /\ heap' \in Seq(Block) /\ chain' \in Seq(Block)
  BY <1>1, ListSame
<1>5. HeapTypeOK'
  <2>1. pc' \in {"idle", "init", "search", "grow", "copy", "release", "coalesce"}
    BY <1>1
  <2>2. cur' \in Nat \ {0} /\ DOMAIN live' \subseteq Nat /\ \A p \in DOMAIN live' : live'[p] \in Nat
    BY <1>1 DEF HeapInv, HeapTypeOK
  <2> QED
    BY <1>2, <1>3, <1>4, <2>1, <2>2 DEF HeapTypeOK
<1>6. ChainOK'
  BY <1>1, <1>3 DEF HeapInv, ChainOK
<1>7. Backed'
  BY <1>1, <1>4 DEF HeapInv, Backed
<1>8. CallOK'
  <2>1. pc' \in {"init", "search"} /\ (op = "heap_init" => pc' = "init")
    BY <1>1
  <2> QED
    BY <1>2, <1>4, <2>1 DEF CallOK
<1> QED
  BY SMTT(30), <1>3, <1>4, <1>5, <1>6, <1>7, <1>8 DEF HeapInv

\* kfree, and krealloc's kfree of the old block.
LEMMA ReleaseStep ==
    ASSUME HeapInv, UNCHANGED pmmVars, pc \in {"idle", "release"},
           NEW ptr \in DOMAIN live, Release(ptr), UNCHANGED <<chain, call>>
    PROVE  HeapInv'
<1>0. /\ heap' = [heap EXCEPT ![IndexOf(ptr)].free = TRUE]
      /\ live' = Disown(ptr) /\ pc' = "coalesce" /\ cur' = 1
      /\ chain' = chain /\ call' = call
  BY DEF Release
<1>1. HeapTypeOK /\ chain = <<>> /\ Tiled /\ Backed /\ CallOK /\ ChainOK
  BY DEF HeapInv, ChainOK
<1>2. heap \in Seq(Block) /\ Ordered(heap) /\ Bytes(heap) = FrameBytes
  BY <1>1, WholeList DEF HeapTypeOK
<1>3. PICK b \in InUse(heap) : Ptr(b) = ptr
  BY <1>1 DEF Backed, Linked
<1>4. PICK i : i = IndexOf(ptr)
  OBVIOUS
<1>5. i \in DOMAIN heap /\ heap[i] = b
  BY SMTT(30), <1>1, <1>2, <1>3, <1>4, HeaderOf
<1>6. Rewritten(heap', heap, i, heap[i].size, TRUE)
  BY Zenon, <1>0, <1>2, <1>4, <1>5, SetFree
<1>7. /\ heap' \in Seq(Block) /\ Ordered(heap') /\ Bytes(heap') = Bytes(heap)
  BY Zenon, <1>2, <1>5, <1>6, FlagKeepsPlaces
<1>8. InUse(heap') = {x \in InUse(heap) : x.addr # b.addr}
  BY ZenonT(30), <1>2, <1>5, <1>6, FreeBlock
<1>9. PMMInv' /\ Ascending' /\ PMMTypeOK' /\ up' = up /\ FrameBytes' = FrameBytes
  BY PMMSame
<1>10. HeapTypeOK'
  <2>1. DOMAIN live' \subseteq Nat /\ \A p \in DOMAIN live' : live'[p] \in Nat
    BY <1>0, <1>1 DEF HeapTypeOK, Disown
  <2> QED
    BY SMTT(30), <1>0, <1>1, <1>7, <1>9, <2>1 DEF HeapTypeOK
<1>11. Tiled'
  <2>1. AllBlocks' = heap'
    BY SMTT(30), <1>0, <1>1, <1>7, Linking DEF AllBlocks
  <2> QED
    BY SMTT(30), <1>2, <1>7, <1>9, <2>1 DEF Tiled
<1>12. ChainOK'
  <2>1. ~up => pc = "idle" /\ heap = <<>>
    BY <1>1 DEF ChainOK
  <2>2. heap # <<>>
    BY <1>2, <1>5
  <2> QED
    BY SMTT(30), <1>0, <1>1, <1>9, <2>1, <2>2 DEF ChainOK
<1>13. Backed'
  <2>1. \A x \in InUse(heap) : x.addr \in Nat
    <3> TAKE x \in InUse(heap)
    <3>1. PICK j \in DOMAIN heap : x = heap[j]
      BY InInUse
    <3> QED
      BY <1>2, <3>1, BlockFacts
  <2>2. \A x \in InUse(heap) : x.addr # b.addr <=> Ptr(x) # ptr
    BY <1>3, <2>1, HeapConstants DEF Ptr
  <2>3. /\ DOMAIN live' = DOMAIN live \ {ptr}
        /\ \A p \in DOMAIN live' : live'[p] = live[p]
    BY <1>0 DEF Disown
  <2>4. Linked(InUse(heap'), live')
    BY SMTT(30), <1>1, <1>8, <2>2, <2>3 DEF Backed, Linked
  <2>5. NoSizeWraps => Roomy(InUse(heap'), live')
    BY SMTT(30), <1>1, <1>8, <2>2, <2>3, <2>4 DEF Backed, Linked, Roomy
  <2> QED
    BY <2>4, <2>5 DEF Backed
<1>14. CallOK'
  <2>1. pc' = "coalesce" /\ call' = call
    BY <1>0
  <2> QED
    BY <1>1, <2>1 DEF CallOK
<1> QED
  BY SMTT(30), <1>9, <1>10, <1>11, <1>12, <1>13, <1>14 DEF HeapInv

\* A krealloc that stays in place.
LEMMA ResizeStep ==
    ASSUME HeapInv, UNCHANGED pmmVars, pc = "idle",
           NEW ptr \in DOMAIN live, NEW size \in Nat, heap[IndexOf(ptr)].size >= size,
           live' = [live EXCEPT ![ptr] = size],
           UNCHANGED <<heap, chain, pc, call, cur>>
    PROVE  HeapInv'
<1>1. HeapTypeOK /\ chain = <<>> /\ Tiled /\ Backed /\ CallOK /\ ChainOK
  BY DEF HeapInv, ChainOK
<1>2. heap \in Seq(Block) /\ Ordered(heap)
  BY <1>1, WholeList DEF HeapTypeOK
<1>3. PMMInv' /\ Ascending' /\ PMMTypeOK' /\ up' = up
  BY PMMSame
<1>4. /\ Tiled' /\ InUse(heap)' = InUse(heap)
      /\ heap' \in Seq(Block) /\ chain' \in Seq(Block)
  BY ListSame
<1>5. /\ DOMAIN live' = DOMAIN live /\ live'[ptr] = size
      /\ \A p \in DOMAIN live : p # ptr => live'[p] = live[p]
  BY <1>1 DEF HeapTypeOK
<1>6. HeapTypeOK'
  BY SMTT(30), <1>1, <1>3, <1>4, <1>5 DEF HeapTypeOK
<1>7. \A b \in InUse(heap) : Ptr(b) = ptr => size <= b.size
  <2> SUFFICES ASSUME NEW b \in InUse(heap), Ptr(b) = ptr
               PROVE  size <= b.size
    OBVIOUS
  <2>1. IndexOf(ptr) \in DOMAIN heap /\ heap[IndexOf(ptr)] = b
    BY <1>1, <1>2, HeaderOf
  <2>2. b.size \in Nat
    BY <1>2, <2>1, BlockFacts
  <2> QED
    BY <2>1, <2>2
<1>8. Backed'
  <2>1. Linked(InUse(heap)', live')
    BY <1>1, <1>4, <1>5 DEF Backed, Linked
  <2>2. NoSizeWraps => Roomy(InUse(heap)', live')
    BY SMTT(30), <1>1, <1>4, <1>5, <1>7 DEF Backed, Linked, Roomy
  <2> QED
    BY <2>1, <2>2 DEF Backed
<1>9. ChainOK'
  BY <1>1, <1>3 DEF ChainOK
<1>10. CallOK'
  BY <1>1, <1>4 DEF CallOK
<1> QED
  BY SMTT(30), <1>3, <1>4, <1>6, <1>8, <1>9, <1>10 DEF HeapInv

\* krealloc's mem_copy.
LEMMA CopyStep ==
    ASSUME HeapInv, krealloc_copy
    PROVE  HeapInv'
<1>0. /\ pc = "copy" /\ pc' = "release"
      /\ call' = [call EXCEPT !.len = heap[IndexOf(call.ptr)].size]
      /\ UNCHANGED pmmVars /\ UNCHANGED <<heap, chain, cur, live>>
  BY DEF krealloc_copy
<1>1. HeapTypeOK /\ chain = <<>> /\ Tiled /\ Backed /\ CallOK /\ ChainOK
  BY <1>0 DEF HeapInv, ChainOK
<1>2. heap \in Seq(Block) /\ Ordered(heap)
  BY <1>1, WholeList DEF HeapTypeOK
<1>3. PICK b \in InUse(heap) : Ptr(b) = call.ptr /\ b.size < call.size
  BY <1>0, <1>1 DEF CallOK
<1>4. IndexOf(call.ptr) \in DOMAIN heap /\ heap[IndexOf(call.ptr)] = b
  BY SMTT(30), <1>1, <1>2, <1>3, HeaderOf
<1>5. b.size \in Nat
  BY <1>2, <1>4, BlockFacts
<1>6. call' = [call EXCEPT !.len = b.size]
  BY <1>0, <1>4
<1>7. /\ call' \in [op : {"none", "heap_init", "kmalloc", "kcalloc", "krealloc"},
                    size : Nat, need : Nat, ptr : Nat, new : Nat, len : Nat]
      /\ call'.op = call.op /\ call'.size = call.size /\ call'.need = call.need
      /\ call'.ptr = call.ptr /\ call'.new = call.new /\ call'.len = b.size
  BY <1>1, <1>5, <1>6 DEF HeapTypeOK
<1>8. PMMInv' /\ Ascending' /\ PMMTypeOK' /\ up' = up
  BY <1>0, PMMSame
<1>9. /\ Tiled' /\ InUse(heap)' = InUse(heap)
      /\ heap' \in Seq(Block) /\ chain' \in Seq(Block)
  BY <1>0, ListSame
<1>10. HeapTypeOK'
  BY SMTT(30), <1>0, <1>1, <1>7, <1>8, <1>9 DEF HeapTypeOK
<1>11. ChainOK'
  BY <1>0, <1>1, <1>8 DEF ChainOK
<1>12. Backed'
  BY SMTT(30), <1>0, <1>1, <1>9 DEF Backed
<1>13. CallOK'
  BY SMTT(30), <1>0, <1>1, <1>3, <1>7, <1>9 DEF CallOK
<1> QED
  BY SMTT(30), <1>8, <1>9, <1>10, <1>11, <1>12, <1>13 DEF HeapInv

\* kmalloc's walk takes a block, or finds none and goes on to grow.
LEMMA SearchStep ==
    ASSUME HeapInv, kmalloc_search
    PROVE  HeapInv'
<1>0. pc = "search" /\ UNCHANGED pmmVars /\ chain' = chain /\ cur' = cur
  BY DEF kmalloc_search
<1>1. HeapTypeOK /\ chain = <<>> /\ Tiled /\ Backed /\ CallOK /\ ChainOK
  BY <1>0 DEF HeapInv, ChainOK
<1>2. heap \in Seq(Block) /\ Ordered(heap) /\ Bytes(heap) = FrameBytes
  BY <1>1, WholeList DEF HeapTypeOK
<1>3. PMMInv' /\ Ascending' /\ PMMTypeOK' /\ up' = up /\ FrameBytes' = FrameBytes
  BY <1>0, PMMSame
<1>4. call.op \in {"kmalloc", "kcalloc", "krealloc"}
  BY <1>0, <1>1 DEF HeapTypeOK, CallOK
<1>5. CASE Fits = {}
  <2>0. pc' = "grow" /\ UNCHANGED <<heap, chain, call, live, cur>>
    BY <1>0, <1>5 DEF kmalloc_search
  <2>1. /\ Tiled' /\ InUse(heap)' = InUse(heap)
        /\ heap' \in Seq(Block) /\ chain' \in Seq(Block)
    BY SMTT(30), <1>0, <2>0, ListSame
  <2>2. HeapTypeOK'
    BY SMTT(30), <1>1, <1>3, <2>0, <2>1 DEF HeapTypeOK
  <2>3. ChainOK'
    BY SMTT(30), <1>0, <1>1, <1>3, <2>0 DEF ChainOK
  <2>4. Backed'
    BY SMTT(30), <1>1, <2>0, <2>1 DEF Backed
  <2>5. CallOK'
    BY SMTT(30), <1>0, <1>1, <1>4, <2>0, <2>1 DEF CallOK
  <2> QED
    BY SMTT(30), <1>3, <2>1, <2>2, <2>3, <2>4, <2>5 DEF HeapInv
<1>6. CASE Fits # {}
  <2>1. PICK i : i = Min(Fits)
    OBVIOUS
  <2>2. i \in DOMAIN heap /\ heap[i].free /\ heap[i].size >= wanted_size
    <3>1. Fits \in SUBSET Nat
      BY <1>2 DEF Fits
    <3>2. i \in Fits
      BY SMTT(30), <1>6, <2>1, <3>1, LowestFrame
    <3> QED
      BY <3>2 DEF Fits
  <2>3. PICK ptr : ptr = Ptr(heap[i])
    OBVIOUS
  <2>4. PICK t : t = split_block(heap, i, wanted_size)
    OBVIOUS
  <2>5. /\ heap' = [t EXCEPT ![i].free = FALSE]
        /\ live' = Own(ptr, call.need)
        /\ IF call.op = "krealloc"
           THEN pc' = "copy" /\ call' = [call EXCEPT !.new = ptr]
           ELSE pc' = "idle" /\ call' = NoCall
    BY SMTT(30), <1>6, <2>1, <2>3, <2>4 DEF kmalloc_search, Return
  <2>6. wanted_size \in Nat /\ (NoSizeWraps => wanted_size >= call.size)
    <3>1. call.size \in Nat
      BY <1>1 DEF HeapTypeOK
    <3>2. NoSizeWraps => call.size + Alignment - 1 < AddrLimit
      BY SMTT(30), <1>1, <1>4 DEF CallOK
    <3> QED
      BY SMTT(30), <3>1, <3>2, AlignUp DEF wanted_size
  <2>7. /\ t \in Seq(Block) /\ Ordered(t) /\ Bytes(t) = Bytes(heap)
        /\ InUse(t) = InUse(heap)
        /\ i \in DOMAIN t /\ t[i].free /\ t[i].addr = heap[i].addr
        /\ t[i].size >= wanted_size
    <3>1. PICK w : w = wanted_size
      OBVIOUS
    <3>2. w \in Nat /\ heap[i].size >= w /\ t = split_block(heap, i, w)
      BY SMTT(30), <2>2, <2>4, <2>6, <3>1
    <3>3. SplitAt(t, heap, i, w)
      BY SMTT(30), <1>2, <2>2, <3>2, SplitLemma
    <3> QED
      BY SMTT(30), <3>1, <3>2, <3>3 DEF SplitAt
  <2>8. Rewritten(heap', t, i, t[i].size, FALSE)
    BY Zenon, <2>5, <2>7, SetFree
  <2>9. heap' \in Seq(Block) /\ i \in DOMAIN heap' /\ Ordered(heap') /\ Bytes(heap') = Bytes(heap)
    BY ZenonT(30), <2>7, <2>8, FlagKeepsPlaces
  <2>10. /\ InUse(heap') = InUse(heap) \cup {heap'[i]}
         /\ \A b \in InUse(heap) : b.addr # heap[i].addr
    <3>1. /\ InUse(heap') = InUse(t) \cup {heap'[i]}
          /\ \A b \in InUse(t) : b.addr # t[i].addr
      BY <2>7, <2>8, TakeBlock, Zenon
    <3> QED
      BY <2>7, <3>1, Zenon
  <2>11. heap'[i].size >= wanted_size /\ Ptr(heap'[i]) = ptr /\ heap[i].addr \in Nat /\ ptr \in Nat
    <3>1. heap'[i].addr = heap[i].addr /\ heap'[i].size = t[i].size
      BY <2>7, <2>8 DEF Rewritten
    <3>2. heap[i].addr \in Nat
      BY SMTT(30), <1>2, <2>2, BlockFacts
    <3>3. Ptr(heap'[i]) = ptr
      BY <2>3, <3>1 DEF Ptr
    <3>4. ptr \in Nat
      BY SMTT(30), <2>3, <3>2, HeapConstants DEF Ptr
    <3> QED
      BY SMTT(30), <2>7, <3>1, <3>2, <3>3, <3>4
  <2>12. \A b \in InUse(heap) : Ptr(b) # ptr
    <3> TAKE b \in InUse(heap)
    <3>1. PICK j \in DOMAIN heap : b = heap[j]
      BY InInUse
    <3>2. b.addr \in Nat
      BY SMTT(30), <1>2, <3>1, BlockFacts
    <3>3. b.addr # heap[i].addr
      BY <2>10
    <3> QED
      BY SMTT(30), <2>3, <2>11, <3>2, <3>3, HeapConstants DEF Ptr
  <2>13. /\ DOMAIN live' = DOMAIN live \cup {ptr} /\ live'[ptr] = call.need
         /\ \A p \in DOMAIN live : p # ptr => live'[p] = live[p]
    BY <2>5 DEF Own
  <2>14. HeapTypeOK'
    <3>1. call' \in [op : {"none", "heap_init", "kmalloc", "kcalloc", "krealloc"},
                     size : Nat, need : Nat, ptr : Nat, new : Nat, len : Nat]
      <4>1. CASE call.op = "krealloc"
        BY SMTT(30), <1>1, <2>5, <2>11, <4>1 DEF HeapTypeOK
      <4>2. CASE call.op # "krealloc"
        BY <2>5, <4>2 DEF NoCall
      <4> QED
        BY <4>1, <4>2
    <3>2. pc' \in {"idle", "copy"}
      BY <2>5
    <3>3. DOMAIN live' \subseteq Nat /\ \A p \in DOMAIN live' : live'[p] \in Nat
      BY SMTT(30), <1>1, <2>11, <2>13 DEF HeapTypeOK
    <3>4. chain' \in Seq(Block) /\ cur' \in Nat \ {0}
      BY <1>0, <1>1 DEF HeapTypeOK
    <3> QED
      BY SMTT(30), <1>3, <2>9, <3>1, <3>2, <3>3, <3>4 DEF HeapTypeOK
  <2>15. Tiled'
    <3>1. AllBlocks' = heap'
      BY SMTT(30), <1>0, <1>1, <2>9, Linking DEF AllBlocks
    <3> QED
      BY SMTT(30), <1>2, <1>3, <2>9, <3>1 DEF Tiled
  <2>16. ChainOK'
    <3>1. up
      BY <1>0, <1>1 DEF ChainOK
    <3> QED
      BY SMTT(30), <1>0, <1>1, <1>3, <3>1 DEF ChainOK
  <2>17. Backed'
    <3>1. Linked(InUse(heap'), live')
      BY SMTT(30), <1>1, <2>10, <2>11, <2>13 DEF Backed, Linked
    <3>2. ASSUME NoSizeWraps
          PROVE  Roomy(InUse(heap'), live')
      <4>1. live'[Ptr(heap'[i])] <= heap'[i].size
        <5>1. call.need = call.size /\ call.size \in Nat /\ heap'[i].size \in Nat
          BY SMTT(30), <1>1, <1>4, <2>9, BlockFacts DEF CallOK, HeapTypeOK
        <5> QED
          BY SMTT(30), <2>6, <2>11, <2>13, <3>2, <5>1
      <4>2. \A b \in InUse(heap) : live'[Ptr(b)] <= b.size
        BY SMTT(30), <1>1, <2>12, <2>13, <3>2 DEF Backed, Linked, Roomy
      <4> QED
        BY SMTT(30), <2>10, <4>1, <4>2 DEF Roomy
    <3> QED
      BY <3>1, <3>2 DEF Backed
  <2>18. CallOK'
    <3>1. CASE call.op # "krealloc"
      <4>1. pc' = "idle" /\ call'.op = "none"
        BY SMTT(30), <2>5, <3>1 DEF NoCall
      <4> QED
        BY <4>1 DEF CallOK
    <3>2. CASE call.op = "krealloc"
      <4>1. /\ pc' = "copy" /\ call'.op = "krealloc" /\ call'.size = call.size
            /\ call'.need = call.need /\ call'.ptr = call.ptr /\ call'.new = ptr
        BY SMTT(30), <1>1, <2>5, <3>2 DEF HeapTypeOK
      <4>2. \E b \in InUse(heap') : Ptr(b) = call'.ptr /\ b.size < call'.size
        BY SMTT(30), <1>0, <1>1, <2>10, <3>2, <4>1 DEF CallOK
      <4>3. NoSizeWraps => \E b \in InUse(heap') : Ptr(b) = call'.new /\ b.size >= call'.size
        <5>1. call.size \in Nat /\ heap'[i].size \in Nat
          BY SMTT(30), <1>1, <2>9, BlockFacts DEF HeapTypeOK
        <5>2. NoSizeWraps => heap'[i].size >= call.size
          BY SMTT(30), <2>6, <2>11, <5>1
        <5> QED
          BY SMTT(30), <2>10, <2>11, <4>1, <5>2
      <4>4. /\ call'.need = call'.size
            /\ NoSizeWraps => call'.size + Alignment - 1 < AddrLimit
        BY SMTT(30), <1>1, <1>4, <4>1 DEF CallOK
      <4> QED
        BY SMTT(30), <4>1, <4>2, <4>3, <4>4 DEF CallOK
    <3> QED
      BY <3>1, <3>2
  <2> QED
    BY SMTT(30), <1>3, <2>14, <2>15, <2>16, <2>17, <2>18 DEF HeapInv
<1> QED
  BY <1>5, <1>6

\* One iteration of coalesce_blocks.
LEMMA CoalesceStep ==
    ASSUME HeapInv, coalesce_blocks
    PROVE  HeapInv'
<1>0. pc = "coalesce" /\ UNCHANGED pmmVars /\ chain' = chain /\ live' = live
  BY DEF coalesce_blocks
<1>1. HeapTypeOK /\ chain = <<>> /\ Tiled /\ Backed /\ CallOK /\ ChainOK
  BY <1>0 DEF HeapInv, ChainOK
<1>2. /\ heap \in Seq(Block) /\ Ordered(heap) /\ Bytes(heap) = FrameBytes
      /\ cur \in Nat \ {0} /\ Len(heap) \in Nat
  BY <1>1, WholeList DEF HeapTypeOK
<1>3. PMMInv' /\ Ascending' /\ PMMTypeOK' /\ up' = up /\ FrameBytes' = FrameBytes
  BY <1>0, PMMSame
<1>4. heap' \in Seq(Block) /\ Ordered(heap') /\ Bytes(heap') = Bytes(heap) /\ InUse(heap') = InUse(heap)
  <2>1. CASE heap' = heap
    BY <1>2, <2>1
  <2>2. CASE cur < Len(heap) /\ Mergeable(heap, cur) /\ heap' = Merge(heap, cur)
    <3>1. cur \in 1 .. Len(heap) - 1
      BY <1>2, <2>2
    <3> QED
      BY SMTT(30), <1>2, <2>2, <3>1, MergeLemma
  <2> QED
    BY <2>1, <2>2 DEF coalesce_blocks
<1>5. \/ pc' = "coalesce" /\ call' = call
      \/ pc' = "idle" /\ call' = NoCall
  BY <1>0 DEF coalesce_blocks, Return
<1>6. cur' \in Nat \ {0}
  BY <1>2 DEF coalesce_blocks
<1>7. HeapTypeOK'
  <2>1. call' \in [op : {"none", "heap_init", "kmalloc", "kcalloc", "krealloc"},
                   size : Nat, need : Nat, ptr : Nat, new : Nat, len : Nat]
    BY <1>1, <1>5 DEF HeapTypeOK, NoCall
  <2> QED
    BY SMTT(30), <1>0, <1>1, <1>3, <1>4, <1>5, <1>6, <2>1 DEF HeapTypeOK
<1>8. Tiled'
  <2>1. AllBlocks' = heap'
    BY SMTT(30), <1>0, <1>1, <1>4, Linking DEF AllBlocks
  <2> QED
    BY SMTT(30), <1>2, <1>3, <1>4, <2>1 DEF Tiled
<1>9. ChainOK'
  <2>1. up
    BY <1>0, <1>1 DEF ChainOK
  <2> QED
    BY SMTT(30), <1>0, <1>1, <1>3, <2>1 DEF ChainOK
<1>10. Backed'
  BY SMTT(30), <1>0, <1>1, <1>4 DEF Backed
<1>11. CallOK'
  <2>1. CASE pc' = "coalesce" /\ call' = call
    BY SMTT(30), <1>0, <1>1, <2>1 DEF CallOK
  <2>2. CASE pc' = "idle" /\ call' = NoCall
    <3>1. call'.op = "none"
      BY <2>2 DEF NoCall
    <3> QED
      BY <2>2, <3>1 DEF CallOK
  <2> QED
    BY SMTT(30), <1>5, <2>1, <2>2
<1> QED
  BY <1>3, <1>7, <1>8, <1>9, <1>10, <1>11 DEF HeapInv
=============================================================================
