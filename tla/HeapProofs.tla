----------------------------- MODULE HeapProofs -----------------------------
(***************************************************************************)
(* The block list tiles the heap's frames and backs every allocation, for  *)
(* every frame size, header size and sequence of requests.                 *)
(***************************************************************************)
EXTENDS HeapSteps

\* A successful pmm_alloc_frame hands out the lowest free frame, never frame 0.
LEMMA AllocFacts ==
    ASSUME PMMInv, pmm_alloc_frame, FreeFrames # {}
    PROVE  \E f \in FreeFrames :
               /\ f \in Frame /\ f # 0
               /\ \A g \in FreeFrames : f <= g
               /\ held' = held \cup {f}
               /\ FreeFrames' = FreeFrames \ {f}
               /\ ret' = f * FrameSize
<1>1. PICK f : f = Min(FreeFrames)
  OBVIOUS
<1>2. f \in FreeFrames /\ f \in Frame /\ \A g \in FreeFrames : f <= g
  <2>1. FreeFrames \in SUBSET Nat /\ FreeFrames \subseteq Frame
    BY DEF FreeFrames, Frame
  <2> QED
    BY Zenon, <1>1, <2>1, LowestFrame
<1>3. up /\ pmm' = MarkUsed(pmm, {f}) /\ held' = held \cup {f} /\ ret' = f * FrameSize
  BY <1>1 DEF pmm_alloc_frame
<1>4. /\ pmm \in [bitmap : SUBSET Frame, free_frames : Nat]
      /\ pmm.free_frames = Cardinality(Frame \ pmm.bitmap)
      /\ f \in Frame /\ f \notin pmm.bitmap
  BY <1>2, <1>3 DEF PMMInv, PMMTypeOK, FreeCountExact, FreeFrames
<1>5. pmm'.bitmap = pmm.bitmap \cup {f}
  BY Zenon, <1>3, <1>4, MarkOne
<1>6. FreeFrames' = FreeFrames \ {f}
  BY <1>5 DEF FreeFrames
<1>7. f # 0
  BY <1>2, <1>3, ZeroNotGrantable DEF PMMInv, FramesConserved, PMMTypeOK
<1> QED
  BY <1>2, <1>3, <1>6, <1>7

\* One iteration of heap_grow.
LEMMA GrowStep ==
    ASSUME HeapInv, heap_grow
    PROVE  HeapInv'
<1> DEFINE min_payload == IF pc = "init" THEN InitPayload ELSE wanted_size
<1>0. pc \in {"init", "grow"} /\ pmm_alloc_frame /\ cur' = cur /\ live' = live
  BY DEF heap_grow
<1>1. PMMInv /\ HeapTypeOK /\ Tiled /\ Ascending /\ Backed /\ CallOK /\ ChainOK
  BY DEF HeapInv
<1>2. heap \in Seq(Block) /\ chain \in Seq(Block) /\ \A i \in DOMAIN chain : chain[i].free
  BY <1>1 DEF HeapTypeOK, ChainOK
<1>3. PMMInv' /\ PMMTypeOK' /\ up /\ up' = up
  <2>1. PMMInv'
    BY <1>0, <1>1, InvNext DEF PMMNext
  <2> QED
    BY <1>0, <2>1 DEF PMMInv, pmm_alloc_frame
<1>4. PICK grown : grown = IF ret' = 0 THEN chain ELSE Append(chain, NewBlock(ret'))
  BY ZenonT(30)
<1>5. \/ /\ heap' = heap /\ chain' = grown /\ pc' = pc /\ call' = call
      \/ /\ heap' = heap \o grown /\ chain' = <<>>
         /\ \/ pc' = "idle" /\ call' = NoCall
            \/ pc' = "search" /\ call' = call /\ call.op # "heap_init"
  BY <1>4 DEF heap_grow, Return
<1>6. /\ grown \in Seq(Block) /\ \A i \in DOMAIN grown : grown[i].free
      /\ Ascending'
      /\ Ordered(heap \o grown) /\ Bytes(heap \o grown) = FrameBytes'
  <2>1. CASE FreeFrames = {}
    <3>1. ret' = 0 /\ UNCHANGED <<pmm, held>>
      BY <1>0, <2>1 DEF pmm_alloc_frame
    <3>2. grown = chain
      BY <1>4, <3>1
    <3>3. Ascending' /\ FrameBytes' = FrameBytes
      BY <1>1, <3>1 DEF Ascending, FreeFrames, FrameBytes
    <3> QED
      BY <1>1, <1>2, <3>2, <3>3 DEF Tiled, AllBlocks
  <2>2. CASE FreeFrames # {}
    <3>1. PICK f \in FreeFrames :
               /\ f \in Frame /\ f # 0
               /\ \A g \in FreeFrames : f <= g
               /\ held' = held \cup {f}
               /\ FreeFrames' = FreeFrames \ {f}
               /\ ret' = f * FrameSize
      BY SMTT(30), <1>0, <1>1, <2>2, AllocFacts
    <3>2. f \in Nat /\ FrameSize \in Nat \ {0} /\ held \in SUBSET Frame
      BY <1>1, <3>1, SizesAssumption DEF Frame, PMMInv, PMMTypeOK
    <3>3. ret' # 0 /\ ret' \in Nat
      BY <3>1, <3>2
    <3>4. PICK b : b = NewBlock(f * FrameSize)
      OBVIOUS
    <3>5. /\ b \in Block /\ b.addr = f * FrameSize /\ b.free
          /\ End(b) = (f + 1) * FrameSize
      <4>1. b = [addr |-> f * FrameSize, size |-> Payload, free |-> TRUE]
        BY <3>4 DEF NewBlock
      <4>2. Payload \in Nat /\ HeaderSize + Payload = FrameSize /\ HeaderSize \in Nat
        BY HeapConstants
      <4>3. f * FrameSize \in Nat /\ (f + 1) * FrameSize = f * FrameSize + FrameSize
        BY <3>1, FrameBounds
      <4>4. b \in Block /\ b.addr = f * FrameSize /\ b.size = Payload /\ b.free
        BY SMTT(30), <4>1, <4>2, <4>3 DEF Block
      <4>5. End(b) = (f + 1) * FrameSize
        BY <4>2, <4>3, <4>4 DEF End
      <4> QED
        BY <4>4, <4>5
    <3>6. grown = Append(chain, b)
      BY SMTT(30), <1>4, <3>1, <3>3, <3>4
    <3>7. grown \in Seq(Block) /\ \A i \in DOMAIN grown : grown[i].free
      <4>1. /\ grown \in Seq(Block) /\ DOMAIN chain = 1 .. Len(chain) /\ Len(chain) \in Nat
            /\ DOMAIN grown = 1 .. Len(chain) + 1
            /\ \A i \in 1 .. Len(chain) : grown[i] = chain[i]
            /\ grown[Len(chain) + 1] = b
        BY <1>2, <3>5, <3>6
      <4>2. ASSUME NEW i \in DOMAIN grown
            PROVE  grown[i].free
        <5>1. CASE i = Len(chain) + 1
          BY <3>5, <4>1, <5>1
        <5>2. CASE i # Len(chain) + 1
          <6>1. i \in DOMAIN chain /\ grown[i] = chain[i]
            BY <4>1, <5>2
          <6> QED
            BY <1>2, <6>1
        <5> QED
          BY <5>1, <5>2
      <4> QED
        BY <4>1, <4>2
    <3>8. AllBlocks \in Seq(Block) /\ heap \o grown = Append(AllBlocks, b)
      BY SMTT(30), <1>2, <3>5, <3>6, Linking DEF AllBlocks
    <3>9. \A g \in held : g < f
      BY <1>1 DEF Ascending
    <3>10. \A i \in DOMAIN AllBlocks : End(AllBlocks[i]) <= b.addr
      BY Zenon, <1>1, <3>1, <3>2, <3>5, <3>8, <3>9, FreshAbove DEF Tiled, FrameBytes
    <3>11. /\ Ordered(heap \o grown)
           /\ Bytes(heap \o grown) = Bytes(AllBlocks) \cup (b.addr .. End(b) - 1)
      BY Zenon, <1>1, <3>5, <3>8, <3>10, AppendBlock DEF Tiled
    <3>12. FrameBytes' = FrameBytes \cup (f * FrameSize .. (f + 1) * FrameSize - 1)
      BY <3>1 DEF FrameBytes
    <3>13. Ascending'
      <4>1. \A g \in FreeFrames : g \in Nat
        BY DEF FreeFrames, Frame
      <4> QED
        BY SMTT(30), <1>1, <3>1, <3>2, <4>1 DEF Ascending
    <3> QED
      BY SMTT(30), <1>1, <3>5, <3>7, <3>11, <3>12, <3>13 DEF Tiled
  <2> QED
    BY <2>1, <2>2
<1>7. /\ heap' \in Seq(Block) /\ chain' \in Seq(Block)
      /\ InUse(heap') = InUse(heap) /\ AllBlocks' = heap \o grown
      /\ \A i \in DOMAIN chain' : chain'[i].free
  <2>1. CASE heap' = heap /\ chain' = grown
    BY SMTT(30), <1>2, <1>6, <2>1 DEF AllBlocks
  <2>2. CASE heap' = heap \o grown /\ chain' = <<>>
    <3>1. heap' \in Seq(Block) /\ InUse(heap') = InUse(heap)
      BY SMTT(30), <1>2, <1>6, <2>2, LinkFree
    <3>2. heap' \o <<>> = heap'
      BY <3>1, Linking
    <3>3. AllBlocks' = heap \o grown
      BY <2>2, <3>2 DEF AllBlocks
    <3>4. chain' \in Seq(Block) /\ DOMAIN chain' = {}
      BY <2>2
    <3> QED
      BY SMTT(30), <3>1, <3>3, <3>4
  <2> QED
    BY SMTT(30), <1>5, <2>1, <2>2
<1>8. HeapTypeOK'
  <2>1. call' \in [op : {"none", "heap_init", "kmalloc", "kcalloc", "krealloc"},
                   size : Nat, need : Nat, ptr : Nat, new : Nat, len : Nat]
    BY <1>1, <1>5 DEF HeapTypeOK, NoCall
  <2>2. pc' \in {"idle", "init", "search", "grow"}
    BY <1>0, <1>5
  <2> QED
    BY SMTT(30), <1>0, <1>1, <1>3, <1>7, <2>1, <2>2 DEF HeapTypeOK
<1>9. Tiled'
  BY <1>6, <1>7 DEF Tiled
<1>10. ChainOK'
  <2>1. pc' \notin {"init", "grow"} => chain' = <<>>
    BY <1>0, <1>5
  <2> QED
    BY <1>3, <1>7, <2>1 DEF ChainOK
<1>11. Backed'
  BY SMTT(30), <1>0, <1>1, <1>7 DEF Backed
<1>12. CallOK'
  <2>1. CASE pc' = "idle" /\ call' = NoCall
    <3>1. call'.op = "none"
      BY <2>1 DEF NoCall
    <3> QED
      BY <2>1, <3>1 DEF CallOK
  <2>2. CASE pc' = pc /\ call' = call
    BY SMTT(30), <1>0, <1>1, <1>7, <2>2 DEF CallOK
  <2>3. CASE pc' = "search" /\ call' = call /\ call.op # "heap_init"
    BY SMTT(30), <1>0, <1>1, <1>7, <2>3 DEF CallOK
  <2> QED
    BY SMTT(30), <1>5, <2>1, <2>2, <2>3
<1> QED
  BY SMTT(30), <1>3, <1>6, <1>8, <1>9, <1>10, <1>11, <1>12 DEF HeapInv

\* pmm_init, before there is a heap.
LEMMA BootStep ==
    ASSUME HeapInv, boot_memory
    PROVE  HeapInv'
<1>0. pmm_init /\ pc = "idle" /\ UNCHANGED heapVars
  BY DEF boot_memory
<1>1. /\ UNCHANGED <<heap, chain, pc, call, cur, live>> /\ ~up /\ up' /\ held' = held
  BY <1>0 DEF heapVars, pmm_init
<1>2. PMMInv'
  BY <1>0, InvNext DEF HeapInv, PMMNext
<1>3. PMMTypeOK'
  BY <1>2 DEF PMMInv
<1>4. Ascending'
  <2>1. held = {}
    BY <1>1 DEF HeapInv, PMMInv
  <2> QED
    BY <1>1, <2>1 DEF Ascending
<1>5. AllBlocks' = AllBlocks /\ FrameBytes' = FrameBytes /\ InUse(heap)' = InUse(heap)
  BY <1>1 DEF AllBlocks, FrameBytes
<1>6. HeapTypeOK'
  BY <1>1, <1>3 DEF HeapInv, HeapTypeOK
<1>7. Tiled'
  BY <1>5 DEF HeapInv, Tiled
<1>8. ChainOK'
  BY <1>1 DEF HeapInv, ChainOK
<1>9. Backed'
  BY SMTT(30), <1>1, <1>5 DEF HeapInv, Backed
<1>10. CallOK'
  BY <1>1, <1>5 DEF HeapInv, CallOK
<1> QED
  BY SMTT(30), <1>2, <1>4, <1>6, <1>7, <1>8, <1>9, <1>10 DEF HeapInv

\* Entering kmalloc preserves the invariant.
LEMMA KmallocStep ==
    ASSUME HeapInv, NEW s \in Sizes, kmalloc(s)
    PROVE  HeapInv'
<1>1. up /\ pc = "idle" /\ Begin("kmalloc", s, s, 0) /\ UNCHANGED pmmVars
  BY DEF kmalloc
<1>2. s \in Nat /\ (NoSizeWraps => s + Alignment - 1 < AddrLimit)
  BY HeapAssumption DEF NoSizeWraps
<1> QED
  BY SMTT(30), <1>1, <1>2, BeginStep

\* Entering kcalloc preserves it: the division test means the product is exact.
LEMMA KcallocStep ==
    ASSUME HeapInv, NEW n \in Counts, NEW s \in Sizes, kcalloc(n, s)
    PROVE  HeapInv'
<1>1. PICK total : total = (n * s) % AddrLimit
  OBVIOUS
<1>2. /\ up /\ pc = "idle" /\ n # 0 /\ s # 0 /\ total \div s = n
      /\ Begin("kcalloc", total, n * s, 0) /\ UNCHANGED pmmVars
  BY <1>1 DEF kcalloc
<1>3. n \in Nat /\ s \in Nat \ {0}
  BY <1>2, HeapAssumption
<1>4. total = n * s /\ n * s < AddrLimit
  BY SMTT(30), <1>1, <1>2, <1>3, NoWrapProduct
<1>5. total \in Nat /\ (NoSizeWraps => total + Alignment - 1 < AddrLimit)
  BY <1>3, <1>4 DEF NoSizeWraps
<1>6. Begin("kcalloc", total, total, 0)
  BY <1>2, <1>4
<1> QED
  BY SMTT(30), <1>2, <1>5, <1>6, BeginStep

\* kfree of an owned pointer preserves it.
LEMMA KfreeStep ==
    ASSUME HeapInv, NEW p \in DOMAIN live, kfree(p)
    PROVE  HeapInv'
  BY ReleaseStep DEF kfree

\* krealloc preserves it on each of its four paths.
LEMMA KreallocStep ==
    ASSUME HeapInv, NEW p \in DOMAIN live \cup {0}, NEW s \in Sizes, krealloc(p, s)
    PROVE  HeapInv'
<1>0. s \in Nat /\ (NoSizeWraps => s + Alignment - 1 < AddrLimit)
  BY HeapAssumption DEF NoSizeWraps
<1>1. CASE p = 0 /\ kmalloc(s)
  BY <1>1, KmallocStep
<1>2. CASE p # 0 /\ kfree(p)
  BY <1>2, KfreeStep
<1>3. CASE /\ pc = "idle" /\ p # 0 /\ heap[IndexOf(p)].size >= s
           /\ live' = [live EXCEPT ![p] = s]
           /\ UNCHANGED <<pmmVars, heap, chain, pc, call, cur>>
  <2>1. p \in DOMAIN live /\ UNCHANGED pmmVars /\ UNCHANGED <<heap, chain, pc, call, cur>>
    BY <1>3
  <2> QED
    BY ZenonT(30), <1>0, <1>3, <2>1, ResizeStep
<1>4. CASE /\ pc = "idle" /\ p # 0 /\ heap[IndexOf(p)].size < s
           /\ Begin("krealloc", s, s, p) /\ UNCHANGED pmmVars
  <2>1. p \in DOMAIN live
    BY <1>4
  <2>2. HeapTypeOK /\ chain = <<>> /\ Tiled /\ Backed /\ ChainOK
    BY <1>4 DEF HeapInv, ChainOK
  <2>3. Ordered(heap) /\ heap \in Seq(Block) /\ p \in Nat
    BY SMTT(30), <2>1, <2>2, WholeList DEF HeapTypeOK
  <2>4. PICK b \in InUse(heap) : Ptr(b) = p
    BY SMTT(30), <2>1, <2>2 DEF Backed, Linked
  <2>5. b.size < s
    BY SMTT(30), <1>4, <2>2, <2>3, <2>4, HeaderOf
  <2>6. up
    <3>1. PICK j \in DOMAIN heap : b = heap[j]
      BY <2>4, InInUse
    <3>2. heap # <<>>
      BY <2>3, <3>1
    <3> QED
      BY <2>2, <3>2 DEF ChainOK
  <2> QED
    BY SMTT(30), <1>0, <1>4, <2>3, <2>4, <2>5, <2>6, BeginStep
<1> QED
  BY SMTT(30), <1>1, <1>2, <1>3, <1>4 DEF krealloc

\* Every call and every step of a call preserves the invariant.
LEMMA HeapInvNext == HeapInv /\ [HeapNext]_vars => HeapInv'
<1> SUFFICES ASSUME HeapInv, [HeapNext]_vars
             PROVE  HeapInv'
  OBVIOUS
<1>1. CASE boot_memory
  BY <1>1, BootStep
<1>2. CASE heap_init
  <2>1. /\ up /\ pc = "idle" /\ heap = <<>> /\ Begin("heap_init", InitPayload, 0, 0)
        /\ UNCHANGED pmmVars /\ InitPayload \in Nat
    BY <1>2, HeapConstants DEF heap_init
  <2> QED
    BY <2>1, BeginStep
<1>3. CASE \E s \in Sizes : kmalloc(s)
  BY <1>3, KmallocStep
<1>4. CASE \E n \in Counts, s \in Sizes : kcalloc(n, s)
  BY <1>4, KcallocStep
<1>5. CASE \E p \in DOMAIN live : kfree(p)
  BY <1>5, KfreeStep
<1>6. CASE \E p \in DOMAIN live \cup {0}, s \in Sizes : krealloc(p, s)
  BY SMTT(30), <1>6, KreallocStep
<1>7. CASE heap_grow
  BY <1>7, GrowStep
<1>8. CASE kmalloc_search
  BY <1>8, SearchStep
<1>9. CASE krealloc_copy
  BY <1>9, CopyStep
<1>10. CASE krealloc_release
  <2>1. pc = "release" /\ Release(call.ptr) /\ UNCHANGED pmmVars /\ UNCHANGED <<chain, call>>
    BY <1>10 DEF krealloc_release
  <2>2. call.ptr \in DOMAIN live
    BY SMTT(30), <2>1 DEF HeapInv, CallOK, Backed, Linked
  <2> QED
    BY SMTT(30), <2>1, <2>2, ReleaseStep
<1>11. CASE coalesce_blocks
  BY <1>11, CoalesceStep
<1>12. CASE UNCHANGED vars
  <2>1. UNCHANGED pmmVars /\ UNCHANGED <<heap, chain, pc, call, cur, live>>
    BY <1>12 DEF vars, heapVars
  <2>2. PMMInv' /\ Ascending' /\ PMMTypeOK' /\ up' = up
    BY <2>1, PMMSame
  <2>3. /\ Tiled' /\ InUse(heap)' = InUse(heap)
        /\ heap' \in Seq(Block) /\ chain' \in Seq(Block)
    BY <2>1, ListSame
  <2>4. HeapTypeOK'
    BY <2>1, <2>2, <2>3 DEF HeapInv, HeapTypeOK
  <2>5. ChainOK' /\ Backed'
    BY SMTT(30), <2>1, <2>2, <2>3 DEF HeapInv, ChainOK, Backed
  <2>6. CallOK'
    BY <2>1, <2>3 DEF HeapInv, CallOK
  <2> QED
    BY SMTT(30), <2>2, <2>3, <2>4, <2>5, <2>6 DEF HeapInv
<1> QED
  BY SMTT(30), <1>1, <1>2, <1>3, <1>4, <1>5, <1>6, <1>7, <1>8, <1>9, <1>10, <1>11, <1>12
  DEF HeapNext, Call, Step

\* The invariant holds throughout every run.
LEMMA HeapInvAlways == HeapSpec => []HeapInv
  BY HeapInvInit, HeapInvNext, PTL DEF HeapSpec

\* For every frame, header and alignment size and every sequence of calls, the
\* heap's state keeps its shape, and the list is in address order and tiles
\* exactly the frames taken from the PMM (heap.c:79-276).
THEOREM HeapTiles == HeapSpec => [](HeapTypeOK /\ BlocksTileFrames)
<1>1. HeapInv => HeapTypeOK /\ BlocksTileFrames
  BY DEF HeapInv, Tiled, Ordered, Bytes, BlocksTileFrames, BlockBytes
<1> QED
  BY <1>1, HeapInvAlways, PTL

\* Unless a requested size wraps in align8, every owned pointer is backed by a
\* block in use with room for the request, and every block in use is owned
\* (heap.c:165-276).
THEOREM HeapBacked == NoSizeWraps => (HeapSpec => []LiveBlocksBacked)
<1> SUFFICES ASSUME NoSizeWraps
             PROVE  HeapSpec => []LiveBlocksBacked
  OBVIOUS
<1>1. HeapInv => LiveBlocksBacked
  <2> SUFFICES ASSUME HeapInv
               PROVE  LiveBlocksBacked
    OBVIOUS
  <2>1. Linked(InUse(heap), live) /\ Roomy(InUse(heap), live)
    BY DEF HeapInv, Backed
  <2>2. /\ heap \in Seq(Block) /\ DOMAIN live \subseteq Nat
        /\ \A p \in DOMAIN live : live[p] \in Nat
    BY DEF HeapInv, HeapTypeOK
  <2>3. ASSUME NEW p \in DOMAIN live
        PROVE  \E i \in DOMAIN heap : Ptr(heap[i]) = p /\ ~heap[i].free /\ heap[i].size >= live[p]
    <3>1. PICK b \in InUse(heap) : Ptr(b) = p
      BY <2>1 DEF Linked
    <3>2. PICK i \in DOMAIN heap : b = heap[i]
      BY InInUse
    <3>3. ~b.free
      BY InInUse
    <3>4. live[p] <= b.size /\ b.size \in Nat /\ live[p] \in Nat
      BY SMTT(30), <2>1, <2>2, <3>1, <3>2, BlockFacts DEF Roomy
    <3>5. b.size >= live[p]
      BY <3>4
    <3> QED
      BY SMTT(30), <3>1, <3>2, <3>3, <3>5
  <2>4. ASSUME NEW i \in DOMAIN heap, ~heap[i].free
        PROVE  Ptr(heap[i]) \in DOMAIN live
    <3>1. heap[i] \in InUse(heap)
      BY SMTT(30), <2>4, InInUse
    <3> QED
      BY <2>1, <3>1 DEF Linked
  <2> QED
    BY <2>3, <2>4 DEF LiveBlocksBacked
<1> QED
  BY <1>1, HeapInvAlways, PTL

\* Under the same condition krealloc's copy carries over all the client had and
\* stays inside both blocks (heap.c:251-261).
THEOREM ReallocCopies == NoSizeWraps => (HeapSpec => []ReallocKeepsContents)
<1> SUFFICES ASSUME NoSizeWraps
             PROVE  HeapSpec => []ReallocKeepsContents
  OBVIOUS
<1>1. HeapInv => ReallocKeepsContents
  <2> SUFFICES ASSUME HeapInv, pc = "release"
               PROVE  /\ call.len >= live[call.ptr]
                      /\ call.len <= heap[IndexOf(call.ptr)].size
                      /\ call.len <= heap[IndexOf(call.new)].size
    BY DEF ReallocKeepsContents
  <2>1. HeapTypeOK /\ chain = <<>> /\ Tiled /\ Backed /\ CallOK
    BY DEF HeapInv, ChainOK
  <2>2. heap \in Seq(Block) /\ Ordered(heap)
    BY <2>1, WholeList DEF HeapTypeOK
  <2>3. PICK b \in InUse(heap) : Ptr(b) = call.ptr /\ b.size = call.len
    BY <2>1 DEF CallOK
  <2>4. PICK n \in InUse(heap) : Ptr(n) = call.new /\ n.size >= call.size
    BY <2>1 DEF CallOK
  <2>5. PICK o \in InUse(heap) : Ptr(o) = call.ptr /\ o.size < call.size
    BY <2>1 DEF CallOK
  <2>6. heap[IndexOf(call.ptr)] = b /\ IndexOf(call.ptr) \in DOMAIN heap
    BY SMTT(30), <2>1, <2>2, <2>3, HeaderOf
  <2>7. heap[IndexOf(call.ptr)] = o
    BY SMTT(30), <2>1, <2>2, <2>5, HeaderOf
  <2>8. heap[IndexOf(call.new)] = n /\ IndexOf(call.new) \in DOMAIN heap
    BY SMTT(30), <2>1, <2>2, <2>4, HeaderOf
  <2>9. b.size \in Nat /\ n.size \in Nat /\ call.size \in Nat
    BY SMTT(30), <2>1, <2>2, <2>6, <2>8, BlockFacts DEF HeapTypeOK
  <2>10. live[call.ptr] <= b.size /\ live[call.ptr] \in Nat
    BY <2>1, <2>3 DEF Backed, Linked, Roomy, HeapTypeOK
  <2> QED
    BY SMTT(30), <2>3, <2>4, <2>5, <2>6, <2>7, <2>8, <2>9, <2>10
<1> QED
  BY <1>1, HeapInvAlways, PTL
-----------------------------------------------------------------------------
\* How far a call has come: kmalloc grows the heap only when nothing fits, for
\* a size that is not 0, and coalesce_blocks leaves nothing to merge behind it.
NothingFits == pc = "grow" => Fits = {}

SizeGiven == call.op \notin {"none", "heap_init"} => call.size # 0

MergedBehind ==
    pc = "coalesce" => \A i \in 1 .. cur - 1 : i < Len(heap) => ~Mergeable(heap, i)

ProgressInv == NothingFits /\ SizeGiven /\ MergedBehind

\* Starting a call.
LEMMA BeginProgress ==
    ASSUME NEW op, NEW size, NEW need, NEW ptr, Begin(op, size, need, ptr),
           op # "heap_init" => size # 0
    PROVE  ProgressInv'
<1>1. call' = [NoCall EXCEPT !.op = op, !.size = size, !.need = need, !.ptr = ptr]
  BY DEF Begin
<1>2. call'.op = op /\ call'.size = size
  BY <1>1 DEF NoCall
<1>3. pc' \in {"init", "search"}
  BY DEF Begin
<1>4. SizeGiven'
  BY <1>2 DEF SizeGiven
<1> QED
  BY <1>3, <1>4 DEF ProgressInv, NothingFits, MergedBehind

\* A step that neither searches nor coalesces, and keeps the call or ends it.
LEMMA QuietProgress ==
    ASSUME SizeGiven, pc' \notin {"grow", "coalesce"},
           call' = NoCall \/ (call'.op = call.op /\ call'.size = call.size)
    PROVE  ProgressInv'
<1>1. SizeGiven'
  BY DEF SizeGiven, NoCall
<1> QED
  BY <1>1 DEF ProgressInv, NothingFits, MergedBehind

\* Freeing a block starts the walk at the head of the list.
LEMMA ReleaseProgress ==
    ASSUME SizeGiven, NEW ptr, Release(ptr), call' = call
    PROVE  ProgressInv'
<1>1. pc' = "coalesce" /\ cur' = 1
  BY DEF Release
<1>2. MergedBehind'
  BY <1>1 DEF MergedBehind
<1> QED
  BY <1>1, <1>2 DEF ProgressInv, NothingFits, SizeGiven

\* The walk leaves nothing to merge behind it.
LEMMA WalkProgress ==
    ASSUME HeapInv, ProgressInv, coalesce_blocks
    PROVE  ProgressInv'
<1>0. pc = "coalesce"
  BY DEF coalesce_blocks
<1>1. heap \in Seq(Block) /\ cur \in Nat \ {0} /\ Len(heap) \in Nat
  BY DEF HeapInv, HeapTypeOK
<1>2. SizeGiven /\ \A i \in 1 .. cur - 1 : i < Len(heap) => ~Mergeable(heap, i)
  BY <1>0 DEF ProgressInv, MergedBehind
<1>3. CASE /\ cur < Len(heap) /\ Mergeable(heap, cur) /\ heap' = Merge(heap, cur)
           /\ UNCHANGED <<pc, call, cur>>
  <2>1. cur \in 1 .. Len(heap) - 1
    BY SMTT(30), <1>1, <1>3
  <2>2. /\ Len(heap') = Len(heap) - 1 /\ \A j \in 1 .. cur - 1 : heap'[j] = heap[j]
        /\ heap'[cur].addr = heap[cur].addr
    BY SMTT(30), <1>1, <1>3, <2>1, MergeLemma
  <2>3. ASSUME NEW i \in 1 .. cur - 1, Mergeable(heap', i)
        PROVE  Mergeable(heap, i)
    <3>1. heap'[i].free /\ heap'[i + 1].free /\ End(heap'[i]) = heap'[i + 1].addr
      BY <2>3 DEF Mergeable
    <3>2. heap'[i] = heap[i]
      BY <2>2
    <3>3. CASE i + 1 = cur
      <4>1. heap[i + 1].free
        BY <1>3, <3>3 DEF Mergeable
      <4>2. heap'[i + 1].addr = heap[i + 1].addr
        BY <2>2, <3>3
      <4> QED
        BY Zenon, <3>1, <3>2, <4>1, <4>2 DEF Mergeable
    <3>4. CASE i + 1 # cur
      <4>1. i + 1 \in 1 .. cur - 1
        BY <1>1, <3>4
      <4>2. heap'[i + 1] = heap[i + 1]
        BY Zenon, <2>2, <4>1
      <4> QED
        BY Zenon, <3>1, <3>2, <4>2 DEF Mergeable
    <3> QED
      BY <3>3, <3>4
  <2>4. ASSUME NEW i \in 1 .. cur - 1, i < Len(heap')
        PROVE  ~Mergeable(heap', i)
    <3>1. i < Len(heap)
      BY SMTT(30), <1>1, <2>2, <2>4
    <3> QED
      BY SMTT(30), <1>2, <2>3, <3>1
  <2>5. pc' = "coalesce" /\ call' = call /\ cur' = cur
    BY <1>0, <1>3
  <2>6. MergedBehind' /\ SizeGiven'
    BY SMTT(30), <1>2, <2>4, <2>5 DEF MergedBehind, SizeGiven
  <2> QED
    BY <2>5, <2>6 DEF ProgressInv, NothingFits
<1>4. CASE /\ cur < Len(heap) /\ ~Mergeable(heap, cur) /\ cur' = cur + 1
           /\ UNCHANGED <<heap, pc, call>>
  <2>1. ASSUME NEW i \in 1 .. cur' - 1, i < Len(heap)
        PROVE  ~Mergeable(heap, i)
    <3>1. CASE i = cur
      BY <1>4, <3>1
    <3>2. CASE i # cur
      <4>1. i \in 1 .. cur - 1
        BY SMTT(30), <1>1, <1>4, <3>2
      <4> QED
        BY SMTT(30), <1>2, <2>1, <4>1
    <3> QED
      BY <3>1, <3>2
  <2>2. pc' = "coalesce" /\ call' = call /\ heap' = heap
    BY SMTT(30), <1>0, <1>4
  <2>3. MergedBehind' /\ SizeGiven'
    BY SMTT(30), <1>2, <2>1, <2>2 DEF MergedBehind, SizeGiven
  <2> QED
    BY <2>2, <2>3 DEF ProgressInv, NothingFits
<1>5. CASE Return
  BY SMTT(30), <1>2, <1>5, QuietProgress DEF Return
<1> QED
  BY SMTT(30), <1>3, <1>4, <1>5 DEF coalesce_blocks

\* A search that finds nothing leaves the list as it is, and so does growing it
\* until the last frame.
LEMMA ProgressNext ==
    ASSUME HeapInv, ProgressInv, [HeapNext]_vars
    PROVE  ProgressInv'
<1>0. SizeGiven
  BY DEF ProgressInv
<1>1. CASE boot_memory
  <2>1. pc = "idle" /\ UNCHANGED <<pc, call>>
    BY <1>1 DEF boot_memory, heapVars
  <2> QED
    BY SMTT(30), <1>0, <2>1, QuietProgress
<1>2. CASE heap_init
  BY SMTT(30), <1>2, BeginProgress DEF heap_init
<1>3. ASSUME NEW s \in Sizes, kmalloc(s)
      PROVE  ProgressInv'
  BY SMTT(30), <1>3, BeginProgress DEF kmalloc
<1>4. ASSUME NEW n \in Counts, NEW s \in Sizes, kcalloc(n, s)
      PROVE  ProgressInv'
  <2>1. PICK total : total = (n * s) % AddrLimit
    OBVIOUS
  <2>2. n # 0 /\ s # 0 /\ total \div s = n /\ Begin("kcalloc", total, n * s, 0)
    BY SMTT(30), <1>4, <2>1 DEF kcalloc
  <2>3. s \in Nat \ {0}
    BY <2>2, HeapAssumption
  <2>4. 0 \div s = 0
    BY <2>3
  <2>5. total # 0
    BY <2>2, <2>4
  <2> QED
    BY SMTT(30), <2>2, <2>5, BeginProgress
<1>5. ASSUME NEW p \in DOMAIN live, kfree(p)
      PROVE  ProgressInv'
  BY SMTT(30), <1>0, <1>5, ReleaseProgress DEF kfree
<1>6. ASSUME NEW p \in DOMAIN live \cup {0}, NEW s \in Sizes, krealloc(p, s)
      PROVE  ProgressInv'
  <2>1. CASE kmalloc(s)
    BY SMTT(30), <1>3, <2>1
  <2>2. CASE kfree(p)
    BY SMTT(30), <1>0, <2>2, ReleaseProgress DEF kfree
  <2>3. CASE pc = "idle" /\ UNCHANGED <<pc, call>>
    BY SMTT(30), <1>0, <2>3, QuietProgress
  <2>4. CASE s # 0 /\ Begin("krealloc", s, s, p)
    BY SMTT(30), <2>4, BeginProgress
  <2> QED
    BY SMTT(30), <1>6, <2>1, <2>2, <2>3, <2>4 DEF krealloc
<1>7. CASE heap_grow
  <2>1. CASE pc = "grow" /\ UNCHANGED <<heap, pc, call>>
    <3>1. Fits' = Fits
      BY <2>1 DEF Fits, wanted_size
    <3> QED
      BY SMTT(30), <2>1, <3>1 DEF ProgressInv, NothingFits, SizeGiven, MergedBehind
  <2>2. CASE pc' \notin {"grow", "coalesce"} /\ (call' = NoCall \/ call' = call)
    BY SMTT(30), <1>0, <2>2, QuietProgress
  <2> QED
    BY SMTT(30), <1>7, <2>1, <2>2 DEF heap_grow, Return
<1>8. CASE kmalloc_search
  <2>1. CASE Fits = {} /\ pc' = "grow" /\ UNCHANGED <<heap, call, live>>
    <3>1. Fits' = Fits
      BY <2>1 DEF Fits, wanted_size
    <3> QED
      BY SMTT(30), <1>0, <2>1, <3>1 DEF ProgressInv, NothingFits, SizeGiven, MergedBehind
  <2>2. CASE pc' = "copy" /\ \E ptr : call' = [call EXCEPT !.new = ptr]
    <3>1. call'.op = call.op /\ call'.size = call.size
      BY <2>2 DEF HeapInv, HeapTypeOK
    <3> QED
      BY SMTT(30), <1>0, <2>2, <3>1, QuietProgress
  <2>3. CASE Return
    BY SMTT(30), <1>0, <2>3, QuietProgress DEF Return
  <2> QED
    BY SMTT(30), <1>8, <2>1, <2>2, <2>3 DEF kmalloc_search
<1>9. CASE krealloc_copy
  <2>1. pc' = "release" /\ \E n : call' = [call EXCEPT !.len = n]
    BY Zenon, <1>9 DEF krealloc_copy
  <2>2. call'.op = call.op /\ call'.size = call.size
    BY <2>1 DEF HeapInv, HeapTypeOK
  <2> QED
    BY SMTT(30), <1>0, <2>1, <2>2, QuietProgress
<1>10. CASE krealloc_release
  BY SMTT(30), <1>0, <1>10, ReleaseProgress DEF krealloc_release
<1>11. CASE coalesce_blocks
  BY SMTT(30), <1>11, WalkProgress
<1>12. CASE UNCHANGED vars
  BY <1>12 DEF vars, heapVars, ProgressInv, NothingFits, SizeGiven, MergedBehind, Fits, wanted_size
<1> QED
  BY SMTT(30), <1>1, <1>2, <1>3, <1>4, <1>5, <1>6, <1>7, <1>8, <1>9, <1>10, <1>11, <1>12
  DEF HeapNext, Call, Step

LEMMA ProgressInit == HeapInit => ProgressInv
  BY DEF HeapInit, NoCall, ProgressInv, NothingFits, SizeGiven, MergedBehind

\* In a list in address order, blocks that touch are neighbours.
LEMMA TouchingNeighbours ==
    ASSUME NEW h \in Seq(Block), Ordered(h), NEW i \in DOMAIN h, NEW j \in DOMAIN h,
           End(h[i]) = h[j].addr
    PROVE  j = i + 1
<1>1. /\ i \in Nat /\ j \in Nat /\ i \in 1 .. Len(h) /\ j \in 1 .. Len(h) /\ Len(h) \in Nat
      /\ h[i].addr \in Nat /\ End(h[i]) \in Nat /\ h[i].addr < End(h[i])
      /\ h[j].addr \in Nat /\ End(h[j]) \in Nat /\ h[j].addr < End(h[j])
  BY BlockFacts
<1>2. ~(j < i)
  <2>1. j < i => End(h[j]) <= h[i].addr
    BY DEF Ordered
  <2> QED
    BY <1>1, <2>1
<1>3. j # i
  BY <1>1
<1>4. ~(i + 1 < j)
  <2>1. PICK k : k = i + 1
    OBVIOUS
  <2>2. SUFFICES ASSUME k < j PROVE FALSE
    BY <2>1
  <2>3. k \in DOMAIN h /\ i < k
    BY SMTT(30), <1>1, <2>1, <2>2
  <2>4. End(h[i]) <= h[k].addr /\ End(h[k]) <= h[j].addr
    BY <2>2, <2>3 DEF Ordered
  <2>5. h[k].addr \in Nat /\ End(h[k]) \in Nat /\ h[k].addr < End(h[k])
    BY <2>3, BlockFacts
  <2> QED
    BY SMTT(30), <1>1, <2>4, <2>5
<1> QED
  BY SMTT(30), <1>1, <1>2, <1>3, <1>4

\* For every size of the headers and every history of calls, kfree and krealloc
\* return with no two adjacent blocks free: one pass is enough (heap.c:138-155).
THEOREM OnePassMerges == HeapSpec => MergedAfterFree
<1>1. ASSUME HeapInv, ProgressInv, [HeapNext]_vars, pc = "coalesce", pc' = "idle",
             NEW i \in DOMAIN heap', NEW j \in DOMAIN heap', heap'[i].free, heap'[j].free,
             End(heap'[i]) = heap'[j].addr
      PROVE  FALSE
  <2>1. coalesce_blocks
    BY <1>1 DEF HeapNext, Call, Step, boot_memory, heapVars, heap_init, kmalloc, kcalloc, kfree,
       krealloc, Begin, Release, heap_grow, kmalloc_search, krealloc_copy, krealloc_release, vars
  <2>2. cur >= Len(heap) /\ heap' = heap
    BY <1>1, <2>1 DEF coalesce_blocks
  <2>3. HeapTypeOK /\ chain = <<>> /\ Tiled
    BY <1>1 DEF HeapInv, ChainOK
  <2>4. heap \in Seq(Block) /\ Ordered(heap) /\ cur \in Nat /\ Len(heap) \in Nat
    BY <2>3, WholeList DEF HeapTypeOK
  <2>5. j = i + 1
    BY SMTT(30), <1>1, <2>2, <2>4, TouchingNeighbours
  <2>6. Mergeable(heap, i)
    BY <1>1, <2>2, <2>5 DEF Mergeable
  <2>7. i \in 1 .. cur - 1 /\ i < Len(heap)
    BY SMTT(30), <1>1, <2>2, <2>4, <2>5
  <2> QED
    BY SMTT(30), <1>1, <2>6, <2>7 DEF ProgressInv, MergedBehind
<1>2. HeapInv /\ ProgressInv /\ [HeapNext]_vars
        => (pc = "coalesce" /\ pc' = "idle" =>
               \A i, j \in DOMAIN heap' :
                   heap'[i].free /\ heap'[j].free => End(heap'[i]) # heap'[j].addr)
  BY <1>1
<1>3. HeapInv /\ ProgressInv /\ [HeapNext]_vars => ProgressInv'
  BY ProgressNext
<1> QED
  BY <1>2, <1>3, HeapInvInit, HeapInvNext, ProgressInit, PTL DEF HeapSpec, MergedAfterFree

\* Unless a requested size wraps in align8, kmalloc, kcalloc and krealloc refuse
\* a request that a frame can hold only when the PMM is out of frames and no
\* free block is large enough, or there was no frame for a first block
\* (heap.c:175-212).
THEOREM FailureExact == NoSizeWraps => (HeapSpec => FailureMeansExhausted)
<1> SUFFICES ASSUME NoSizeWraps
             PROVE  HeapSpec => FailureMeansExhausted
  OBVIOUS
<1>1. ASSUME HeapInv, ProgressInv, [HeapNext]_vars, pc \in {"init", "grow"}, pc' = "idle",
             call.op # "heap_init"
      PROVE  FreeFrames' = {}
  <2>1. heap_grow
    BY <1>1 DEF HeapNext, Call, Step, boot_memory, heapVars, heap_init, kmalloc, kcalloc, kfree,
       krealloc, Begin, Release, coalesce_blocks, kmalloc_search, krealloc_copy, krealloc_release,
       vars
  <2>2. call.size # 0
    BY <1>1 DEF ProgressInv, SizeGiven, HeapInv, CallOK
  <2>3. call.op # "heap_init" /\ call.size \in Nat /\ call.size + Alignment - 1 < AddrLimit
    BY <1>1 DEF HeapInv, HeapTypeOK, CallOK
  <2>4. wanted_size # 0
    <3>1. align8(call.size) >= call.size /\ align8(call.size) \in Nat
      BY <2>3, AlignUp
    <3> QED
      BY SMTT(30), <2>2, <2>3, <3>1 DEF wanted_size
  <2>5. PICK grown : grown = IF ret' = 0 THEN chain ELSE Append(chain, NewBlock(ret'))
    BY ZenonT(30)
  <2>6. grown = <<>>
    BY SMTT(30), <1>1, <2>1, <2>3, <2>4, <2>5 DEF heap_grow
  <2>7. ret' = 0
    <3>1. chain \in Seq(Block)
      BY <1>1 DEF HeapInv, HeapTypeOK
    <3>2. ASSUME NEW b PROVE Append(chain, b) # <<>>
      <4>1. Len(Append(chain, b)) = Len(chain) + 1 /\ Len(chain) \in Nat
        BY <3>1
      <4> QED
        BY <4>1
    <3> QED
      BY Zenon, <2>5, <2>6, <3>2
  <2>8. PMMInv'
    BY <1>1, HeapInvNext DEF HeapInv
  <2> QED
    BY SMTT(30), <2>7, <2>8 DEF PMMInv
<1>2. HeapInv /\ ProgressInv /\ [HeapNext]_vars
        => (call.op # "heap_init" /\ pc' = "idle" =>
               /\ pc = "init" => FreeFrames' = {}
               /\ pc = "grow" /\ wanted_size <= Payload => FreeFrames' = {} /\ Fits = {})
  BY <1>1 DEF ProgressInv, NothingFits
<1>3. HeapInv /\ ProgressInv /\ [HeapNext]_vars => ProgressInv'
  BY SMTT(30), ProgressNext
<1> QED
  BY <1>2, <1>3, HeapInvInit, HeapInvNext, ProgressInit, PTL DEF HeapSpec, FailureMeansExhausted
-----------------------------------------------------------------------------
\* Outside heap_grow, the ranges the clients own are in the heap's frames and
\* disjoint.
GrantsSound == chain = <<>> => Grants!Sound(live, FrameBytes)

\* A client's range is the payload of its block, so it lies within the block.
LEMMA RangeInBlock ==
    ASSUME NEW s \in Seq(Block), NEW i \in DOMAIN s, NEW n \in Nat, n <= s[i].size
    PROVE  /\ Grants!Range(Ptr(s[i]), n) \subseteq s[i].addr .. End(s[i]) - 1
           /\ Grants!Range(Ptr(s[i]), n) \subseteq Bytes(s)
<1>1. /\ s[i].addr \in Nat /\ s[i].size \in Nat /\ HeaderSize \in Nat
  BY SMTT(30), BlockFacts, HeapConstants
<1>2. ASSUME NEW a \in Grants!Range(Ptr(s[i]), n)
      PROVE  a \in s[i].addr .. End(s[i]) - 1
  BY SMTT(30), <1>1, <1>2 DEF Grants!Range, Ptr, End
<1>3. ASSUME NEW a \in Grants!Range(Ptr(s[i]), n)
      PROVE  a \in Bytes(s)
  BY <1>2, InBytes
<1> QED
  BY SMTT(30), <1>2, <1>3

\* Blocks that do not overlap back ranges that do not.
LEMMA GrantsDisjoint ==
    ASSUME NoSizeWraps, HeapInv
    PROVE  GrantsSound
<1> SUFFICES ASSUME chain = <<>>, NEW p \in DOMAIN live
             PROVE  /\ Grants!Range(p, live[p]) \subseteq FrameBytes
                    /\ \A q \in DOMAIN live \ {p} :
                           Grants!Range(p, live[p]) \cap Grants!Range(q, live[q]) = {}
  BY DEF GrantsSound, Grants!Sound
<1>1. HeapTypeOK /\ Tiled /\ Linked(InUse(heap), live) /\ Roomy(InUse(heap), live)
  BY DEF HeapInv, Backed
<1>2. heap \in Seq(Block) /\ Ordered(heap) /\ Bytes(heap) = FrameBytes
  BY SMTT(30), <1>1, WholeList DEF HeapTypeOK
<1>3. ASSUME NEW q \in DOMAIN live
      PROVE  \E j \in DOMAIN heap : Ptr(heap[j]) = q /\ live[q] \in Nat /\ live[q] <= heap[j].size
  <2>1. PICK b \in InUse(heap) : Ptr(b) = q
    BY <1>1 DEF Linked
  <2>2. PICK j \in DOMAIN heap : b = heap[j]
    BY InInUse
  <2>3. live[q] \in Nat /\ live[q] <= b.size
    BY SMTT(30), <1>1, <2>1 DEF Roomy, HeapTypeOK
  <2> QED
    BY SMTT(30), <2>1, <2>2, <2>3
<1>4. PICK i \in DOMAIN heap : Ptr(heap[i]) = p /\ live[p] \in Nat /\ live[p] <= heap[i].size
  BY SMTT(30), <1>3
<1>5. Grants!Range(p, live[p]) \subseteq FrameBytes
  BY SMTT(30), <1>2, <1>4, RangeInBlock
<1>6. ASSUME NEW q \in DOMAIN live \ {p}
      PROVE  Grants!Range(p, live[p]) \cap Grants!Range(q, live[q]) = {}
  <2>1. PICK j \in DOMAIN heap : Ptr(heap[j]) = q /\ live[q] \in Nat /\ live[q] <= heap[j].size
    BY <1>3
  <2>2. i # j
    BY SMTT(30), <1>4, <2>1
  <2>3. /\ Grants!Range(p, live[p]) \subseteq heap[i].addr .. End(heap[i]) - 1
        /\ Grants!Range(q, live[q]) \subseteq heap[j].addr .. End(heap[j]) - 1
    BY SMTT(30), <1>2, <1>4, <2>1, RangeInBlock
  <2>4. /\ heap[i].addr \in Nat /\ End(heap[i]) \in Nat /\ heap[j].addr \in Nat /\ End(heap[j]) \in Nat
        /\ i \in Nat /\ j \in Nat
    BY SMTT(30), <1>2, BlockFacts
  <2>5. End(heap[i]) <= heap[j].addr \/ End(heap[j]) <= heap[i].addr
    BY SMTT(30), <1>2, <2>2, <2>4 DEF Ordered
  <2>6. (heap[i].addr .. End(heap[i]) - 1) \cap (heap[j].addr .. End(heap[j]) - 1) = {}
    BY <2>4, <2>5
  <2> QED
    BY SMTT(30), <2>3, <2>6
<1> QED
  BY SMTT(30), <1>5, <1>6

\* What a step of the heap is to its clients.
GrantStep == Grants!Next \/ UNCHANGED <<FrameBytes, live>>

\* Taking a block, or resizing one in place, is a grant.
LEMMA GrantOne ==
    ASSUME HeapInv, UNCHANGED pmmVars, GrantsSound', chain' = <<>>, NEW p, p \in DOMAIN live',
           \A q : q \in DOMAIN live' \ {p} <=> q \in DOMAIN live \ {p},
           \A q \in DOMAIN live \ {p} : live'[q] = live[q]
    PROVE  GrantStep
<1>1. FrameBytes' = FrameBytes
  BY PMMSame
<1>2. Grants!Sound(live', FrameBytes)
  BY <1>1 DEF GrantsSound, Grants!Sound, Grants!Range
<1>3. Grants!Others(live', p) = Grants!Others(live, p)
  BY DEF Grants!Others
<1> QED
  BY SMTT(30), <1>1, <1>2, <1>3 DEF GrantStep, Grants!Next, Grants!Grant

\* Freeing a block ends a grant.
LEMMA ReleaseOne ==
    ASSUME HeapInv, UNCHANGED pmmVars, NEW p \in DOMAIN live, Release(p)
    PROVE  GrantStep
<1>1. FrameBytes' = FrameBytes
  BY PMMSame
<1>2. live' = Grants!Others(live, p)
  BY DEF Release, Disown, Grants!Others
<1> QED
  BY <1>1, <1>2 DEF GrantStep, Grants!Next, Grants!Release

\* A step that leaves the clients' view alone.
LEMMA GrantNone ==
    ASSUME FrameBytes \subseteq FrameBytes', live' = live
    PROVE  GrantStep
  BY DEF GrantStep, Grants!Next, Grants!Grow

\* Entering a call changes nothing that clients own.
LEMMA GrantQuiet ==
    ASSUME HeapInv, UNCHANGED pmmVars, live' = live
    PROVE  GrantStep
  BY PMMSame, GrantNone

\* heap_grow adds a frame or none.
LEMMA GrantGrow ==
    ASSUME HeapInv, heap_grow
    PROVE  GrantStep
<1>1. live' = live /\ pmm_alloc_frame
  BY DEF heap_grow
<1>2. held \subseteq held'
  BY <1>1 DEF pmm_alloc_frame
<1>3. FrameBytes \subseteq FrameBytes'
  BY <1>2 DEF FrameBytes
<1> QED
  BY SMTT(30), <1>1, <1>3, GrantNone

\* The search grants the block it takes.
LEMMA GrantSearch ==
    ASSUME HeapInv, GrantsSound', kmalloc_search
    PROVE  GrantStep
<1>1. UNCHANGED pmmVars /\ chain' = chain /\ pc = "search"
  BY DEF kmalloc_search
<1>2. chain' = <<>>
  BY <1>1 DEF HeapInv, ChainOK
<1>3. CASE Fits = {}
  <2>1. live' = live
    BY <1>3 DEF kmalloc_search
  <2> QED
    BY SMTT(30), <1>1, <2>1, GrantQuiet
<1>4. CASE Fits # {}
  <2>1. PICK p : p = Ptr(heap[Min(Fits)])
    OBVIOUS
  <2>2. live' = Own(p, call.need)
    BY Zenon, <1>4, <2>1 DEF kmalloc_search
  <2>3. /\ p \in DOMAIN live' /\ \A q : q \in DOMAIN live' \ {p} <=> q \in DOMAIN live \ {p}
        /\ \A q \in DOMAIN live \ {p} : live'[q] = live[q]
    BY <2>2 DEF Own
  <2> QED
    BY SMTT(30), <1>1, <1>2, <2>3, GrantOne
<1> QED
  BY <1>3, <1>4

\* krealloc grants the same block again, or frees it, or goes on to search.
LEMMA GrantRealloc ==
    ASSUME HeapInv, GrantsSound', NEW p \in DOMAIN live \cup {0}, NEW s, krealloc(p, s)
    PROVE  GrantStep
<1>1. CASE kmalloc(s)
  BY <1>1, GrantQuiet DEF kmalloc, Begin
<1>2. CASE p # 0 /\ kfree(p)
  BY <1>2, ReleaseOne DEF kfree
<1>3. CASE /\ pc = "idle" /\ p # 0 /\ live' = [live EXCEPT ![p] = s]
           /\ UNCHANGED <<pmmVars, heap, chain, pc, call, cur>>
  <2>1. UNCHANGED pmmVars /\ chain' = <<>> /\ p \in DOMAIN live
    BY <1>3 DEF HeapInv, ChainOK
  <2>2. /\ p \in DOMAIN live' /\ \A q : q \in DOMAIN live' \ {p} <=> q \in DOMAIN live \ {p}
        /\ \A q \in DOMAIN live \ {p} : live'[q] = live[q]
    BY <1>3, <2>1
  <2> QED
    BY SMTT(30), <2>1, <2>2, GrantOne
<1>4. CASE Begin("krealloc", s, s, p) /\ UNCHANGED pmmVars
  BY <1>4, GrantQuiet DEF Begin
<1> QED
  BY Zenon, <1>1, <1>2, <1>3, <1>4 DEF krealloc

\* Every step of the heap is a step of the allocator, or none.
LEMMA GrantNext ==
    ASSUME HeapInv, GrantsSound', [HeapNext]_vars
    PROVE  GrantStep
<1>1. CASE boot_memory
  <2>1. held' = held /\ live' = live
    BY <1>1 DEF boot_memory, pmm_init, heapVars
  <2> QED
    BY SMTT(30), <2>1, GrantNone DEF FrameBytes
<1>2. CASE heap_init
  BY <1>2, GrantQuiet DEF heap_init, Begin
<1>3. CASE \E s \in Sizes : kmalloc(s)
  BY <1>3, GrantQuiet DEF kmalloc, Begin
<1>4. CASE \E n \in Counts, s \in Sizes : kcalloc(n, s)
  BY <1>4, GrantQuiet DEF kcalloc, Begin
<1>5. CASE \E p \in DOMAIN live : kfree(p)
  BY SMTT(30), <1>5, ReleaseOne DEF kfree
<1>6. CASE \E p \in DOMAIN live \cup {0}, s \in Sizes : krealloc(p, s)
  BY <1>6, GrantRealloc
<1>7. CASE heap_grow
  BY SMTT(30), <1>7, GrantGrow
<1>8. CASE kmalloc_search
  BY <1>8, GrantSearch
<1>9. CASE krealloc_copy \/ coalesce_blocks
  BY SMTT(30), <1>9, GrantQuiet DEF krealloc_copy, coalesce_blocks
<1>10. CASE krealloc_release
  <2>1. call.ptr \in DOMAIN live
    BY <1>10 DEF krealloc_release, HeapInv, CallOK, Backed, Linked
  <2> QED
    BY SMTT(30), <1>10, <2>1, ReleaseOne DEF krealloc_release
<1>11. CASE UNCHANGED vars
  BY <1>11, GrantQuiet DEF vars, heapVars
<1> QED
  BY SMTT(30), <1>1, <1>2, <1>3, <1>4, <1>5, <1>6, <1>7, <1>8, <1>9, <1>10, <1>11 DEF HeapNext, Call, Step

\* The heap implements the allocator that heap.h promises, whatever the frame
\* and header sizes, the memory and the calls: each pointer returned by kmalloc,
\* kcalloc and krealloc is a range of the heap's memory that overlaps no other,
\* and only kfree and krealloc end it.  A request that wraps is the exception
\* (heap.c:79-276, run heap_wrap).
THEOREM HeapImplementsAllocator == NoSizeWraps => (HeapSpec => GrantsSpec)
<1> SUFFICES ASSUME NoSizeWraps
             PROVE  HeapSpec => GrantsSpec
  OBVIOUS
<1>1. HeapInit => Grants!Init
  BY DEF HeapInit, PMMInit, Grants!Init, FrameBytes
<1>2. HeapInv => GrantsSound
  BY GrantsDisjoint
<1>3. HeapInv /\ GrantsSound' /\ [HeapNext]_vars => [Grants!Next]_<<FrameBytes, live>>
  BY Zenon, GrantNext DEF GrantStep
<1> QED
  BY <1>1, <1>2, <1>3, HeapInvAlways, PTL DEF HeapSpec, GrantsSpec, Grants!Spec
=============================================================================
