-------------------------------- MODULE Heap --------------------------------
(***************************************************************************)
(* The kernel heap (memory/heap.c) on top of the physical memory manager.  *)
(* heap_head's linked list is the sequence heap, in list order; a block's  *)
(* next pointer is its successor in the sequence.  A call is a sequence of *)
(* steps, one per iteration of the loops that change the list; nothing     *)
(* runs between them, the kernel is single-threaded and no interrupt       *)
(* handler allocates.  The steps of pmm.c are those of module PMM.         *)
(***************************************************************************)
EXTENDS PMM, SequencesExt

CONSTANTS
    HeaderSize,     \* sizeof(heap_block_t)
    Alignment,      \* payload sizes are rounded up to a multiple of this
    MinSplit,       \* a remainder must be larger than this to be split off
    InitPayload,    \* what heap_init asks heap_grow for
    Sizes,          \* the sizes clients request
    Counts          \* the element counts passed to kcalloc

ASSUME HeapAssumption ==
    /\ HeaderSize \in Nat \ {0}
    /\ HeaderSize < FrameSize
    /\ Alignment \in Nat \ {0}
    /\ AddrLimit % Alignment = 0
    /\ MinSplit \in Nat
    /\ InitPayload \in 0 .. FrameSize - HeaderSize
    /\ Sizes \subseteq 0 .. AddrLimit - 1
    /\ Counts \subseteq 0 .. AddrLimit - 1

VARIABLES
    heap,           \* the block list
    chain,          \* blocks heap_grow has linked up but not yet returned
    pc,             \* where the current call is
    call,           \* its arguments and locals
    cur,            \* coalesce_blocks' position in the list
    live            \* the clients' view: pointers they own -> bytes they need

heapVars == <<heap, chain, pc, call, cur, live>>

vars == <<pmmVars, heapVars>>

Block == [addr : Nat, size : Nat, free : BOOLEAN]

Payload == FrameSize - HeaderSize

End(b) == b.addr + HeaderSize + b.size

Ptr(b) == b.addr + HeaderSize

NewBlock(addr) == [addr |-> addr, size |-> Payload, free |-> TRUE]

\* The block whose payload starts at ptr, found by pointer arithmetic in C.
IndexOf(ptr) == CHOOSE i \in DOMAIN heap : Ptr(heap[i]) = ptr

NoCall == [op |-> "none", size |-> 0, need |-> 0, ptr |-> 0, new |-> 0, len |-> 0]

\* Mutant: rounds down.
align8_down(size) == size - (size % Alignment)

align8(size) ==
    LET sum == (size + Alignment - 1) % AddrLimit IN sum - (sum % Alignment)

wanted_size == align8(call.size)
-----------------------------------------------------------------------------
split_block(h, i, wanted) ==
    IF h[i].size <= wanted + HeaderSize + MinSplit
    THEN h
    ELSE InsertAt([h EXCEPT ![i].size = wanted], i + 1,
                  [addr |-> h[i].addr + HeaderSize + wanted,
                   size |-> h[i].size - wanted - HeaderSize,
                   free |-> TRUE])

Mergeable(h, i) ==
    /\ h[i].free /\ h[i + 1].free
    /\ End(h[i]) = h[i + 1].addr

\* Mutant: the absorbed header is forgotten.
Merge_no_header(h, i) ==
    RemoveAt([h EXCEPT ![i].size = @ + h[i + 1].size], i + 1)

Merge(h, i) ==
    RemoveAt([h EXCEPT ![i].size = @ + HeaderSize + h[i + 1].size], i + 1)

Own(ptr, bytes) ==
    [p \in DOMAIN live \cup {ptr} |-> IF p = ptr THEN bytes ELSE live[p]]

Disown(ptr) == [p \in DOMAIN live \ {ptr} |-> live[p]]
-----------------------------------------------------------------------------
HeapInit ==
    /\ PMMInit
    /\ heap = <<>>
    /\ chain = <<>>
    /\ pc = "idle"
    /\ call = NoCall
    /\ cur = 1
    /\ live = <<>>

\* A call that ends without changing the list.
Return == pc' = "idle" /\ call' = NoCall

\* Entry of kmalloc, on behalf of the client or of kcalloc and krealloc: an
\* empty list is initialised first.
Begin(op, size, need, ptr) ==
    /\ call' = [NoCall EXCEPT !.op = op, !.size = size, !.need = need, !.ptr = ptr]
    /\ pc' = IF heap = <<>> THEN "init" ELSE "search"
    /\ UNCHANGED <<heap, chain, cur, live>>

boot_memory ==
    /\ pc = "idle"
    /\ pmm_init
    /\ UNCHANGED heapVars

heap_init ==
    /\ up /\ pc = "idle"
    /\ heap = <<>>
    /\ Begin("heap_init", InitPayload, 0, 0)
    /\ UNCHANGED pmmVars

kmalloc(size) ==
    /\ up /\ pc = "idle"
    /\ size # 0
    /\ Begin("kmalloc", size, size, 0)
    /\ UNCHANGED pmmVars

\* total = count * size in uint32_t; a product that wrapped is refused.
kcalloc(count, size) ==
    LET total == (count * size) % AddrLimit
    IN  /\ up /\ pc = "idle"
        /\ count # 0 /\ size # 0
        /\ total \div size = count
        /\ Begin("kcalloc", total, count * size, 0)
        /\ UNCHANGED pmmVars

\* kfree and the tail of krealloc: the block becomes free, then the whole
\* list is coalesced from its head.
Release(ptr) ==
    /\ heap' = [heap EXCEPT ![IndexOf(ptr)].free = TRUE]
    /\ live' = Disown(ptr)
    /\ pc' = "coalesce"
    /\ cur' = 1

kfree(ptr) ==
    /\ pc = "idle"
    /\ Release(ptr)
    /\ UNCHANGED <<pmmVars, chain, call>>

\* Mutant: the room left in the block is not tested.
krealloc_in_place(ptr, size) ==
    /\ pc = "idle"
    /\ ptr # 0 /\ size # 0
    /\ live' = [live EXCEPT ![ptr] = size]
    /\ UNCHANGED <<pmmVars, heap, chain, pc, call, cur>>

\* ptr = 0 is kmalloc and size = 0 is kfree; a block that is large enough
\* stays where it is.
krealloc(ptr, size) ==
    \/ ptr = 0 /\ kmalloc(size)
    \/ ptr # 0 /\ size = 0 /\ kfree(ptr)
    \/ /\ pc = "idle"
       /\ ptr # 0 /\ size # 0
       /\ heap[IndexOf(ptr)].size >= size
       /\ live' = [live EXCEPT ![ptr] = size]
       /\ UNCHANGED <<pmmVars, heap, chain, pc, call, cur>>
    \/ /\ pc = "idle"
       /\ ptr # 0 /\ size # 0
       /\ heap[IndexOf(ptr)].size < size
       /\ Begin("krealloc", size, size, ptr)
       /\ UNCHANGED pmmVars

\* Mutant: kmalloc does not search again after growing.
heap_grow_once ==
    /\ pc \in {"init", "grow"}
    /\ pmm_alloc_frame
    /\ heap' = IF ret' = 0 THEN heap ELSE Append(heap, NewBlock(ret'))
    /\ Return
    /\ UNCHANGED <<chain, cur, live>>

\* Mutant: the loop does not notice that the frames have run out.
heap_grow_forever ==
    /\ pc \in {"init", "grow"}
    /\ pmm_alloc_frame
    /\ IF Payload < wanted_size
       THEN /\ chain' = IF ret' = 0 THEN chain ELSE Append(chain, NewBlock(ret'))
            /\ UNCHANGED <<heap, pc, call>>
       ELSE /\ heap' = IF ret' = 0 THEN heap ELSE Append(heap, NewBlock(ret'))
            /\ IF ret' = 0 THEN Return ELSE pc' = "search" /\ UNCHANGED call
            /\ UNCHANGED chain
    /\ UNCHANGED <<cur, live>>

\* One pmm_alloc_frame of heap_grow.  The loop stops as soon as ONE block has
\* min_payload bytes, or when the frames run out.  The chain then goes to the
\* tail of the list (it is the list, for heap_init), and kmalloc calls itself
\* with wanted_size, giving up if that is 0.
heap_grow ==
    LET min_payload == IF pc = "init" THEN InitPayload ELSE wanted_size
        grown == IF ret' = 0 THEN chain ELSE Append(chain, NewBlock(ret'))
    IN  /\ pc \in {"init", "grow"}
        /\ pmm_alloc_frame
        /\ IF ret' # 0 /\ Payload < min_payload
           THEN /\ chain' = grown
                /\ UNCHANGED <<heap, pc, call>>
           ELSE /\ heap' = heap \o grown
                /\ chain' = <<>>
                /\ IF \/ grown = <<>>
                      \/ call.op = "heap_init"
                      \/ pc = "grow" /\ wanted_size = 0
                   THEN Return
                   ELSE pc' = "search" /\ UNCHANGED call
        /\ UNCHANGED <<cur, live>>

Fits == {i \in DOMAIN heap : heap[i].free /\ heap[i].size >= wanted_size}

\* kmalloc's walk: the first free block that is large enough is split and
\* taken; without one the heap grows.
kmalloc_search ==
    /\ pc = "search"
    /\ IF Fits = {}
       THEN pc' = "grow" /\ UNCHANGED <<heap, call, live>>
       ELSE LET i == Min(Fits)
                ptr == Ptr(heap[i])
            IN  /\ heap' = [split_block(heap, i, wanted_size) EXCEPT ![i].free = FALSE]
                /\ live' = Own(ptr, call.need)
                /\ IF call.op = "krealloc"
                   THEN pc' = "copy" /\ call' = [call EXCEPT !.new = ptr]
                   ELSE Return
    /\ UNCHANGED <<pmmVars, chain, cur>>

\* Mutant: copies as much as was asked for.
krealloc_copy_size ==
    /\ pc = "copy"
    /\ call' = [call EXCEPT !.len = call.size]
    /\ pc' = "release"
    /\ UNCHANGED <<pmmVars, heap, chain, cur, live>>

\* mem_copy(new_ptr, ptr, block->size)
krealloc_copy ==
    /\ pc = "copy"
    /\ call' = [call EXCEPT !.len = heap[IndexOf(call.ptr)].size]
    /\ pc' = "release"
    /\ UNCHANGED <<pmmVars, heap, chain, cur, live>>

krealloc_release ==
    /\ pc = "release"
    /\ Release(call.ptr)
    /\ UNCHANGED <<pmmVars, chain, call>>

\* Mutant: moves on after a merge instead of staying.
coalesce_blocks_advance ==
    /\ pc = "coalesce"
    /\ IF cur < Len(heap)
       THEN /\ heap' = IF Mergeable(heap, cur) THEN Merge(heap, cur) ELSE heap
            /\ cur' = cur + 1
            /\ UNCHANGED <<pc, call>>
       ELSE /\ cur' = 1
            /\ Return
            /\ UNCHANGED heap
    /\ UNCHANGED <<pmmVars, chain, live>>

\* One iteration of coalesce_blocks: absorb the successor and stay, or move
\* on; at the last block the call is over.
coalesce_blocks ==
    /\ pc = "coalesce"
    /\ \/ /\ cur < Len(heap)
          /\ Mergeable(heap, cur)
          /\ heap' = Merge(heap, cur)
          /\ UNCHANGED <<pc, call, cur>>
       \/ /\ cur < Len(heap)
          /\ ~Mergeable(heap, cur)
          /\ cur' = cur + 1
          /\ UNCHANGED <<heap, pc, call>>
       \/ /\ cur >= Len(heap)
          /\ cur' = 1
          /\ Return
          /\ UNCHANGED heap
    /\ UNCHANGED <<pmmVars, chain, live>>

Step == heap_grow \/ kmalloc_search \/ krealloc_copy \/ krealloc_release \/ coalesce_blocks

Call ==
    \/ boot_memory
    \/ heap_init
    \/ \E s \in Sizes : kmalloc(s)
    \/ \E n \in Counts, s \in Sizes : kcalloc(n, s)
    \/ \E p \in DOMAIN live : kfree(p)
    \/ \E p \in DOMAIN live \cup {0}, s \in Sizes : krealloc(p, s)

HeapNext == Call \/ Step

HeapSpec == HeapInit /\ [][HeapNext]_vars

\* A call that has started keeps executing.
FairHeapSpec == HeapSpec /\ WF_vars(Step)
-----------------------------------------------------------------------------
\* The shape of the allocator's state and of a call's locals.
HeapTypeOK ==
    /\ PMMTypeOK
    /\ heap \in Seq(Block)
    /\ chain \in Seq(Block)
    /\ pc \in {"idle", "init", "search", "grow", "copy", "release", "coalesce"}
    /\ call \in [op : {"none", "heap_init", "kmalloc", "kcalloc", "krealloc"},
                size : Nat, need : Nat, ptr : Nat, new : Nat, len : Nat]
    /\ cur \in Nat \ {0}
    /\ DOMAIN live \subseteq Nat
    /\ \A p \in DOMAIN live : live[p] \in Nat

AllBlocks == heap \o chain

BlockBytes == UNION {AllBlocks[i].addr .. End(AllBlocks[i]) - 1 : i \in DOMAIN AllBlocks}

FrameBytes == UNION {f * FrameSize .. (f + 1) * FrameSize - 1 : f \in held}

\* The blocks, headers included, tile the frames taken from the PMM: the list
\* is in address order, no two blocks overlap, and no byte is lost or claimed
\* from elsewhere by splitting, merging and growing (heap.c:79-155).
BlocksTileFrames ==
    /\ \A i, j \in DOMAIN AllBlocks : i < j => End(AllBlocks[i]) <= AllBlocks[j].addr
    /\ BlockBytes = FrameBytes

\* Every pointer a client owns is the payload of a block in use with room for
\* what was asked for, and every block in use is owned: nothing is freed or
\* reused behind a client's back and nothing leaks (heap.c:165-276).
LiveBlocksBacked ==
    /\ \A p \in DOMAIN live : \E i \in DOMAIN heap :
           Ptr(heap[i]) = p /\ ~heap[i].free /\ heap[i].size >= live[p]
    /\ \A i \in DOMAIN heap : ~heap[i].free => Ptr(heap[i]) \in DOMAIN live

\* What krealloc copies is all the client had, and stays inside both blocks
\* (heap.c:251-261).
ReallocKeepsContents ==
    pc = "release" =>
        /\ call.len >= live[call.ptr]
        /\ call.len <= heap[IndexOf(call.ptr)].size
        /\ call.len <= heap[IndexOf(call.new)].size

\* When kfree returns, no two physically adjacent blocks are both free: one
\* pass over the list merges all there is to merge (heap.c:138-155).
MergedAfterFree ==
    [][pc = "coalesce" /\ pc' = "idle" =>
         \A i, j \in DOMAIN heap' :
             heap'[i].free /\ heap'[j].free => End(heap'[i]) # heap'[j].addr]_vars

\* A request that a frame can hold fails only when the PMM has no frame left
\* and no free block is large enough; one that finds no heap at all fails only
\* when there was no frame to make one (heap.c:175-212).
FailureMeansExhausted ==
    [][call.op # "heap_init" /\ pc' = "idle" =>
         /\ pc = "init" => FreeFrames' = {}
         /\ pc = "grow" /\ wanted_size <= Payload => FreeFrames' = {} /\ Fits = {}]_vars

\* Every call returns: the grow loop, kmalloc's call of itself and the
\* coalescing walk all end (heap.c:92, 144, 212).
CallsReturn == pc # "idle" ~> pc = "idle"

\* heap_grow's contract (heap.c:76): when it returns a chunk, min_payload
\* bytes have become available.
GrowthDelivers ==
    [][pc = "grow" /\ heap' # heap =>
         \E i \in DOMAIN heap' : heap'[i].free /\ heap'[i].size >= wanted_size]_vars
-----------------------------------------------------------------------------
Grants == INSTANCE Allocator WITH arena <- FrameBytes, granted <- live

\* What a client may rely on, stated without blocks or frames: each pointer
\* kmalloc, kcalloc and krealloc return is a range of the heap's memory that
\* overlaps no other, until kfree or krealloc ends it (heap.h).
GrantsSpec == Grants!Spec
=============================================================================
