-------------------------------- MODULE PMM --------------------------------
(***************************************************************************)
(* The physical memory manager (memory/pmm.c): a bitmap with one bit per   *)
(* frame and a counter of clear bits.  pmm_init builds it from what the    *)
(* boot loader reports; afterwards clients take and return single frames.  *)
(*                                                                         *)
(* The address space is TotalFrames * FrameSize bytes (2^32 in the kernel, *)
(* whose uint32_t arithmetic wraps exactly there).                         *)
(***************************************************************************)
EXTENDS Integers, FiniteSetsExt

CONSTANTS
    FrameSize,      \* PMM_FRAME_SIZE
    TotalFrames,    \* PMM_MAX_FRAMES
    LowMemory,      \* the first megabyte, always reserved
    MbiSize,        \* sizeof(multiboot_info_t)
    ModSize,        \* sizeof(multiboot_module_t)
    Boots           \* the boot environments the loader may hand over

AddrLimit == FrameSize * TotalFrames

Frame == 0 .. TotalFrames - 1

MmapEntry == [addr : Nat, len : Nat, type : Nat]

Module == [mod_start : Nat, mod_end : Nat]

\* multiboot_info_t and the arguments of pmm_init.  Order in the two tables
\* does not matter: marking is idempotent and all marks of a kind commute.
BootInfo == [has_mmap : BOOLEAN, mmap : SUBSET MmapEntry,
             mmap_addr : Nat, mmap_length : Nat,
             has_mods : BOOLEAN, mods : SUBSET Module, mods_addr : Nat,
             mbi_addr : Nat, kernel_start : Nat, kernel_end : Nat]

ASSUME SizesAssumption ==
    /\ FrameSize \in Nat \ {0}
    /\ TotalFrames \in Nat \ {0}
    /\ LowMemory \in 1 .. AddrLimit
    /\ MbiSize \in Nat \ {0}
    /\ ModSize \in Nat \ {0}

ASSUME BootsAssumption == Boots \subseteq BootInfo

\* Everything the loader leaves in memory lies below 2^32, and no single
\* memory-map entry spans all of it (a PC always has a device hole).
ASSUME BootAddressesAssumption ==
    \A b \in Boots :
        /\ \A e \in b.mmap : e.addr = 0 => e.len < AddrLimit
        /\ b.mmap_addr + b.mmap_length <= AddrLimit
        /\ IsFiniteSet(b.mods)
        /\ b.mods_addr + Cardinality(b.mods) * ModSize <= AddrLimit
        /\ \A m \in b.mods : m.mod_end <= AddrLimit
        /\ b.mbi_addr + MbiSize <= AddrLimit
        /\ b.kernel_end <= AddrLimit

VARIABLES
    boot,           \* the boot environment of this run
    up,             \* pmm_init has run
    pmm,            \* [bitmap: frames whose bit is 1, free_frames: the counter]
    held,           \* frames handed out and not returned (the clients' view)
    ret             \* what the last pmm_alloc_frame returned, NoRet if none

pmmVars == <<boot, up, pmm, held, ret>>

NoRet == -1

FreeFrames == Frame \ pmm.bitmap
-----------------------------------------------------------------------------
\* Mutant: the bit is not tested before the counter is adjusted.
MarkUsedUntested(p, frames) ==
    LET marked == Cardinality(frames \cap Frame)
    IN  [bitmap |-> p.bitmap \cup (frames \cap Frame),
         free_frames |-> IF p.free_frames >= marked
                         THEN p.free_frames - marked ELSE 0]

\* pmm_mark_frame_used over a set: only a clear bit counts, the counter
\* stops at zero.
MarkUsed(p, frames) ==
    LET fresh == Cardinality((frames \cap Frame) \ p.bitmap)
    IN  [bitmap |-> p.bitmap \cup (frames \cap Frame),
         free_frames |-> IF p.free_frames >= fresh
                         THEN p.free_frames - fresh ELSE 0]

\* pmm_mark_frame_free over a set: only a set bit counts.
MarkFree(p, frames) ==
    [bitmap |-> p.bitmap \ frames,
     free_frames |-> p.free_frames + Cardinality(frames \cap p.bitmap)]

\* Mutant: free regions are rounded outwards too.
RegionFramesOutwards(start, length, used) ==
    LET sum == start + length
        end == IF sum > AddrLimit THEN AddrLimit ELSE sum
    IN  IF length = 0 THEN {}
        ELSE {f \in Frame : /\ start \div FrameSize <= f
                            /\ f < (end + FrameSize - 1) \div FrameSize}

\* The frames pmm_mark_region touches: a used region is rounded outwards to
\* frame boundaries, a free one inwards.
RegionFrames(start, length, used) ==
    LET sum   == start + length
        end   == IF sum > AddrLimit THEN AddrLimit ELSE sum
        first == IF used THEN start \div FrameSize
                         ELSE (start + FrameSize - 1) \div FrameSize
        last  == IF used THEN (end + FrameSize - 1) \div FrameSize
                         ELSE end \div FrameSize
    IN  IF length = 0 THEN {} ELSE {f \in Frame : first <= f /\ f < last}

\* The memory-map entries pmm_init frees, their length clipped at 2^32 and
\* then cast to uint32_t.
EntryFrames(e) ==
    LET max == AddrLimit - e.addr
        len == IF e.len > max THEN max ELSE e.len
    IN  IF e.type = 1 /\ e.addr < AddrLimit
        THEN RegionFrames(e.addr, len % AddrLimit, FALSE) ELSE {}

MmapFrames(b) ==
    IF b.has_mmap THEN UNION {EntryFrames(e) : e \in b.mmap} ELSE {}

Area(start, end) == [start |-> start, end |-> end]

\* Mutant: the first megabyte is not reserved.
ReservedAreasNoLow(b) ==
    {Area(b.kernel_start, b.kernel_end), Area(b.mbi_addr, b.mbi_addr + MbiSize)}

\* The byte ranges pmm_init reserves after it has freed the usable ones.
ReservedAreas(b) ==
    {Area(0, LowMemory), Area(b.kernel_start, b.kernel_end),
     Area(b.mbi_addr, b.mbi_addr + MbiSize)}
    \cup (IF b.has_mods
          THEN {Area(b.mods_addr, b.mods_addr + Cardinality(b.mods) * ModSize)}
               \cup {Area(m.mod_start, m.mod_end) : m \in b.mods}
          ELSE {})
    \cup (IF b.has_mmap
          THEN {Area(b.mmap_addr, b.mmap_addr + b.mmap_length)} ELSE {})

ReservedFrames(b) ==
    UNION {RegionFrames(r.start, r.end - r.start, TRUE) :
               r \in {a \in ReservedAreas(b) : a.end > a.start}}
-----------------------------------------------------------------------------
PMMInit ==
    /\ boot \in Boots
    /\ up = FALSE
    /\ pmm = [bitmap |-> {}, free_frames |-> 0]
    /\ held = {}
    /\ ret = NoRet

pmm_init ==
    /\ ~up
    /\ up' = TRUE
    /\ pmm' = MarkUsed(MarkFree([bitmap |-> Frame, free_frames |-> 0],
                                MmapFrames(boot)),
                       ReservedFrames(boot))
    /\ UNCHANGED <<boot, held, ret>>

\* First clear bit from frame 0 upwards; 0 when there is none.
pmm_alloc_frame ==
    /\ up
    /\ IF FreeFrames = {}
       THEN /\ ret' = 0
            /\ UNCHANGED <<pmm, held>>
       ELSE LET f == Min(FreeFrames)
            IN  /\ pmm' = MarkUsed(pmm, {f})
                /\ held' = held \cup {f}
                /\ ret' = f * FrameSize
    /\ UNCHANGED <<boot, up>>

\* A client returns the address of a frame it holds.
pmm_free_frame(frame_addr) ==
    LET frame == frame_addr \div FrameSize
    IN  /\ up
        /\ frame \in held
        /\ pmm' = MarkFree(pmm, {frame})
        /\ held' = held \ {frame}
        /\ ret' = NoRet
        /\ UNCHANGED <<boot, up>>

PMMNext ==
    \/ pmm_init
    \/ pmm_alloc_frame
    \/ \E f \in Frame : pmm_free_frame(f * FrameSize)

PMMSpec == PMMInit /\ [][PMMNext]_pmmVars
-----------------------------------------------------------------------------
\* The shape of the manager's state, from the static initialisers on.
PMMTypeOK ==
    /\ boot \in Boots
    /\ up \in BOOLEAN
    /\ pmm \in [bitmap : SUBSET Frame, free_frames : Nat]
    /\ held \subseteq Frame
    /\ ret \in {NoRet} \cup {f * FrameSize : f \in Frame}

\* pmm_get_free_frames is exact once pmm_init has run: the counter, which is
\* only ever adjusted, equals the number of clear bits (pmm.c:53-57, 72-75).
FreeCountExact == up => pmm.free_frames = Cardinality(FreeFrames)

Overlaps(f, area) == /\ area.start < area.end
                     /\ area.start < (f + 1) * FrameSize
                     /\ f * FrameSize < area.end

\* The frames that may ever be handed out, said in bytes and without any
\* rounding: wholly inside one available entry, touching nothing reserved.
Grantable(b) ==
    {f \in Frame :
        /\ b.has_mmap
        /\ \E e \in b.mmap : /\ e.type = 1
                             /\ e.addr <= f * FrameSize
                             /\ (f + 1) * FrameSize <= e.addr + e.len
        /\ \A r \in ReservedAreas(b) : ~Overlaps(f, r)}

\* No frame is lost, invented or handed out twice: the free and the held
\* frames are disjoint and together exactly the grantable ones, so kernel
\* image, modules and boot tables are never given away (pmm.c:78-170).
FramesConserved ==
    up => /\ FreeFrames \cap held = {}
          /\ FreeFrames \cup held = Grantable(boot)

\* The result 0 always means "no frame left" and is never the address of a
\* frame: callers test for it (pmm.c:172-184, heap.c:83, 98).
NullMeansExhausted ==
    /\ ret = 0 => FreeFrames = {}
    /\ 0 \notin held
=============================================================================
