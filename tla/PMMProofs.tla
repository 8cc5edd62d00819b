----------------------------- MODULE PMMProofs -----------------------------
(***************************************************************************)
(* The frame allocator is correct for every frame size, number of frames   *)
(* and boot environment.                                                   *)
(***************************************************************************)
EXTENDS PMM, FiniteSetTheorems, WellFoundedInduction, TLAPS

\* Rounding an address up and down to a frame boundary (pmm.c:92-98).
LEMMA Rounding ==
    ASSUME NEW a \in Nat, NEW f \in Nat
    PROVE  /\ a \div FrameSize <= f <=> a < (f + 1) * FrameSize
           /\ f < a \div FrameSize <=> (f + 1) * FrameSize <= a
           /\ (a + FrameSize - 1) \div FrameSize <= f <=> a <= f * FrameSize
           /\ f < (a + FrameSize - 1) \div FrameSize <=> f * FrameSize < a
<1>n. FrameSize \in Nat \ {0}
  BY SizesAssumption
<1>1. ASSUME NEW b \in Nat
      PROVE  /\ b \div FrameSize <= f <=> b < (f + 1) * FrameSize
             /\ f < b \div FrameSize <=> (f + 1) * FrameSize <= b
  <2> DEFINE q == b \div FrameSize
  <2>1. q \in Nat /\ q * FrameSize <= b /\ b < q * FrameSize + FrameSize
    BY <1>n
  <2>2. q <= f => (q + 1) * FrameSize <= (f + 1) * FrameSize
    BY <1>n, <2>1
  <2>3. f + 1 <= q => (f + 1) * FrameSize <= q * FrameSize
    BY <1>n, <2>1
  <2>4. (q + 1) * FrameSize = q * FrameSize + FrameSize
    BY <1>n, <2>1
  <2>5. q <= f \/ f + 1 <= q
    BY <2>1
  <2> HIDE DEF q
  <2> QED
    BY <1>n, <2>1, <2>2, <2>3, <2>4, <2>5 DEF q
<1>2. a + FrameSize - 1 \in Nat
  BY <1>n
<1>3. (f + 1) * FrameSize = f * FrameSize + FrameSize /\ f * FrameSize \in Nat
  BY <1>n
<1> QED
  BY <1>n, <1>1, <1>2, <1>3

\* A frame lies inside the address space.
LEMMA FrameBounds ==
    ASSUME NEW f \in Frame
    PROVE  /\ f \in Nat
           /\ f * FrameSize \in Nat
           /\ (f + 1) * FrameSize = f * FrameSize + FrameSize
           /\ (f + 1) * FrameSize <= AddrLimit
           /\ AddrLimit \in Nat
<1>n. FrameSize \in Nat \ {0} /\ TotalFrames \in Nat \ {0} /\ f \in Nat /\ f + 1 <= TotalFrames
  BY SizesAssumption DEF Frame
<1>1. (f + 1) * FrameSize <= TotalFrames * FrameSize
  BY <1>n
<1>2. TotalFrames * FrameSize = FrameSize * TotalFrames
  BY <1>n
<1> QED
  BY <1>n, <1>1, <1>2 DEF AddrLimit

\* A region marked used takes exactly the frames it shares a byte with.
LEMMA UsedRegion ==
    ASSUME NEW start \in Nat, NEW end \in Nat, start < end, end <= AddrLimit
    PROVE  RegionFrames(start, end - start, TRUE) = {f \in Frame : Overlaps(f, Area(start, end))}
<1>1. AddrLimit \in Nat
  BY SizesAssumption DEF AddrLimit
<1>2. RegionFrames(start, end - start, TRUE)
        = {f \in Frame : /\ start \div FrameSize <= f
                         /\ f < (end + FrameSize - 1) \div FrameSize}
  BY <1>1 DEF RegionFrames
<1>3. ASSUME NEW f \in Frame
      PROVE  (/\ start \div FrameSize <= f
              /\ f < (end + FrameSize - 1) \div FrameSize)
             <=> Overlaps(f, Area(start, end))
  BY FrameBounds, Rounding DEF Overlaps, Area
<1> QED
  BY Zenon, <1>2, <1>3

\* A region marked free releases exactly the frames it contains.
LEMMA FreeRegion ==
    ASSUME NEW start \in Nat, NEW length \in Nat
    PROVE  RegionFrames(start, length, FALSE)
             = {f \in Frame : /\ start <= f * FrameSize
                              /\ (f + 1) * FrameSize <= start + length}
<1>n. AddrLimit \in Nat /\ FrameSize \in Nat \ {0}
  BY SizesAssumption DEF AddrLimit
<1> DEFINE end == IF start + length > AddrLimit THEN AddrLimit ELSE start + length
<1>1. end \in Nat
  BY <1>n
<1>2. ASSUME NEW f \in Frame
      PROVE  (/\ (start + FrameSize - 1) \div FrameSize <= f
              /\ f < end \div FrameSize)
             <=> (start <= f * FrameSize /\ (f + 1) * FrameSize <= start + length)
  <2>1. f < end \div FrameSize <=> (f + 1) * FrameSize <= end
    BY <1>1, FrameBounds, Rounding
  <2>2. (start + FrameSize - 1) \div FrameSize <= f <=> start <= f * FrameSize
    BY FrameBounds, Rounding
  <2>3. (f + 1) * FrameSize <= end <=> (f + 1) * FrameSize <= start + length
    BY <1>n, FrameBounds
  <2> QED
    BY <2>1, <2>2, <2>3
<1>3. CASE length = 0
  <2>1. ASSUME NEW f \in Frame, start <= f * FrameSize, (f + 1) * FrameSize <= start + length
        PROVE  FALSE
    BY <1>n, <1>3, <2>1, FrameBounds
  <2>2. RegionFrames(start, length, FALSE) = {}
    BY <1>3 DEF RegionFrames
  <2> QED
    BY Zenon, <2>1, <2>2
<1>4. CASE length # 0
  <2>1. RegionFrames(start, length, FALSE)
          = {f \in Frame : /\ (start + FrameSize - 1) \div FrameSize <= f
                           /\ f < end \div FrameSize}
    BY <1>4 DEF RegionFrames
  <2> QED
    BY Zenon, <1>2, <2>1
<1> QED
  BY Zenon, <1>3, <1>4

\* The frames freed for one memory-map entry, after clipping and the cast to
\* uint32_t, are those that lie wholly inside it.
LEMMA EntryRegion ==
    ASSUME NEW e \in MmapEntry, e.addr = 0 => e.len < AddrLimit
    PROVE  EntryFrames(e)
             = {f \in Frame : /\ e.type = 1
                              /\ e.addr <= f * FrameSize
                              /\ (f + 1) * FrameSize <= e.addr + e.len}
<1>n. AddrLimit \in Nat \ {0} /\ FrameSize \in Nat \ {0} /\ e.addr \in Nat /\ e.len \in Nat
  <2>1. AddrLimit \in Nat \ {0}
    BY SizesAssumption DEF AddrLimit
  <2> QED
    BY <2>1, SizesAssumption DEF MmapEntry
<1>1. CASE e.type = 1 /\ e.addr < AddrLimit
  <2> DEFINE max == AddrLimit - e.addr
             len == IF e.len > max THEN max ELSE e.len
  <2>1. len \in Nat /\ len < AddrLimit
    BY <1>n, <1>1
  <2>2. len % AddrLimit = len
    BY <1>n, <2>1
  <2>3. EntryFrames(e) = RegionFrames(e.addr, len, FALSE)
    BY Zenon, <1>1, <2>2 DEF EntryFrames
  <2>4. ASSUME NEW f \in Frame
        PROVE  (f + 1) * FrameSize <= e.addr + len <=> (f + 1) * FrameSize <= e.addr + e.len
    BY <1>n, <1>1, FrameBounds
  <2> HIDE DEF len
  <2> QED
    BY Zenon, <1>n, <1>1, <2>1, <2>3, <2>4, FreeRegion
<1>2. CASE ~(e.type = 1 /\ e.addr < AddrLimit)
  <2>1. EntryFrames(e) = {}
    BY Zenon, <1>2 DEF EntryFrames
  <2>2. ASSUME NEW f \in Frame, e.type = 1, e.addr <= f * FrameSize
        PROVE  FALSE
    BY <1>n, <1>2, <2>2, FrameBounds
  <2> QED
    BY <2>1, <2>2
<1> QED
  BY <1>1, <1>2

\* What pmm_init leaves free is exactly what may be granted.
LEMMA BootFrames ==
    ASSUME NEW b \in Boots
    PROVE  MmapFrames(b) \ ReservedFrames(b) = Grantable(b)
<1>n. AddrLimit \in Nat /\ b \in BootInfo
  BY SizesAssumption, BootsAssumption DEF AddrLimit
<1>1. ASSUME NEW f \in Frame
      PROVE  f \in MmapFrames(b)
             <=> /\ b.has_mmap
                 /\ \E e \in b.mmap : /\ e.type = 1
                                      /\ e.addr <= f * FrameSize
                                      /\ (f + 1) * FrameSize <= e.addr + e.len
  <2>1. \A e \in b.mmap : e \in MmapEntry /\ (e.addr = 0 => e.len < AddrLimit)
    BY <1>n, BootAddressesAssumption DEF BootInfo
  <2>2. \A e \in b.mmap : f \in EntryFrames(e) <=> /\ e.type = 1
                                                   /\ e.addr <= f * FrameSize
                                                   /\ (f + 1) * FrameSize <= e.addr + e.len
    BY <2>1, EntryRegion
  <2> QED
    BY <2>2 DEF MmapFrames
<1>2. MmapFrames(b) \subseteq Frame
  BY DEF MmapFrames, EntryFrames, RegionFrames
<1>3. \A r \in ReservedAreas(b) :
         /\ r = Area(r.start, r.end)
         /\ r.start < r.end => r.start \in Nat /\ r.end \in Nat /\ r.end <= AddrLimit
  <2>1. b.has_mods => Cardinality(b.mods) * ModSize \in Nat
    BY BootAddressesAssumption, FS_CardinalityType, SizesAssumption
  <2>2. /\ b.mmap_addr + b.mmap_length <= AddrLimit
        /\ b.mods_addr + Cardinality(b.mods) * ModSize <= AddrLimit
        /\ \A m \in b.mods : m.mod_end <= AddrLimit
        /\ b.mbi_addr + MbiSize <= AddrLimit
        /\ b.kernel_end <= AddrLimit
    BY BootAddressesAssumption
  <2>3. /\ b.mmap_addr \in Nat /\ b.mmap_length \in Nat /\ b.mods_addr \in Nat
        /\ b.mbi_addr \in Nat /\ b.kernel_start \in Nat /\ b.kernel_end \in Nat
        /\ \A m \in b.mods : m.mod_start \in Nat /\ m.mod_end \in Nat
    BY <1>n DEF BootInfo, Module
  <2>4. LowMemory \in Nat /\ LowMemory <= AddrLimit /\ MbiSize \in Nat
    BY <1>n, SizesAssumption
  <2> DEFINE table == Cardinality(b.mods) * ModSize
  <2> HIDE DEF table
  <2> QED
    BY <1>n, <2>1, <2>2, <2>3, <2>4 DEF ReservedAreas, Area, table
<1>4. ASSUME NEW f \in Frame
      PROVE  f \in ReservedFrames(b) <=> \E r \in ReservedAreas(b) : Overlaps(f, r)
  <2>1. ASSUME NEW r \in ReservedAreas(b), r.end > r.start
        PROVE  RegionFrames(r.start, r.end - r.start, TRUE) = {g \in Frame : Overlaps(g, r)}
    <3>1. r.start < r.end
      BY <2>1
    <3>2. RegionFrames(r.start, r.end - r.start, TRUE)
            = {g \in Frame : Overlaps(g, Area(r.start, r.end))}
      BY Zenon, <1>3, <3>1, UsedRegion
    <3> QED
      BY Zenon, <1>3, <3>2
  <2>2. \A r \in ReservedAreas(b) : Overlaps(f, r) => r.start < r.end
    BY DEF Overlaps
  <2>3. \A r \in ReservedAreas(b) : r.end > r.start <=> r.start < r.end
    OBVIOUS
  <2> QED
    BY Zenon, <2>1, <2>2, <2>3 DEF ReservedFrames
<1> QED
  BY <1>1, <1>2, <1>4 DEF Grantable
-----------------------------------------------------------------------------
\* There are finitely many frames, so that they can be counted.
LEMMA FrameFinite == IsFiniteSet(Frame)
  BY FS_Interval, SizesAssumption DEF Frame

\* The first clear bit that pmm_alloc_frame finds exists and is the lowest.
LEMMA LowestFrame ==
    ASSUME NEW S \in SUBSET Nat, S # {}
    PROVE  Min(S) \in S /\ \A g \in S : Min(S) <= g
<1> DEFINE R == OpToRel(<, Nat)
<1>1. IsWellFoundedOn(R, Nat)
  BY NatLessThanWellFounded, Zenon
<1>2. \A x, y \in Nat : <<x, y>> \in R <=> x < y
  BY DEF OpToRel
<1> HIDE DEF R
<1>3. PICK f \in S : \A g \in S : ~(<<g, f>> \in R)
  BY <1>1, WFMin, Zenon
<1>4. \A g \in S : ~(g < f)
  BY <1>2, <1>3, Zenon
<1>5. \A g \in S : f <= g
  BY <1>4
<1> QED
  BY Zenon, <1>5 DEF Min

\* Frame 0 is low memory, so it can never be granted.
LEMMA ZeroNotGrantable ==
    ASSUME NEW b \in Boots
    PROVE  0 \notin Grantable(b)
<1>1. Area(0, LowMemory) \in ReservedAreas(b)
  BY DEF ReservedAreas
<1>2. Overlaps(0, Area(0, LowMemory))
  BY SizesAssumption DEF Overlaps, Area
<1> QED
  BY <1>1, <1>2 DEF Grantable

\* Marking one clear frame used moves it out of the free set and the counter
\* follows; marking a set frame free is the inverse.
LEMMA MarkOne ==
    ASSUME NEW p, p \in [bitmap : SUBSET Frame, free_frames : Nat],
           p.free_frames = Cardinality(Frame \ p.bitmap), NEW f \in Frame
    PROVE  /\ f \notin p.bitmap =>
                /\ MarkUsed(p, {f}).bitmap = p.bitmap \cup {f}
                /\ MarkUsed(p, {f}) \in [bitmap : SUBSET Frame, free_frames : Nat]
                /\ MarkUsed(p, {f}).free_frames = Cardinality(Frame \ (p.bitmap \cup {f}))
           /\ f \in p.bitmap =>
                /\ MarkFree(p, {f}).bitmap = p.bitmap \ {f}
                /\ MarkFree(p, {f}) \in [bitmap : SUBSET Frame, free_frames : Nat]
                /\ MarkFree(p, {f}).free_frames = Cardinality(Frame \ (p.bitmap \ {f}))
<1>1. IsFiniteSet(Frame \ p.bitmap)
  BY FrameFinite, FS_Subset
<1>2. CASE f \notin p.bitmap
  <2>1. ({f} \cap Frame) \ p.bitmap = {f} /\ {f} \cap Frame = {f}
    BY <1>2
  <2>2. Cardinality({f}) = 1
    BY FS_Singleton
  <2>3. Cardinality((Frame \ p.bitmap) \ {f}) = Cardinality(Frame \ p.bitmap) - 1
    BY Zenon, <1>1, <1>2, FS_RemoveElement
  <2>4. (Frame \ p.bitmap) \ {f} = Frame \ (p.bitmap \cup {f})
    OBVIOUS
  <2>5. Cardinality(Frame \ (p.bitmap \cup {f})) \in Nat
    BY <1>1, <2>4, FS_RemoveElement, FS_CardinalityType, FS_Subset, FrameFinite
  <2>6. MarkUsed(p, {f}) = [bitmap |-> p.bitmap \cup {f},
                            free_frames |-> Cardinality(Frame \ (p.bitmap \cup {f}))]
    <3>1. p.free_frames >= 1 /\ p.free_frames - 1 = Cardinality(Frame \ (p.bitmap \cup {f}))
      <4>1. Cardinality(Frame \ (p.bitmap \cup {f})) = p.free_frames - 1
        BY <2>3, <2>4, Zenon
      <4>2. p.free_frames \in Nat
        BY Zenon
      <4> QED
        BY <2>5, <4>1, <4>2
    <3> QED
      BY Zenon, <2>1, <2>2, <3>1 DEF MarkUsed
  <2> QED
    BY <1>2, <2>5, <2>6
<1>3. CASE f \in p.bitmap
  <2>1. {f} \cap p.bitmap = {f} /\ Cardinality({f}) = 1
    BY <1>3, FS_Singleton
  <2>2. Cardinality((Frame \ p.bitmap) \cup {f}) = Cardinality(Frame \ p.bitmap) + 1
    BY Zenon, <1>1, <1>3, FS_AddElement
  <2>3. (Frame \ p.bitmap) \cup {f} = Frame \ (p.bitmap \ {f})
    OBVIOUS
  <2> QED
    BY <1>3, <2>1, <2>2, <2>3 DEF MarkFree
<1> QED
  BY <1>2, <1>3

\* The counter pmm_init leaves behind.
LEMMA BootCount ==
    ASSUME NEW M \in SUBSET Frame, NEW R \in SUBSET Frame
    PROVE  MarkUsed(MarkFree([bitmap |-> Frame, free_frames |-> 0], M), R)
             = [bitmap |-> (Frame \ M) \cup R, free_frames |-> Cardinality(M \ R)]
           /\ Cardinality(M \ R) \in Nat
<1> DEFINE p == MarkFree([bitmap |-> Frame, free_frames |-> 0], M)
<1>1. IsFiniteSet(M \ R) /\ IsFiniteSet(M \cap R) /\ IsFiniteSet(M)
  BY FrameFinite, FS_Subset
<1>2. /\ Cardinality(M \ R) \in Nat
      /\ Cardinality(M \cap R) \in Nat
      /\ Cardinality(M) \in Nat
  BY <1>1, FS_CardinalityType
<1>3. Cardinality(M) = Cardinality(M \ R) + Cardinality(M \cap R)
  <2>1. (M \ R) \cup (M \cap R) = M /\ (M \ R) \cap (M \cap R) = {}
    OBVIOUS
  <2>2. Cardinality((M \ R) \cup (M \cap R))
          = Cardinality(M \ R) + Cardinality(M \cap R) - Cardinality((M \ R) \cap (M \cap R))
    BY <1>1, FS_Union
  <2> QED
    BY <1>2, <2>1, <2>2, FS_EmptySet
<1>4. p = [bitmap |-> Frame \ M, free_frames |-> Cardinality(M)]
  <2>1. p = [bitmap |-> Frame \ M, free_frames |-> 0 + Cardinality(M \cap Frame)]
    BY Zenon DEF MarkFree
  <2>2. M \cap Frame = M
    OBVIOUS
  <2>3. 0 + Cardinality(M) = Cardinality(M)
    BY <1>2
  <2> QED
    BY <2>1, <2>2, <2>3, Zenon
<1>5. (R \cap Frame) \ p.bitmap = M \cap R /\ R \cap Frame = R
  BY <1>4
<1> HIDE DEF p
<1>6. p.free_frames >= Cardinality(M \cap R)
      /\ p.free_frames - Cardinality(M \cap R) = Cardinality(M \ R)
  BY <1>2, <1>3, <1>4
<1>7. MarkUsed(p, R) = [bitmap |-> (Frame \ M) \cup R, free_frames |-> Cardinality(M \ R)]
  BY SMTT(30), <1>4, <1>5, <1>6 DEF MarkUsed
<1> QED
  BY <1>2, <1>7 DEF p
-----------------------------------------------------------------------------
\* What every step preserves.  Conservation is the core: exactness of the
\* counter makes the marking of one frame count, and frame 0 not being
\* grantable makes the result 0 unambiguous.
PMMInv ==
    /\ PMMTypeOK
    /\ FreeCountExact
    /\ FramesConserved
    /\ ~up => held = {} /\ ret = NoRet
    /\ ret = 0 => FreeFrames = {}

\* Frame 0 is low memory and never granted, so a result of 0 is unambiguous.
LEMMA InvImplies ==
    ASSUME PMMInv
    PROVE  NullMeansExhausted
<1>1. 0 \notin held
  BY ZeroNotGrantable DEF PMMInv, PMMTypeOK, FramesConserved
<1> QED
  BY <1>1 DEF PMMInv, NullMeansExhausted

\* The static initialisers satisfy the invariant.
LEMMA InvInit == PMMInit => PMMInv
<1> SUFFICES ASSUME PMMInit
             PROVE  PMMInv
  OBVIOUS
<1>1. ~up /\ ret = NoRet /\ held = {}
  BY DEF PMMInit
<1>2. PMMTypeOK
  BY Zenon DEF PMMInit, PMMTypeOK
<1>3. FreeCountExact /\ FramesConserved
  BY <1>1, Zenon DEF FreeCountExact, FramesConserved
<1>4. ret # 0
  BY <1>1 DEF NoRet
<1> QED
  BY <1>1, <1>2, <1>3, <1>4 DEF PMMInv

\* pmm_init establishes the invariant; allocating and freeing preserve it.
LEMMA InvNext == PMMInv /\ [PMMNext]_pmmVars => PMMInv'
<1> SUFFICES ASSUME PMMInv, [PMMNext]_pmmVars
             PROVE  PMMInv'
  OBVIOUS
<1> USE DEF PMMInv
<1>n. FrameSize \in Nat \ {0}
  BY SizesAssumption
<1>1. CASE pmm_init
  <2>1. MmapFrames(boot) \in SUBSET Frame
    BY DEF MmapFrames, EntryFrames, RegionFrames
  <2>2. ReservedFrames(boot) \in SUBSET Frame
    BY DEF ReservedFrames, RegionFrames
  <2>3. /\ pmm' = [bitmap |-> (Frame \ MmapFrames(boot)) \cup ReservedFrames(boot),
                   free_frames |-> Cardinality(MmapFrames(boot) \ ReservedFrames(boot))]
        /\ Cardinality(MmapFrames(boot) \ ReservedFrames(boot)) \in Nat
    BY <1>1, <2>1, <2>2, BootCount DEF pmm_init
  <2>4. FreeFrames' = MmapFrames(boot) \ ReservedFrames(boot)
    BY <2>1, <2>2, <2>3 DEF FreeFrames
  <2>5. FreeFrames' = Grantable(boot)
    BY <2>4, BootFrames DEF PMMTypeOK
  <2>6. PMMTypeOK'
    BY <1>1, <2>1, <2>2, <2>3 DEF PMMTypeOK, pmm_init
  <2>7. FreeCountExact'
    BY <2>3, <2>4 DEF FreeCountExact
  <2>8. held' = {} /\ ret' = NoRet /\ up' /\ boot' = boot
    BY <1>1 DEF pmm_init
  <2>9. FramesConserved'
    BY <2>5, <2>8 DEF FramesConserved
  <2> QED
    BY <2>6, <2>7, <2>8, <2>9 DEF NoRet
<1>2. CASE pmm_alloc_frame
  <2>1. CASE FreeFrames = {}
    <3>1. UNCHANGED <<boot, up, pmm, held>> /\ ret' = 0
      BY <1>2, <2>1 DEF pmm_alloc_frame
    <3>2. 0 \in {f * FrameSize : f \in Frame}
      <4>1. 0 \in Frame /\ 0 * FrameSize = 0
        BY SizesAssumption DEF Frame
      <4> QED
        BY <4>1
    <3> QED
      BY <1>2, <2>1, <3>1, <3>2
      DEF PMMTypeOK, FreeCountExact, FramesConserved, FreeFrames, pmm_alloc_frame
  <2>2. CASE FreeFrames # {}
    <3> DEFINE f == Min(FreeFrames)
    <3>1. f \in FreeFrames
      BY <2>2, LowestFrame DEF FreeFrames, Frame
    <3> HIDE DEF f
    <3>2. /\ up /\ up' /\ boot' = boot
          /\ pmm' = MarkUsed(pmm, {f})
          /\ held' = held \cup {f}
          /\ ret' = f * FrameSize
      BY <1>2, <2>2 DEF pmm_alloc_frame, f
    <3>3. /\ pmm \in [bitmap : SUBSET Frame, free_frames : Nat]
          /\ pmm.free_frames = Cardinality(Frame \ pmm.bitmap)
          /\ f \in Frame /\ f \notin pmm.bitmap
      BY <3>1, <3>2 DEF PMMTypeOK, FreeCountExact, FreeFrames
    <3>4. /\ pmm'.bitmap = pmm.bitmap \cup {f}
          /\ pmm' \in [bitmap : SUBSET Frame, free_frames : Nat]
          /\ pmm'.free_frames = Cardinality(Frame \ (pmm.bitmap \cup {f}))
      BY Zenon, <3>2, <3>3, MarkOne
    <3>5. FreeFrames' = FreeFrames \ {f}
      BY <3>4 DEF FreeFrames
    <3>6. PMMTypeOK'
      BY Zenon, <3>2, <3>3, <3>4 DEF PMMTypeOK
    <3>7. FreeCountExact'
      BY <3>4 DEF FreeCountExact, FreeFrames
    <3>8. FramesConserved'
      BY <3>1, <3>2, <3>5 DEF FramesConserved
    <3>9. ret' # 0
      <4>1. f # 0
        BY <3>1, <3>2, ZeroNotGrantable DEF FramesConserved, PMMTypeOK
      <4> QED
        BY <1>n, <3>2, <3>3, <4>1 DEF Frame
    <3> QED
      BY <3>2, <3>6, <3>7, <3>8, <3>9
  <2> QED
    BY <2>1, <2>2
<1>3. ASSUME NEW g \in Frame, pmm_free_frame(g * FrameSize)
      PROVE  PMMInv'
  <2> DEFINE f == (g * FrameSize) \div FrameSize
  <2> HIDE DEF f
  <2>1. /\ up /\ up' /\ boot' = boot
        /\ f \in held
        /\ pmm' = MarkFree(pmm, {f})
        /\ held' = held \ {f}
        /\ ret' = NoRet
    BY <1>3 DEF pmm_free_frame, f
  <2>2. /\ pmm \in [bitmap : SUBSET Frame, free_frames : Nat]
        /\ pmm.free_frames = Cardinality(Frame \ pmm.bitmap)
        /\ f \in Frame /\ f \in pmm.bitmap
    BY <2>1 DEF PMMTypeOK, FreeCountExact, FramesConserved, FreeFrames
  <2>3. /\ pmm'.bitmap = pmm.bitmap \ {f}
        /\ pmm' \in [bitmap : SUBSET Frame, free_frames : Nat]
        /\ pmm'.free_frames = Cardinality(Frame \ (pmm.bitmap \ {f}))
    BY Zenon, <2>1, <2>2, MarkOne
  <2>4. FreeFrames' = FreeFrames \cup {f}
    BY <2>2, <2>3 DEF FreeFrames
  <2>5. PMMTypeOK'
    BY Zenon, <2>1, <2>3 DEF PMMTypeOK
  <2>6. FreeCountExact'
    BY <2>3 DEF FreeCountExact, FreeFrames
  <2>7. FramesConserved'
    BY <2>1, <2>4 DEF FramesConserved
  <2> QED
    BY <2>1, <2>5, <2>6, <2>7 DEF NoRet
<1>4. CASE UNCHANGED pmmVars
  BY <1>4 DEF pmmVars, PMMTypeOK, FreeCountExact, FramesConserved, FreeFrames
<1> QED
  BY <1>1, <1>2, <1>3, <1>4 DEF PMMNext

\* For every memory layout: the free-frame counter is exact, frames are
\* conserved and only grantable ones ever leave the manager, and the result 0
\* means exhaustion (pmm.c:42-192).
THEOREM PMMCorrect ==
    PMMSpec => [](PMMTypeOK /\ FreeCountExact /\ FramesConserved /\ NullMeansExhausted)
<1>1. PMMInv => PMMTypeOK /\ FreeCountExact /\ FramesConserved /\ NullMeansExhausted
  BY InvImplies DEF PMMInv
<1> QED
  BY <1>1, InvInit, InvNext, PTL DEF PMMSpec
=============================================================================
