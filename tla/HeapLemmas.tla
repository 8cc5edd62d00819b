----------------------------- MODULE HeapLemmas -----------------------------
(***************************************************************************)
(* What the operations of the heap do to a list of blocks: splitting,      *)
(* merging, taking, freeing and appending, for any list.                   *)
(***************************************************************************)
EXTENDS Heap, PMMProofs, SeqLemmas

\* The three things about a list that the proofs look at.
Ordered(s) == \A i, j \in DOMAIN s : i < j => End(s[i]) <= s[j].addr

\* The bytes a list covers, headers included.
Bytes(s) == UNION {s[i].addr .. End(s[i]) - 1 : i \in DOMAIN s}

\* The blocks of a list that are not free.
InUse(s) == {b \in {s[i] : i \in DOMAIN s} : ~b.free}

\* What the assumptions say of the constants.
LEMMA HeapConstants ==
    /\ HeaderSize \in Nat \ {0} /\ FrameSize \in Nat \ {0} /\ MinSplit \in Nat
    /\ Payload \in Nat /\ HeaderSize + Payload = FrameSize
    /\ AddrLimit \in Nat \ {0} /\ Alignment \in Nat \ {0} /\ InitPayload \in Nat
<1>1. AddrLimit \in Nat \ {0}
  BY SizesAssumption DEF AddrLimit
<1> QED
  BY <1>1, HeapAssumption, SizesAssumption DEF Payload

\* A block of a list is well formed, and not empty: it has a header.
LEMMA BlockFacts ==
    ASSUME NEW s \in Seq(Block), NEW i \in DOMAIN s
    PROVE  /\ s[i] \in Block
           /\ s[i].addr \in Nat /\ s[i].size \in Nat /\ s[i].free \in BOOLEAN
           /\ End(s[i]) \in Nat /\ s[i].addr < End(s[i])
           /\ i \in 1 .. Len(s)
<1>1. i \in 1 .. Len(s) /\ s[i] \in Block
  OBVIOUS
<1>2. s[i].addr \in Nat /\ s[i].size \in Nat /\ s[i].free \in BOOLEAN
  BY <1>1 DEF Block
<1>3. HeaderSize \in Nat /\ HeaderSize > 0
  BY HeapConstants
<1> QED
  BY <1>1, <1>2, <1>3 DEF End

\* Membership in Bytes, spelled out for the provers.
LEMMA InBytes ==
    ASSUME NEW s, NEW a
    PROVE  a \in Bytes(s) <=> \E i \in DOMAIN s : a \in s[i].addr .. End(s[i]) - 1
  BY DEF Bytes

\* t is the list s with its free block i cut in two.
CutAt(t, s, i) ==
    /\ Len(t) = Len(s) + 1
    /\ \A j \in 1 .. Len(s) : j < i => t[j] = s[j]
    /\ \A j \in 1 .. Len(s) : j > i => t[j + 1] = s[j]
    /\ t[i].addr = s[i].addr /\ End(t[i]) = t[i + 1].addr /\ End(t[i + 1]) = End(s[i])
    /\ s[i].free /\ t[i].free /\ t[i + 1].free

\* The two lists agree on everything the heap's invariants mention.
Alike(s, t) ==
    /\ Ordered(s) <=> Ordered(t)
    /\ Bytes(s) = Bytes(t)
    /\ InUse(s) = InUse(t)

\* Cutting a free block in two, or joining the halves, changes neither the
\* order nor the bytes nor the blocks in use.
LEMMA CutInTwo ==
    ASSUME NEW s \in Seq(Block), NEW t \in Seq(Block), NEW i \in 1 .. Len(s), CutAt(t, s, i)
    PROVE  Alike(s, t)
<1> SUFFICES ASSUME Len(t) = Len(s) + 1,
                    \A j \in 1 .. Len(s) : j < i => t[j] = s[j],
                    \A j \in 1 .. Len(s) : j > i => t[j + 1] = s[j],
                    t[i].addr = s[i].addr, End(t[i]) = t[i + 1].addr, End(t[i + 1]) = End(s[i]),
                    s[i].free, t[i].free, t[i + 1].free
             PROVE  /\ Ordered(s) <=> Ordered(t)
                    /\ Bytes(s) = Bytes(t)
                    /\ InUse(s) = InUse(t)
  BY Zenon DEF CutAt, Alike
<1>0. /\ Len(s) \in Nat /\ i \in Nat /\ 1 <= i /\ i <= Len(s)
      /\ DOMAIN s = 1 .. Len(s) /\ DOMAIN t = 1 .. Len(s) + 1
  OBVIOUS
<1>1. ASSUME NEW k \in 1 .. Len(s) + 1, k # i, k # i + 1
      PROVE  \E j \in 1 .. Len(s) : /\ j # i
                                    /\ t[k] = s[j]
                                    /\ j = IF k < i THEN k ELSE k - 1
  <2>1. CASE k < i
    BY <1>0, <2>1
  <2>2. CASE k > i
    <3>1. k - 1 \in 1 .. Len(s) /\ k - 1 > i /\ (k - 1) + 1 = k /\ ~(k < i)
      BY <1>0, <1>1, <2>2
    <3> QED
      BY <3>1
  <2> QED
    BY <1>0, <1>1, <2>1, <2>2
<1>2. ASSUME NEW j \in 1 .. Len(s), j # i
      PROVE  \E k \in 1 .. Len(s) + 1 : /\ k # i /\ k # i + 1
                                        /\ t[k] = s[j]
                                        /\ k = IF j < i THEN j ELSE j + 1
  <2>1. CASE j < i
    BY <1>0, <2>1
  <2>2. CASE j > i
    BY <1>0, <2>2
  <2> QED
    BY <1>0, <1>2, <2>1, <2>2
<1>3. /\ \A j \in 1 .. Len(s) : s[j].addr \in Nat /\ End(s[j]) \in Nat /\ s[j].addr < End(s[j])
      /\ \A k \in 1 .. Len(s) + 1 : t[k].addr \in Nat /\ End(t[k]) \in Nat /\ t[k].addr < End(t[k])
  BY <1>0, BlockFacts
<1>4. Ordered(s) => Ordered(t)
  <2> SUFFICES ASSUME Ordered(s), NEW k \in 1 .. Len(s) + 1, NEW l \in 1 .. Len(s) + 1, k < l
               PROVE  End(t[k]) <= t[l].addr
    BY <1>0 DEF Ordered
  <2>1. \A m, n \in 1 .. Len(s) : m < n => End(s[m]) <= s[n].addr
    BY Zenon, <1>0 DEF Ordered
  <2>2. i \in 1 .. Len(s) + 1 /\ i + 1 \in 1 .. Len(s) + 1
    BY <1>0
  <2>3. CASE k = i /\ l = i + 1
    BY SMTT(30), <1>0, <1>3, <2>2, <2>3
  <2>4. CASE k \in {i, i + 1} /\ l \notin {i, i + 1}
    <3>1. PICK n \in 1 .. Len(s) : n # i /\ t[l] = s[n] /\ n = IF l < i THEN l ELSE l - 1
      BY <1>1, <2>4
    <3>2. i < n
      BY <1>0, <2>4, <3>1
    <3>3. End(s[i]) <= s[n].addr
      BY SMTT(30), <1>0, <2>1, <3>2
    <3>4. End(t[k]) <= End(s[i])
      BY SMTT(30), <1>0, <1>3, <2>2, <2>4
    <3> QED
      BY <1>3, <3>1, <3>3, <3>4
  <2>5. CASE k \notin {i, i + 1} /\ l \in {i, i + 1}
    <3>1. PICK m \in 1 .. Len(s) : m # i /\ t[k] = s[m] /\ m = IF k < i THEN k ELSE k - 1
      BY <1>1, <2>5
    <3>2. m < i
      BY <1>0, <2>5, <3>1
    <3>3. End(s[m]) <= s[i].addr
      BY <1>0, <2>1, <3>2
    <3>4. s[i].addr <= t[l].addr
      BY SMTT(30), <1>0, <1>3, <2>2, <2>5
    <3> QED
      BY SMTT(30), <1>3, <3>1, <3>3, <3>4
  <2>6. CASE k \notin {i, i + 1} /\ l \notin {i, i + 1}
    <3>1. PICK m \in 1 .. Len(s) : m # i /\ t[k] = s[m] /\ m = IF k < i THEN k ELSE k - 1
      BY <1>1, <2>6
    <3>2. PICK n \in 1 .. Len(s) : n # i /\ t[l] = s[n] /\ n = IF l < i THEN l ELSE l - 1
      BY <1>1, <2>6
    <3>3. m < n
      BY <1>0, <2>6, <3>1, <3>2
    <3>4. End(s[m]) <= s[n].addr
      BY <2>1, <3>3
    <3> QED
      BY <3>1, <3>2, <3>4
  <2> QED
    BY SMTT(30), <1>0, <2>3, <2>4, <2>5, <2>6
<1>5. Ordered(t) => Ordered(s)
  <2> SUFFICES ASSUME Ordered(t), NEW m \in 1 .. Len(s), NEW n \in 1 .. Len(s), m < n
               PROVE  End(s[m]) <= s[n].addr
    BY <1>0 DEF Ordered
  <2>1. \A k, l \in 1 .. Len(s) + 1 : k < l => End(t[k]) <= t[l].addr
    BY Zenon, <1>0 DEF Ordered
  <2>2. \E k \in 1 .. Len(s) + 1 : End(t[k]) = End(s[m]) /\ k = IF m < i THEN m ELSE m + 1
    <3>1. CASE m = i
      <4>1. i + 1 \in 1 .. Len(s) + 1 /\ ~(i < i)
        BY <1>0
      <4> QED
        BY <3>1, <4>1
    <3>2. CASE m # i
      BY <1>2, <3>2
    <3> QED
      BY <3>1, <3>2
  <2>3. \E l \in 1 .. Len(s) + 1 : t[l].addr = s[n].addr /\ l = IF n <= i THEN n ELSE n + 1
    <3>1. CASE n = i
      BY <1>0, <3>1
    <3>2. CASE n # i
      BY <1>0, <1>2, <3>2
    <3> QED
      BY <3>1, <3>2
  <2> QED
    BY SMTT(30), <1>0, <2>1, <2>2, <2>3
<1>6. Bytes(s) = Bytes(t)
  <2>1. ASSUME NEW a \in Bytes(s)
        PROVE  a \in Bytes(t)
    <3>1. PICK j \in 1 .. Len(s) : a \in s[j].addr .. End(s[j]) - 1
      BY <1>0, InBytes
    <3>2. CASE j = i
      <4>1. a \in t[i].addr .. End(t[i]) - 1 \/ a \in t[i + 1].addr .. End(t[i + 1]) - 1
        BY <1>0, <1>3, <3>1, <3>2
      <4> QED
        BY <1>0, <4>1, InBytes
    <3>3. CASE j # i
      BY SMTT(30), <1>0, <1>2, <3>1, <3>3, InBytes
    <3> QED
      BY <3>2, <3>3
  <2>2. ASSUME NEW a \in Bytes(t)
        PROVE  a \in Bytes(s)
    <3>1. PICK k \in 1 .. Len(s) + 1 : a \in t[k].addr .. End(t[k]) - 1
      BY <1>0, InBytes
    <3>2. CASE k = i \/ k = i + 1
      <4>1. a \in s[i].addr .. End(s[i]) - 1
        BY SMTT(30), <1>0, <1>3, <3>1, <3>2
      <4> QED
        BY <1>0, <4>1, InBytes
    <3>3. CASE k # i /\ k # i + 1
      BY SMTT(30), <1>0, <1>1, <3>1, <3>3, InBytes
    <3> QED
      BY <3>2, <3>3
  <2> QED
    BY Zenon, <2>1, <2>2
<1>7. InUse(s) = InUse(t)
  <2>1. \A j \in 1 .. Len(s) : ~s[j].free => \E k \in 1 .. Len(s) + 1 : t[k] = s[j]
    BY <1>2
  <2>2. \A k \in 1 .. Len(s) + 1 : ~t[k].free => \E j \in 1 .. Len(s) : t[k] = s[j]
    BY <1>1
  <2>3. \A b : b \in InUse(s) <=> ~b.free /\ \E j \in 1 .. Len(s) : b = s[j]
    BY <1>0 DEF InUse
  <2>4. \A b : b \in InUse(t) <=> ~b.free /\ \E k \in 1 .. Len(s) + 1 : b = t[k]
    BY ZenonT(30), <1>0 DEF InUse
  <2>5. \A b : b \in InUse(s) <=> b \in InUse(t)
    <3> TAKE b
    <3>1. ASSUME b \in InUse(s)
          PROVE  b \in InUse(t)
      <4>1. PICK j \in 1 .. Len(s) : b = s[j]
        BY <2>3, <3>1
      <4>2. ~b.free
        BY <2>3, <3>1
      <4>3. PICK k \in 1 .. Len(s) + 1 : t[k] = s[j]
        BY <2>1, <4>1, <4>2
      <4> QED
        BY <2>4, <4>1, <4>2, <4>3
    <3>2. ASSUME b \in InUse(t)
          PROVE  b \in InUse(s)
      <4>1. PICK k \in 1 .. Len(s) + 1 : b = t[k]
        BY <2>4, <3>2
      <4>2. ~b.free
        BY <2>4, <3>2
      <4>3. PICK j \in 1 .. Len(s) : t[k] = s[j]
        BY <2>2, <4>1, <4>2
      <4> QED
        BY <2>3, <4>1, <4>2, <4>3
    <3> QED
      BY <3>1, <3>2
  <2> QED
    BY Zenon, <2>5
<1> QED
  BY <1>4, <1>5, <1>6, <1>7

\* c is s with the i-th block's size and flag assigned.
Rewritten(c, s, i, size, free) ==
    /\ c \in Seq(Block) /\ Len(c) = Len(s)
    /\ \A j \in 1 .. Len(s) : j # i => c[j] = s[j]
    /\ c[i].addr = s[i].addr /\ c[i].size = size /\ c[i].free = free

\* Assigning to one block's size or flag leaves the rest of the list alone.
LEMMA SetSize ==
    ASSUME NEW s \in Seq(Block), NEW i \in DOMAIN s, NEW w \in Nat
    PROVE  Rewritten([s EXCEPT ![i].size = w], s, i, w, s[i].free)
<1>0. s[i] \in Block
  OBVIOUS
<1>1. PICK b : b = [s[i] EXCEPT !.size = w]
  BY Zenon
<1>2. b \in Block /\ b.addr = s[i].addr /\ b.size = w /\ b.free = s[i].free
  BY <1>0, <1>1 DEF Block
<1>3. [s EXCEPT ![i].size = w] = [s EXCEPT ![i] = b]
  BY <1>1
<1> QED
  BY <1>2, <1>3 DEF Rewritten

\* Setting a flag rewrites one block in place.
LEMMA SetFree ==
    ASSUME NEW s \in Seq(Block), NEW i \in DOMAIN s, NEW v \in BOOLEAN
    PROVE  Rewritten([s EXCEPT ![i].free = v], s, i, s[i].size, v)
<1>0. s[i] \in Block
  OBVIOUS
<1>1. PICK b : b = [s[i] EXCEPT !.free = v]
  BY Zenon
<1>2. b \in Block /\ b.addr = s[i].addr /\ b.size = s[i].size /\ b.free = v
  BY SMTT(30), <1>0, <1>1 DEF Block
<1>3. [s EXCEPT ![i].free = v] = [s EXCEPT ![i] = b]
  BY <1>1
<1> QED
  BY <1>2, <1>3 DEF Rewritten

\* t is s with its free block i possibly split, at least w bytes left in it.
SplitAt(t, s, i, w) ==
    /\ t \in Seq(Block) /\ Ordered(t) /\ Bytes(t) = Bytes(s)
    /\ InUse(t) = InUse(s)
    /\ i \in DOMAIN t /\ t[i].free /\ t[i].addr = s[i].addr
    /\ s[i].size >= w => t[i].size >= w

\* Splitting a free block (heap.c:115-136).
LEMMA SplitLemma ==
    ASSUME NEW s \in Seq(Block), Ordered(s), NEW i \in DOMAIN s, s[i].free,
           NEW w \in Nat, NEW t, t = split_block(s, i, w)
    PROVE  SplitAt(t, s, i, w)
<1>1. CASE s[i].size <= w + HeaderSize + MinSplit
  BY <1>1 DEF split_block, SplitAt
<1>2. CASE ~(s[i].size <= w + HeaderSize + MinSplit)
  <2>0. /\ Len(s) \in Nat /\ i \in 1 .. Len(s) /\ DOMAIN s = 1 .. Len(s)
        /\ s[i].addr \in Nat /\ s[i].size \in Nat
        /\ HeaderSize \in Nat \ {0} /\ MinSplit \in Nat
    BY HeapConstants, BlockFacts
  <2>1. PICK rest : rest = [addr |-> s[i].addr + HeaderSize + w,
                            size |-> s[i].size - w - HeaderSize,
                            free |-> TRUE]
    BY Zenon
  <2>2. PICK u : u = [s EXCEPT ![i].size = w]
    BY Zenon
  <2>a. rest \in Block
    <3>1. s[i].addr + HeaderSize + w \in Nat /\ s[i].size - w - HeaderSize \in Nat
      BY SMTT(30), <1>2, <2>0
    <3> QED
      BY <2>1, <3>1 DEF Block
  <2>b. /\ u \in Seq(Block) /\ Len(u) = Len(s)
        /\ \A j \in 1 .. Len(s) : j # i => u[j] = s[j]
        /\ u[i].addr = s[i].addr /\ u[i].size = w /\ u[i].free = s[i].free
    <3>1. Rewritten(u, s, i, w, s[i].free)
      BY Zenon, <2>2, SetSize
    <3> QED
      BY <3>1 DEF Rewritten
  <2>3. t = InsertAt(u, i + 1, rest)
    BY <1>2, <2>1, <2>2 DEF split_block
  <2>4. /\ rest.addr = s[i].addr + HeaderSize + w /\ rest.free
        /\ End(rest) = End(s[i])
    BY SMTT(30), <1>2, <2>0, <2>1 DEF End
  <2>5. /\ t \in Seq(Block) /\ Len(t) = Len(s) + 1
        /\ \A j \in 1 .. i : t[j] = u[j]
        /\ t[i + 1] = rest
        /\ \A j \in i + 2 .. Len(s) + 1 : t[j] = u[j - 1]
    <3>0. PICK p : p = i + 1
      OBVIOUS
    <3>1. p \in 1 .. Len(u) + 1 /\ p - 1 = i /\ p + 1 = i + 2
      BY <2>0, <2>b, <3>0
    <3>2. t = InsertAt(u, p, rest)
      BY <2>3, <3>0
    <3>3. /\ t \in Seq(Block)
          /\ Len(t) = Len(u) + 1
          /\ \A j \in 1 .. p - 1 : t[j] = u[j]
          /\ t[p] = rest
          /\ \A j \in p + 1 .. Len(u) + 1 : t[j] = u[j - 1]
      <4>1. u \in Seq(Block)
        BY <2>b
      <4>2. p \in 1 .. Len(u) + 1
        BY <3>1
      <4> QED
        <5>1. Inserted(Block, t, u, p, rest)
          BY SMTT(30), <2>a, <3>2, <4>1, <4>2, InsProps
        <5> QED
          BY <5>1 DEF Inserted
    <3> QED
      BY <2>b, <3>0, <3>1, <3>3
  <2>6. /\ t[i].addr = s[i].addr /\ t[i].size = w /\ t[i].free
        /\ End(t[i]) = t[i + 1].addr
        /\ t[i + 1].free
        /\ End(t[i + 1]) = End(s[i])
    <3>1. t[i] = u[i]
      BY <2>0, <2>5
    <3> QED
      BY ZenonT(30), <2>0, <2>b, <2>4, <2>5, <3>1 DEF End
  <2>7. /\ \A j \in 1 .. Len(s) : j < i => t[j] = s[j]
        /\ \A j \in 1 .. Len(s) : j > i => t[j + 1] = s[j]
    <3>1. ASSUME NEW j \in 1 .. Len(s), j > i
          PROVE  t[j + 1] = s[j]
      <4>1. j + 1 \in i + 2 .. Len(s) + 1 /\ (j + 1) - 1 = j /\ j # i
        BY <2>0, <3>1
      <4>2. t[j + 1] = u[(j + 1) - 1]
        BY <2>5, <4>1
      <4> QED
        BY <2>b, <4>1, <4>2
    <3>2. ASSUME NEW j \in 1 .. Len(s), j < i
          PROVE  t[j] = s[j]
      <4>1. j \in 1 .. i /\ j # i
        BY <2>0, <3>2
      <4> QED
        BY <2>b, <2>5, <4>1
    <3> QED
      BY <3>1, <3>2
  <2>8. Ordered(t) /\ Bytes(t) = Bytes(s) /\ InUse(t) = InUse(s)
    <3>1. i \in 1 .. Len(s) /\ t \in Seq(Block) /\ Len(t) = Len(s) + 1
      BY <2>0, <2>5
    <3>2. CutAt(t, s, i)
      BY <2>6, <2>7, <3>1, Zenon DEF CutAt
    <3>3. Alike(s, t)
      BY <3>1, <3>2, CutInTwo, Zenon
    <3> QED
      BY <3>3, Zenon DEF Alike
  <2>9. i \in DOMAIN t /\ t \in Seq(Block) /\ (s[i].size >= w => t[i].size >= w)
    BY <2>0, <2>5, <2>6
  <2> QED
    BY <2>6, <2>8, <2>9, Zenon DEF SplitAt
<1> QED
  BY <1>1, <1>2

\* Absorbing the free successor of a free block.
LEMMA MergeLemma ==
    ASSUME NEW s \in Seq(Block), NEW i \in 1 .. Len(s) - 1, Mergeable(s, i),
           NEW c, c = Merge(s, i)
    PROVE  /\ c \in Seq(Block) /\ Len(c) = Len(s) - 1
           /\ Ordered(s) => Ordered(c)
           /\ Bytes(c) = Bytes(s)
           /\ InUse(c) = InUse(s)
           /\ \A j \in 1 .. i - 1 : c[j] = s[j]
           /\ c[i].addr = s[i].addr
<1>0. /\ Len(s) \in Nat /\ i \in 1 .. Len(s) /\ i + 1 \in 1 .. Len(s) /\ DOMAIN s = 1 .. Len(s)
      /\ s[i].addr \in Nat /\ s[i].size \in Nat /\ s[i + 1].size \in Nat
      /\ HeaderSize \in Nat \ {0}
  <2>1. Len(s) \in Nat /\ i \in 1 .. Len(s) /\ i + 1 \in 1 .. Len(s) /\ DOMAIN s = 1 .. Len(s)
    OBVIOUS
  <2> QED
    BY <2>1, HeapConstants, BlockFacts
<1>1. PICK w : w = s[i].size + HeaderSize + s[i + 1].size
  OBVIOUS
<1>2. PICK u : u = [s EXCEPT ![i].size = w]
  BY Zenon
<1>3. PICK p : p = i + 1
  OBVIOUS
<1>4. w \in Nat /\ p \in 1 .. Len(s) /\ i \in DOMAIN s
  BY <1>0, <1>1, <1>3
<1>5. Rewritten(u, s, i, w, s[i].free)
  BY ZenonT(30), <1>2, <1>4, SetSize
<1>6. c = RemoveAt(u, p)
  BY <1>1, <1>2, <1>3 DEF Merge
<1>7. Removed(Block, c, u, p)
  <2>1. u \in Seq(Block) /\ p \in 1 .. Len(u)
    BY <1>4, <1>5 DEF Rewritten
  <2> QED
    BY <1>6, <2>1, RemProps
<1>8. c \in Seq(Block) /\ Len(c) = Len(s) - 1
  BY <1>5, <1>7 DEF Removed, Rewritten
<1>9. \A j \in 1 .. i : c[j] = u[j]
  BY SMTT(30), <1>0, <1>3, <1>7 DEF Removed
<1>10. c[i] = u[i] /\ c[i].addr = s[i].addr /\ c[i].size = w /\ c[i].free = s[i].free
  BY SMTT(30), <1>0, <1>5, <1>9 DEF Rewritten
<1>11. \A j \in 1 .. i - 1 : c[j] = s[j]
  <2> TAKE j \in 1 .. i - 1
  <2>1. j \in 1 .. i /\ j # i /\ j \in 1 .. Len(s)
    BY <1>0
  <2> QED
    BY SMTT(30), <1>5, <1>9, <2>1 DEF Rewritten
<1>12. \A j \in 1 .. Len(c) : j > i => s[j + 1] = c[j]
  <2> SUFFICES ASSUME NEW j \in 1 .. Len(c), j > i
               PROVE  s[j + 1] = c[j]
    OBVIOUS
  <2>1. j \in p .. Len(s) - 1 /\ j + 1 \in 1 .. Len(s) /\ j + 1 # i
    BY SMTT(30), <1>0, <1>3, <1>8
  <2>2. c[j] = u[j + 1]
    BY <1>5, <1>7, <2>1 DEF Removed, Rewritten
  <2> QED
    BY <1>5, <2>1, <2>2 DEF Rewritten
<1>13. s[i].free /\ s[i + 1].free /\ End(s[i]) = s[i + 1].addr
  BY DEF Mergeable
<1>14. End(s[i + 1]) = End(c[i]) /\ c[i].free
  <2>1. c[i].addr = s[i].addr /\ c[i].size = w
    BY <1>10
  <2>2. End(s[i]) = s[i + 1].addr
    BY <1>13
  <2>3. End(s[i + 1]) = End(c[i])
    <3>1. PICK e : e = s[i + 1]
      OBVIOUS
    <3>2. e.size \in Nat /\ w = s[i].size + HeaderSize + e.size /\ End(s[i]) = e.addr
      BY SMTT(30), <1>0, <1>1, <2>2, <3>1
    <3>3. End(e) = (s[i].addr + HeaderSize + s[i].size) + HeaderSize + e.size
      BY <3>2 DEF End
    <3>4. End(c[i]) = s[i].addr + HeaderSize + (s[i].size + HeaderSize + e.size)
      BY <2>1, <3>2 DEF End
    <3>5. \A a, h, z, y \in Nat : (a + h + z) + h + y = a + h + (z + h + y)
      OBVIOUS
    <3>6. End(e) = End(c[i])
      BY SMTT(30), <1>0, <3>2, <3>3, <3>4, <3>5
    <3> QED
      BY <3>1, <3>6
  <2>4. c[i].free
    BY <1>10, <1>13, Zenon
  <2> QED
    BY <2>3, <2>4
<1>15. (Ordered(c) <=> Ordered(s)) /\ Bytes(c) = Bytes(s) /\ InUse(c) = InUse(s)
  <2>1. /\ i \in 1 .. Len(c) /\ Len(s) = Len(c) + 1
        /\ \A j \in 1 .. Len(c) : j < i => s[j] = c[j]
    BY SMTT(30), <1>0, <1>8, <1>11
  <2>2. CutAt(s, c, i)
    BY <1>10, <1>12, <1>13, <1>14, <2>1, Zenon DEF CutAt
  <2>3. Alike(c, s)
    BY <1>8, <2>1, <2>2, CutInTwo, Zenon
  <2> QED
    BY <2>3, Zenon DEF Alike
<1> QED
  BY <1>8, <1>10, <1>11, <1>15

\* Addresses identify blocks.
LEMMA DistinctAddrs ==
    ASSUME NEW s \in Seq(Block), Ordered(s), NEW i \in DOMAIN s, NEW j \in DOMAIN s,
           s[i].addr = s[j].addr
    PROVE  i = j
<1>1. /\ i \in Nat /\ j \in Nat
      /\ s[i].addr \in Nat /\ End(s[i]) \in Nat /\ s[i].addr < End(s[i])
      /\ s[j].addr \in Nat /\ End(s[j]) \in Nat /\ s[j].addr < End(s[j])
  BY BlockFacts
<1>2. i < j => End(s[i]) <= s[j].addr
  BY DEF Ordered
<1>3. j < i => End(s[j]) <= s[i].addr
  BY DEF Ordered
<1> QED
  BY <1>1, <1>2, <1>3

\* Assigning a block's flag moves no block.
LEMMA FlagKeepsPlaces ==
    ASSUME NEW s \in Seq(Block), NEW i \in DOMAIN s, NEW v \in BOOLEAN,
           NEW c, Rewritten(c, s, i, s[i].size, v)
    PROVE  /\ c \in Seq(Block) /\ Len(c) = Len(s) /\ i \in DOMAIN c
           /\ Ordered(s) => Ordered(c)
           /\ Bytes(c) = Bytes(s)
<1>1. c \in Seq(Block) /\ Len(c) = Len(s) /\ DOMAIN c = 1 .. Len(s) /\ DOMAIN s = 1 .. Len(s)
  BY DEF Rewritten
<1>2. ASSUME NEW j \in 1 .. Len(s)
      PROVE  c[j].addr = s[j].addr /\ End(c[j]) = End(s[j])
  <2>1. CASE j = i
    BY <2>1 DEF Rewritten, End
  <2>2. CASE j # i
    BY <2>2 DEF Rewritten
  <2> QED
    BY <2>1, <2>2
<1>3. Ordered(s) => Ordered(c)
  BY <1>1, <1>2 DEF Ordered
<1>4. \A a : a \in Bytes(c) <=> a \in Bytes(s)
  BY <1>1, <1>2, InBytes
<1> QED
  BY Zenon, <1>1, <1>3, <1>4

\* Membership in InUse, spelled out for the provers.
LEMMA InInUse ==
    ASSUME NEW s, NEW b
    PROVE  b \in InUse(s) <=> ~b.free /\ \E j \in DOMAIN s : b = s[j]
  BY DEF InUse

\* Taking a free block adds it to the blocks in use.
LEMMA TakeBlock ==
    ASSUME NEW s \in Seq(Block), Ordered(s), NEW i \in DOMAIN s, s[i].free,
           NEW c, Rewritten(c, s, i, s[i].size, FALSE)
    PROVE  /\ InUse(c) = InUse(s) \cup {c[i]}
           /\ \A b \in InUse(s) : b.addr # s[i].addr
<1>1. c \in Seq(Block) /\ Len(c) = Len(s) /\ DOMAIN c = DOMAIN s /\ i \in DOMAIN c
  BY DEF Rewritten
<1>2. \A j \in DOMAIN s : j # i => c[j] = s[j]
  BY DEF Rewritten
<1>3. ~c[i].free
  <2>1. c[i].free = FALSE
    BY DEF Rewritten
  <2> QED
    BY <2>1, Zenon
<1>4. \A b : b \in InUse(c) <=> b \in InUse(s) \/ b = c[i]
  <2> TAKE b
  <2>1. ASSUME b \in InUse(c)
        PROVE  b \in InUse(s) \/ b = c[i]
    <3>1. PICK j \in DOMAIN c : b = c[j]
      BY <2>1, InInUse
    <3>2. ~b.free
      BY <2>1, InInUse
    <3> QED
      BY SMTT(30), <1>1, <1>2, <3>1, <3>2, InInUse
  <2>2. ASSUME b \in InUse(s)
        PROVE  b \in InUse(c)
    <3>1. PICK j \in DOMAIN s : b = s[j]
      BY <2>2, InInUse
    <3>2. ~b.free
      BY <2>2, InInUse
    <3>3. j # i
      BY <3>1, <3>2
    <3> QED
      BY SMTT(30), <1>1, <1>2, <3>1, <3>2, <3>3, InInUse
  <2>3. c[i] \in InUse(c)
    BY <1>1, <1>3, InInUse
  <2> QED
    BY <2>1, <2>2, <2>3
<1>5. ASSUME NEW b \in InUse(s), b.addr = s[i].addr
      PROVE  FALSE
  <2>1. PICK j \in DOMAIN s : b = s[j]
    BY InInUse
  <2>2. ~b.free
    BY InInUse
  <2>3. i = j
    BY SMTT(30), <1>5, <2>1, DistinctAddrs
  <2> QED
    BY SMTT(30), <2>1, <2>2, <2>3
<1> QED
  BY <1>4, <1>5

\* Freeing a block removes exactly it from the blocks in use.
LEMMA FreeBlock ==
    ASSUME NEW s \in Seq(Block), Ordered(s), NEW i \in DOMAIN s,
           NEW c, Rewritten(c, s, i, s[i].size, TRUE)
    PROVE  InUse(c) = {b \in InUse(s) : b.addr # s[i].addr}
<1>1. c \in Seq(Block) /\ Len(c) = Len(s) /\ DOMAIN c = DOMAIN s /\ i \in DOMAIN c
  BY DEF Rewritten
<1>2. \A j \in DOMAIN s : j # i => c[j] = s[j]
  BY DEF Rewritten
<1>3. c[i].free
  <2>1. c[i].free = TRUE
    BY DEF Rewritten
  <2> QED
    BY <2>1, Zenon
<1>4. ASSUME NEW b, b \in InUse(c)
      PROVE  b \in InUse(s) /\ b.addr # s[i].addr
  <2>1. PICK j \in DOMAIN c : b = c[j]
    BY <1>4, InInUse
  <2>2. ~b.free
    BY <1>4, InInUse
  <2>3. j # i
    BY SMTT(30), <1>3, <2>1, <2>2
  <2>4. b = s[j] /\ j \in DOMAIN s
    BY SMTT(30), <1>1, <1>2, <2>1, <2>3
  <2>5. b.addr # s[i].addr
    BY <2>3, <2>4, DistinctAddrs
  <2> QED
    BY SMTT(30), <2>2, <2>4, <2>5, InInUse
<1>5. ASSUME NEW b, b \in InUse(s), b.addr # s[i].addr
      PROVE  b \in InUse(c)
  <2>1. PICK j \in DOMAIN s : b = s[j]
    BY <1>5, InInUse
  <2>2. ~b.free
    BY <1>5, InInUse
  <2>3. j # i
    BY <1>5, <2>1
  <2> QED
    BY SMTT(30), <1>1, <1>2, <2>1, <2>2, <2>3, InInUse
<1> QED
  BY <1>4, <1>5

\* A block that lies above all others goes to the end of the list.
LEMMA AppendBlock ==
    ASSUME NEW s \in Seq(Block), Ordered(s), NEW b \in Block,
           \A i \in DOMAIN s : End(s[i]) <= b.addr, NEW c, c = Append(s, b)
    PROVE  /\ c \in Seq(Block) /\ Ordered(c)
           /\ Bytes(c) = Bytes(s) \cup (b.addr .. End(b) - 1)
<1>1. /\ c \in Seq(Block) /\ Len(s) \in Nat
      /\ DOMAIN s = 1 .. Len(s) /\ DOMAIN c = 1 .. Len(s) + 1
      /\ \A i \in 1 .. Len(s) : c[i] = s[i]
      /\ c[Len(s) + 1] = b
  OBVIOUS
<1>2. Ordered(c)
  <2> SUFFICES ASSUME NEW i \in 1 .. Len(s) + 1, NEW j \in 1 .. Len(s) + 1, i < j
               PROVE  End(c[i]) <= c[j].addr
    BY <1>1 DEF Ordered
  <2>1. i \in 1 .. Len(s) /\ c[i] = s[i]
    BY <1>1
  <2>2. CASE j = Len(s) + 1
    BY <1>1, <2>1, <2>2
  <2>3. CASE j # Len(s) + 1
    <3>1. j \in 1 .. Len(s)
      BY <1>1, <2>3
    <3>2. c[j] = s[j] /\ End(s[i]) <= s[j].addr
      BY SMTT(30), <1>1, <2>1, <3>1 DEF Ordered
    <3> QED
      BY <2>1, <3>2
  <2> QED
    BY <2>2, <2>3
<1>3. \A a : a \in Bytes(c) <=> a \in Bytes(s) \/ a \in b.addr .. End(b) - 1
  <2> TAKE a
  <2>1. a \in Bytes(c) => a \in Bytes(s) \/ a \in b.addr .. End(b) - 1
    <3> SUFFICES ASSUME a \in Bytes(c)
                 PROVE  a \in Bytes(s) \/ a \in b.addr .. End(b) - 1
      OBVIOUS
    <3>1. PICK i \in 1 .. Len(s) + 1 : a \in c[i].addr .. End(c[i]) - 1
      BY ZenonT(30), <1>1, InBytes
    <3>2. CASE i = Len(s) + 1
      BY <1>1, <3>1, <3>2
    <3>3. CASE i # Len(s) + 1
      <4>1. i \in 1 .. Len(s) /\ c[i] = s[i]
        BY <1>1, <3>3
      <4> QED
        BY SMTT(30), <1>1, <3>1, <4>1, InBytes
    <3> QED
      BY <3>2, <3>3
  <2>2. a \in Bytes(s) => a \in Bytes(c)
    <3> SUFFICES ASSUME a \in Bytes(s)
                 PROVE  a \in Bytes(c)
      OBVIOUS
    <3>1. PICK i \in 1 .. Len(s) : a \in s[i].addr .. End(s[i]) - 1
      BY <1>1, InBytes
    <3>2. i \in DOMAIN c /\ c[i] = s[i]
      BY <1>1
    <3> QED
      BY Zenon, <3>1, <3>2, InBytes
  <2>3. a \in b.addr .. End(b) - 1 => a \in Bytes(c)
    <3>1. Len(s) + 1 \in DOMAIN c /\ c[Len(s) + 1] = b
      BY <1>1
    <3> QED
      BY Zenon, <3>1, InBytes
  <2> QED
    BY <2>1, <2>2, <2>3
<1> QED
  BY <1>1, <1>2, <1>3

\* Linking free blocks to the list puts no block in use.
LEMMA LinkFree ==
    ASSUME NEW h \in Seq(Block), NEW g \in Seq(Block), \A i \in DOMAIN g : g[i].free
    PROVE  h \o g \in Seq(Block) /\ InUse(h \o g) = InUse(h)
<1>1. PICK c : c = h \o g
  BY Zenon
<1>2. /\ c \in Seq(Block) /\ Len(h) \in Nat /\ Len(g) \in Nat
      /\ DOMAIN c = 1 .. Len(h) + Len(g) /\ DOMAIN h = 1 .. Len(h) /\ DOMAIN g = 1 .. Len(g)
      /\ \A i \in 1 .. Len(h) : c[i] = h[i]
      /\ \A i \in 1 .. Len(g) : c[Len(h) + i] = g[i]
  BY <1>1
<1>3. ASSUME NEW b, b \in InUse(c)
      PROVE  b \in InUse(h)
  <2>1. PICK i \in DOMAIN c : b = c[i]
    BY <1>3, InInUse
  <2>2. ~b.free
    BY <1>3, InInUse
  <2>3. CASE i <= Len(h)
    <3>1. i \in DOMAIN h /\ c[i] = h[i]
      BY <1>2, <2>3
    <3> QED
      BY SMTT(30), <2>1, <2>2, <3>1, InInUse
  <2>4. CASE ~(i <= Len(h))
    <3>1. PICK k : k = i - Len(h)
      OBVIOUS
    <3>2. k \in 1 .. Len(g) /\ Len(h) + k = i
      BY <1>2, <2>4, <3>1
    <3>3. c[i] = g[k] /\ g[k].free
      BY SMTT(30), <1>2, <3>2
    <3> QED
      BY <2>1, <2>2, <3>3
  <2> QED
    BY <2>3, <2>4
<1>4. ASSUME NEW b, b \in InUse(h)
      PROVE  b \in InUse(c)
  <2>1. PICK i \in DOMAIN h : b = h[i]
    BY <1>4, InInUse
  <2>2. i \in DOMAIN c /\ c[i] = h[i] /\ ~b.free
    BY SMTT(30), <1>2, <1>4, <2>1, InInUse
  <2> QED
    BY <2>1, <2>2, InInUse
<1> QED
  BY Zenon, <1>1, <1>2, <1>3, <1>4

\* Frames are handed out in ascending order, so a fresh one lies above every
\* block.
LEMMA FreshAbove ==
    ASSUME NEW s \in Seq(Block), NEW H \in SUBSET Frame, NEW f \in Frame,
           Bytes(s) = UNION {g * FrameSize .. (g + 1) * FrameSize - 1 : g \in H},
           \A g \in H : g < f,
           NEW i \in DOMAIN s
    PROVE  End(s[i]) <= f * FrameSize
<1>1. s[i].addr \in Nat /\ End(s[i]) \in Nat /\ s[i].addr < End(s[i])
  BY BlockFacts
<1>2. End(s[i]) - 1 \in s[i].addr .. End(s[i]) - 1
  BY <1>1
<1>3. End(s[i]) - 1 \in Bytes(s)
  BY <1>2, InBytes
<1>4. PICK g \in H : End(s[i]) - 1 \in g * FrameSize .. (g + 1) * FrameSize - 1
  BY <1>3
<1>5. g \in Nat /\ f \in Nat /\ g + 1 <= f /\ FrameSize \in Nat
  BY SizesAssumption DEF Frame
<1>6. (g + 1) * FrameSize <= f * FrameSize
  BY <1>5
<1>7. g * FrameSize \in Nat /\ (g + 1) * FrameSize \in Nat /\ f * FrameSize \in Nat
  BY <1>5
<1> QED
  BY <1>1, <1>4, <1>6, <1>7

\* Linking a chain to the tail of a list, one block at a time.
LEMMA Linking ==
    ASSUME NEW h \in Seq(Block), NEW g \in Seq(Block), NEW b \in Block
    PROVE  /\ h \o <<>> = h
           /\ h \o Append(g, b) = Append(h \o g, b)
           /\ h \o g \in Seq(Block)
  OBVIOUS
=============================================================================
