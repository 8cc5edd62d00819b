---------------------------- MODULE PagingProofs ----------------------------
(***************************************************************************)
(* The identity map is exact for every page size, size of the tables,      *)
(* number of tables and requested size.                                    *)
(***************************************************************************)
EXTENDS Paging, TLAPS

\* Division with remainder.
LEMMA DivMod ==
    ASSUME NEW a \in Nat, NEW b \in Nat \ {0}
    PROVE  /\ a \div b \in Nat /\ a % b \in 0 .. b - 1
           /\ a = (a \div b) * b + (a % b)
  OBVIOUS

\* Quotient and remainder are unique.
LEMMA DivUnique ==
    ASSUME NEW b \in Nat \ {0}, NEW q \in Nat, NEW r \in 0 .. b - 1,
           NEW p \in Nat, NEW s \in 0 .. b - 1, q * b + r = p * b + s
    PROVE  q = p /\ r = s
<1>1. ASSUME NEW x \in Nat, NEW y \in Nat, x < y
      PROVE  x * b + b <= y * b
  <2>1. (x + 1) * b <= y * b BY <1>1
  <2>2. (x + 1) * b = x * b + b OBVIOUS
  <2> QED BY <2>1, <2>2
<1>2. q * b \in Nat /\ p * b \in Nat OBVIOUS
<1>3. ~(q < p) BY <1>1, <1>2
<1>4. ~(p < q) BY <1>1, <1>2
<1>5. q = p BY <1>3, <1>4
<1> QED BY <1>2, <1>5

\* The quantities of the page tables, with the products that occur.
LEMMA Sizes ==
    /\ PAGE_SIZE \in Nat \ {0} /\ PAGE_ENTRIES \in Nat \ {0}
    /\ PAGING_TABLE_COUNT \in Nat \ {0} /\ PAGING_TABLE_COUNT < PAGE_ENTRIES
    /\ PAGE_SIZE * PAGE_ENTRIES \in Nat \ {0}
    /\ PAGING_TABLE_COUNT * PAGE_ENTRIES \in Nat \ {0}
    /\ WORD = (PAGE_SIZE * PAGE_ENTRIES) * PAGE_ENTRIES
    /\ WORD \in Nat \ {0}
<1>1. /\ PAGE_SIZE \in Nat \ {0} /\ PAGE_ENTRIES \in Nat \ {0}
      /\ PAGING_TABLE_COUNT \in 1 .. PAGE_ENTRIES - 1
      /\ WORD = PAGE_SIZE * PAGE_ENTRIES * PAGE_ENTRIES
  BY PagingAssumption
<1>2. ASSUME NEW x \in Nat \ {0}, NEW y \in Nat \ {0}
      PROVE  x * y \in Nat \ {0}
  OBVIOUS
<1>3. PAGING_TABLE_COUNT \in Nat \ {0} /\ PAGING_TABLE_COUNT < PAGE_ENTRIES
  BY <1>1
<1>4. PAGE_SIZE * PAGE_ENTRIES \in Nat \ {0} BY <1>1, <1>2
<1>5. PAGING_TABLE_COUNT * PAGE_ENTRIES \in Nat \ {0} BY <1>1, <1>2, <1>3
<1>6. (PAGE_SIZE * PAGE_ENTRIES) * PAGE_ENTRIES \in Nat \ {0} BY <1>1, <1>2, <1>4
<1> QED BY <1>1, <1>3, <1>4, <1>5, <1>6

\* paging_prepare_identity maps between one page and as many as the tables hold.
LEMMA PageCount ==
    ASSUME NEW m \in MapSizes
    PROVE  page_count(m) \in 1 .. PAGING_TABLE_COUNT * PAGE_ENTRIES
<1>1. PICK x : x = (m + PAGE_SIZE - 1) % WORD OBVIOUS
<1>2. m + PAGE_SIZE - 1 \in Nat BY PagingAssumption
<1>3. x \in Nat BY <1>1, <1>2, DivMod, Sizes
<1>4. PICK r : r = x \div PAGE_SIZE OBVIOUS
<1>5. r \in Nat BY <1>3, <1>4, DivMod, Sizes
<1>6. PICK max : max = PAGING_TABLE_COUNT * PAGE_ENTRIES OBVIOUS
<1>7. max \in Nat \ {0} BY <1>6, Sizes
<1>8. page_count(m) = CASE r = 0 -> 1 [] r > max -> max [] OTHER -> r
  BY Zenon, <1>1, <1>4, <1>6 DEF page_count
<1>9. page_count(m) \in 1 .. max BY <1>5, <1>7, <1>8
<1> QED BY <1>6, <1>9

\* The limit is the number of pages in bytes: the product does not wrap.
LEMMA LimitExact ==
    ASSUME NEW count \in 1 .. PAGING_TABLE_COUNT * PAGE_ENTRIES
    PROVE  (count * PAGE_SIZE) % WORD = count * PAGE_SIZE /\ count * PAGE_SIZE \in Nat
<1>1. PICK full : full = PAGING_TABLE_COUNT * PAGE_ENTRIES OBVIOUS
<1>2. full \in Nat /\ count \in Nat /\ count <= full BY <1>1, Sizes
<1>3. count * PAGE_SIZE <= full * PAGE_SIZE /\ count * PAGE_SIZE \in Nat /\ full * PAGE_SIZE \in Nat
  BY <1>2, Sizes
<1>4. full * PAGE_SIZE = PAGING_TABLE_COUNT * (PAGE_SIZE * PAGE_ENTRIES)
  BY <1>1, Sizes
<1>5. PICK z : z = PAGE_SIZE * PAGE_ENTRIES OBVIOUS
<1>6. z \in Nat \ {0} /\ WORD = z * PAGE_ENTRIES BY <1>5, Sizes
<1>7. ASSUME NEW x \in Nat, NEW y \in Nat, x < y PROVE x * z < z * y
  BY <1>6, <1>7
<1>8. PAGING_TABLE_COUNT * z < WORD BY <1>6, <1>7, Sizes
<1>9. count * PAGE_SIZE < WORD BY <1>3, <1>4, <1>5, <1>6, <1>8, Sizes
<1>10. ASSUME NEW x \in Nat, NEW w \in Nat \ {0}, x < w PROVE x % w = x
  BY <1>10
<1> QED BY <1>3, <1>9, <1>10, Sizes

\* An address is its directory index, its table index and its offset, and the
\* first two make up its page number.
LEMMA Indices ==
    ASSUME NEW a \in 0 .. WORD - 1
    PROVE  LET d == a \div (PAGE_SIZE * PAGE_ENTRIES)
               i == (a \div PAGE_SIZE) % PAGE_ENTRIES
           IN  /\ d \in Entries /\ i \in Entries
               /\ a \div PAGE_SIZE = d * PAGE_ENTRIES + i
<1>0. a \in Nat /\ a < WORD BY Sizes
<1>1. PICK n : n = a \div PAGE_SIZE OBVIOUS
<1>2. PICK o : o = a % PAGE_SIZE OBVIOUS
<1>3. n \in Nat /\ o \in 0 .. PAGE_SIZE - 1 /\ a = n * PAGE_SIZE + o
  BY <1>0, <1>1, <1>2, DivMod, Sizes
<1>4. PICK e : e = n \div PAGE_ENTRIES OBVIOUS
<1>5. PICK i : i = n % PAGE_ENTRIES OBVIOUS
<1>6. e \in Nat /\ i \in 0 .. PAGE_ENTRIES - 1 /\ n = e * PAGE_ENTRIES + i
  BY Zenon, <1>3, <1>4, <1>5, DivMod, Sizes
<1>7. PICK z : z = PAGE_SIZE * PAGE_ENTRIES OBVIOUS
<1>8. z \in Nat \ {0} BY <1>7, Sizes
<1>9. PICK r : r = i * PAGE_SIZE + o OBVIOUS
<1>10. r \in 0 .. z - 1
  <2>1. ASSUME NEW x \in Nat, NEW y \in Nat, NEW p \in Nat \ {0}, x < y
        PROVE  x * p + p <= p * y /\ x * p \in Nat
    <3>1. (x + 1) * p <= y * p BY <2>1
    <3>2. (x + 1) * p = x * p + p /\ y * p = p * y OBVIOUS
    <3> QED BY <3>1, <3>2
  <2>2. i * PAGE_SIZE + PAGE_SIZE <= z /\ i * PAGE_SIZE \in Nat
    BY <1>6, <1>7, <2>1, Sizes
  <2> QED BY <1>3, <1>8, <1>9, <2>2, Sizes
<1>11. a = e * z + r
  <2>1. n * PAGE_SIZE = e * (PAGE_SIZE * PAGE_ENTRIES) + i * PAGE_SIZE
    BY <1>6, Sizes
  <2>2. e * z \in Nat /\ i * PAGE_SIZE \in Nat BY <1>6, <1>8, Sizes
  <2> QED BY <1>3, <1>7, <1>9, <2>1, <2>2, Sizes
<1>12. PICK d : d = a \div z OBVIOUS
<1>13. PICK s : s = a % z OBVIOUS
<1>14. d \in Nat /\ s \in 0 .. z - 1 /\ a = d * z + s
  BY Zenon, <1>0, <1>8, <1>12, <1>13, DivMod
<1>15. d = e BY <1>6, <1>8, <1>10, <1>11, <1>14, DivUnique
<1>16. d < PAGE_ENTRIES
  <2>1. ASSUME NEW x \in Nat, NEW y \in Nat, x <= y PROVE z * x <= y * z
    BY <1>8, <2>1
  <2>2. WORD = z * PAGE_ENTRIES BY <1>7, Sizes
  <2>3. d * z <= a BY <1>8, <1>14
  <2> QED BY <1>0, <1>8, <1>14, <2>1, <2>2, <2>3, Sizes
<1>17. d \in Entries /\ i \in Entries BY <1>6, <1>14, <1>16, Sizes DEF Entries
<1>18. n = d * PAGE_ENTRIES + i BY <1>6, <1>15
<1> QED BY Zenon, <1>1, <1>5, <1>7, <1>12, <1>17, <1>18

\* The map after paging_prepare_identity.
LEMMA Prepared ==
    ASSUME NEW m \in MapSizes, paging_prepare_identity(m)
    PROVE  paging_prepared' /\ IdentityMap'
<1>0. PICK count : count = page_count(m) OBVIOUS
<1>1. /\ page_directory' = [d \in Entries |-> DirectoryEntry(d, count)]
      /\ page_tables' = [t \in Tables |-> [i \in Entries |-> TableEntry(t, i, count)]]
      /\ paging_mapped_pages' = count
      /\ paging_prepared'
  BY Zenon, <1>0 DEF paging_prepare_identity
<1>2. count \in 1 .. PAGING_TABLE_COUNT * PAGE_ENTRIES BY <1>0, PageCount
<1>3. PICK limit : limit = count * PAGE_SIZE OBVIOUS
<1>4. paging_get_identity_limit_bytes' = limit /\ limit \in Nat
  BY <1>1, <1>2, <1>3, LimitExact DEF paging_get_identity_limit_bytes
<1>5. ASSUME NEW a \in 0 .. WORD - 1
      PROVE  Walk(a)' = IF a < limit THEN a ELSE Absent
  <2>1. PICK d : d = a \div (PAGE_SIZE * PAGE_ENTRIES) OBVIOUS
  <2>2. PICK i : i = (a \div PAGE_SIZE) % PAGE_ENTRIES OBVIOUS
  <2>3. PICK n : n = a \div PAGE_SIZE OBVIOUS
  <2>4. PICK o : o = a % PAGE_SIZE OBVIOUS
  <2>5. d \in Entries /\ i \in Entries /\ n = d * PAGE_ENTRIES + i
    BY Zenon, <2>1, <2>2, <2>3, Indices
  <2>6. d \in Nat /\ i \in Nat /\ a \in Nat BY <2>5, Sizes DEF Entries
  <2>7. n \in Nat /\ o \in 0 .. PAGE_SIZE - 1 /\ a = n * PAGE_SIZE + o
    BY Zenon, <2>3, <2>4, <2>6, DivMod, Sizes
  <2>8. Walk(a)' = IF page_directory'[d] = Absent \/ page_tables'[page_directory'[d]][i] = Absent
                   THEN Absent ELSE page_tables'[page_directory'[d]][i] + o
    BY Zenon, <2>1, <2>2, <2>3, <2>4 DEF Walk
  <2>9. page_directory'[d] = DirectoryEntry(d, count) BY Zenon, <1>1, <2>5
  <2>10. ASSUME d \in Tables
         PROVE  page_tables'[d][i] = IF n < count THEN n * PAGE_SIZE ELSE Absent
    BY Zenon, <1>1, <2>5, <2>10 DEF TableEntry
  <2>11. a < limit <=> n < count
    <3>1. ASSUME NEW x \in Nat, NEW y \in Nat, x < y
          PROVE  x * PAGE_SIZE + PAGE_SIZE <= y * PAGE_SIZE
      <4>1. (x + 1) * PAGE_SIZE <= y * PAGE_SIZE BY <3>1, Sizes
      <4>2. (x + 1) * PAGE_SIZE = x * PAGE_SIZE + PAGE_SIZE BY Sizes
      <4> QED BY <4>1, <4>2
    <3>2. n * PAGE_SIZE \in Nat /\ count \in Nat BY <1>2, <2>7, Sizes
    <3>3. n < count => n * PAGE_SIZE + PAGE_SIZE <= limit BY <1>3, <2>7, <3>1, <3>2
    <3>4. count < n => limit + PAGE_SIZE <= n * PAGE_SIZE BY <1>3, <2>7, <3>1, <3>2
    <3>5. count = n => limit = n * PAGE_SIZE BY <1>3
    <3> QED BY <1>4, <2>7, <3>2, <3>3, <3>4, <3>5, Sizes
  <2>12. CASE n < count
    <3>1. d < PAGING_TABLE_COUNT
      <4>1. ASSUME NEW x \in Nat, NEW y \in Nat, x <= y PROVE x * PAGE_ENTRIES <= y * PAGE_ENTRIES
        BY <4>1, Sizes
      <4>2. d * PAGE_ENTRIES \in Nat /\ d * PAGE_ENTRIES <= n BY <2>5, <2>6, <2>7, Sizes
      <4> QED BY <1>2, <2>6, <2>7, <2>12, <4>1, <4>2, Sizes
    <3>2. d \in Tables BY <2>6, <3>1, Sizes DEF Tables
    <3>3. d * PAGE_ENTRIES \in Nat /\ d * PAGE_ENTRIES <= n BY <2>5, <2>6, <2>7, Sizes
    <3>4. d * PAGE_ENTRIES < count BY <1>2, <2>7, <2>12, <3>3
    <3>5. page_directory'[d] = d BY Zenon, <2>9, <3>2, <3>4 DEF DirectoryEntry
    <3>6. page_tables'[d][i] = n * PAGE_SIZE BY <2>10, <2>12, <3>2
    <3>7. d # Absent /\ n * PAGE_SIZE # Absent BY <2>6, <2>7, Sizes DEF Absent
    <3>8. Walk(a)' = n * PAGE_SIZE + o BY Zenon, <2>8, <3>5, <3>6, <3>7
    <3> QED BY <2>7, <2>11, <2>12, <3>8
  <2>13. CASE ~(n < count)
    <3>1. CASE DirectoryEntry(d, count) = Absent BY Zenon, <2>8, <2>9, <2>11, <2>13, <3>1
    <3>2. CASE DirectoryEntry(d, count) # Absent
      <4>1. d \in Tables /\ page_directory'[d] = d
        BY Zenon, <2>9, <3>2 DEF DirectoryEntry
      <4>2. page_tables'[d][i] = Absent BY <2>10, <2>13, <4>1
      <4> QED BY Zenon, <2>8, <2>11, <2>13, <4>1, <4>2
    <3> QED BY <3>1, <3>2
  <2> QED BY <2>12, <2>13
<1>6. IdentityMap' BY Zenon, <1>4, <1>5 DEF IdentityMap
<1> QED BY <1>1, <1>6

\* The limit after paging_prepare_identity is the one for the size asked for.
LEMMA LimitRight ==
    ASSUME NEW m \in MapSizes, paging_prepare_identity(m)
    PROVE  LimitFor(m)'
<1>1. PICK count : count = page_count(m) OBVIOUS
<1>2. paging_mapped_pages' = count BY Zenon, <1>1 DEF paging_prepare_identity
<1>3. PICK max : max = PAGING_TABLE_COUNT * PAGE_ENTRIES OBVIOUS
<1>4. max \in Nat \ {0} BY <1>3, Sizes
<1>5. count \in 1 .. max BY <1>1, <1>3, PageCount
<1>6. PICK limit : limit = count * PAGE_SIZE OBVIOUS
<1>7. paging_get_identity_limit_bytes' = limit /\ limit \in Nat
  BY <1>2, <1>3, <1>5, <1>6, LimitExact DEF paging_get_identity_limit_bytes
<1>8. PICK capacity : capacity = max * PAGE_SIZE OBVIOUS
<1>9. ASSUME NEW x \in Nat, NEW y \in Nat, x <= y PROVE x * PAGE_SIZE <= y * PAGE_SIZE
  BY <1>9, Sizes
<1>10. limit <= capacity /\ capacity \in Nat BY <1>4, <1>5, <1>6, <1>8, <1>9, Sizes
<1>11. ASSUME m + PAGE_SIZE <= WORD
       PROVE  /\ limit >= m \/ limit = capacity
              /\ limit < m + PAGE_SIZE \/ limit = PAGE_SIZE
  <2>1. m \in Nat BY PagingAssumption
  <2>2. PICK x : x = m + PAGE_SIZE - 1 OBVIOUS
  <2>3. x \in Nat /\ x < WORD BY <1>11, <2>1, <2>2, Sizes
  <2>4. x % WORD = x
    <3>1. ASSUME NEW y \in Nat, NEW w \in Nat \ {0}, y < w PROVE y % w = y BY <3>1
    <3> QED BY <2>3, <3>1, Sizes
  <2>5. PICK r : r = x \div PAGE_SIZE OBVIOUS
  <2>6. PICK o : o = x % PAGE_SIZE OBVIOUS
  <2>7. r \in Nat /\ o \in 0 .. PAGE_SIZE - 1 /\ x = r * PAGE_SIZE + o
    BY Zenon, <2>3, <2>5, <2>6, DivMod, Sizes
  <2>8. count = CASE r = 0 -> 1 [] r > max -> max [] OTHER -> r
    BY Zenon, <1>1, <1>3, <2>2, <2>4, <2>5 DEF page_count
  <2>9. PICK z : z = r * PAGE_SIZE OBVIOUS
  <2>10. z \in Nat /\ z >= m /\ z < m + PAGE_SIZE BY <2>1, <2>2, <2>7, <2>9, Sizes
  <2>11. CASE r = 0
    <3>1. limit = PAGE_SIZE BY <1>4, <1>6, <2>8, <2>11, Sizes
    <3>2. z = 0 BY <2>9, <2>11, Sizes
    <3> QED BY <2>1, <2>10, <3>1, <3>2, Sizes
  <2>12. CASE r > max
    <3>1. limit = capacity BY <1>4, <1>6, <1>8, <2>7, <2>8, <2>12
    <3>2. capacity <= z BY <1>4, <1>8, <1>9, <2>7, <2>9, <2>12
    <3> QED BY <1>10, <2>1, <2>10, <3>1, <3>2, Sizes
  <2>13. CASE r # 0 /\ ~(r > max)
    <3>1. limit = z BY <1>6, <2>8, <2>9, <2>13
    <3> QED BY <2>10, <3>1
  <2> QED BY <2>11, <2>12, <2>13
<1> QED BY Zenon, <1>3, <1>7, <1>8, <1>10, <1>11 DEF LimitFor

\* The map is exact once the tables are there.
MapInv == paging_prepared => IdentityMap

\* The tables of paging_prepare_identity map what paging_get_identity_limit_bytes
\* reports and nothing else, and that is the size asked for in whole pages, as far
\* as the tables reach, whatever their size; paging_enable neither changes
\* them nor turns paging on without them (paging.c:20-78).
THEOREM IdentityCorrect == PagingSpec => [](paging_on => IdentityMap) /\ IdentityExact
<1> DEFINE Inv == MapInv /\ paging_on \in BOOLEAN /\ (paging_on => paging_prepared)
<1>1. PagingInit => Inv BY Zenon DEF PagingInit, MapInv
<1>2. ASSUME Inv, [PagingNext]_pagingVars
      PROVE  Inv' /\ (pagingVars' # pagingVars => paging_prepared' /\ IdentityMap')
  <2>1. ASSUME NEW m \in MapSizes, paging_prepare_identity(m)
        PROVE  Inv' /\ paging_prepared' /\ IdentityMap'
    <3>1. paging_prepared' /\ IdentityMap' BY Zenon, <2>1, Prepared
    <3>2. paging_on' = paging_on BY <2>1 DEF paging_prepare_identity
    <3> QED BY <1>2, <3>1, <3>2 DEF MapInv
  <2>2. CASE paging_enable
    <3>1. /\ page_directory' = page_directory /\ page_tables' = page_tables
          /\ paging_mapped_pages' = paging_mapped_pages /\ paging_prepared' = paging_prepared
          /\ paging_on' = (paging_on \/ paging_prepared)
      BY <2>2 DEF paging_enable
    <3>2. IdentityMap' <=> IdentityMap
      BY Zenon, <3>1 DEF IdentityMap, Walk, paging_get_identity_limit_bytes
    <3>3. CASE paging_prepared BY Zenon, <1>2, <3>1, <3>2, <3>3 DEF MapInv
    <3>4. CASE ~paging_prepared
      <4>1. ~paging_on BY <1>2, <3>4
      <4>2. paging_on = FALSE BY <1>2, <4>1
      <4>3. (paging_on \/ paging_prepared) = FALSE BY Zenon, <3>4, <4>1
      <4>4. paging_on' = paging_on BY Zenon, <3>1, <4>2, <4>3
      <4>5. pagingVars' = pagingVars BY <3>1, <4>4 DEF pagingVars
      <4> QED BY Zenon, <1>2, <3>1, <3>4, <4>4, <4>5 DEF MapInv
    <3> QED BY <3>3, <3>4
  <2>3. CASE UNCHANGED pagingVars
    BY Zenon, <1>2, <2>3 DEF pagingVars, MapInv, IdentityMap, Walk, paging_get_identity_limit_bytes
  <2> QED BY Zenon, <1>2, <2>1, <2>2, <2>3 DEF PagingNext
<1>3. \A m \in MapSizes : paging_prepare_identity(m) => LimitFor(m)' BY Zenon, LimitRight
<1>4. Inv => (paging_on => IdentityMap) BY DEF MapInv
<1> QED BY <1>1, <1>2, <1>3, <1>4, PTL DEF PagingSpec, IdentityExact
=============================================================================
