----------------------------- MODULE SeqLemmas -----------------------------
(***************************************************************************)
(* What inserting into and removing from a sequence yields, element by     *)
(* element: the facts about linked-list surgery the heap proofs rest on.   *)
(***************************************************************************)
EXTENDS SequencesExt, Integers, TLAPS

\* A subsequence, empty ones included.
LEMMA SubProps ==
    ASSUME NEW S, NEW s \in Seq(S),
           NEW a \in 1 .. Len(s) + 1, NEW b \in 0 .. Len(s), a <= b + 1
    PROVE  /\ SubSeq(s, a, b) \in Seq(S)
           /\ Len(SubSeq(s, a, b)) = b - a + 1
           /\ \A j \in 1 .. b - a + 1 : SubSeq(s, a, b)[j] = s[a + j - 1]
  OBVIOUS

\* c is s without its i-th element.
Removed(S, c, s, i) ==
    /\ c \in Seq(S)
    /\ Len(c) = Len(s) - 1
    /\ \A j \in 1 .. i - 1 : c[j] = s[j]
    /\ \A j \in i .. Len(s) - 1 : c[j] = s[j + 1]

\* c is s with e as its new i-th element.
Inserted(S, c, s, i, e) ==
    /\ c \in Seq(S)
    /\ Len(c) = Len(s) + 1
    /\ \A j \in 1 .. i - 1 : c[j] = s[j]
    /\ c[i] = e
    /\ \A j \in i + 1 .. Len(s) + 1 : c[j] = s[j - 1]

\* Removing the i-th element moves the later ones down by one.
LEMMA RemProps ==
    ASSUME NEW S, NEW s \in Seq(S), NEW i \in 1 .. Len(s),
           NEW c, c = RemoveAt(s, i)
    PROVE  Removed(S, c, s, i)
<1>0. Len(s) \in Nat /\ i \in Nat /\ 1 <= i /\ i <= Len(s)
  OBVIOUS
<1>1. PICK a : a = SubSeq(s, 1, i - 1)
  BY Zenon
<1>2. PICK b : b = SubSeq(s, i + 1, Len(s))
  BY Zenon
<1>3. a \in Seq(S) /\ Len(a) = i - 1 /\ \A j \in 1 .. i - 1 : a[j] = s[j]
  BY <1>1, SubProps
<1>4. b \in Seq(S) /\ Len(b) = Len(s) - i /\ \A j \in 1 .. Len(s) - i : b[j] = s[i + j]
  BY <1>2, SubProps
<1>5. c = a \o b
  BY <1>1, <1>2 DEF RemoveAt
<1>6. /\ c \in Seq(S)
      /\ Len(c) = Len(a) + Len(b)
      /\ \A j \in 1 .. Len(a) : c[j] = a[j]
      /\ \A j \in 1 .. Len(b) : c[Len(a) + j] = b[j]
  <2>1. a \in Seq(S) /\ b \in Seq(S)
    BY <1>3, <1>4
  <2> QED
    BY <1>5, <2>1
<1>7. ASSUME NEW j \in i .. Len(s) - 1
      PROVE c[j] = s[j + 1]
  <2>1. PICK k : k = j - Len(a)
    OBVIOUS
  <2>2. k \in 1 .. Len(b) /\ Len(a) + k = j /\ i + k = j + 1 /\ k \in 1 .. Len(s) - i
    BY <1>0, <1>3, <1>4, <2>1
  <2>3. c[Len(a) + k] = b[k]
    BY <1>6, <2>2, Zenon
  <2>4. b[k] = s[i + k]
    BY <1>4, <2>2, Zenon
  <2> QED
    BY <2>2, <2>3, <2>4, Zenon
<1> QED
  BY <1>0, <1>3, <1>4, <1>6, <1>7 DEF Removed

\* Inserting at i moves the elements from i on up by one.
LEMMA InsProps ==
    ASSUME NEW S, NEW s \in Seq(S), NEW i \in 1 .. Len(s) + 1, NEW e \in S,
           NEW c, c = InsertAt(s, i, e)
    PROVE  Inserted(S, c, s, i, e)
<1>0. Len(s) \in Nat /\ i \in Nat /\ 1 <= i /\ i <= Len(s) + 1
  OBVIOUS
<1>1. PICK a : a = SubSeq(s, 1, i - 1)
  BY Zenon
<1>2. PICK b : b = SubSeq(s, i, Len(s))
  BY Zenon
<1>3. a \in Seq(S) /\ Len(a) = i - 1 /\ \A j \in 1 .. i - 1 : a[j] = s[j]
  BY <1>1, SubProps
<1>4. b \in Seq(S) /\ Len(b) = Len(s) - i + 1 /\ \A j \in 1 .. Len(s) - i + 1 : b[j] = s[i + j - 1]
  BY <1>2, SubProps
<1>5. PICK d : d = a \o <<e>>
  BY Zenon
<1>6. /\ d \in Seq(S)
      /\ Len(d) = i
      /\ \A j \in 1 .. i - 1 : d[j] = s[j]
      /\ d[i] = e
  <2>1. <<e>> \in Seq(S) /\ Len(<<e>>) = 1 /\ <<e>>[1] = e
    OBVIOUS
  <2>2. /\ d \in Seq(S)
        /\ Len(d) = Len(a) + Len(<<e>>)
        /\ \A j \in 1 .. Len(a) : d[j] = a[j]
        /\ \A j \in 1 .. Len(<<e>>) : d[Len(a) + j] = <<e>>[j]
    <3>1. a \in Seq(S)
      BY <1>3
    <3> QED
      BY <1>5, <3>1
  <2> QED
    BY <1>0, <1>3, <2>1, <2>2
<1>7. c = d \o b
  BY <1>1, <1>2, <1>5 DEF InsertAt
<1>8. /\ c \in Seq(S)
      /\ Len(c) = Len(d) + Len(b)
      /\ \A j \in 1 .. Len(d) : c[j] = d[j]
      /\ \A j \in 1 .. Len(b) : c[Len(d) + j] = b[j]
  <2>1. d \in Seq(S) /\ b \in Seq(S)
    BY <1>4, <1>6
  <2> QED
    BY <1>7, <2>1
<1>9. ASSUME NEW j \in i + 1 .. Len(s) + 1
      PROVE c[j] = s[j - 1]
  <2>1. PICK k : k = j - Len(d)
    OBVIOUS
  <2>2. k \in 1 .. Len(b) /\ Len(d) + k = j /\ i + k - 1 = j - 1 /\ k \in 1 .. Len(s) - i + 1
    BY <1>0, <1>4, <1>6, <2>1
  <2>3. c[Len(d) + k] = b[k]
    BY <1>8, <2>2, Zenon
  <2>4. b[k] = s[i + k - 1]
    BY <1>4, <2>2, Zenon
  <2> QED
    BY <2>2, <2>3, <2>4, Zenon
<1> QED
  BY <1>0, <1>4, <1>6, <1>8, <1>9 DEF Inserted
=============================================================================
