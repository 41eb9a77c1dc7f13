----------------------------- MODULE LmbProofs ------------------------------
(***************************************************************************)
(* Proofs about Lmb, for memory of any size, a table of any length and     *)
(* blocks of any size and alignment: lib/lmb.c keeps what was taken, as    *)
(* long as no sum of a base and a size goes over the top of the address    *)
(* space.                                                                  *)
(*                                                                         *)
(* A table is seen as the bytes it covers.  While its regions are sorted   *)
(* and apart, adding a region that overlaps none adds just its bytes, and  *)
(* freeing one takes just its bytes away, in each of the cases the code    *)
(* tells apart: a neighbour below or above or both, a place between two    *)
(* regions, a whole region, its beginning, its end, a hole in it.          *)
(***************************************************************************)
EXTENDS Lmb, WellFoundedInduction, TLAPS

\* A set of natural numbers has a least element.
LEMMA MinIn ==
  ASSUME NEW T, T \subseteq Nat, T # {}
  PROVE  Min(T) \in T /\ \A y \in T : Min(T) <= y
<1>1. PICK x \in T : \A y \in T : ~(<<y, x>> \in OpToRel(<, Nat))
  BY Zenon, WFMin, NatLessThanWellFounded
<1>2. ASSUME NEW y \in T PROVE x <= y
  <2>1. x \in Nat /\ y \in Nat  BY Zenon
  <2>2. PICK p : p = <<y, x>>  BY Zenon
  <2>3. p \in Nat \X Nat /\ p[1] = y /\ p[2] = x  BY ONLY Zenon, <2>1, <2>2
  <2>4. ~(p[1] < p[2])  BY Zenon, <1>1, <2>2, <2>3 DEF OpToRel
  <2> QED BY ONLY <2>1, <2>3, <2>4
<1> QED BY Zenon, <1>2 DEF Min

\* A bounded set of natural numbers has a greatest element.
LEMMA MaxIn ==
  ASSUME NEW n \in Nat, NEW T, T \subseteq 0..n, T # {}
  PROVE  Max(T) \in T /\ \A y \in T : Max(T) >= y
<1>0. \A x \in T : x \in Int /\ n - x \in Nat  BY ONLY n \in Nat, T \subseteq 0..n
<1>1. PICK U : U = {n - x : x \in T}  BY Zenon
<1>2. U \subseteq Nat /\ U # {}  BY Zenon, <1>0, <1>1
<1>3. Min(U) \in U /\ \A u \in U : Min(U) <= u  BY Zenon, <1>2, MinIn
<1>4. PICK x \in T : Min(U) = n - x  BY Zenon, <1>1, <1>3
<1>5. ASSUME NEW y \in T PROVE x >= y
  <2>1. n - x <= n - y  BY Zenon, <1>1, <1>3, <1>4
  <2> QED BY ONLY <1>0, <2>1, n \in Nat, x \in T, y \in T
<1> QED BY Zenon, <1>5 DEF Max

\* What is before position i of a sequence, and what is from there on.
LEMMA Before ==
  ASSUME NEW S, NEW s \in Seq(S), NEW i \in 1..(Len(s) + 1)
  PROVE  /\ SubSeq(s, 1, i - 1) \in Seq(S) /\ Len(SubSeq(s, 1, i - 1)) = i - 1
         /\ \A j \in 1..(i - 1) : SubSeq(s, 1, i - 1)[j] = s[j]
<1>1. SubSeq(s, 1, i - 1) \in Seq(S)  OBVIOUS
<1>2. Len(SubSeq(s, 1, i - 1)) = i - 1  OBVIOUS
<1>3. ASSUME NEW j \in 1..(i - 1) PROVE SubSeq(s, 1, i - 1)[j] = s[j]  OBVIOUS
<1> QED BY Zenon, <1>1, <1>2, <1>3

LEMMA From ==
  ASSUME NEW S, NEW s \in Seq(S), NEW i \in 1..(Len(s) + 1)
  PROVE  /\ SubSeq(s, i, Len(s)) \in Seq(S) /\ Len(SubSeq(s, i, Len(s))) = Len(s) - i + 1
         /\ \A j \in 1..(Len(s) - i + 1) : SubSeq(s, i, Len(s))[j] = s[i + j - 1]
<1>1. SubSeq(s, i, Len(s)) \in Seq(S)  OBVIOUS
<1>2. Len(SubSeq(s, i, Len(s))) = Len(s) - i + 1  OBVIOUS
<1>3. ASSUME NEW j \in 1..(Len(s) - i + 1) PROVE SubSeq(s, i, Len(s))[j] = s[i + j - 1]
  OBVIOUS
<1> QED BY Zenon, <1>1, <1>2, <1>3

\* A sequence made of two.
LEMMA Concat ==
  ASSUME NEW S, NEW a \in Seq(S), NEW b \in Seq(S)
  PROVE  /\ a \o b \in Seq(S) /\ Len(a \o b) = Len(a) + Len(b)
         /\ \A j \in 1..(Len(a) + Len(b)) :
              (a \o b)[j] = IF j <= Len(a) THEN a[j] ELSE b[j - Len(a)]
<1>1. a \o b \in Seq(S)  OBVIOUS
<1>2. Len(a \o b) = Len(a) + Len(b)  OBVIOUS
<1>3. ASSUME NEW j \in 1..(Len(a) + Len(b))
      PROVE  (a \o b)[j] = IF j <= Len(a) THEN a[j] ELSE b[j - Len(a)]
  OBVIOUS
<1> QED BY Zenon, <1>1, <1>2, <1>3

\* q is s without what was at i.
Removed(S, s, i, q) ==
  /\ q \in Seq(S) /\ Len(q) = Len(s) - 1
  /\ \A j \in 1..Len(q) : q[j] = IF j < i THEN s[j] ELSE s[j + 1]

\* lmb_remove_region drops one element of a sequence.
LEMMA RemoveIs ==
  ASSUME NEW S, NEW s \in Seq(S), NEW i \in 1..Len(s), NEW q, q = lmb_remove_region(s, i)
  PROVE  Removed(S, s, i, q)
<1>0. Len(s) \in Nat /\ i \in Nat /\ i >= 1 /\ i <= Len(s)  BY ONLY s \in Seq(S), i \in 1..Len(s)
<1>1. PICK a, b : a = SubSeq(s, 1, i - 1) /\ b = SubSeq(s, i + 1, Len(s))  BY Zenon
<1>2. i \in 1..(Len(s) + 1) /\ i + 1 \in 1..(Len(s) + 1)  BY ONLY <1>0
<1>3. a \in Seq(S) /\ Len(a) = i - 1 /\ \A j \in 1..(i - 1) : a[j] = s[j]
  BY Zenon, <1>1, <1>2, Before
<1>4. /\ b \in Seq(S) /\ Len(b) = Len(s) - (i + 1) + 1
      /\ \A j \in 1..(Len(s) - (i + 1) + 1) : b[j] = s[(i + 1) + j - 1]
  BY Zenon, <1>1, <1>2, From
<1>5. q = a \o b  BY Zenon, <1>1 DEF lmb_remove_region
<1>6. /\ q \in Seq(S) /\ Len(q) = Len(a) + Len(b)
      /\ \A j \in 1..(Len(a) + Len(b)) :
           q[j] = IF j <= Len(a) THEN a[j] ELSE b[j - Len(a)]
  <2>0. a \in Seq(S) /\ b \in Seq(S)  BY Zenon, <1>3, <1>4
  <2>1. /\ a \o b \in Seq(S) /\ Len(a \o b) = Len(a) + Len(b)
        /\ \A j \in 1..(Len(a) + Len(b)) :
             (a \o b)[j] = IF j <= Len(a) THEN a[j] ELSE b[j - Len(a)]
    BY Zenon, <2>0, Concat
  <2> QED BY Zenon, <1>5, <2>1
<1>7. Len(q) = Len(s) - 1  BY ONLY <1>0, <1>3, <1>4, <1>6
<1>8. ASSUME NEW j \in 1..Len(q) PROVE q[j] = IF j < i THEN s[j] ELSE s[j + 1]
  <2>0. j \in Nat /\ j >= 1 /\ j <= Len(s) - 1 /\ j \in 1..(Len(a) + Len(b))
    BY ONLY <1>0, <1>6, <1>7, j \in 1..Len(q)
  <2>1. q[j] = IF j <= Len(a) THEN a[j] ELSE b[j - Len(a)]
    BY Zenon, <1>6, <2>0
  <2>2. CASE j < i
    <3>1. j <= Len(a) /\ j \in 1..(i - 1)  BY ONLY <1>0, <1>3, <2>0, <2>2
    <3> QED BY Zenon, <1>3, <2>1, <2>2, <3>1
  <2>3. CASE ~(j < i)
    <3>1. /\ ~(j <= Len(a)) /\ j - Len(a) \in 1..(Len(s) - (i + 1) + 1)
          /\ (i + 1) + (j - Len(a)) - 1 = j + 1
      BY ONLY <1>0, <1>3, <2>0, <2>3
    <3> QED BY Zenon, <1>4, <2>1, <2>3, <3>1
  <2> QED BY Zenon, <2>2, <2>3
<1> QED BY Zenon, <1>6, <1>7, <1>8 DEF Removed

\* q is s with e put in at i.
Inserted(S, s, i, e, q) ==
  /\ q \in Seq(S) /\ Len(q) = Len(s) + 1
  /\ \A j \in 1..Len(q) :
       q[j] = IF j < i THEN s[j] ELSE IF j = i THEN e ELSE s[j - 1]

\* PutAt adds one.
LEMMA PutAtIs ==
  ASSUME NEW S, NEW s \in Seq(S), NEW i \in 1..(Len(s) + 1), NEW e \in S,
         NEW q, q = PutAt(s, i, e)
  PROVE  Inserted(S, s, i, e, q)
<1>0. Len(s) \in Nat /\ i \in Nat /\ i >= 1 /\ i <= Len(s) + 1
  BY ONLY s \in Seq(S), i \in 1..(Len(s) + 1)
<1>1. PICK a, b, c : a = SubSeq(s, 1, i - 1) /\ b = SubSeq(s, i, Len(s)) /\ c = <<e>>
  BY Zenon
<1>2. a \in Seq(S) /\ Len(a) = i - 1 /\ \A j \in 1..(i - 1) : a[j] = s[j]
  BY Zenon, <1>1, Before
<1>3. /\ b \in Seq(S) /\ Len(b) = Len(s) - i + 1
      /\ \A j \in 1..(Len(s) - i + 1) : b[j] = s[i + j - 1]
  BY Zenon, <1>1, From
<1>4. c \in Seq(S) /\ Len(c) = 1 /\ c[1] = e  BY ONLY <1>1, e \in S
<1>5. PICK d : d = a \o c  BY Zenon
<1>6. d \in Seq(S) /\ Len(d) = Len(a) + Len(c)  BY Zenon, <1>2, <1>4, <1>5, Concat
<1>7. q = d \o b  BY Zenon, <1>1, <1>5 DEF PutAt
<1>8. /\ q \in Seq(S) /\ Len(q) = Len(d) + Len(b)
      /\ \A j \in 1..(Len(d) + Len(b)) :
           q[j] = IF j <= Len(d) THEN d[j] ELSE b[j - Len(d)]
  <2>0. d \in Seq(S) /\ b \in Seq(S)  BY Zenon, <1>3, <1>6
  <2>1. /\ d \o b \in Seq(S) /\ Len(d \o b) = Len(d) + Len(b)
        /\ \A j \in 1..(Len(d) + Len(b)) :
             (d \o b)[j] = IF j <= Len(d) THEN d[j] ELSE b[j - Len(d)]
    BY Zenon, <2>0, Concat
  <2> QED BY Zenon, <1>7, <2>1
<1>9. Len(d) = i /\ Len(q) = Len(s) + 1  BY ONLY <1>0, <1>2, <1>3, <1>4, <1>6, <1>8
<1>10. ASSUME NEW j \in 1..Len(q)
       PROVE  q[j] = IF j < i THEN s[j] ELSE IF j = i THEN e ELSE s[j - 1]
  <2>0. j \in Nat /\ j >= 1 /\ j <= Len(s) + 1 /\ j \in 1..(Len(d) + Len(b))
    BY ONLY <1>0, <1>8, <1>9, j \in 1..Len(q)
  <2>1. q[j] = IF j <= Len(d) THEN d[j] ELSE b[j - Len(d)]
    BY Zenon, <1>8, <2>0
  <2>2. j <= i => d[j] = IF j <= Len(a) THEN a[j] ELSE c[j - Len(a)]
    <3>1. j <= i => j \in 1..(Len(a) + Len(c))  BY ONLY <1>0, <1>2, <1>4, <2>0
    <3> QED BY Zenon, <1>2, <1>4, <1>5, <3>1, Concat
  <2>3. CASE j < i
    <3>1. j <= Len(d) /\ j <= Len(a) /\ j <= i /\ j \in 1..(i - 1)
      BY ONLY <1>0, <1>2, <1>9, <2>0, <2>3
    <3> QED BY Zenon, <1>2, <2>1, <2>2, <2>3, <3>1
  <2>4. CASE j = i
    <3>1. j <= Len(d) /\ ~(j <= Len(a)) /\ j <= i /\ j - Len(a) = 1 /\ ~(j < i)
      BY ONLY <1>0, <1>2, <1>9, <2>0, <2>4
    <3> QED BY Zenon, <1>4, <2>1, <2>2, <2>4, <3>1
  <2>5. CASE ~(j < i) /\ j # i
    <3>1. /\ ~(j <= Len(d)) /\ j - Len(d) \in 1..(Len(s) - i + 1)
          /\ i + (j - Len(d)) - 1 = j - 1
      BY ONLY <1>0, <1>9, <2>0, <2>5
    <3> QED BY Zenon, <1>3, <2>1, <2>5, <3>1
  <2> QED BY Zenon, <2>3, <2>4, <2>5
<1> QED BY Zenon, <1>8, <1>9, <1>10 DEF Inserted
-----------------------------------------------------------------------------
\* A region of memory, not empty, below the top of the address space.
Region == {r \in [base : Nat, size : Nat \ {0}] : r.base + r.size < Word}

\* A table of regions is kept in order, and no two of them overlap.
Sorted(rgn) ==
  /\ rgn \in Seq(Region)
  /\ \A i, j \in 1..Len(rgn) : i < j => End(rgn[i]) <= rgn[j].base

In(x, r) == r.base <= x /\ x < End(r)
Covers(rgn, x) == \E i \in 1..Len(rgn) : In(x, rgn[i])
Apart(rgn, r) == \A i \in 1..Len(rgn) : ~Overlaps(r, rgn[i])

\* Words that are small enough are added and subtracted like numbers.
LEMMA SmallSum ==
  ASSUME NEW a \in Nat, NEW b \in Nat, a + b < Word
  PROVE  Plus(a, b) = a + b
<1>1. Word \in Nat  BY Zenon, LmbAssumption
<1> QED BY ONLY <1>1, a \in Nat, b \in Nat, a + b < Word DEF Plus

LEMMA SmallDifference ==
  ASSUME NEW a \in Nat, NEW b \in Nat, b <= a, a < Word
  PROVE  Minus(a, b) = a - b
<1>1. Word \in Nat  BY Zenon, LmbAssumption
<1> QED BY ONLY <1>1, a \in Nat, b \in Nat, b <= a, a < Word DEF Minus

\* The ends of a region.
LEMMA RegionIs ==
  ASSUME NEW r \in Region
  PROVE  /\ r.base \in Nat /\ r.size \in Nat /\ r.size > 0
         /\ End(r) = r.base + r.size /\ End(r) \in Nat /\ r.base < End(r) /\ End(r) < Word
<1>1. r.base \in Nat /\ r.size \in Nat /\ r.size > 0 /\ r.base + r.size < Word
  BY DEF Region
<1>2. End(r) = r.base + r.size  BY Zenon, <1>1, SmallSum DEF End
<1> QED BY ONLY <1>1, <1>2

\* Block makes a region.
LEMMA BlockIs ==
  ASSUME NEW b \in Nat, NEW n \in Nat, n > 0, b + n < Word
  PROVE  /\ Block(b, n) \in Region /\ Block(b, n).base = b /\ Block(b, n).size = n
         /\ End(Block(b, n)) = b + n
<1>1. Block(b, n).base = b /\ Block(b, n).size = n  BY Zenon DEF Block
<1>2. Block(b, n) \in Region  BY DEF Block, Region
<1>3. Plus(b, n) = b + n  BY Zenon, SmallSum
<1> QED BY Zenon, <1>1, <1>2, <1>3 DEF End

\* A new size makes a region anew.
LEMMA Resized ==
  ASSUME NEW r \in Region, NEW n
  PROVE  [r EXCEPT !.size = n] = Block(r.base, n)
  BY DEF Region, Block

\* The regions of a table in order.
LEMMA SortedIs ==
  ASSUME NEW rgn, Sorted(rgn)
  PROVE  /\ Len(rgn) \in Nat /\ DOMAIN rgn = 1..Len(rgn)
         /\ \A i \in 1..Len(rgn) :
              /\ rgn[i] \in Region /\ rgn[i].base \in Nat /\ rgn[i].size \in Nat
              /\ rgn[i].size > 0 /\ End(rgn[i]) = rgn[i].base + rgn[i].size
              /\ End(rgn[i]) \in Nat /\ rgn[i].base < End(rgn[i]) /\ End(rgn[i]) < Word
<1>1. rgn \in Seq(Region)  BY Zenon DEF Sorted
<1>2. Len(rgn) \in Nat /\ DOMAIN rgn = 1..Len(rgn)  BY ONLY <1>1
<1>3. \A i \in 1..Len(rgn) : rgn[i] \in Region  BY ONLY <1>1
<1> QED BY Zenon, <1>2, <1>3, RegionIs

\* To overlap no region is to share no byte with one.
LEMMA ApartBytes ==
  ASSUME NEW rgn, Sorted(rgn), NEW r \in Region
  PROVE  Apart(rgn, r) <=> \A x \in Int : ~(In(x, r) /\ Covers(rgn, x))
<1>0. r.base \in Nat /\ End(r) \in Nat /\ r.base < End(r)  BY Zenon, RegionIs
<1>1. ASSUME NEW i \in 1..Len(rgn)
      PROVE  Overlaps(r, rgn[i]) <=> \E x \in Int : In(x, r) /\ In(x, rgn[i])
  <2>1. rgn[i].base \in Nat /\ End(rgn[i]) \in Nat /\ rgn[i].base < End(rgn[i])
    BY Zenon, SortedIs
  <2>2. ASSUME Overlaps(r, rgn[i]) PROVE \E x \in Int : In(x, r) /\ In(x, rgn[i])
    <3>1. CASE r.base <= rgn[i].base
      <4>1. rgn[i].base \in Int /\ In(rgn[i].base, r) /\ In(rgn[i].base, rgn[i])
        BY ONLY <1>0, <2>1, <2>2, <3>1 DEF Overlaps, In
      <4> QED BY Zenon, <4>1
    <3>2. CASE ~(r.base <= rgn[i].base)
      <4>1. r.base \in Int /\ In(r.base, r) /\ In(r.base, rgn[i])
        BY ONLY <1>0, <2>1, <2>2, <3>2 DEF Overlaps, In
      <4> QED BY Zenon, <4>1
    <3> QED BY Zenon, <3>1, <3>2
  <2>3. ASSUME NEW x \in Int, In(x, r), In(x, rgn[i]) PROVE Overlaps(r, rgn[i])
    BY ONLY <1>0, <2>1, <2>3 DEF Overlaps, In
  <2> QED BY Zenon, <2>2, <2>3
<1> QED BY Zenon, <1>1 DEF Apart, Covers

\* q is the table rgn with s in the place of region i.
Replaced(rgn, i, s, q) ==
  /\ Sorted(q) /\ Len(q) = Len(rgn)
  /\ \A j \in 1..Len(rgn) : q[j] = IF j = i THEN s ELSE rgn[j]
  /\ \A x \in Int : Covers(q, x) <=>
       In(x, s) \/ \E j \in 1..Len(rgn) : j # i /\ In(x, rgn[j])

\* One region put in the place of another.
LEMMA ReplaceKeeps ==
  ASSUME NEW rgn, Sorted(rgn), NEW i \in 1..Len(rgn), NEW s \in Region,
         \A j \in 1..Len(rgn) : j < i => End(rgn[j]) <= s.base,
         \A j \in 1..Len(rgn) : i < j => End(s) <= rgn[j].base,
         NEW q, q = [rgn EXCEPT ![i] = s]
  PROVE  Replaced(rgn, i, s, q)
<1>1. rgn \in Seq(Region)  BY Zenon DEF Sorted
<1>2. q \in Seq(Region) /\ Len(q) = Len(rgn)
  BY ONLY <1>1, i \in 1..Len(rgn), s \in Region, q = [rgn EXCEPT ![i] = s]
<1>3. \A j \in 1..Len(rgn) : q[j] = IF j = i THEN s ELSE rgn[j]
  BY ONLY <1>1, q = [rgn EXCEPT ![i] = s]
<1>4. ASSUME NEW j \in 1..Len(rgn), NEW k \in 1..Len(rgn), j < k
      PROVE  End(q[j]) <= q[k].base
  <2>1. j \in Int /\ k \in Int /\ i \in Int
    BY ONLY j \in 1..Len(rgn), k \in 1..Len(rgn), i \in 1..Len(rgn)
  <2>2. ~(j = i /\ k = i)  BY ONLY <1>4, <2>1
  <2> QED BY ZenonT(30), <1>3, <1>4, <2>2 DEF Sorted
<1>5. Sorted(q)  BY Zenon, <1>2, <1>4 DEF Sorted
<1>6. \A x \in Int : Covers(q, x) <=>
              In(x, s) \/ \E j \in 1..Len(rgn) : j # i /\ In(x, rgn[j])
  BY Zenon, <1>2, <1>3 DEF Covers
<1> QED BY Zenon, <1>2, <1>3, <1>5, <1>6 DEF Replaced

\* Merging a region with the next changes no byte.
LEMMA CoalesceKeeps ==
  ASSUME NEW rgn, Sorted(rgn), NEW i \in 1..Len(rgn),
         NEW q, q = lmb_coalesce_regions(rgn, i)
  PROVE  Sorted(q) /\ \A x \in Int : Covers(q, x) <=> Covers(rgn, x)
<1>1. CASE ~(i < Len(rgn) /\ Adjacent(rgn[i], rgn[i + 1]))
  BY Zenon, <1>1 DEF lmb_coalesce_regions
<1>2. CASE i < Len(rgn) /\ Adjacent(rgn[i], rgn[i + 1])
  <2>0. rgn \in Seq(Region) /\ Len(rgn) \in Nat /\ i \in Nat /\ i >= 1 /\ i < Len(rgn)
    BY ONLY <1>2, i \in 1..Len(rgn), Sorted(rgn) DEF Sorted
  <2>1. PICK r, s : r = rgn[i] /\ s = rgn[i + 1]  BY Zenon
  <2>2. i \in 1..Len(rgn) /\ i + 1 \in 1..Len(rgn) /\ i < i + 1  BY ONLY <2>0
  <2>3. /\ r \in Region /\ s \in Region
        /\ r.base \in Nat /\ r.size \in Nat /\ r.size > 0 /\ End(r) = r.base + r.size
        /\ s.base \in Nat /\ s.size \in Nat /\ s.size > 0 /\ End(s) = s.base + s.size
        /\ End(s) < Word
    BY Zenon, <2>1, <2>2, SortedIs
  <2>4. End(r) <= s.base  BY Zenon, <2>1, <2>2 DEF Sorted
  <2>5. Adjacent(r, s)  BY Zenon, <1>2, <2>1
  <2>6. s.base = End(r)  BY ONLY <2>3, <2>4, <2>5 DEF Adjacent
  <2>7. PICK m : m = Block(r.base, r.size + s.size)  BY Zenon
  <2>8. /\ r.size + s.size \in Nat /\ r.size + s.size > 0 /\ r.size + s.size < Word
        /\ r.base + (r.size + s.size) < Word
    <3>1. Word \in Nat  BY Zenon, LmbAssumption
    <3>2. \A a, x, y, w \in Nat : x > 0 /\ (a + x) + y < w =>
            x + y \in Nat /\ x + y > 0 /\ x + y < w /\ a + (x + y) < w
      BY ONLY TRUE
    <3>3. (r.base + r.size) + s.size < Word  BY Zenon, <2>3, <2>6
    <3> QED BY Zenon, <2>3, <3>1, <3>2, <3>3
  <2>9. m \in Region /\ m.base = r.base /\ End(m) = r.base + (r.size + s.size)
    BY Zenon, <2>3, <2>7, <2>8, BlockIs
  <2>10. End(m) = End(s)  BY ONLY <2>3, <2>6, <2>9
  <2>11. PICK t : t = [rgn EXCEPT ![i] = m]  BY Zenon
  <2>12. q = lmb_remove_region(t, i + 1)
    <3>0. Plus(r.size, s.size) = r.size + s.size  BY Zenon, <2>3, <2>8, SmallSum
    <3>1. [r EXCEPT !.size = Plus(@, s.size)] = m  BY Zenon, <2>3, <2>7, <3>0, Resized
    <3>2. [rgn EXCEPT ![i].size = Plus(@, rgn[i + 1].size)] = [rgn EXCEPT ![i] = m]
      BY Zenon, <2>1, <3>1
    <3> QED BY Zenon, <1>2, <2>11, <3>2 DEF lmb_coalesce_regions
  <2>13. t \in Seq(Region) /\ Len(t) = Len(rgn)  BY ONLY <2>0, <2>2, <2>9, <2>11
  <2>14. \A j \in 1..Len(rgn) : t[j] = IF j = i THEN m ELSE rgn[j]
    BY ONLY <2>0, <2>11
  <2>15. /\ q \in Seq(Region) /\ Len(q) = Len(t) - 1
         /\ \A j \in 1..Len(q) : q[j] = IF j < i + 1 THEN t[j] ELSE t[j + 1]
    <3>1. i + 1 \in 1..Len(t)  BY Zenon, <2>2, <2>13
    <3>2. t \in Seq(Region)  BY Zenon, <2>13
    <3>3. Removed(Region, t, i + 1, q)  BY Zenon, <2>12, <3>1, <3>2, RemoveIs
    <3> QED BY Zenon, <3>3 DEF Removed
  <2>16. ASSUME NEW j \in 1..Len(q)
         PROVE  /\ j \in 1..Len(rgn) /\ j + 1 \in 1..Len(rgn)
                /\ q[j] = IF j = i THEN m ELSE IF j < i THEN rgn[j] ELSE rgn[j + 1]
    <3>1. /\ j \in Nat /\ j \in 1..Len(rgn) /\ j + 1 \in 1..Len(rgn)
          /\ (j < i + 1 <=> j <= i) /\ (j <= i <=> j < i \/ j = i) /\ (j + 1 = i => j < i)
      BY ONLY <2>0, <2>13, <2>15, j \in 1..Len(q)
    <3> QED BY Zenon, <2>14, <2>15, <3>1
  <2>17. ASSUME NEW j \in 1..Len(q), NEW k \in 1..Len(q), j < k
         PROVE  End(q[j]) <= q[k].base
    <3>0. /\ j \in 1..Len(rgn) /\ j + 1 \in 1..Len(rgn)
          /\ k \in 1..Len(rgn) /\ k + 1 \in 1..Len(rgn)
          /\ j \in Nat /\ k \in Nat
      BY ONLY <2>16, j \in 1..Len(q), k \in 1..Len(q)
    <3>1. CASE k < i
      <4>1. j # i /\ j < i /\ k # i  BY ONLY <2>0, <2>17, <3>0, <3>1
      <4> QED BY Zenon, <2>16, <2>17, <3>0, <3>1, <4>1 DEF Sorted
    <3>2. CASE k = i
      <4>1. j # i /\ j < i  BY ONLY <2>0, <2>17, <3>0, <3>2
      <4> QED BY Zenon, <2>1, <2>2, <2>9, <2>16, <3>0, <3>2, <4>1 DEF Sorted
    <3>3. CASE k > i /\ j < i
      <4>1. j # i /\ k # i /\ ~(k < i) /\ j < k + 1  BY ONLY <2>0, <2>17, <3>0, <3>3
      <4> QED BY Zenon, <2>16, <3>0, <3>3, <4>1 DEF Sorted
    <3>4. CASE k > i /\ j = i
      <4>1. k # i /\ ~(k < i) /\ i + 1 < k + 1  BY ONLY <2>0, <2>17, <3>0, <3>4
      <4> QED BY Zenon, <2>1, <2>2, <2>10, <2>16, <3>0, <3>4, <4>1 DEF Sorted
    <3>5. CASE j > i
      <4>1. j # i /\ ~(j < i) /\ k # i /\ ~(k < i) /\ j + 1 < k + 1
        BY ONLY <2>0, <2>17, <3>0, <3>5
      <4> QED BY Zenon, <2>16, <3>0, <4>1 DEF Sorted
    <3>6. k < i \/ k = i \/ (k > i /\ j < i) \/ (k > i /\ j = i) \/ j > i
      BY ONLY <2>0, <2>17, <3>0
    <3> QED BY Zenon, <3>1, <3>2, <3>3, <3>4, <3>5, <3>6
  <2>18. Sorted(q)  BY Zenon, <2>15, <2>17 DEF Sorted
  <2>19. ASSUME NEW x \in Int PROVE In(x, m) <=> In(x, r) \/ In(x, s)
    <3>1. r.base \in Nat /\ End(r) \in Nat /\ r.base < End(r) /\ End(s) \in Nat /\ End(r) < End(s)
      BY Zenon, <2>1, <2>2, <2>6, SortedIs
    <3>2. m.base = r.base /\ End(m) = End(s) /\ s.base = End(r)  BY Zenon, <2>6, <2>9, <2>10
    <3> QED BY ONLY <3>1, <3>2, x \in Int DEF In
  <2>20. ASSUME NEW x \in Int, Covers(q, x) PROVE Covers(rgn, x)
    BY Zenon, <2>1, <2>2, <2>16, <2>19, <2>20 DEF Covers
  <2>21. ASSUME NEW x \in Int, Covers(rgn, x) PROVE Covers(q, x)
    <3>1. PICK j \in 1..Len(rgn) : In(x, rgn[j])  BY Zenon, <2>21 DEF Covers
    <3>2. i \in 1..Len(q)  BY ONLY <2>0, <2>13, <2>15
    <3>3. CASE j < i
      <4>1. j \in 1..Len(q) /\ j # i  BY ONLY <2>0, <2>13, <2>15, <3>3, j \in 1..Len(rgn)
      <4> QED BY Zenon, <2>16, <3>1, <3>3, <4>1 DEF Covers
    <3>4. CASE j = i \/ j = i + 1
      <4>1. In(x, m)  BY Zenon, <2>1, <2>19, <3>1, <3>4
      <4> QED BY Zenon, <2>16, <3>2, <4>1 DEF Covers
    <3>5. CASE j > i + 1
      <4>1. j - 1 \in 1..Len(q) /\ j - 1 # i /\ ~(j - 1 < i) /\ (j - 1) + 1 = j
        BY ONLY <2>0, <2>13, <2>15, <3>5, j \in 1..Len(rgn)
      <4> QED BY Zenon, <2>16, <3>1, <4>1 DEF Covers
    <3>6. j < i \/ j = i \/ j = i + 1 \/ j > i + 1  BY ONLY <2>0, j \in 1..Len(rgn)
    <3> QED BY Zenon, <3>3, <3>4, <3>5, <3>6
  <2> QED BY Zenon, <2>18, <2>20, <2>21
<1> QED BY Zenon, <1>1, <1>2

\* A region that overlaps none goes between those below it and those above.
LEMMA InsertKeeps ==
  ASSUME NEW rgn, Sorted(rgn), NEW r \in Region, Apart(rgn, r), NEW q, q = Insert(rgn, r)
  PROVE  Sorted(q) /\ \A x \in Int : Covers(q, x) <=> Covers(rgn, x) \/ In(x, r)
<1>0. rgn \in Seq(Region) /\ Len(rgn) \in Nat /\ DOMAIN rgn = 1..Len(rgn)
  BY Zenon, SortedIs DEF Sorted
<1>1. r.base \in Nat /\ End(r) \in Nat /\ r.base < End(r)  BY Zenon, RegionIs
<1>2. PICK T : T = {0} \cup {i \in DOMAIN rgn : r.base >= rgn[i].base}  BY Zenon
<1>3. T \subseteq 0..Len(rgn) /\ T # {}  BY ONLY <1>0, <1>2
<1>4. PICK p : p = Max(T)  BY Zenon
<1>5. p \in T /\ \A y \in T : p >= y  BY Zenon, <1>0, <1>3, <1>4, MaxIn
<1>6. p \in Nat /\ p <= Len(rgn) /\ p + 1 \in 1..(Len(rgn) + 1)  BY ONLY <1>0, <1>3, <1>5
<1>7. ASSUME NEW j \in 1..Len(rgn), j <= p PROVE End(rgn[j]) <= r.base
  <2>1. p \in 1..Len(rgn) /\ p # 0  BY ONLY <1>6, <1>7, <1>0
  <2>2. r.base >= rgn[p].base  BY Zenon, <1>2, <1>5, <2>1
  <2>3. rgn[p].base \in Nat /\ End(rgn[p]) \in Nat /\ End(rgn[j]) \in Nat
    BY Zenon, <2>1, SortedIs
  <2>4. ~Overlaps(r, rgn[p])  BY Zenon, <2>1 DEF Apart
  <2>5. End(rgn[p]) <= r.base  BY ONLY <1>1, <2>2, <2>3, <2>4 DEF Overlaps
  <2>6. CASE j = p  BY Zenon, <2>5, <2>6
  <2>7. CASE j < p
    <3>1. End(rgn[j]) <= rgn[p].base  BY Zenon, <2>1, <2>7 DEF Sorted
    <3> QED BY ONLY <1>1, <2>2, <2>3, <3>1
  <2>8. j = p \/ j < p  BY ONLY <1>6, <1>7, j \in 1..Len(rgn)
  <2> QED BY Zenon, <2>6, <2>7, <2>8
<1>8. ASSUME NEW j \in 1..Len(rgn), j > p PROVE End(r) <= rgn[j].base /\ r.base < rgn[j].base
  <2>1. ~(p >= j)  BY ONLY <1>6, <1>8, j \in 1..Len(rgn)
  <2>2. ~(r.base >= rgn[j].base)  BY Zenon, <1>0, <1>2, <1>5, <2>1
  <2>3. rgn[j].base \in Nat /\ End(rgn[j]) \in Nat /\ rgn[j].base < End(rgn[j])
    BY Zenon, SortedIs
  <2>4. ~Overlaps(r, rgn[j])  BY Zenon DEF Apart
  <2> QED BY ONLY <1>1, <2>2, <2>3, <2>4 DEF Overlaps
<1>9. PICK t : t = PutAt(rgn, p + 1, r)  BY Zenon
<1>10. /\ t \in Seq(Region) /\ Len(t) = Len(rgn) + 1
       /\ \A j \in 1..Len(t) :
            t[j] = IF j < p + 1 THEN rgn[j] ELSE IF j = p + 1 THEN r ELSE rgn[j - 1]
  <2>1. rgn \in Seq(Region)  BY Zenon, <1>0
  <2>2. p + 1 \in 1..(Len(rgn) + 1)  BY Zenon, <1>6
  <2>3. Inserted(Region, rgn, p + 1, r, t)  BY Zenon, <1>9, <2>1, <2>2, PutAtIs
  <2> QED BY Zenon, <2>3 DEF Inserted
<1>11. q = t
  <2>1. q = IF r.base < rgn[1].base THEN [t EXCEPT ![1] = r] ELSE t
    BY Zenon, <1>2, <1>4, <1>9 DEF Insert
  <2>2. CASE p = 0
    <3>1. 1 \in 1..Len(t) /\ 1 = p + 1 /\ ~(1 < p + 1)  BY ONLY <1>0, <1>10, <2>2
    <3>2. t[1] = r  BY Zenon, <1>10, <3>1
    <3>3. [t EXCEPT ![1] = r] = t  BY ONLY <1>10, <3>1, <3>2
    <3> QED BY Zenon, <2>1, <3>3
  <2>3. CASE p # 0
    <3>1. 1 \in 1..Len(rgn) /\ 1 <= p  BY ONLY <1>0, <1>6, <2>3
    <3>2. End(rgn[1]) <= r.base  BY Zenon, <1>7, <3>1
    <3>3. rgn[1].base \in Nat /\ End(rgn[1]) \in Nat /\ rgn[1].base < End(rgn[1])
      BY Zenon, <3>1, SortedIs
    <3>4. ~(r.base < rgn[1].base)  BY ONLY <1>1, <3>2, <3>3
    <3> QED BY Zenon, <2>1, <3>4
  <2> QED BY Zenon, <2>2, <2>3
<1>12. ASSUME NEW j \in 1..Len(q)
       PROVE  \/ j <= p /\ j \in 1..Len(rgn) /\ q[j] = rgn[j]
              \/ j = p + 1 /\ q[j] = r
              \/ j > p + 1 /\ j - 1 \in 1..Len(rgn) /\ j - 1 > p /\ q[j] = rgn[j - 1]
  <2>1. \/ j < p + 1 /\ j <= p /\ j \in 1..Len(rgn)
        \/ j = p + 1 /\ ~(j < p + 1)
        \/ j > p + 1 /\ j - 1 \in 1..Len(rgn) /\ j - 1 > p /\ j # p + 1 /\ ~(j < p + 1)
    BY ONLY <1>0, <1>6, <1>10, <1>11, j \in 1..Len(q)
  <2> QED BY Zenon, <1>10, <1>11, <2>1
<1>13. ASSUME NEW j \in 1..Len(q), NEW k \in 1..Len(q), j < k
       PROVE  End(q[j]) <= q[k].base
  <2>0. j \in Int /\ k \in Int  BY ONLY j \in 1..Len(q), k \in 1..Len(q)
  <2>1. CASE k <= p /\ k \in 1..Len(rgn) /\ q[k] = rgn[k]
    <3>1. j <= p /\ ~(j > p + 1) /\ j # p + 1  BY ONLY <1>6, <1>13, <2>0, <2>1
    <3>2. j \in 1..Len(rgn) /\ q[j] = rgn[j]  BY Zenon, <1>12, <3>1
    <3> QED BY Zenon, <1>13, <2>1, <3>2 DEF Sorted
  <2>2. CASE k = p + 1 /\ q[k] = r
    <3>1. j <= p /\ ~(j > p + 1) /\ j # p + 1  BY ONLY <1>6, <1>13, <2>0, <2>2
    <3>2. j \in 1..Len(rgn) /\ q[j] = rgn[j]  BY Zenon, <1>12, <3>1
    <3> QED BY Zenon, <1>7, <2>2, <3>1, <3>2
  <2>3. CASE k > p + 1 /\ k - 1 \in 1..Len(rgn) /\ k - 1 > p /\ q[k] = rgn[k - 1]
    <3>1. CASE j <= p /\ j \in 1..Len(rgn) /\ q[j] = rgn[j]
      <4>1. j < k - 1  BY ONLY <1>6, <2>0, <2>3, <3>1
      <4> QED BY Zenon, <2>3, <3>1, <4>1 DEF Sorted
    <3>2. CASE j = p + 1 /\ q[j] = r
      BY Zenon, <1>8, <2>3, <3>2
    <3>3. CASE j > p + 1 /\ j - 1 \in 1..Len(rgn) /\ j - 1 > p /\ q[j] = rgn[j - 1]
      <4>1. j - 1 < k - 1  BY ONLY <1>13, <2>0
      <4> QED BY Zenon, <2>3, <3>3, <4>1 DEF Sorted
    <3> QED BY Zenon, <1>12, <3>1, <3>2, <3>3
  <2> QED BY Zenon, <1>12, <2>1, <2>2, <2>3
<1>14. Sorted(q)  BY Zenon, <1>10, <1>11, <1>13 DEF Sorted
<1>15. ASSUME NEW x \in Int, Covers(q, x) PROVE Covers(rgn, x) \/ In(x, r)
  BY Zenon, <1>12, <1>15 DEF Covers
<1>16. ASSUME NEW x \in Int, Covers(rgn, x) \/ In(x, r) PROVE Covers(q, x)
  <2>1. CASE In(x, r)
    <3>1. p + 1 \in 1..Len(q) /\ ~(p + 1 < p + 1)  BY ONLY <1>0, <1>6, <1>10, <1>11
    <3> QED BY Zenon, <1>10, <1>11, <2>1, <3>1 DEF Covers
  <2>2. CASE Covers(rgn, x)
    <3>1. PICK j \in 1..Len(rgn) : In(x, rgn[j])  BY Zenon, <2>2 DEF Covers
    <3>2. CASE j <= p
      <4>1. j \in 1..Len(q) /\ j < p + 1  BY ONLY <1>0, <1>6, <1>10, <1>11, <3>2, j \in 1..Len(rgn)
      <4> QED BY Zenon, <1>10, <1>11, <3>1, <4>1 DEF Covers
    <3>3. CASE ~(j <= p)
      <4>1. PICK k : k = j + 1  BY Zenon
      <4>2. k \in 1..Len(q) /\ ~(k < p + 1) /\ k # p + 1 /\ k - 1 = j
        BY ONLY <1>0, <1>6, <1>10, <1>11, <3>3, <4>1, j \in 1..Len(rgn)
      <4> QED BY Zenon, <1>10, <1>11, <3>1, <4>2 DEF Covers
    <3> QED BY Zenon, <3>2, <3>3
  <2> QED BY Zenon, <1>16, <2>1, <2>2
<1> QED BY Zenon, <1>14, <1>15, <1>16

\* lmb_add_region takes the bytes of the region it is given, and no other.
LEMMA AddKeeps ==
  ASSUME NEW rgn, Sorted(rgn), NEW r \in Region, Apart(rgn, r),
         NEW a, a = lmb_add_region(rgn, r), a.ok
  PROVE  Sorted(a.rgn) /\ \A x \in Int : Covers(a.rgn, x) <=> Covers(rgn, x) \/ In(x, r)
<1>0. rgn \in Seq(Region) /\ Len(rgn) \in Nat /\ DOMAIN rgn = 1..Len(rgn)
  BY Zenon, SortedIs DEF Sorted
<1>1. /\ r.base \in Nat /\ r.size \in Nat /\ r.size > 0 /\ End(r) = r.base + r.size
      /\ End(r) \in Nat /\ r.base < End(r) /\ End(r) < Word
  BY Zenon, RegionIs
<1>a. ~(Len(rgn) = 1 /\ rgn[1].size = 0)
  <2>1. Len(rgn) = 1 => 1 \in 1..Len(rgn)  BY ONLY <1>0
  <2>2. ASSUME Len(rgn) = 1, rgn[1].size = 0 PROVE FALSE
    <3>1. rgn[1].size > 0  BY Zenon, <2>1, <2>2, SortedIs
    <3> QED BY ONLY <2>2, <3>1
  <2> QED BY Zenon, <2>2
<1>2. PICK near : near = {i \in DOMAIN rgn : rgn[i] = r \/ Adjacent(r, rgn[i])}  BY Zenon
<1>3. CASE near = {}
  <2>1. CASE Len(rgn) >= MAX_LMB_REGIONS
    <3>1. a = [rgn |-> rgn, ok |-> FALSE]  BY Zenon, <1>2, <1>3, <1>a, <2>1 DEF lmb_add_region
    <3>2. a.ok = FALSE  BY ONLY Zenon, <3>1
    <3> QED BY Zenon, <3>2
  <2>2. CASE ~(Len(rgn) >= MAX_LMB_REGIONS)
    <3>1. a = [rgn |-> Insert(rgn, r), ok |-> TRUE]
      BY Zenon, <1>2, <1>3, <1>a, <2>2 DEF lmb_add_region
    <3>2. a.rgn = Insert(rgn, r)  BY ONLY Zenon, <3>1
    <3> QED BY Zenon, <3>2, InsertKeeps
  <2> QED BY Zenon, <2>1, <2>2
<1>4. CASE near # {}
  <2>1. PICK i : i = Min(near)  BY Zenon
  <2>2. near \subseteq Nat  BY ONLY <1>0, <1>2
  <2>3. i \in near  BY Zenon, <1>4, <2>1, <2>2, MinIn
  <2>4. i \in 1..Len(rgn) /\ (rgn[i] = r \/ Adjacent(r, rgn[i]))  BY Zenon, <1>0, <1>2, <2>3
  <2>5. rgn[i] # r
    <3>1. ~Overlaps(r, rgn[i])  BY Zenon, <2>4 DEF Apart
    <3> QED BY Zenon, <1>1, <3>1 DEF Overlaps
  <2>6. PICK s : s = rgn[i]  BY Zenon
  <2>7. /\ s \in Region /\ s.base \in Nat /\ s.size \in Nat /\ s.size > 0
        /\ End(s) = s.base + s.size /\ End(s) \in Nat /\ s.base < End(s) /\ End(s) < Word
    BY Zenon, <2>4, <2>6, SortedIs
  <2>8. s.base = End(r) \/ r.base = End(s)  BY Zenon, <2>4, <2>5, <2>6 DEF Adjacent
  <2>9. PICK b, n : b = (IF s.base = End(r) THEN r.base ELSE s.base) /\ n = s.size + r.size
    BY Zenon
  <2>10. b \in Nat /\ n \in Nat /\ n > 0 /\ n < Word /\ b + n < Word
    <3>1. Word \in Nat  BY Zenon, LmbAssumption
    <3>2. CASE s.base = End(r)
      <4>1. b = r.base  BY Zenon, <2>9, <3>2
      <4> QED BY ONLY <1>1, <2>7, <2>9, <3>1, <3>2, <4>1
    <3>3. CASE s.base # End(r)
      <4>1. b = s.base /\ r.base = End(s)  BY Zenon, <2>8, <2>9, <3>3
      <4> QED BY ONLY <1>1, <2>7, <2>9, <3>1, <4>1
    <3> QED BY Zenon, <3>2, <3>3
  <2>11. PICK m : m = Block(b, n)  BY Zenon
  <2>12. m \in Region /\ m.base = b /\ End(m) = b + n  BY ZenonT(30), <2>10, <2>11, BlockIs
  <2>13. PICK t : t = [rgn EXCEPT ![i] = m]  BY Zenon
  <2>14. a.rgn = lmb_coalesce_regions(t, i)
    <3>0. Plus(s.size, r.size) = n
      <4>1. s.size + r.size < Word  BY Zenon, <2>9, <2>10
      <4> QED BY Zenon, <1>1, <2>7, <2>9, <4>1, SmallSum
    <3>1. [rgn EXCEPT ![i] = Block(IF @.base = End(r) THEN r.base ELSE @.base,
                                   Plus(@.size, r.size))] = t
      BY Zenon, <2>6, <2>9, <2>11, <2>13, <3>0
    <3>2. a = [rgn |-> lmb_coalesce_regions(t, i), ok |-> TRUE]
      BY Zenon, <1>2, <1>4, <1>a, <2>1, <2>5, <3>1 DEF lmb_add_region
    <3> QED BY ONLY Zenon, <3>2
  <2>15. ASSUME NEW j \in 1..Len(rgn), j < i PROVE End(rgn[j]) <= m.base
    <3>1. End(rgn[j]) <= s.base  BY Zenon, <2>4, <2>6, <2>15 DEF Sorted
    <3>2. ~Overlaps(r, rgn[j])  BY Zenon DEF Apart
    <3>3. rgn[j].base \in Nat /\ End(rgn[j]) \in Nat /\ rgn[j].base < End(rgn[j])
      BY Zenon, SortedIs
    <3>4. CASE s.base = End(r)
      <4>1. r.base \in Nat /\ End(r) \in Nat /\ End(rgn[j]) <= End(r)
        BY Zenon, <1>1, <3>1, <3>4
      <4>2. End(rgn[j]) <= r.base  BY ONLY <3>2, <3>3, <4>1 DEF Overlaps
      <4> QED BY Zenon, <2>9, <2>12, <3>4, <4>2
    <3>5. CASE s.base # End(r)  BY Zenon, <2>9, <2>12, <3>1, <3>5
    <3> QED BY Zenon, <3>4, <3>5
  <2>16. ASSUME NEW j \in 1..Len(rgn), i < j PROVE End(m) <= rgn[j].base
    <3>1. End(s) <= rgn[j].base  BY Zenon, <2>4, <2>6, <2>16 DEF Sorted
    <3>2. ~Overlaps(r, rgn[j])  BY Zenon DEF Apart
    <3>3. rgn[j].base \in Nat /\ End(rgn[j]) \in Nat /\ rgn[j].base < End(rgn[j])
      BY Zenon, SortedIs
    <3>4. CASE s.base = End(r)
      <4>1. b = r.base  BY Zenon, <2>9, <3>4
      <4>2. End(m) = End(s)
        <5>1. /\ End(m) = r.base + (s.size + r.size) /\ End(s) = s.base + s.size
              /\ s.base = r.base + r.size
              /\ r.base \in Nat /\ r.size \in Nat /\ s.size \in Nat
          BY Zenon, <1>1, <2>7, <2>9, <2>12, <3>4, <4>1
        <5> QED BY ONLY <5>1
      <4> QED BY Zenon, <3>1, <4>2
    <3>5. CASE s.base # End(r)
      <4>1. b = s.base /\ r.base = End(s)  BY Zenon, <2>8, <2>9, <3>5
      <4>2. End(m) = End(r)
        <5>1. /\ End(m) = s.base + (s.size + r.size) /\ End(r) = r.base + r.size
              /\ r.base = s.base + s.size
              /\ s.base \in Nat /\ r.size \in Nat /\ s.size \in Nat
          BY Zenon, <1>1, <2>7, <2>9, <2>12, <4>1
        <5> QED BY ONLY <5>1
      <4>3. r.base \in Nat /\ End(r) \in Nat /\ r.base <= rgn[j].base
        BY Zenon, <1>1, <3>1, <4>1
      <4>4. End(r) <= rgn[j].base  BY ONLY <3>2, <3>3, <4>3 DEF Overlaps
      <4> QED BY Zenon, <4>2, <4>4
    <3> QED BY Zenon, <3>4, <3>5
  <2>17. /\ Sorted(t) /\ Len(t) = Len(rgn)
         /\ \A j \in 1..Len(rgn) : t[j] = IF j = i THEN m ELSE rgn[j]
         /\ \A x \in Int : Covers(t, x) <=>
              In(x, m) \/ \E j \in 1..Len(rgn) : j # i /\ In(x, rgn[j])
    <3>1. i \in 1..Len(rgn) /\ m \in Region  BY Zenon, <2>4, <2>12
    <3>2. Replaced(rgn, i, m, t)  BY Zenon, <2>13, <2>15, <2>16, <3>1, ReplaceKeeps
    <3> QED BY Zenon, <3>2 DEF Replaced
  <2>18. ASSUME NEW x \in Int PROVE In(x, m) <=> In(x, r) \/ In(x, s)
    BY ONLY <1>1, <2>7, <2>8, <2>9, <2>12, x \in Int DEF In
  <2>19. ASSUME NEW x \in Int PROVE Covers(t, x) <=> Covers(rgn, x) \/ In(x, r)
    BY Zenon, <2>4, <2>6, <2>17, <2>18 DEF Covers
  <2>20. Sorted(a.rgn) /\ \A x \in Int : Covers(a.rgn, x) <=> Covers(t, x)
    <3>1. i \in 1..Len(t)  BY Zenon, <2>4, <2>17
    <3>2. Sorted(t)  BY Zenon, <2>17
    <3> QED BY ONLY ZenonT(30), <2>14, <3>1, <3>2, CoalesceKeeps
  <2> QED BY Zenon, <2>19, <2>20
<1> QED BY Zenon, <1>3, <1>4

\* No byte is in two regions.
LEMMA OneRegion ==
  ASSUME NEW rgn, Sorted(rgn), NEW i \in 1..Len(rgn), NEW j \in 1..Len(rgn), i # j,
         NEW x \in Int, In(x, rgn[i])
  PROVE  ~In(x, rgn[j])
<1>1. /\ rgn[i].base \in Nat /\ End(rgn[i]) \in Nat /\ rgn[i].base < End(rgn[i])
      /\ rgn[j].base \in Nat /\ End(rgn[j]) \in Nat /\ rgn[j].base < End(rgn[j])
  BY Zenon, SortedIs
<1>2. i < j \/ j < i  BY ONLY i \in 1..Len(rgn), j \in 1..Len(rgn), i # j
<1>3. End(rgn[i]) <= rgn[j].base \/ End(rgn[j]) <= rgn[i].base  BY Zenon, <1>2 DEF Sorted
<1> QED BY ONLY <1>1, <1>3, x \in Int, In(x, rgn[i]) DEF In

\* A region may become smaller.
LEMMA ShrinkKeeps ==
  ASSUME NEW rgn, Sorted(rgn), NEW i \in 1..Len(rgn), NEW s \in Region,
         rgn[i].base <= s.base, End(s) <= End(rgn[i]), NEW q, q = [rgn EXCEPT ![i] = s]
  PROVE  Replaced(rgn, i, s, q)
<1>1. s.base \in Nat /\ End(s) \in Nat  BY Zenon, RegionIs
<1>2. rgn[i].base \in Nat /\ End(rgn[i]) \in Nat  BY Zenon, SortedIs
<1>3. ASSUME NEW j \in 1..Len(rgn), j < i PROVE End(rgn[j]) <= s.base
  <2>1. End(rgn[j]) <= rgn[i].base  BY Zenon, <1>3 DEF Sorted
  <2>2. End(rgn[j]) \in Nat  BY Zenon, SortedIs
  <2> QED BY ONLY <1>1, <1>2, <2>1, <2>2, rgn[i].base <= s.base
<1>4. ASSUME NEW j \in 1..Len(rgn), i < j PROVE End(s) <= rgn[j].base
  <2>1. End(rgn[i]) <= rgn[j].base  BY Zenon, <1>4 DEF Sorted
  <2>2. rgn[j].base \in Nat  BY Zenon, SortedIs
  <2> QED BY ONLY <1>1, <1>2, <2>1, <2>2, End(s) <= End(rgn[i])
<1> QED BY Zenon, <1>3, <1>4, ReplaceKeeps

\* A region may go.
LEMMA RemoveKeeps ==
  ASSUME NEW rgn, Sorted(rgn), NEW i \in 1..Len(rgn), NEW q, q = lmb_remove_region(rgn, i)
  PROVE  /\ Sorted(q)
         /\ \A x \in Int : Covers(q, x) <=> \E j \in 1..Len(rgn) : j # i /\ In(x, rgn[j])
<1>0. rgn \in Seq(Region) /\ Len(rgn) \in Nat  BY Zenon, SortedIs DEF Sorted
<1>1. /\ q \in Seq(Region) /\ Len(q) = Len(rgn) - 1
      /\ \A j \in 1..Len(q) : q[j] = IF j < i THEN rgn[j] ELSE rgn[j + 1]
  <2>1. rgn \in Seq(Region)  BY Zenon, <1>0
  <2>2. Removed(Region, rgn, i, q)  BY Zenon, <2>1, RemoveIs
  <2> QED BY Zenon, <2>2 DEF Removed
<1>2. ASSUME NEW j \in 1..Len(q)
      PROVE  /\ j \in Nat /\ j \in 1..Len(rgn) /\ j + 1 \in 1..Len(rgn)
             /\ j < i => j # i
             /\ ~(j < i) => j + 1 # i
  BY ONLY <1>0, <1>1, i \in 1..Len(rgn), j \in 1..Len(q)
<1>3. ASSUME NEW j \in 1..Len(q), NEW k \in 1..Len(q), j < k
      PROVE  End(q[j]) <= q[k].base
  <2>1. /\ j < k + 1 /\ j + 1 < k + 1
        /\ k < i => j < i
    BY ONLY <1>2, <1>3, j \in 1..Len(q), k \in 1..Len(q), i \in 1..Len(rgn)
  <2> QED BY Zenon, <1>1, <1>2, <1>3, <2>1 DEF Sorted
<1>4. Sorted(q)  BY Zenon, <1>1, <1>3 DEF Sorted
<1>5. ASSUME NEW x \in Int, Covers(q, x)
      PROVE  \E j \in 1..Len(rgn) : j # i /\ In(x, rgn[j])
  BY Zenon, <1>1, <1>2, <1>5 DEF Covers
<1>6. ASSUME NEW x \in Int, NEW j \in 1..Len(rgn), j # i, In(x, rgn[j]) PROVE Covers(q, x)
  <2>1. CASE j < i
    <3>1. j \in 1..Len(q)  BY ONLY <1>0, <1>1, <2>1, i \in 1..Len(rgn), j \in 1..Len(rgn)
    <3> QED BY Zenon, <1>1, <1>6, <2>1, <3>1 DEF Covers
  <2>2. CASE ~(j < i)
    <3>1. PICK k : k = j - 1  BY Zenon
    <3>2. k \in 1..Len(q) /\ ~(k < i) /\ k + 1 = j
      BY ONLY <1>0, <1>1, <1>6, <2>2, <3>1, i \in 1..Len(rgn), j \in 1..Len(rgn)
    <3> QED BY Zenon, <1>1, <1>6, <3>2 DEF Covers
  <2> QED BY Zenon, <2>1, <2>2
<1> QED BY Zenon, <1>4, <1>5, <1>6

\* lmb_free gives back the bytes of the region it is given, and no other.
LEMMA FreeKeeps ==
  ASSUME NEW rgn, Sorted(rgn), NEW r \in Region, NEW f, f = lmb_free(rgn, r), f.ok
  PROVE  Sorted(f.rgn) /\ \A x \in Int : Covers(f.rgn, x) <=> Covers(rgn, x) /\ ~In(x, r)
<1>0. Len(rgn) \in Nat /\ DOMAIN rgn = 1..Len(rgn)  BY Zenon, SortedIs
<1>1. /\ r.base \in Nat /\ r.size \in Nat /\ r.size > 0 /\ End(r) = r.base + r.size
      /\ End(r) \in Nat /\ r.base < End(r)
  BY Zenon, RegionIs
<1>2. PICK around :
        around = {i \in DOMAIN rgn : rgn[i].base <= r.base /\ End(r) <= End(rgn[i])}
  BY Zenon
<1>3. around # {}
  <2>1. ASSUME around = {} PROVE FALSE
    <3>1. f = [rgn |-> rgn, ok |-> FALSE]  BY Zenon, <1>2, <2>1 DEF lmb_free
    <3>2. f.ok = FALSE  BY ONLY Zenon, <3>1
    <3> QED BY Zenon, <3>2
  <2> QED BY Zenon, <2>1
<1>4. PICK i : i = Min(around)  BY Zenon
<1>5. around \subseteq Nat  BY ONLY <1>0, <1>2
<1>6. i \in around  BY Zenon, <1>3, <1>4, <1>5, MinIn
<1>7. PICK s : s = rgn[i]  BY Zenon
<1>8. i \in 1..Len(rgn) /\ s.base <= r.base /\ End(r) <= End(s)
  BY Zenon, <1>0, <1>2, <1>6, <1>7
<1>9. /\ s \in Region /\ s.base \in Nat /\ s.size \in Nat /\ s.size > 0
      /\ End(s) = s.base + s.size /\ End(s) \in Nat /\ s.base < End(s) /\ End(s) < Word
  BY Zenon, <1>7, <1>8, SortedIs
<1>10. ASSUME NEW x \in Int
       PROVE  Covers(rgn, x) /\ ~In(x, r) <=>
                \/ In(x, s) /\ ~In(x, r)
                \/ \E j \in 1..Len(rgn) : j # i /\ In(x, rgn[j])
  <2>1. In(x, r) => In(x, s)  BY ONLY <1>1, <1>8, <1>9, x \in Int DEF In
  <2>2. ASSUME NEW j \in 1..Len(rgn), j # i, In(x, rgn[j]) PROVE ~In(x, s)
    BY Zenon, <1>7, <1>8, <2>2, OneRegion
  <2> QED BY Zenon, <1>7, <1>8, <2>1, <2>2 DEF Covers
<1>11. CASE s = r
  <2>1. f = [rgn |-> lmb_remove_region(rgn, i), ok |-> TRUE]
    BY Zenon, <1>2, <1>3, <1>4, <1>7, <1>11 DEF lmb_free
  <2>2. f.rgn = lmb_remove_region(rgn, i)  BY ONLY Zenon, <2>1
  <2>3. i \in 1..Len(rgn)  BY Zenon, <1>8
  <2>4. /\ Sorted(f.rgn)
        /\ \A x \in Int : Covers(f.rgn, x) <=> \E j \in 1..Len(rgn) : j # i /\ In(x, rgn[j])
    BY Zenon, <2>2, <2>3, RemoveKeeps
  <2> QED BY Zenon, <1>10, <1>11, <2>4
<1>12. ASSUME NEW m \in Region, s.base <= m.base, End(m) <= End(s),
              f.rgn = [rgn EXCEPT ![i] = m],
              \A x \in Int : In(x, m) <=> In(x, s) /\ ~In(x, r)
       PROVE  Sorted(f.rgn) /\ \A x \in Int : Covers(f.rgn, x) <=> Covers(rgn, x) /\ ~In(x, r)
  <2>1. i \in 1..Len(rgn) /\ rgn[i].base <= m.base /\ End(m) <= End(rgn[i])
    BY Zenon, <1>7, <1>8, <1>12
  <2>2. Replaced(rgn, i, m, f.rgn)  BY Zenon, <1>12, <2>1, ShrinkKeeps
  <2>3. Sorted(f.rgn)  BY Zenon, <2>2 DEF Replaced
  <2>4. ASSUME NEW x \in Int PROVE Covers(f.rgn, x) <=> Covers(rgn, x) /\ ~In(x, r)
    <3>1. Covers(f.rgn, x) <=> In(x, m) \/ \E j \in 1..Len(rgn) : j # i /\ In(x, rgn[j])
      BY Zenon, <2>2 DEF Replaced
    <3> QED BY Zenon, <1>10, <1>12, <3>1
  <2> QED BY Zenon, <2>3, <2>4
<1>a. /\ r.base \in Nat /\ End(r) \in Nat /\ r.base < End(r)
      /\ s.base \in Nat /\ End(s) \in Nat /\ s.base <= r.base /\ End(r) <= End(s)
  BY Zenon, <1>1, <1>8, <1>9
<1>b. /\ r.base \in Nat /\ r.size \in Nat /\ End(r) = r.base + r.size
      /\ s.base \in Nat /\ s.size \in Nat /\ End(s) = s.base + s.size
      /\ s.base <= r.base /\ End(r) <= End(s) /\ End(s) < Word /\ Word \in Nat
  BY Zenon, <1>1, <1>8, <1>9, LmbAssumption
<1>c. Minus(s.size, r.size) = s.size - r.size
  <2>1. r.size \in Nat /\ s.size \in Nat /\ r.size <= s.size /\ s.size < Word  BY ONLY <1>b
  <2> QED BY Zenon, <2>1, SmallDifference
<1>13. CASE s # r /\ s.base = r.base
  <2>1. s = Block(s.base, s.size) /\ r = Block(r.base, r.size)
    BY ONLY Zenon, <1>9, r \in Region DEF Region, Block
  <2>2. s.size # r.size  BY Zenon, <1>13, <2>1
  <2>3. s.size - r.size \in Nat /\ s.size - r.size > 0 /\ End(r) + (s.size - r.size) < Word
    <3>1. s.base = r.base  BY Zenon, <1>13
    <3> QED BY ONLY <1>b, <2>2, <3>1
  <2>4. PICK m : m = Block(End(r), s.size - r.size)  BY Zenon
  <2>5. m \in Region /\ m.base = End(r) /\ End(m) = End(r) + (s.size - r.size)
    BY ZenonT(30), <1>1, <2>3, <2>4, BlockIs
  <2>a. m.base = End(r) /\ s.base = r.base  BY Zenon, <1>13, <2>5
  <2>b. End(m) = End(s)
    <3>1. End(m) = End(r) + (s.size - r.size)  BY Zenon, <2>5
    <3> QED BY ONLY <1>b, <2>a, <3>1
  <2>6. s.base <= m.base /\ End(m) <= End(s)  BY ONLY <1>a, <2>a, <2>b
  <2>7. ASSUME NEW x \in Int PROVE In(x, m) <=> In(x, s) /\ ~In(x, r)
    BY ONLY <1>a, <2>a, <2>b, x \in Int DEF In
  <2>8. f = [rgn |-> [rgn EXCEPT ![i] = m], ok |-> TRUE]
    <3>1. [rgn EXCEPT ![i] = Block(End(r), Minus(@.size, r.size))] = [rgn EXCEPT ![i] = m]
      BY Zenon, <1>7, <1>c, <2>4
    <3> QED BY Zenon, <1>2, <1>3, <1>4, <1>7, <1>13, <3>1 DEF lmb_free
  <2>9. f.rgn = [rgn EXCEPT ![i] = m]  BY ONLY Zenon, <2>8
  <2> QED BY Zenon, <1>12, <2>5, <2>6, <2>7, <2>9
<1>14. CASE s.base # r.base /\ End(s) = End(r)
  <2>1. s.size - r.size \in Nat /\ s.size - r.size > 0 /\ s.base + (s.size - r.size) < Word
    <3>1. s.base # r.base /\ End(s) = End(r)  BY Zenon, <1>14
    <3> QED BY ONLY <1>b, <3>1
  <2>2. PICK m : m = Block(s.base, s.size - r.size)  BY Zenon
  <2>3. m \in Region /\ m.base = s.base /\ End(m) = s.base + (s.size - r.size)
    BY ZenonT(30), <1>9, <2>1, <2>2, BlockIs
  <2>a. m.base = s.base /\ End(s) = End(r)  BY Zenon, <1>14, <2>3
  <2>b. End(m) = r.base
    <3>1. End(m) = s.base + (s.size - r.size)  BY Zenon, <2>3
    <3> QED BY ONLY <1>b, <2>a, <3>1
  <2>4. s.base <= m.base /\ End(m) <= End(s)  BY ONLY <1>a, <2>a, <2>b
  <2>5. ASSUME NEW x \in Int PROVE In(x, m) <=> In(x, s) /\ ~In(x, r)
    BY ONLY <1>a, <2>a, <2>b, x \in Int DEF In
  <2>6. f = [rgn |-> [rgn EXCEPT ![i] = m], ok |-> TRUE]
    <3>1. [s EXCEPT !.size = Minus(@, r.size)] = m  BY Zenon, <1>9, <1>c, <2>2, Resized
    <3>2. [rgn EXCEPT ![i].size = Minus(@, r.size)] = [rgn EXCEPT ![i] = m]
      BY Zenon, <1>7, <3>1
    <3>3. s # r  BY Zenon, <1>14
    <3> QED BY Zenon, <1>2, <1>3, <1>4, <1>7, <1>14, <3>2, <3>3 DEF lmb_free
  <2>7. f.rgn = [rgn EXCEPT ![i] = m]  BY ONLY Zenon, <2>6
  <2> QED BY Zenon, <1>12, <2>3, <2>4, <2>5, <2>7
<1>15. CASE s.base # r.base /\ End(s) # End(r)
  <2>1. /\ r.base - s.base \in Nat /\ r.base - s.base > 0
        /\ End(s) - End(r) \in Nat /\ End(s) - End(r) > 0
    <3>1. r.base \in Nat /\ s.base \in Nat /\ s.base <= r.base /\ s.base # r.base
      BY Zenon, <1>a, <1>15
    <3>2. End(r) \in Nat /\ End(s) \in Nat /\ End(r) <= End(s) /\ End(s) # End(r)
      BY Zenon, <1>a, <1>15
    <3>3. r.base - s.base \in Nat /\ r.base - s.base > 0  BY ONLY <3>1
    <3>4. End(s) - End(r) \in Nat /\ End(s) - End(r) > 0  BY ONLY <3>2
    <3> QED BY Zenon, <3>3, <3>4
  <2>a. /\ Minus(r.base, s.base) = r.base - s.base
        /\ Minus(End(s), End(r)) = End(s) - End(r)
        /\ s.base + (r.base - s.base) < Word /\ End(r) + (End(s) - End(r)) < Word
    <3>1. r.base < Word  BY ONLY <1>b
    <3>2. Minus(r.base, s.base) = r.base - s.base  BY Zenon, <1>b, <3>1, SmallDifference
    <3>3. Minus(End(s), End(r)) = End(s) - End(r)  BY Zenon, <1>a, <1>b, SmallDifference
    <3>4. s.base + (r.base - s.base) < Word  BY ONLY <1>b
    <3>5. End(r) + (End(s) - End(r)) < Word  BY ONLY <1>b
    <3> QED BY Zenon, <3>2, <3>3, <3>4, <3>5
  <2>2. PICK m, k : m = Block(s.base, r.base - s.base) /\ k = Block(End(r), End(s) - End(r))
    BY Zenon
  <2>3. m \in Region /\ m.base = s.base /\ End(m) = s.base + (r.base - s.base)
    BY ZenonT(30), <1>9, <2>1, <2>a, <2>2, BlockIs
  <2>4. k \in Region /\ k.base = End(r) /\ End(k) = End(r) + (End(s) - End(r))
    BY ZenonT(30), <1>1, <2>1, <2>a, <2>2, BlockIs
  <2>b. End(m) = r.base
    <3>1. End(m) = s.base + (r.base - s.base)  BY Zenon, <2>3
    <3> QED BY ONLY <1>a, <3>1
  <2>c. End(k) = End(s)
    <3>1. End(k) = End(r) + (End(s) - End(r))  BY Zenon, <2>4
    <3> QED BY ONLY <1>a, <3>1
  <2>d. m.base = s.base /\ k.base = End(r)  BY Zenon, <2>3, <2>4
  <2>5. PICK t : t = [rgn EXCEPT ![i] = m]  BY Zenon
  <2>6. f = lmb_add_region(t, k)
    <3>1. [s EXCEPT !.size = Minus(r.base, s.base)] = m  BY Zenon, <1>9, <2>2, <2>a, Resized
    <3>2. [rgn EXCEPT ![i].size = Minus(r.base, s.base)] = t  BY Zenon, <1>7, <2>5, <3>1
    <3>3. s # r  BY Zenon, <1>15
    <3>4. f = MakeHole(rgn, i, r)
      BY Zenon, <1>2, <1>3, <1>4, <1>7, <1>15, <3>3 DEF lmb_free
    <3> QED BY Zenon, <1>7, <2>2, <2>a, <3>2, <3>4 DEF MakeHole
  <2>7. rgn[i].base <= m.base /\ End(m) <= End(rgn[i]) /\ i \in 1..Len(rgn)
    <3>1. s.base <= m.base /\ End(m) <= End(s)  BY ONLY <1>a, <2>b, <2>d
    <3> QED BY Zenon, <1>7, <1>8, <3>1
  <2>8. Replaced(rgn, i, m, t)  BY Zenon, <2>3, <2>5, <2>7, ShrinkKeeps
  <2>9. Sorted(t) /\ Len(t) = Len(rgn)  BY Zenon, <2>8 DEF Replaced
  <2>10. ASSUME NEW x \in Int, In(x, k) PROVE In(x, s) /\ ~In(x, m) /\ ~In(x, r)
    BY ONLY <1>a, <2>b, <2>c, <2>d, <2>10, x \in Int DEF In
  <2>11. ASSUME NEW x \in Int, In(x, s), ~In(x, r) PROVE In(x, m) \/ In(x, k)
    BY ONLY <1>a, <2>b, <2>c, <2>d, <2>11, x \in Int DEF In
  <2>12. ASSUME NEW x \in Int, In(x, m) PROVE In(x, s) /\ ~In(x, r)
    BY ONLY <1>a, <2>b, <2>d, <2>12, x \in Int DEF In
  <2>13. ASSUME NEW x \in Int
         PROVE  Covers(t, x) <=> In(x, m) \/ \E j \in 1..Len(rgn) : j # i /\ In(x, rgn[j])
    BY Zenon, <2>8 DEF Replaced
  <2>14. ASSUME NEW x \in Int PROVE ~(In(x, k) /\ Covers(t, x))
    <3>1. ASSUME NEW j \in 1..Len(rgn), j # i, In(x, rgn[j]) PROVE ~In(x, s)
      BY Zenon, <1>7, <1>8, <3>1, OneRegion
    <3> QED BY Zenon, <2>10, <2>13, <3>1
  <2>15. Apart(t, k)
    <3>1. Sorted(t) /\ k \in Region  BY Zenon, <2>4, <2>9
    <3> QED BY Zenon, <2>14, <3>1, ApartBytes
  <2>16. Sorted(f.rgn) /\ \A x \in Int : Covers(f.rgn, x) <=> Covers(t, x) \/ In(x, k)
    <3>1. Sorted(t) /\ k \in Region  BY Zenon, <2>4, <2>9
    <3> QED BY Zenon, <2>6, <2>15, <3>1, AddKeeps
  <2>17. ASSUME NEW x \in Int PROVE Covers(f.rgn, x) <=> Covers(rgn, x) /\ ~In(x, r)
    BY Zenon, <1>10, <2>10, <2>11, <2>12, <2>13, <2>16
  <2> QED BY Zenon, <2>16, <2>17
<1> QED BY Zenon, <1>11, <1>13, <1>14, <1>15

-----------------------------------------------------------------------------
\* What the callers hold is what the table keeps: the table is sorted and its
\* regions are apart, every byte of a block is in one, and the blocks are apart
\* too, so that none loses a byte when another is freed.
LmbInv ==
  sound /\ ~over =>
    /\ Sorted(reserved) /\ blocks \subseteq Region
    /\ \A r \in blocks : \A x \in Int : In(x, r) => Covers(reserved, x)
    /\ \A r \in blocks, s \in blocks : \A x \in Int : In(x, r) /\ In(x, s) => r = s

\* A table of one region.
LEMMA SortedOne ==
  ASSUME NEW r \in Region, NEW rgn, rgn = <<r>>
  PROVE  /\ Sorted(rgn) /\ Len(rgn) = 1 /\ rgn[1] = r
         /\ \A x \in Int : In(x, r) => Covers(rgn, x)
<1>1. rgn \in Seq(Region)  OBVIOUS
<1>2. Len(rgn) = 1 /\ rgn[1] = r  BY Zenon
<1>3. ASSUME NEW i \in 1..Len(rgn), NEW j \in 1..Len(rgn), i < j PROVE FALSE
  BY ONLY <1>2, <1>3, i \in 1..Len(rgn), j \in 1..Len(rgn)
<1>4. Sorted(rgn)  BY Zenon, <1>1, <1>3 DEF Sorted
<1>5. 1 \in 1..Len(rgn)  BY ONLY <1>2
<1> QED BY Zenon, <1>2, <1>4, <1>5 DEF Covers

\* The block of the stack.
LEMMA StackIs == Block(Sp, MemTop - Sp) \in Region
<1>1. /\ Sp \in Nat /\ MemTop - Sp \in Nat /\ MemTop - Sp > 0 /\ Sp + (MemTop - Sp) < Word
  BY ONLY LmbAssumption
<1> QED BY Zenon, <1>1, BlockIs

\* arch_lmb_reserve has taken the stack, and nothing else is taken.
LEMMA InitLmb == LmbInit => LmbInv
<1> SUFFICES ASSUME LmbInit PROVE LmbInv  BY Zenon
<1>1. PICK r : r = Block(Sp, MemTop - Sp)  BY Zenon
<1>2. r \in Region  BY Zenon, <1>1, StackIs
<1>3. reserved = <<r>> /\ blocks = {r}  BY Zenon, <1>1 DEF LmbInit
<1>4. Sorted(reserved) /\ \A x \in Int : In(x, r) => Covers(reserved, x)
  BY Zenon, <1>2, <1>3, SortedOne
<1> QED BY Zenon, <1>2, <1>3, <1>4 DEF LmbInv

\* So it is for another bootm.
LEMMA RestartLmb == boot_start_lmb => LmbInv'
<1> SUFFICES ASSUME boot_start_lmb PROVE LmbInv'  BY Zenon
<1>1. PICK r : r = Block(Sp, MemTop - Sp)  BY Zenon
<1>2. r \in Region  BY Zenon, <1>1, StackIs
<1>3. reserved' = <<r>> /\ blocks' = {r}  BY Zenon, <1>1 DEF boot_start_lmb
<1>4. Sorted(reserved') /\ \A x \in Int : In(x, r) => Covers(reserved', x)
  BY Zenon, <1>2, <1>3, SortedOne
<1> QED BY Zenon, <1>2, <1>3, <1>4 DEF LmbInv

\* A block that overlaps no region is apart from the table.
LEMMA DisjointIs ==
  ASSUME Sorted(reserved), NEW r, Disjoint(r)
  PROVE  Apart(reserved, r)
<1>1. \A i \in 1..Len(reserved) : reserved[i] \in Range(reserved)
  BY Zenon, SortedIs DEF Range
<1> QED BY Zenon, <1>1 DEF Disjoint, Apart

\* lmb_reserve and lmb_alloc_base: what is taken was nobody's.
LEMMA TakeKeeps ==
  ASSUME LmbInv, NEW b \in Nat, NEW n \in Nat, n > 0, NEW size \in Nat, n <= size,
         Take(Block(b, n), size)
  PROVE  LmbInv'
<1> SUFFICES ASSUME sound', ~over'
             PROVE  /\ Sorted(reserved') /\ blocks' \subseteq Region
                    /\ \A s \in blocks' : \A x \in Int : In(x, s) => Covers(reserved', x)
                    /\ \A s \in blocks', t \in blocks' : \A x \in Int :
                         In(x, s) /\ In(x, t) => s = t
  BY Zenon DEF LmbInv
<1>0. PICK r : r = Block(b, n)  BY Zenon
<1>1. PICK all, a : all = Block(b, size) /\ a = lmb_add_region(reserved, all)
  BY Zenon
<1>a. r.base = b /\ all.base = b /\ all.size = size  BY Zenon, <1>0, <1>1 DEF Block
<1>2. /\ reserved' = a.rgn /\ sound' = (sound /\ a.ok /\ Disjoint(all))
      /\ over' = (over \/ all.base + all.size >= Word)
      /\ blocks' = IF a.ok THEN blocks \cup {r} ELSE blocks
  BY Zenon, <1>0, <1>1, <1>a DEF Take
<1>3. /\ sound /\ ~over /\ a.ok /\ Disjoint(all) /\ blocks' = blocks \cup {r}
      /\ ~(b + size >= Word)
  BY Zenon, <1>2, <1>a
<1>4. /\ Sorted(reserved) /\ blocks \subseteq Region
      /\ \A s \in blocks : \A x \in Int : In(x, s) => Covers(reserved, x)
      /\ \A s \in blocks, t \in blocks : \A x \in Int : In(x, s) /\ In(x, t) => s = t
  BY Zenon, <1>3 DEF LmbInv
<1>5. size > 0 /\ b + size < Word /\ b + n < Word
  <2>1. Word \in Nat  BY Zenon, LmbAssumption
  <2> QED BY ONLY <1>3, <2>1, b \in Nat, n \in Nat, n > 0, size \in Nat, n <= size
<1>6. r \in Region /\ r.base = b /\ End(r) = b + n  BY Zenon, <1>0, <1>5, BlockIs
<1>7. all \in Region /\ all.base = b /\ End(all) = b + size  BY Zenon, <1>1, <1>5, BlockIs
<1>8. ASSUME NEW x \in Int, In(x, r) PROVE In(x, all)
  BY ONLY <1>6, <1>7, <1>8, x \in Int, b \in Nat, n \in Nat, size \in Nat, n <= size DEF In
<1>9. Sorted(reserved) /\ all \in Region /\ a.ok /\ Disjoint(all)  BY Zenon, <1>3, <1>4, <1>7
<1>10. Apart(reserved, all)  BY Zenon, <1>9, DisjointIs
<1>11. \A x \in Int : ~(In(x, all) /\ Covers(reserved, x))
  BY Zenon, <1>9, <1>10, ApartBytes
<1>12. Sorted(a.rgn) /\ \A x \in Int : Covers(a.rgn, x) <=> Covers(reserved, x) \/ In(x, all)
  BY ZenonT(30), <1>1, <1>9, <1>10, AddKeeps
<1>13. Sorted(reserved') /\ blocks' \subseteq Region  BY Zenon, <1>2, <1>3, <1>4, <1>6, <1>12
<1>14. ASSUME NEW s \in blocks', NEW x \in Int, In(x, s) PROVE Covers(reserved', x)
  BY Zenon, <1>2, <1>3, <1>4, <1>8, <1>12, <1>14
<1>15. ASSUME NEW s \in blocks, NEW x \in Int PROVE ~(In(x, s) /\ In(x, r))
  BY Zenon, <1>4, <1>8, <1>11
<1>16. ASSUME NEW s \in blocks', NEW t \in blocks', NEW x \in Int, In(x, s), In(x, t)
       PROVE  s = t
  BY Zenon, <1>3, <1>4, <1>15, <1>16
<1> QED BY Zenon, <1>13, <1>14, <1>16

\* image_setup_libfdt: no other block loses a byte.
LEMMA FreeReserveKeeps ==
  ASSUME LmbInv, lmb_free_reserve
  PROVE  LmbInv'
<1> SUFFICES ASSUME sound', ~over'
             PROVE  /\ Sorted(reserved') /\ blocks' \subseteq Region
                    /\ \A s \in blocks' : \A x \in Int : In(x, s) => Covers(reserved', x)
                    /\ \A s \in blocks', t \in blocks' : \A x \in Int :
                         In(x, s) /\ In(x, t) => s = t
  BY Zenon DEF LmbInv
<1>1. PICK r \in blocks : \E n \in 1..r.size :
        LET freed == lmb_free(reserved, r)
            again == lmb_add_region(freed.rgn, Block(r.base, n))
        IN /\ reserved' = again.rgn /\ blocks' = (blocks \ {r}) \cup {Block(r.base, n)}
           /\ sound' = (sound /\ freed.ok /\ again.ok) /\ UNCHANGED over
  BY Zenon DEF lmb_free_reserve
<1>2. PICK n \in 1..r.size :
        LET freed == lmb_free(reserved, r)
            again == lmb_add_region(freed.rgn, Block(r.base, n))
        IN /\ reserved' = again.rgn /\ blocks' = (blocks \ {r}) \cup {Block(r.base, n)}
           /\ sound' = (sound /\ freed.ok /\ again.ok) /\ UNCHANGED over
  BY Zenon, <1>1
<1>3. PICK f : f = lmb_free(reserved, r)  BY Zenon
<1>4. PICK k : k = Block(r.base, n)  BY Zenon
<1>5. PICK a : a = lmb_add_region(f.rgn, k)  BY Zenon
<1>6. /\ reserved' = a.rgn /\ blocks' = (blocks \ {r}) \cup {k}
      /\ sound' = (sound /\ f.ok /\ a.ok) /\ over' = over
  BY Zenon, <1>2, <1>3, <1>4, <1>5
<1>7. sound /\ ~over /\ f.ok /\ a.ok  BY Zenon, <1>6
<1>8. /\ Sorted(reserved) /\ blocks \subseteq Region
      /\ \A s \in blocks : \A x \in Int : In(x, s) => Covers(reserved, x)
      /\ \A s \in blocks, t \in blocks : \A x \in Int : In(x, s) /\ In(x, t) => s = t
  BY Zenon, <1>7 DEF LmbInv
<1>9. r \in Region /\ Sorted(reserved)  BY Zenon, <1>8
<1>10. /\ r.base \in Nat /\ r.size \in Nat /\ End(r) = r.base + r.size
       /\ End(r) < Word /\ Word \in Nat
  BY Zenon, <1>9, RegionIs, LmbAssumption
<1>11. n \in Nat /\ n > 0 /\ n <= r.size /\ r.base + n < Word  BY ONLY <1>10, n \in 1..r.size
<1>12. k \in Region /\ k.base = r.base /\ End(k) = r.base + n
  BY Zenon, <1>4, <1>10, <1>11, BlockIs
<1>13. ASSUME NEW x \in Int, In(x, k) PROVE In(x, r)
  BY ONLY <1>10, <1>11, <1>12, <1>13, x \in Int DEF In
<1>14. Sorted(f.rgn) /\ \A x \in Int : Covers(f.rgn, x) <=> Covers(reserved, x) /\ ~In(x, r)
  BY Zenon, <1>3, <1>7, <1>9, FreeKeeps
<1>15. Sorted(f.rgn) /\ k \in Region  BY Zenon, <1>12, <1>14
<1>16. \A x \in Int : ~(In(x, k) /\ Covers(f.rgn, x))  BY Zenon, <1>13, <1>14
<1>17. Apart(f.rgn, k)  BY Zenon, <1>15, <1>16, ApartBytes
<1>18. Sorted(a.rgn) /\ \A x \in Int : Covers(a.rgn, x) <=> Covers(f.rgn, x) \/ In(x, k)
  BY Zenon, <1>5, <1>7, <1>15, <1>17, AddKeeps
<1>19. Sorted(reserved') /\ blocks' \subseteq Region  BY Zenon, <1>6, <1>8, <1>12, <1>18
<1>20. ASSUME NEW s \in blocks', NEW x \in Int, In(x, s) PROVE Covers(reserved', x)
  <2>1. CASE s = k  BY Zenon, <1>6, <1>18, <1>20, <2>1
  <2>2. CASE s \in blocks /\ s # r
    <3>1. Covers(reserved, x) /\ ~In(x, r)  BY Zenon, <1>8, <1>20, <2>2
    <3> QED BY Zenon, <1>6, <1>14, <1>18, <3>1
  <2> QED BY Zenon, <1>6, <2>1, <2>2
<1>21. ASSUME NEW s \in blocks', NEW t \in blocks', NEW x \in Int, In(x, s), In(x, t)
       PROVE  s = t
  BY Zenon, <1>6, <1>8, <1>13, <1>21
<1> QED BY Zenon, <1>19, <1>20, <1>21

\* Masking takes away no more than the mask.
LEMMA RoundedDown ==
  ASSUME NEW a \in Nat, NEW align \in Nat \ {0}
  PROVE  lmb_align_down(a, align) \in Nat /\ a - (align - 1) <= lmb_align_down(a, align)
<1>1. PICK low : low = (IF align % 2 = 0 THEN 1 ELSE 2)  BY Zenon
<1>2. PICK m : m = (align - 1) \div low + 1  BY Zenon
<1>3. PICK q : q = a \div low  BY Zenon
<1>4. PICK k : k = q % m  BY Zenon
<1>5. lmb_align_down(a, align) = a - low * k
  BY Zenon, <1>1, <1>2, <1>3, <1>4 DEF lmb_align_down
<1>6. q \in Nat /\ low * q <= a /\ m \in Nat \ {0} /\ low * (m - 1) <= align - 1
  <2>1. CASE low = 1  BY ONLY <1>2, <1>3, <2>1, a \in Nat, align \in Nat \ {0}
  <2>2. CASE low = 2  BY ONLY <1>2, <1>3, <2>2, a \in Nat, align \in Nat \ {0}
  <2> QED BY Zenon, <1>1, <2>1, <2>2
<1>7. k \in 0..(m - 1)  BY ONLY <1>4, <1>6
<1>8. k <= q
  <2>1. CASE q < m  BY ONLY <1>4, <1>6, <2>1
  <2>2. CASE ~(q < m)  BY ONLY <1>6, <1>7, <2>2
  <2> QED BY Zenon, <2>1, <2>2
<1>9. low * k \in Nat /\ low * k <= a /\ low * k <= align - 1
  <2>1. CASE low = 1  BY ONLY <1>6, <1>7, <1>8, <2>1, a \in Nat, align \in Nat \ {0}
  <2>2. CASE low = 2  BY ONLY <1>6, <1>7, <1>8, <2>2, a \in Nat, align \in Nat \ {0}
  <2> QED BY Zenon, <1>1, <2>1, <2>2
<1>10. PICK t : t = low * k  BY Zenon
<1> QED BY ONLY <1>5, <1>9, <1>10, a \in Nat, align \in Nat \ {0}

\* Rounding up takes no byte away.
LEMMA RoundedUp ==
  ASSUME NEW n \in Nat \ {0}, NEW align \in Nat \ {0}, n + (align - 1) < Word
  PROVE  lmb_align_up(n, align) \in Nat /\ n <= lmb_align_up(n, align)
<1>1. align - 1 \in Nat /\ n \in Nat /\ n + (align - 1) \in Nat
  BY ONLY n \in Nat \ {0}, align \in Nat \ {0}
<1>2. PICK a : a = n + (align - 1)  BY Zenon
<1>3. Plus(n, align - 1) = a  BY Zenon, <1>1, <1>2, SmallSum
<1>4. lmb_align_up(n, align) = lmb_align_down(a, align)  BY Zenon, <1>3 DEF lmb_align_up
<1>5. PICK d : d = lmb_align_down(a, align)  BY Zenon
<1>6. d \in Nat /\ a - (align - 1) <= d  BY Zenon, <1>1, <1>2, <1>5, RoundedDown
<1>7. n <= d  BY ONLY <1>2, <1>6, n \in Nat \ {0}, align \in Nat \ {0}
<1> QED BY Zenon, <1>4, <1>5, <1>6, <1>7

\* Every call keeps the invariant.
LEMMA StepLmb == LmbInv /\ [LmbNext]_lmbVars => LmbInv'
<1> SUFFICES ASSUME LmbInv, [LmbNext]_lmbVars PROVE LmbInv'  BY Zenon
<1>1. CASE lmb_reserve
  <2>1. PICK b \in MemBase..(MemTop - 1), n \in BlockSizes : Take(Block(b, n), n)
    BY Zenon, <1>1 DEF lmb_reserve
  <2>2. b \in Nat /\ n \in Nat /\ n > 0 /\ n <= n
    BY ONLY LmbAssumption, b \in MemBase..(MemTop - 1), n \in BlockSizes
  <2> QED BY Zenon, <2>1, <2>2, TakeKeeps
<1>2. CASE lmb_alloc_base
  <2>1. PICK n \in BlockSizes, align \in Aligns, limit \in Limits :
          \E b \in {Place(reserved, n, align, limit)} \cap 1..(Word - 1) :
            Take(Block(b, n), lmb_align_up(n, align))
    BY Zenon, <1>2 DEF lmb_alloc_base
  <2>2. PICK b \in 1..(Word - 1) :
          b = Place(reserved, n, align, limit) /\ Take(Block(b, n), lmb_align_up(n, align))
    BY Zenon, <2>1
  <2>3. b \in Nat /\ n \in Nat \ {0} /\ n \in Nat /\ n > 0 /\ align \in Nat \ {0}
    BY ONLY LmbAssumption, b \in 1..(Word - 1), n \in BlockSizes, align \in Aligns
  <2>4. n <= MemTop - MemBase
    <3>1. ASSUME MemTop - MemBase < n PROVE FALSE
      <4>1. b = 0  BY Zenon, <2>2, <3>1 DEF Place
      <4> QED BY ONLY <4>1, b \in 1..(Word - 1)
    <3>2. MemTop - MemBase \in Int  BY ONLY LmbAssumption
    <3> QED BY ONLY <2>3, <3>1, <3>2
  <2>5. n + (align - 1) < Word
    <3>1. MemTop + align <= Word /\ Word \in Nat /\ MemTop \in Nat /\ MemBase \in Nat
      BY Zenon, LmbAssumption
    <3> QED BY ONLY <2>3, <2>4, <3>1
  <2>6. lmb_align_up(n, align) \in Nat /\ n <= lmb_align_up(n, align)
    BY Zenon, <2>3, <2>5, RoundedUp
  <2> QED BY Zenon, <2>2, <2>3, <2>6, TakeKeeps
<1>3. CASE lmb_free_reserve  BY Zenon, <1>3, FreeReserveKeeps
<1>4. CASE boot_start_lmb  BY Zenon, <1>4, RestartLmb
<1>5. CASE UNCHANGED lmbVars
  BY Zenon, <1>5 DEF LmbInv, lmbVars
<1> QED BY Zenon, <1>1, <1>2, <1>3, <1>4, <1>5 DEF LmbNext

\* The byte view of the invariant is that of Kept.
LEMMA LmbInvKept == LmbInv => Kept
<1> SUFFICES ASSUME LmbInv, sound, ~over, NEW r \in blocks, NEW x \in Bytes(r)
             PROVE  x \in UNION {Bytes(s) : s \in Range(reserved)}
  BY Zenon DEF Kept
<1>1. r \in Region /\ Sorted(reserved)  BY Zenon DEF LmbInv
<1>2. r.base \in Nat /\ End(r) \in Nat  BY Zenon, <1>1, RegionIs
<1>3. x \in Int /\ In(x, r)  BY ONLY <1>2, x \in Bytes(r) DEF Bytes, In
<1>4. Covers(reserved, x)  BY Zenon, <1>3 DEF LmbInv
<1>5. PICK i \in 1..Len(reserved) : In(x, reserved[i])  BY Zenon, <1>4 DEF Covers
<1>6. reserved[i].base \in Nat /\ End(reserved[i]) \in Nat /\ DOMAIN reserved = 1..Len(reserved)
  BY Zenon, <1>1, SortedIs
<1>7. x \in Bytes(reserved[i])  BY ONLY <1>3, <1>5, <1>6 DEF Bytes, In
<1>8. reserved[i] \in Range(reserved)  BY Zenon, <1>6 DEF Range
<1> QED BY Zenon, <1>7, <1>8

\* The memory that callers of lmb_reserve and lmb_alloc_base hold stays in the
\* table of reserved regions, whatever regions are merged, split and freed, for
\* memory of any size and a table of any length.
THEOREM KeptHolds == LmbSpec => []Kept
<1>1. LmbSpec => []LmbInv  BY InitLmb, StepLmb, PTL DEF LmbSpec
<1> QED BY <1>1, LmbInvKept, PTL
=============================================================================
