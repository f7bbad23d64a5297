---------------------------- MODULE OrdersProof -----------------------------
(***************************************************************************)
(* What the loops of Orders make of a sequence, for sequences of any       *)
(* length.  An induction over a sequence is an argument about the least    *)
(* place at which the claim fails (LeastNumber, which the proofs about     *)
(* other components use as well).                                          *)
(***************************************************************************)
EXTENDS Orders, SequenceTheorems, FiniteSetTheorems, NaturalsInduction, WellFoundedInduction, TLAPS

\* A set of naturals that is not empty has a least element.
LEMMA LeastNumber ==
    ASSUME NEW T \in SUBSET Nat, T # {}
    PROVE  \E x \in T : \A y \in T : x <= y
<1>1. IsWellFoundedOn(OpToRel(<, Nat), Nat)
  BY NatLessThanWellFounded, Zenon
<1>2. PICK x \in T : \A y \in T : ~(<<y, x>> \in OpToRel(<, Nat))
  BY <1>1, WFMin, Zenon
<1>3. \A y \in T : ~(y < x)
  BY <1>2, Zenon DEF OpToRel
<1>4. QED
  BY <1>3

-----------------------------------------------------------------------------
(***************************************************************************)
(* Filter.  pos gives the places in s of what was kept.                    *)
(***************************************************************************)

\* r is what keep leaves of the first n elements of s.
Picked(r, pos, s, n, keep) ==
    /\ pos \in [1..Len(r) -> 1..n]
    /\ \A i, j \in 1..Len(r) : i < j => pos[i] < pos[j]
    /\ \A i \in 1..Len(r) : r[i] = s[pos[i]] /\ s[pos[i]] \in keep
    /\ \A j \in 1..n : s[j] \in keep => \E i \in 1..Len(r) : pos[i] = j

\* The function Filter is defined by, on the first n places.
FilterStep(F, s, keep, i) ==
    IF i = 0 THEN << >> ELSE IF s[i] \in keep THEN Append(F[i - 1], s[i]) ELSE F[i - 1]
Filtering(F, s, keep, n) == F = [i \in 0..n |-> FilterStep(F, s, keep, i)]

\* There is such a function.
LEMMA FilteringExists ==
    ASSUME NEW s, NEW keep
    PROVE  \A n \in Nat : \E F : Filtering(F, s, keep, n)
<1> DEFINE Bad == {n \in Nat : ~\E F : Filtering(F, s, keep, n)}
<1>1. SUFFICES ASSUME Bad # {} PROVE FALSE
  OBVIOUS
<1>2. Bad \in SUBSET Nat
  OBVIOUS
<1>3. PICK m \in Bad : \A y \in Bad : m <= y
  BY <1>1, <1>2, LeastNumber
<1>4. m \in Nat /\ ~\E F : Filtering(F, s, keep, m)
  OBVIOUS
<1>5. PICK F : m # 0 => Filtering(F, s, keep, m - 1)
  <2>1. CASE m = 0
    BY <2>1
  <2>2. CASE m # 0
    <3>1. m - 1 \in Nat /\ ~(m <= m - 1)
      BY <1>4, <2>2
    <3>2. m - 1 \notin Bad
      BY <1>3, <3>1
    <3>3. QED
      BY <3>1, <3>2
  <2>3. QED
    BY <2>1, <2>2
<1> HIDE DEF Bad
<1> DEFINE G == [i \in 0..m |-> FilterStep(F, s, keep, i)]
<1>6. \A i \in 0..(m - 1) : G[i] = F[i]
  <2>1. SUFFICES ASSUME NEW i \in 0..(m - 1) PROVE FilterStep(F, s, keep, i) = F[i] /\ i \in 0..m
    OBVIOUS
  <2>2. m # 0 /\ i \in 0..m
    BY <1>4
  <2>3. QED
    BY <1>5, <2>2 DEF Filtering
<1>7. \A i \in 0..m : FilterStep(G, s, keep, i) = FilterStep(F, s, keep, i)
  <2>1. SUFFICES ASSUME NEW i \in 0..m PROVE FilterStep(G, s, keep, i) = FilterStep(F, s, keep, i)
    OBVIOUS
  <2>2. i # 0 => i - 1 \in 0..(m - 1)
    BY <1>4
  <2>3. i # 0 => G[i - 1] = F[i - 1]
    BY <1>6, <2>2
  <2> HIDE DEF G
  <2>4. QED
    BY <2>3 DEF FilterStep
<1>8. Filtering(G, s, keep, m)
  BY <1>7 DEF Filtering
<1>9. QED
  BY <1>4, <1>8

\* And it picks what it should.
LEMMA FilteringPicks ==
    ASSUME NEW T, NEW s \in Seq(T), NEW keep, NEW F, Filtering(F, s, keep, Len(s))
    PROVE  \A n \in 0..Len(s) : F[n] \in Seq(T) /\ \E pos : Picked(F[n], pos, s, n, keep)
<1> DEFINE Bad == {n \in Nat : n <= Len(s) /\ ~(F[n] \in Seq(T) /\ \E pos : Picked(F[n], pos, s, n, keep))}
<1>1. SUFFICES ASSUME Bad # {} PROVE FALSE
  OBVIOUS
<1>2. Bad \in SUBSET Nat
  OBVIOUS
<1>3. PICK m \in Bad : \A y \in Bad : m <= y
  BY <1>1, <1>2, LeastNumber
<1>4. m \in 0..Len(s) /\ ~(F[m] \in Seq(T) /\ \E pos : Picked(F[m], pos, s, m, keep))
  OBVIOUS
<1>5. F[m] = FilterStep(F, s, keep, m)
  BY <1>4 DEF Filtering
<1>6. m # 0
  <2>1. SUFFICES ASSUME m = 0 PROVE F[m] \in Seq(T) /\ Picked(F[m], << >>, s, m, keep)
    BY <1>4
  <2>2. F[m] = << >>
    BY <1>5, <2>1 DEF FilterStep
  <2>3. QED
    BY <2>1, <2>2 DEF Picked
<1>7. F[m - 1] \in Seq(T) /\ \E pos : Picked(F[m - 1], pos, s, m - 1, keep)
  <2>1. m - 1 \in Nat /\ m - 1 <= Len(s) /\ ~(m <= m - 1)
    BY <1>4, <1>6
  <2>2. m - 1 \notin Bad
    BY <1>3, <2>1
  <2>3. QED
    BY <2>1, <2>2
<1> HIDE DEF Bad
<1>8. PICK r \in Seq(T) : r = F[m - 1]
  BY <1>7
<1>9. PICK pos : Picked(r, pos, s, m - 1, keep)
  BY <1>7, <1>8
<1>10. m \in 1..Len(s) /\ s[m] \in T /\ Len(r) \in Nat
  BY <1>4, <1>6
<1>11. CASE s[m] \notin keep
  <2>1. F[m] = r
    BY <1>5, <1>6, <1>8, <1>11 DEF FilterStep
  <2>2. Picked(r, pos, s, m, keep)
    BY <1>9, <1>10, <1>11 DEF Picked
  <2>3. QED
    BY <1>4, <2>1, <2>2
<1>12. CASE s[m] \in keep
  <2> DEFINE q  == Append(r, s[m])
             at == [i \in 1..(Len(r) + 1) |-> IF i = Len(r) + 1 THEN m ELSE pos[i]]
  <2>1. F[m] = q
    BY <1>5, <1>6, <1>8, <1>12 DEF FilterStep
  <2>2. q \in Seq(T) /\ Len(q) = Len(r) + 1 /\ q[Len(r) + 1] = s[m] /\ \A i \in 1..Len(r) : q[i] = r[i]
    BY <1>10
  <2>3. at[Len(r) + 1] = m /\ \A i \in 1..Len(r) : at[i] = pos[i]
    BY <1>10
  <2>4. at \in [1..Len(q) -> 1..m]
    BY <1>9, <1>10, <2>2 DEF Picked
  <2> HIDE DEF q, at
  <2>5. \A i, j \in 1..Len(q) : i < j => at[i] < at[j]
    <3>1. SUFFICES ASSUME NEW i \in 1..Len(q), NEW j \in 1..Len(q), i < j PROVE at[i] < at[j]
      OBVIOUS
    <3>2. i \in 1..Len(r) /\ pos[i] \in 1..(m - 1) /\ at[i] = pos[i]
      <4>1. i \in 1..Len(r)
        BY <1>10, <2>2, <3>1
      <4>2. pos \in [1..Len(r) -> 1..(m - 1)]
        BY <1>9 DEF Picked
      <4>3. QED
        BY <2>3, <4>1, <4>2
    <3>3. CASE j = Len(r) + 1
      BY <1>10, <2>3, <3>2, <3>3
    <3>4. CASE j # Len(r) + 1
      <4>1. j \in 1..Len(r) /\ at[j] = pos[j]
        BY <1>10, <2>2, <2>3, <3>4
      <4>2. QED
        BY <1>9, <3>1, <3>2, <4>1 DEF Picked
    <3>5. QED
      BY <3>3, <3>4
  <2>6. \A i \in 1..Len(q) : q[i] = s[at[i]] /\ s[at[i]] \in keep
    BY <1>9, <1>10, <1>12, <2>2, <2>3 DEF Picked
  <2>7. \A j \in 1..m : s[j] \in keep => \E i \in 1..Len(q) : at[i] = j
    <3>1. SUFFICES ASSUME NEW j \in 1..m, s[j] \in keep PROVE \E i \in 1..Len(q) : at[i] = j
      OBVIOUS
    <3>2. CASE j = m
      BY <1>10, <2>2, <2>3, <3>2
    <3>3. CASE j # m
      <4>1. j \in 1..(m - 1)
        BY <1>10, <3>3
      <4>2. PICK i \in 1..Len(r) : pos[i] = j
        BY <1>9, <3>1, <4>1 DEF Picked
      <4>3. QED
        BY <1>10, <2>2, <2>3, <4>2
    <3>4. QED
      BY <3>2, <3>3
  <2>8. Picked(q, at, s, m, keep)
    BY <2>4, <2>5, <2>6, <2>7 DEF Picked
  <2>9. QED
    BY <1>4, <2>1, <2>2, <2>8
<1>13. QED
  BY <1>11, <1>12

\* What Filter leaves of a sequence.
LEMMA FilterPicks ==
    ASSUME NEW T, NEW s \in Seq(T), NEW keep
    PROVE  Filter(s, keep) \in Seq(T) /\ \E pos : Picked(Filter(s, keep), pos, s, Len(s), keep)
<1>1. Filter(s, keep) = (CHOOSE F : Filtering(F, s, keep, Len(s)))[Len(s)]
  BY Zenon DEF Filter, Filtering, FilterStep
<1>2. Len(s) \in Nat /\ Len(s) \in 0..Len(s)
  OBVIOUS
<1>3. PICK F : F = (CHOOSE G : Filtering(G, s, keep, Len(s))) /\ Filtering(F, s, keep, Len(s))
  BY <1>2, FilteringExists, Zenon
<1>4. QED
  BY <1>1, <1>2, <1>3, FilteringPicks

\* The places of a sequence.
LEMMA Places ==
    ASSUME NEW T, NEW s \in Seq(T)
    PROVE  Len(s) \in Nat /\ DOMAIN s = 1..Len(s) /\ \A i \in 1..Len(s) : s[i] \in T
OBVIOUS

\* A sequence and one more element.
LEMMA AppendPlaces ==
    ASSUME NEW T, NEW s \in Seq(T), NEW x \in T
    PROVE  /\ Append(s, x) \in Seq(T) /\ DOMAIN Append(s, x) = 1..(Len(s) + 1)
           /\ Len(Append(s, x)) = Len(s) + 1
           /\ Append(s, x)[Len(s) + 1] = x /\ \A i \in 1..Len(s) : Append(s, x)[i] = s[i]
OBVIOUS

\* A sequence without its first k elements.
LEMMA TailPlaces ==
    ASSUME NEW T, NEW s \in Seq(T), NEW k \in 0..Len(s)
    PROVE  /\ SubSeq(s, k + 1, Len(s)) \in Seq(T)
           /\ Len(SubSeq(s, k + 1, Len(s))) = Len(s) - k
           /\ \A i \in 1..(Len(s) - k) : SubSeq(s, k + 1, Len(s))[i] = s[k + i]
<1>1. Len(s) \in Nat /\ k + 1 \in Int /\ \A i \in (k + 1)..Len(s) : s[i] \in T
  OBVIOUS
<1>2. /\ SubSeq(s, k + 1, Len(s)) \in Seq(T)
      /\ Len(SubSeq(s, k + 1, Len(s))) = IF k + 1 <= Len(s) THEN Len(s) - (k + 1) + 1 ELSE 0
      /\ \A i \in 1..(Len(s) - (k + 1) + 1) : SubSeq(s, k + 1, Len(s))[i] = s[k + 1 + i - 1]
  BY <1>1, SubSeqProperties
<1>3. Len(s) - (k + 1) + 1 = Len(s) - k /\ \A i \in 1..(Len(s) - k) : k + 1 + i - 1 = k + i
  BY <1>1
<1>4. \A n : n = (IF k + 1 <= Len(s) THEN Len(s) - (k + 1) + 1 ELSE 0) => n = Len(s) - k
  BY <1>1
<1>5. Len(SubSeq(s, k + 1, Len(s))) = Len(s) - k
  BY <1>2, <1>4
<1>6. \A i \in 1..(Len(s) - k) : SubSeq(s, k + 1, Len(s))[i] = s[k + i]
  BY <1>2, <1>3, Zenon
<1>7. QED
  BY <1>2, <1>5, <1>6, Zenon

\* The first k elements of a sequence.
LEMMA FrontPlaces ==
    ASSUME NEW T, NEW s \in Seq(T), NEW k \in 0..Len(s)
    PROVE  /\ SubSeq(s, 1, k) \in Seq(T) /\ Len(SubSeq(s, 1, k)) = k
           /\ \A i \in 1..k : SubSeq(s, 1, k)[i] = s[i]
OBVIOUS

-----------------------------------------------------------------------------
(***************************************************************************)
(* The sequences that name every key of a map once.                        *)
(***************************************************************************)

\* ord lists the keys in ids, each once.
Listing(T, ord, ids) ==
    /\ ord \in Seq(T)
    /\ Members(ord) = ids
    /\ \A i, j \in DOMAIN ord : ord[i] = ord[j] => i = j

\* Filter leaves a list of the keys that stay.
LEMMA FilterListing ==
    ASSUME NEW T, NEW ord, NEW ids, Listing(T, ord, ids), NEW keep
    PROVE  Listing(T, Filter(ord, keep), ids \cap keep)
<1>1. ord \in Seq(T) /\ Members(ord) = ids /\ \A i, j \in DOMAIN ord : ord[i] = ord[j] => i = j
  BY DEF Listing
<1>2. PICK r \in Seq(T) : r = Filter(ord, keep) /\ \E pos : Picked(r, pos, ord, Len(ord), keep)
  BY <1>1, FilterPicks
<1>3. PICK pos : Picked(r, pos, ord, Len(ord), keep)
  BY <1>2
<1>4. DOMAIN r = 1..Len(r) /\ DOMAIN ord = 1..Len(ord) /\ Len(r) \in Nat /\ Len(ord) \in Nat
  BY <1>1, Places
<1>5. /\ pos \in [1..Len(r) -> 1..Len(ord)]
      /\ \A i, j \in 1..Len(r) : i < j => pos[i] < pos[j]
      /\ \A i \in 1..Len(r) : r[i] = ord[pos[i]] /\ ord[pos[i]] \in keep
      /\ \A j \in 1..Len(ord) : ord[j] \in keep => \E i \in 1..Len(r) : pos[i] = j
  BY <1>3 DEF Picked
<1>6. Members(r) = ids \cap keep
  <2>1. Members(r) \subseteq ids \cap keep
    BY <1>1, <1>4, <1>5 DEF Members
  <2>2. ASSUME NEW t \in ids \cap keep PROVE t \in Members(r)
    <3>1. PICK j \in 1..Len(ord) : ord[j] = t
      BY <1>1, <1>4 DEF Members
    <3>2. PICK i \in 1..Len(r) : pos[i] = j
      BY <1>5, <3>1
    <3>3. r[i] = t
      BY <1>5, <3>1, <3>2
    <3>4. QED
      BY <1>4, <3>3 DEF Members
  <2>3. QED
    BY <2>1, <2>2
<1>7. \A i, j \in DOMAIN r : r[i] = r[j] => i = j
  <2>1. SUFFICES ASSUME NEW i \in 1..Len(r), NEW j \in 1..Len(r), r[i] = r[j], i # j PROVE FALSE
    BY <1>4
  <2>2. pos[i] \in 1..Len(ord) /\ pos[j] \in 1..Len(ord) /\ ord[pos[i]] = ord[pos[j]]
    BY <1>5, <2>1
  <2>3. pos[i] = pos[j]
    BY <1>1, <1>4, <2>2
  <2>4. i < j \/ j < i
    BY <1>4, <2>1
  <2>5. pos[i] < pos[j] \/ pos[j] < pos[i]
    BY <1>5, <2>4
  <2>6. QED
    BY <2>2, <2>3, <2>5
<1>8. QED
  BY <1>2, <1>6, <1>7 DEF Listing

\* A key that is not listed is appended.
LEMMA AppendListing ==
    ASSUME NEW T, NEW ord, NEW ids, Listing(T, ord, ids), NEW t \in T, t \notin ids
    PROVE  Listing(T, Append(ord, t), ids \cup {t})
<1>1. ord \in Seq(T) /\ Members(ord) = ids /\ \A i, j \in DOMAIN ord : ord[i] = ord[j] => i = j
  BY DEF Listing
<1>2. PICK r \in Seq(T) : r = Append(ord, t)
  BY <1>1, AppendPlaces
<1>3. /\ DOMAIN ord = 1..Len(ord) /\ Len(ord) \in Nat
      /\ DOMAIN r = 1..(Len(ord) + 1) /\ r[Len(ord) + 1] = t
      /\ \A i \in 1..Len(ord) : r[i] = ord[i]
  BY <1>1, <1>2, AppendPlaces
<1>4. \A i \in 1..(Len(ord) + 1) : i = Len(ord) + 1 \/ i \in 1..Len(ord)
  BY <1>3
<1>5. Members(r) = ids \cup {t}
  <2>1. \A i \in DOMAIN r : r[i] \in ids \cup {t}
    BY <1>1, <1>3, <1>4 DEF Members
  <2>2. t \in Members(r)
    BY <1>3 DEF Members
  <2>3. \A u \in ids : u \in Members(r)
    <3>1. SUFFICES ASSUME NEW u \in ids PROVE u \in Members(r)
      OBVIOUS
    <3>2. PICK i \in 1..Len(ord) : ord[i] = u
      BY <1>1, <1>3 DEF Members
    <3>3. i \in DOMAIN r /\ r[i] = u
      BY <1>3, <3>2
    <3>4. QED
      BY <3>3 DEF Members
  <2>4. QED
    BY <2>1, <2>2, <2>3 DEF Members
<1>6. \A i \in 1..Len(ord) : ord[i] # t
  BY <1>1, <1>3 DEF Members
<1>7. \A i, j \in DOMAIN r : r[i] = r[j] => i = j
  BY <1>1, <1>3, <1>4, <1>6
<1>8. QED
  BY <1>2, <1>5, <1>7 DEF Listing

\* Keys are taken from the front.
LEMMA TailListing ==
    ASSUME NEW T, NEW ord, NEW ids, Listing(T, ord, ids), NEW k \in 0..Len(ord)
    PROVE  FirstIn(ord, k) \subseteq ids /\ Listing(T, SubSeq(ord, k + 1, Len(ord)), ids \ FirstIn(ord, k))
<1>1. ord \in Seq(T) /\ Members(ord) = ids /\ \A i, j \in DOMAIN ord : ord[i] = ord[j] => i = j
  BY DEF Listing
<1>2. Len(ord) \in Nat /\ DOMAIN ord = 1..Len(ord) /\ k \in Nat /\ k <= Len(ord)
  BY <1>1, Places
<1>3. PICK r \in Seq(T) :
           /\ r = SubSeq(ord, k + 1, Len(ord))
           /\ DOMAIN r = 1..(Len(ord) - k) /\ \A i \in 1..(Len(ord) - k) : r[i] = ord[k + i]
  <2>1. PICK r : r = SubSeq(ord, k + 1, Len(ord))
    OBVIOUS
  <2>2. r \in Seq(T) /\ Len(r) = Len(ord) - k /\ \A i \in 1..(Len(ord) - k) : r[i] = ord[k + i]
    BY <1>1, <2>1, TailPlaces
  <2>3. DOMAIN r = 1..Len(r)
    BY <2>2, Places
  <2>4. QED
    BY <2>1, <2>2, <2>3
<1>4. FirstIn(ord, k) \subseteq ids
  BY <1>1, <1>2 DEF FirstIn, Members
<1>5. \A i \in 1..(Len(ord) - k) : k + i \in 1..Len(ord) /\ k + i \notin 1..k
  BY <1>2
<1>6. Members(r) = ids \ FirstIn(ord, k)
  <2>1. \A i \in 1..(Len(ord) - k) : r[i] \in ids \ FirstIn(ord, k)
    <3>1. SUFFICES ASSUME NEW i \in 1..(Len(ord) - k), r[i] \in FirstIn(ord, k) PROVE FALSE
      BY <1>1, <1>2, <1>3, <1>5 DEF Members
    <3>2. PICK j \in 1..k : ord[j] = ord[k + i]
      BY <1>3, <3>1 DEF FirstIn
    <3>3. j \in 1..Len(ord)
      BY <1>2
    <3>4. QED
      BY <1>1, <1>2, <1>5, <3>2, <3>3
  <2>2. ASSUME NEW u \in ids \ FirstIn(ord, k) PROVE u \in Members(r)
    <3>1. PICK j \in 1..Len(ord) : ord[j] = u
      BY <1>1, <1>2 DEF Members
    <3>2. j \notin 1..k
      BY <3>1 DEF FirstIn
    <3>3. j - k \in 1..(Len(ord) - k) /\ k + (j - k) = j
      BY <1>2, <3>2
    <3>4. r[j - k] = u
      BY <1>3, <3>1, <3>3
    <3>5. QED
      BY <1>3, <3>3, <3>4 DEF Members
  <2>3. QED
    BY <1>3, <2>1, <2>2 DEF Members
<1>7. \A i, j \in DOMAIN r : r[i] = r[j] => i = j
  <2>1. SUFFICES ASSUME NEW i \in 1..(Len(ord) - k), NEW j \in 1..(Len(ord) - k), r[i] = r[j] PROVE i = j
    BY <1>3
  <2>2. k + i = k + j
    BY <1>1, <1>2, <1>3, <1>5, <2>1
  <2>3. QED
    BY <1>2, <2>2
<1>8. QED
  BY <1>3, <1>4, <1>6, <1>7 DEF Listing

\* What is where after a key that is listed once is taken out.
LEMMA WithoutFirstPlaces ==
    ASSUME NEW T, NEW ord \in Seq(T), \A i, j \in DOMAIN ord : ord[i] = ord[j] => i = j,
           NEW p \in 1..Len(ord), NEW t, ord[p] = t
    PROVE  /\ WithoutFirst(ord, t) \in Seq(T)
           /\ DOMAIN WithoutFirst(ord, t) = 1..(Len(ord) - 1)
           /\ \A i \in 1..(Len(ord) - 1) :
                 WithoutFirst(ord, t)[i] = IF i < p THEN ord[i] ELSE ord[i + 1]
<1>1. ord \in Seq(T) /\ \A i, j \in DOMAIN ord : ord[i] = ord[j] => i = j
  OBVIOUS
<1>2. Len(ord) \in Nat /\ DOMAIN ord = 1..Len(ord)
  BY <1>1, Places
<1>3. p \in 1..Len(ord) /\ ord[p] = t
  OBVIOUS
<1>4. (CHOOSE i \in DOMAIN ord : ord[i] = t /\ \A j \in DOMAIN ord : ord[j] = t => i <= j) = p
  <2>1. ord[p] = t /\ \A j \in DOMAIN ord : ord[j] = t => p <= j
    BY <1>1, <1>2, <1>3
  <2>2. \A i \in DOMAIN ord : ord[i] = t => i = p
    BY <1>1, <1>2, <1>3
  <2>3. QED
    BY <1>2, <2>1, <2>2, Zenon
<1>5. WithoutFirst(ord, t) = SubSeq(ord, 1, p - 1) \o SubSeq(ord, p + 1, Len(ord))
  <2>1. t \in Members(ord)
    BY <1>2, <1>3 DEF Members
  <2>2. QED
    BY <1>4, <2>1, Zenon DEF WithoutFirst
<1>6. PICK a \in Seq(T), b \in Seq(T) :
           /\ a = SubSeq(ord, 1, p - 1) /\ b = SubSeq(ord, p + 1, Len(ord))
           /\ Len(a) = p - 1 /\ \A i \in 1..(p - 1) : a[i] = ord[i]
           /\ Len(b) = Len(ord) - p /\ \A i \in 1..(Len(ord) - p) : b[i] = ord[p + i]
  <2>1. SubSeq(ord, 1, p - 1) \in Seq(T) /\ SubSeq(ord, p + 1, Len(ord)) \in Seq(T)
    BY <1>1, <1>2
  <2>2. Len(SubSeq(ord, 1, p - 1)) = p - 1 /\ \A i \in 1..(p - 1) : SubSeq(ord, 1, p - 1)[i] = ord[i]
    <3>1. p - 1 \in 0..Len(ord)
      BY <1>2
    <3>2. QED
      BY <1>1, <3>1, FrontPlaces
  <2>3. /\ Len(SubSeq(ord, p + 1, Len(ord))) = Len(ord) - p
        /\ \A i \in 1..(Len(ord) - p) : SubSeq(ord, p + 1, Len(ord))[i] = ord[p + i]
    <3>1. p \in 0..Len(ord)
      BY <1>2
    <3>2. QED
      BY <1>1, <3>1, TailPlaces
  <2>4. QED
    BY <2>1, <2>2, <2>3
<1>7. PICK r \in Seq(T) : r = a \o b
  BY ConcatProperties
<1>8. /\ DOMAIN r = 1..(Len(ord) - 1)
      /\ \A i \in 1..(Len(ord) - 1) : r[i] = IF i < p THEN ord[i] ELSE ord[i + 1]
  <2>1. PICK n \in Nat : n = Len(ord) /\ p \in 1..n /\ Len(a) = p - 1 /\ Len(b) = n - p
    BY <1>2, <1>6
  <2>2. Len(r) = Len(a) + Len(b) /\ \A i \in 1..Len(a) + Len(b) : r[i] = IF i <= Len(a) THEN a[i] ELSE b[i - Len(a)]
    BY <1>7, ConcatProperties
  <2>3. Len(a) + Len(b) = n - 1
    BY <2>1
  <2>4. DOMAIN r = 1..(n - 1)
    BY <1>7, <2>2, <2>3, Places
  <2>5. SUFFICES ASSUME NEW i \in 1..(n - 1) PROVE r[i] = IF i < p THEN ord[i] ELSE ord[i + 1]
    BY <2>1, <2>4
  <2>6. CASE i < p
    <3>1. i \in 1..(p - 1) /\ i <= Len(a)
      BY <2>1, <2>6
    <3>2. QED
      BY <1>6, <2>2, <2>3, <2>6, <3>1
  <2>7. CASE ~(i < p)
    <3>1. i - (p - 1) \in 1..(n - p) /\ ~(i <= Len(a))
      BY <2>1, <2>7
    <3>2. r[i] = b[i - (p - 1)] /\ b[i - (p - 1)] = ord[p + (i - (p - 1))]
      BY <1>6, <2>1, <2>2, <2>3, <3>1
    <3>3. p + (i - (p - 1)) = i + 1
      BY <2>1
    <3>4. QED
      BY <2>7, <3>2, <3>3
  <2>8. QED
    BY <2>6, <2>7
<1>9. QED
  BY <1>5, <1>6, <1>7, <1>8

\* WithoutFirst takes out the one place where the key is.
LEMMA RemoveListing ==
    ASSUME NEW T, NEW ord, NEW ids, Listing(T, ord, ids), NEW t \in ids
    PROVE  Listing(T, WithoutFirst(ord, t), ids \ {t})
<1>1. ord \in Seq(T) /\ Members(ord) = ids /\ \A i, j \in DOMAIN ord : ord[i] = ord[j] => i = j
  BY DEF Listing
<1>2. Len(ord) \in Nat /\ DOMAIN ord = 1..Len(ord)
  BY <1>1, Places
<1>3. PICK p \in 1..Len(ord) : ord[p] = t
  BY <1>1, <1>2 DEF Members
<1>4. PICK r \in Seq(T) :
          /\ r = WithoutFirst(ord, t) /\ DOMAIN r = 1..(Len(ord) - 1)
          /\ \A i \in 1..(Len(ord) - 1) : r[i] = IF i < p THEN ord[i] ELSE ord[i + 1]
  BY <1>1, <1>3, WithoutFirstPlaces
<1>5. Members(r) = ids \ {t}
  <2>1. \A i \in 1..(Len(ord) - 1) : r[i] \in ids \ {t}
    <3>1. SUFFICES ASSUME NEW i \in 1..(Len(ord) - 1) PROVE r[i] \in ids \ {t}
      OBVIOUS
    <3>2. PICK j \in 1..Len(ord) : r[i] = ord[j] /\ j # p
      BY <1>2, <1>4
    <3>3. QED
      BY <1>1, <1>2, <1>3, <3>2 DEF Members
  <2>2. ASSUME NEW u \in ids \ {t} PROVE u \in Members(r)
    <3>1. PICK j \in 1..Len(ord) : ord[j] = u /\ j # p
      BY <1>1, <1>2, <1>3 DEF Members
    <3>2. PICK i \in 1..(Len(ord) - 1) : (i < p /\ i = j) \/ (~(i < p) /\ i + 1 = j)
      <4>1. CASE j < p
        <5>1. j \in 1..(Len(ord) - 1)
          BY <1>2, <4>1
        <5>2. QED
          BY <4>1, <5>1
      <4>2. CASE ~(j < p)
        <5>1. j - 1 \in 1..(Len(ord) - 1) /\ ~(j - 1 < p) /\ (j - 1) + 1 = j
          BY <1>2, <3>1, <4>2
        <5>2. QED
          BY <5>1
      <4>3. QED
        BY <4>1, <4>2
    <3>3. r[i] = u
      BY <1>4, <3>1, <3>2
    <3>4. QED
      BY <1>4, <3>3 DEF Members
  <2>3. QED
    BY <1>4, <2>1, <2>2 DEF Members
<1>6. \A i, j \in DOMAIN r : r[i] = r[j] => i = j
  <2>1. SUFFICES ASSUME NEW i \in 1..(Len(ord) - 1), NEW j \in 1..(Len(ord) - 1), r[i] = r[j] PROVE i = j
    BY <1>4
  <2>2. PICK x \in 1..Len(ord) : x = IF i < p THEN i ELSE i + 1
    BY <1>2
  <2>3. PICK y \in 1..Len(ord) : y = IF j < p THEN j ELSE j + 1
    BY <1>2
  <2>4. ord[x] = ord[y]
    BY <1>4, <2>1, <2>2, <2>3
  <2>5. x = y
    BY <1>1, <1>2, <2>4
  <2>6. QED
    BY <1>2, <2>2, <2>3, <2>5
<1>7. QED
  BY <1>4, <1>5, <1>6 DEF Listing

\* A list is as long as there are keys.
LEMMA ListingLength ==
    ASSUME NEW T, NEW ord, NEW ids, Listing(T, ord, ids)
    PROVE  IsFiniteSet(ids) /\ Cardinality(ids) = Len(ord)
<1>1. ord \in Seq(T) /\ Members(ord) = ids /\ \A i, j \in DOMAIN ord : ord[i] = ord[j] => i = j
  BY DEF Listing
<1>2. Len(ord) \in Nat /\ DOMAIN ord = 1..Len(ord)
  BY <1>1, Places
<1>3. ord \in Bijection(1..Len(ord), ids)
  <2>1. ord \in [1..Len(ord) -> ids]
    BY <1>1, <1>2 DEF Members
  <2>2. \A x \in ids : \E i \in 1..Len(ord) : ord[i] = x
    BY <1>1, <1>2 DEF Members
  <2>3. QED
    BY <1>1, <1>2, <2>1, <2>2, Zenon DEF Bijection, Injection, Surjection, IsInjective
<1>4. ExistsBijection(1..Len(ord), ids)
  BY <1>3 DEF ExistsBijection
<1>5. IsFiniteSet(1..Len(ord))
  BY <1>2, FS_Interval
<1>6. IsFiniteSet(ids)
  BY <1>4, <1>5, FS_Bijection
<1>7. Cardinality(ids) = Len(ord)
  BY <1>2, <1>4, FS_CountingElements
<1>8. QED
  BY <1>6, <1>7

-----------------------------------------------------------------------------
(***************************************************************************)
(* A sequence that is the end of another.                                  *)
(***************************************************************************)

\* o is s without its first k elements.
Ends(o, s, k) == Len(s) = k + Len(o) /\ \A i \in 1..Len(o) : o[i] = s[k + i]

\* The end of an end is an end.
LEMMA EndsOfEnds ==
    ASSUME NEW T, NEW o \in Seq(T), NEW s \in Seq(T), NEW r \in Seq(T),
           NEW k \in Nat, NEW l \in Nat, Ends(o, s, k), Ends(s, r, l)
    PROVE  Ends(o, r, k + l)
<1>1. Len(o) \in Nat /\ Len(s) \in Nat /\ Len(r) \in Nat
  BY Places
<1>2. Len(r) = (k + l) + Len(o)
  BY <1>1 DEF Ends
<1>3. ASSUME NEW i \in 1..Len(o) PROVE o[i] = r[(k + l) + i]
  <2>1. k + i \in 1..Len(s) /\ l + (k + i) = (k + l) + i
    BY <1>1 DEF Ends
  <2>2. QED
    BY <2>1 DEF Ends
<1>4. QED
  BY <1>2, <1>3 DEF Ends

\* Both sequences get one more element.
LEMMA EndsAppend ==
    ASSUME NEW T, NEW o \in Seq(T), NEW s \in Seq(T), NEW k \in Nat, Ends(o, s, k), NEW x \in T
    PROVE  Ends(Append(o, x), Append(s, x), k)
<1>1. /\ Len(o) \in Nat /\ Len(s) \in Nat /\ Len(s) = k + Len(o)
      /\ \A i \in 1..Len(o) : o[i] = s[k + i]
  BY Places DEF Ends
<1>2. PICK p : /\ p = Append(o, x) /\ Len(p) = Len(o) + 1 /\ p[Len(o) + 1] = x
                /\ \A i \in 1..Len(o) : p[i] = o[i]
  <2>1. Len(Append(o, x)) = Len(o) + 1
    BY AppendPlaces
  <2>2. Append(o, x)[Len(o) + 1] = x /\ \A i \in 1..Len(o) : Append(o, x)[i] = o[i]
    BY AppendPlaces
  <2>3. QED
    BY <2>1, <2>2, Zenon
<1>3. PICK q : /\ q = Append(s, x) /\ Len(q) = Len(s) + 1 /\ q[Len(s) + 1] = x
                /\ \A i \in 1..Len(s) : q[i] = s[i]
  <2>1. Len(Append(s, x)) = Len(s) + 1
    BY AppendPlaces
  <2>2. Append(s, x)[Len(s) + 1] = x /\ \A i \in 1..Len(s) : Append(s, x)[i] = s[i]
    BY AppendPlaces
  <2>3. QED
    BY <2>1, <2>2, Zenon
<1>4. ASSUME NEW i \in 1..(Len(o) + 1) PROVE p[i] = q[k + i]
  <2>1. CASE i = Len(o) + 1
    <3>1. k + i = Len(s) + 1
      BY <1>1, <2>1
    <3>2. QED
      BY <1>2, <1>3, <2>1, <3>1
  <2>2. CASE i # Len(o) + 1
    <3>1. i \in 1..Len(o) /\ k + i \in 1..Len(s)
      BY <1>1, <2>2
    <3>2. QED
      BY <1>1, <1>2, <1>3, <3>1
  <2>3. QED
    BY <2>1, <2>2
<1>5. Len(q) = k + Len(p)
  BY <1>1, <1>2, <1>3
<1>6. QED
  BY <1>2, <1>3, <1>4, <1>5 DEF Ends

\* A key is taken out of both.
LEMMA EndsWithoutBoth ==
    ASSUME NEW T, NEW o \in Seq(T), NEW s \in Seq(T), NEW k \in Nat, Ends(o, s, k),
           \A i, j \in DOMAIN s : s[i] = s[j] => i = j, NEW p \in 1..Len(o)
    PROVE  Ends(WithoutFirst(o, o[p]), WithoutFirst(s, o[p]), k)
<1>1. /\ Len(o) \in Nat /\ Len(s) \in Nat /\ Len(s) = k + Len(o)
      /\ DOMAIN o = 1..Len(o) /\ DOMAIN s = 1..Len(s)
      /\ \A i \in 1..Len(o) : o[i] = s[k + i]
  BY Places DEF Ends
<1>2. \A i, j \in DOMAIN o : o[i] = o[j] => i = j
  <2>1. SUFFICES ASSUME NEW i \in 1..Len(o), NEW j \in 1..Len(o), o[i] = o[j] PROVE i = j
    BY <1>1
  <2>2. k + i \in DOMAIN s /\ k + j \in DOMAIN s /\ s[k + i] = s[k + j]
    BY <1>1, <2>1
  <2>3. k + i = k + j
    BY <2>2
  <2>4. QED
    BY <2>3
<1>3. k + p \in 1..Len(s) /\ s[k + p] = o[p]
  BY <1>1
<1>4. PICK t : t = o[p]
  OBVIOUS
<1>5. PICK a \in Seq(T) :
          /\ a = WithoutFirst(o, t) /\ DOMAIN a = 1..(Len(o) - 1)
          /\ \A i \in 1..(Len(o) - 1) : a[i] = IF i < p THEN o[i] ELSE o[i + 1]
  BY <1>2, <1>4, WithoutFirstPlaces
<1>6. PICK b \in Seq(T) :
          /\ b = WithoutFirst(s, t) /\ DOMAIN b = 1..(Len(s) - 1)
          /\ \A i \in 1..(Len(s) - 1) : b[i] = IF i < k + p THEN s[i] ELSE s[i + 1]
  BY <1>3, <1>4, WithoutFirstPlaces
<1>7. Len(a) = Len(o) - 1 /\ Len(b) = Len(s) - 1
  <2>1. Len(o) - 1 \in Nat /\ Len(s) - 1 \in Nat
    BY <1>1
  <2>2. QED
    BY <1>5, <1>6, <2>1
<1>8. ASSUME NEW i \in 1..(Len(o) - 1) PROVE a[i] = b[k + i]
  <2>1. /\ i \in 1..Len(o) /\ i + 1 \in 1..Len(o) /\ k + i \in 1..(Len(s) - 1)
        /\ (k + i) + 1 = k + (i + 1) /\ (k + i < k + p <=> i < p)
    BY <1>1
  <2>2. QED
    BY <1>1, <1>5, <1>6, <2>1
<1>9. Len(b) = k + Len(a)
  BY <1>1, <1>7
<1>10. Ends(a, b, k)
  BY <1>7, <1>8, <1>9 DEF Ends
<1>11. QED
  BY <1>4, <1>5, <1>6, <1>10

\* A key is taken out of what comes before the end.
LEMMA EndsWithoutBefore ==
    ASSUME NEW T, NEW o \in Seq(T), NEW s \in Seq(T), NEW k \in Nat, Ends(o, s, k),
           \A i, j \in DOMAIN s : s[i] = s[j] => i = j, NEW p \in 1..k
    PROVE  Ends(o, WithoutFirst(s, s[p]), k - 1)
<1>1. /\ Len(o) \in Nat /\ Len(s) \in Nat /\ Len(s) = k + Len(o)
      /\ \A i \in 1..Len(o) : o[i] = s[k + i]
  BY Places DEF Ends
<1>2. p \in 1..Len(s)
  BY <1>1
<1>3. PICK t : t = s[p]
  OBVIOUS
<1>4. PICK b \in Seq(T) :
          /\ b = WithoutFirst(s, t) /\ DOMAIN b = 1..(Len(s) - 1)
          /\ \A i \in 1..(Len(s) - 1) : b[i] = IF i < p THEN s[i] ELSE s[i + 1]
  BY <1>2, <1>3, WithoutFirstPlaces
<1>5. Len(b) = Len(s) - 1
  <2>1. Len(s) - 1 \in Nat
    BY <1>1
  <2>2. QED
    BY <1>4, <2>1
<1>6. ASSUME NEW i \in 1..Len(o) PROVE o[i] = b[(k - 1) + i]
  <2>1. (k - 1) + i \in 1..(Len(s) - 1) /\ ~((k - 1) + i < p) /\ ((k - 1) + i) + 1 = k + i
    BY <1>1
  <2>2. QED
    BY <1>1, <1>4, <2>1
<1>7. Len(b) = (k - 1) + Len(o)
  BY <1>1, <1>5
<1>8. QED
  BY <1>3, <1>4, <1>6, <1>7 DEF Ends

\* Filter leaves the end of a sequence when it keeps everything after what it keeps.
LEMMA FilterEnds ==
    ASSUME NEW T, NEW s \in Seq(T), NEW keep,
           \A i, j \in 1..Len(s) : i < j /\ s[i] \in keep => s[j] \in keep
    PROVE  \E k \in 0..Len(s) : Ends(Filter(s, keep), s, k)
<1>1. Len(s) \in Nat
  BY Places
<1>2. PICK r \in Seq(T) : r = Filter(s, keep) /\ \E f : Picked(r, f, s, Len(s), keep)
  BY FilterPicks
<1>3. PICK pos : Picked(r, pos, s, Len(s), keep)
  BY <1>2
<1>4. PICK n \in Nat, m \in Nat : n = Len(s) /\ m = Len(r)
  BY <1>1, Places
<1>5. /\ pos \in [1..m -> 1..n]
      /\ \A i, j \in 1..m : i < j => pos[i] < pos[j]
      /\ \A i \in 1..m : r[i] = s[pos[i]] /\ s[pos[i]] \in keep
      /\ \A j \in 1..n : s[j] \in keep => \E i \in 1..m : pos[i] = j
  BY <1>3, <1>4 DEF Picked
<1>6. CASE m = 0
  <2>1. n \in 0..Len(s) /\ Len(s) = n + Len(r) /\ 1..Len(r) = {}
    BY <1>4, <1>6
  <2>2. QED
    BY <1>2, <2>1 DEF Ends
<1>7. CASE m # 0
  <2>1. 1 \in 1..m /\ m \in 1..m
    BY <1>4, <1>7
  <2>2. PICK c \in 1..n : c = pos[1]
    BY <1>5, <2>1
  <2>3. \A i \in 1..m : pos[i] \in c..n
    <3>1. SUFFICES ASSUME NEW i \in 1..m PROVE pos[i] \in 1..n /\ pos[i] >= c
      BY <1>4
    <3>2. pos[i] \in 1..n /\ (1 < i => pos[1] < pos[i])
      BY <1>5, <2>1
    <3>3. i = 1 \/ 1 < i
      OBVIOUS
    <3>4. QED
      BY <2>2, <3>2, <3>3
  <2>4. \A j \in c..n : \E i \in 1..m : pos[i] = j
    BY <1>4, <1>5, <2>1, <2>2
  <2>5. \A i \in 1..m : pos[i] = c + i - 1
    <3> DEFINE Off == {i \in 1..m : pos[i] # c + i - 1}
    <3>1. SUFFICES ASSUME Off # {} PROVE FALSE
      OBVIOUS
    <3>2. Off \in SUBSET Nat
      OBVIOUS
    <3>3. PICK i \in Off : \A y \in Off : i <= y
      BY <3>1, <3>2, LeastNumber
    <3>4. i \in 1..m /\ pos[i] # c + i - 1 /\ i # 1
      BY <2>2
    <3>5. i - 1 \in 1..m /\ ~(i <= i - 1)
      BY <3>4
    <3>6. i - 1 \notin Off
      BY <3>3, <3>5
    <3>7. pos[i - 1] = c + (i - 1) - 1
      BY <3>5, <3>6
    <3> HIDE DEF Off
    <3>8. pos[i] > c + (i - 1) - 1 /\ pos[i] \in c..n
      BY <1>5, <2>3, <3>4, <3>5, <3>7
    <3>9. c + i - 1 \in c..n
      BY <3>4, <3>8
    <3>10. PICK j \in 1..m : pos[j] = c + i - 1
      BY <2>4, <3>9
    <3>11. j # i /\ j # i - 1
      BY <3>4, <3>7, <3>10
    <3>12. j < i - 1 \/ j > i
      BY <3>4, <3>11
    <3>13. CASE j < i - 1
      BY <1>5, <3>5, <3>7, <3>10, <3>13
    <3>14. CASE j > i
      <4>1. pos[i] < pos[j]
        BY <1>5, <3>4, <3>14
      <4>2. QED
        BY <3>4, <3>8, <3>10, <4>1
    <3>15. QED
      BY <3>12, <3>13, <3>14
  <2>6. n = (c - 1) + m
    <3>1. c + m - 1 <= n
      <4>1. pos[m] \in c..n /\ pos[m] = c + m - 1
        BY <2>1, <2>3, <2>5
      <4>2. QED
        BY <1>4, <4>1
    <3>2. PICK j \in 1..m : pos[j] = n
      BY <2>4
    <3>3. n = c + j - 1
      BY <2>5, <3>2
    <3>4. QED
      BY <1>4, <3>1, <3>3
  <2>7. \A i \in 1..m : r[i] = s[(c - 1) + i]
    <3>1. \A i \in 1..m : c + i - 1 = (c - 1) + i
      OBVIOUS
    <3>2. QED
      BY <1>5, <2>5, <3>1
  <2>8. c - 1 \in 0..n
    OBVIOUS
  <2>9. QED
    BY <1>2, <1>4, <2>6, <2>7, <2>8 DEF Ends
<1>8. QED
  BY <1>6, <1>7
=============================================================================
