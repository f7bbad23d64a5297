-------------------------- MODULE RateTriggerProof --------------------------
(***************************************************************************)
(* Proofs about RateTrigger, for every window, threshold and clock skew.   *)
(*                                                                         *)
(* WindowExact is about the seconds of the window that ends now.  It is    *)
(* inductive together with what makes the next seconds safe: nothing was   *)
(* seen after the newest second (FutureUnseen), no bucket holds a second   *)
(* after it (NoFutureBucket), and a second has no more hits than samples   *)
(* (SeenType).  SeverityExact compares a sum over buckets with a sum over  *)
(* seconds; the first part of this module is about such sums.              *)
(***************************************************************************)
EXTENDS RateTrigger, OrdersProof

-----------------------------------------------------------------------------
(***************************************************************************)
(* Sums.  SumFunctionOnSet takes the elements of a set one by one, in the  *)
(* order of CHOOSE.  Induction is over the cardinality, with the least     *)
(* number for which a statement fails.                                     *)
(***************************************************************************)

\* The element a sum takes first.
First(T) == CHOOSE x \in T : TRUE

\* F is the sum of f over each subset of S with at most n elements.
Small(S, n) == {T \in SUBSET S : Cardinality(T) <= n}
TakesApart(F, f, D) ==
    \A T \in D : F[T] = IF T = {} THEN 0 ELSE f[First(T)] + F[T \ {First(T)}]
Sums(F, f, D) == F \in [D -> Int] /\ TakesApart(F, f, D)

\* f has numbers as values on a set of which S is a finite part.
Summable(f, E, S) == f \in [E -> Int] /\ S \subseteq E /\ IsFiniteSet(S)

\* What is left of a set after its first element is smaller.
LEMMA FirstTaken ==
    ASSUME NEW T, IsFiniteSet(T), T # {}
    PROVE  /\ First(T) \in T
           /\ \A x \in T : /\ IsFiniteSet(T \ {x})
                           /\ Cardinality(T) \in Nat
                           /\ Cardinality(T \ {x}) = Cardinality(T) - 1
<1>1. First(T) \in T
  BY DEF First
<1>2. QED
  BY <1>1, FS_RemoveElement, FS_CardinalityType

\* Sums over the subsets of a finite set exist.
LEMMA SumsExist ==
    ASSUME NEW E, NEW f, NEW S, Summable(f, E, S)
    PROVE  \E F : Sums(F, f, SUBSET S)
<1>0. f \in [E -> Int] /\ S \in SUBSET E /\ IsFiniteSet(S)
  BY DEF Summable
<1> DEFINE Bad == {n \in Nat : ~\E F : Sums(F, f, Small(S, n))}
<1>1. \A T \in SUBSET S : IsFiniteSet(T) /\ Cardinality(T) \in Nat
  BY <1>0, FS_Subset, FS_CardinalityType
<1>2. Bad = {}
  <2>1. SUFFICES ASSUME Bad # {} PROVE FALSE
    OBVIOUS
  <2>2. Bad \in SUBSET Nat
    OBVIOUS
  <2>3. PICK m \in Bad : \A y \in Bad : m <= y
    BY <2>1, <2>2, LeastNumber
  <2>4. m \in Nat /\ ~\E F : Sums(F, f, Small(S, m))
    OBVIOUS
  <2>5. PICK F : m # 0 => Sums(F, f, Small(S, m - 1))
    <3>1. CASE m = 0
      BY <3>1
    <3>2. CASE m # 0
      <4>1. m - 1 \in Nat /\ ~(m <= m - 1)
        BY <2>4, <3>2
      <4>2. m - 1 \notin Bad
        BY <2>3, <4>1
      <4>3. QED
        BY <4>1, <4>2
    <3>3. QED
      BY <3>1, <3>2
  <2> DEFINE G == [T \in Small(S, m) |-> IF T = {} THEN 0 ELSE f[First(T)] + F[T \ {First(T)}]]
  <2>6. ASSUME NEW T \in Small(S, m), T # {}
        PROVE  /\ First(T) \in E /\ m # 0
               /\ T \ {First(T)} \in Small(S, m - 1) /\ T \ {First(T)} \in Small(S, m)
    <3>1. T \in SUBSET S /\ Cardinality(T) <= m /\ IsFiniteSet(T) /\ Cardinality(T) \in Nat
      BY <1>1, <2>6 DEF Small
    <3>2. First(T) \in T /\ Cardinality(T \ {First(T)}) = Cardinality(T) - 1
      BY <2>6, <3>1, FirstTaken
    <3>3. Cardinality(T) # 0
      BY <2>6, <3>1, FS_EmptySet
    <3>4. Cardinality(T \ {First(T)}) <= m - 1 /\ Cardinality(T \ {First(T)}) <= m /\ m # 0
      BY <2>4, <3>1, <3>2, <3>3
    <3>5. QED
      BY <1>0, <3>1, <3>2, <3>4 DEF Small
  <2>7. G \in [Small(S, m) -> Int]
    <3>1. ASSUME NEW T \in Small(S, m), T # {}
          PROVE  f[First(T)] + F[T \ {First(T)}] \in Int
      <4>1. f[First(T)] \in Int
        BY <1>0, <2>6, <3>1
      <4>2. F[T \ {First(T)}] \in Int
        BY <2>5, <2>6, <3>1 DEF Sums, TakesApart
      <4>3. QED
        BY <4>1, <4>2
    <3>2. QED
      BY <3>1
  <2>8. ASSUME NEW T \in Small(S, m), T # {}
        PROVE  G[T \ {First(T)}] = F[T \ {First(T)}]
    <3>1. PICK R \in Small(S, m - 1) : R = T \ {First(T)} /\ R \in Small(S, m)
      BY <2>6, <2>8
    <3>2. F[R] = IF R = {} THEN 0 ELSE f[First(R)] + F[R \ {First(R)}]
      BY <2>5, <2>6, <2>8, <3>1 DEF Sums, TakesApart
    <3>3. G[R] = IF R = {} THEN 0 ELSE f[First(R)] + F[R \ {First(R)}]
      BY <3>1
    <3>4. QED
      BY <3>1, <3>2, <3>3
  <2>9. Sums(G, f, Small(S, m))
    <3>1. \A T \in Small(S, m) : G[T] = IF T = {} THEN 0 ELSE f[First(T)] + G[T \ {First(T)}]
      BY <2>8
    <3>2. QED
      BY <2>7, <3>1 DEF Sums, TakesApart
  <2>10. QED
    BY <2>4, <2>9
<1>3. Cardinality(S) \in Nat /\ \A T \in SUBSET S : Cardinality(T) <= Cardinality(S)
  BY <1>0, FS_Subset, FS_CardinalityType
<1>4. Small(S, Cardinality(S)) = SUBSET S
  BY <1>3 DEF Small
<1>5. PICK n \in Nat : n = Cardinality(S)
  BY <1>3
<1>6. \E F : Sums(F, f, Small(S, n))
  BY <1>2, Zenon
<1>7. QED
  BY <1>4, <1>5, <1>6

\* A function that takes the sums apart has numbers as values.
LEMMA SumsAreNumbers ==
    ASSUME NEW E, NEW f, NEW S, Summable(f, E, S), NEW F, TakesApart(F, f, SUBSET S)
    PROVE  \A T \in SUBSET S : F[T] \in Int
<1>0. f \in [E -> Int] /\ S \in SUBSET E /\ IsFiniteSet(S)
  BY DEF Summable
<1> DEFINE Bad == {n \in Nat : \E T \in SUBSET S : Cardinality(T) = n /\ F[T] \notin Int}
<1>1. \A T \in SUBSET S : IsFiniteSet(T) /\ Cardinality(T) \in Nat
  BY <1>0, FS_Subset, FS_CardinalityType
<1>2. SUFFICES ASSUME Bad # {} PROVE FALSE
  BY <1>1
<1>3. Bad \in SUBSET Nat
  OBVIOUS
<1>4. PICK m \in Bad : \A y \in Bad : m <= y
  BY <1>2, <1>3, LeastNumber
<1>5. PICK T \in SUBSET S : Cardinality(T) = m /\ F[T] \notin Int
  OBVIOUS
<1>6. T # {}
  <2>1. F[{}] = 0
    BY DEF TakesApart
  <2>2. F[{}] \in Int
    BY <2>1
  <2>3. QED
    BY <1>5, <2>2, Zenon
<1>7. First(T) \in T /\ Cardinality(T \ {First(T)}) = Cardinality(T) - 1
  BY <1>1, <1>6, FirstTaken
<1>8. T \ {First(T)} \in SUBSET S /\ f[First(T)] \in Int
  BY <1>0, <1>7
<1>9. F[T \ {First(T)}] \in Int
  <2>1. Cardinality(T \ {First(T)}) \in Nat /\ ~(m <= Cardinality(T \ {First(T)}))
    BY <1>1, <1>5, <1>7, <1>8
  <2>2. QED
    BY <1>4, <1>8, <2>1
<1>10. F[T] = f[First(T)] + F[T \ {First(T)}]
  BY <1>6 DEF TakesApart
<1>11. QED
  BY <1>5, <1>8, <1>9, <1>10

\* So SumFunctionOnSet is one of them.
LEMMA SumIsSums ==
    ASSUME NEW E, NEW f, NEW S, Summable(f, E, S)
    PROVE  \E F : Sums(F, f, SUBSET S) /\ SumFunctionOnSet(f, S) = F[S]
<1> DEFINE Def(F) == F = [T \in SUBSET S |-> IF T = {} THEN 0
                                             ELSE f[CHOOSE x \in T : TRUE] + F[T \ {CHOOSE x \in T : TRUE}]]
<1>1. SumFunctionOnSet(f, S) = (CHOOSE F : Def(F))[S]
  BY Zenon DEF SumFunctionOnSet, FoldFunctionOnSet, MapThenFoldSet
<1>2. PICK G : Sums(G, f, SUBSET S)
  BY SumsExist
<1>3. Def(G)
  BY <1>2 DEF Sums, TakesApart, First
<1>4. Def(CHOOSE F : Def(F))
  BY <1>3, Zenon
<1> HIDE DEF Def
<1>5. PICK F : F = (CHOOSE H : Def(H)) /\ Def(F)
  BY <1>4, Zenon
<1>6. F = [T \in SUBSET S |-> F[T]] /\ TakesApart(F, f, SUBSET S)
  BY <1>5 DEF Def, First, TakesApart
<1>7. \A T \in SUBSET S : F[T] \in Int
  BY <1>6, SumsAreNumbers, Zenon
<1>8. QED
  BY <1>1, <1>5, <1>6, <1>7 DEF Sums, TakesApart

\* The order in which the elements are taken does not matter.
AnyOrder(F, f, D) == \A T \in D : \A x \in T : F[T] = f[x] + F[T \ {x}]

\* So it is for sums.
LEMMA AnyFirst ==
    ASSUME NEW E, NEW f, NEW S, Summable(f, E, S),
           NEW F, Sums(F, f, SUBSET S)
    PROVE  AnyOrder(F, f, SUBSET S)
<1>0. f \in [E -> Int] /\ S \in SUBSET E /\ IsFiniteSet(S)
  BY DEF Summable
<1> DEFINE Bad == {n \in Nat : \E T \in SUBSET S : Cardinality(T) = n /\ \E x \in T : F[T] # f[x] + F[T \ {x}]}
<1>1. \A T \in SUBSET S : IsFiniteSet(T) /\ Cardinality(T) \in Nat
  BY <1>0, FS_Subset, FS_CardinalityType
<1>2. SUFFICES ASSUME Bad # {} PROVE FALSE
  BY <1>1 DEF AnyOrder
<1>3. Bad \in SUBSET Nat
  OBVIOUS
<1>4. PICK m \in Bad : \A y \in Bad : m <= y
  BY <1>2, <1>3, LeastNumber
<1>5. PICK T \in SUBSET S : Cardinality(T) = m /\ \E x \in T : F[T] # f[x] + F[T \ {x}]
  OBVIOUS
<1>6. PICK x \in T : F[T] # f[x] + F[T \ {x}]
  BY <1>5
<1>7. PICK y \in T : y = First(T)
  BY <1>1, <1>6, FirstTaken
<1>8. F[T] = f[y] + F[T \ {y}]
  BY <1>6, <1>7 DEF Sums, TakesApart
<1>9. x # y
  BY <1>6, <1>8
<1>10. ASSUME NEW R \in SUBSET S, Cardinality(R) < m, NEW z \in R
       PROVE  F[R] = f[z] + F[R \ {z}]
  <2>1. Cardinality(R) \in Nat /\ ~(m <= Cardinality(R))
    BY <1>1, <1>10
  <2>2. Cardinality(R) \notin Bad
    BY <1>4, <2>1, Zenon
  <2>3. QED
    BY <1>10, <2>1, <2>2, Zenon
<1> HIDE DEF Bad
<1>11. Cardinality(T \ {x}) < m /\ Cardinality(T \ {y}) < m
  <2>1. Cardinality(T \ {x}) = m - 1 /\ Cardinality(T \ {y}) = m - 1 /\ m \in Nat
    BY <1>1, <1>5, FirstTaken
  <2>2. QED
    BY <2>1
<1>12. F[T \ {y}] = f[x] + F[(T \ {y}) \ {x}]
  BY <1>9, <1>10, <1>11
<1>13. F[T \ {x}] = f[y] + F[(T \ {x}) \ {y}]
  BY <1>9, <1>10, <1>11
<1>14. (T \ {x}) \ {y} = (T \ {y}) \ {x}
  OBVIOUS
<1>15. f[x] \in Int /\ f[y] \in Int /\ F[(T \ {y}) \ {x}] \in Int
  BY <1>0 DEF Sums, TakesApart
<1>16. f[y] + (f[x] + F[(T \ {y}) \ {x}]) = f[x] + (f[y] + F[(T \ {y}) \ {x}])
  BY <1>15
<1>17. QED
  BY <1>6, <1>8, <1>12, <1>13, <1>14, <1>16, Zenon

\* The elements of U are matched, each by its own, by elements of V with the same
\* value, and those of V left over count zero.
Matched(f, U, g, V, to) ==
    /\ to \in [U -> V]
    /\ \A i, j \in U : to[i] = to[j] => i = j
    /\ \A i \in U : f[i] = g[to[i]]
    /\ \A v \in V : (\A i \in U : to[i] # v) => g[v] = 0

\* Then the sums are equal.
LEMMA SumMatched ==
    ASSUME NEW D, NEW f, NEW U, Summable(f, D, U),
           NEW E, NEW g, NEW V, Summable(g, E, V),
           NEW to, Matched(f, U, g, V, to)
    PROVE  SumFunctionOnSet(f, U) = SumFunctionOnSet(g, V)
<1>0. /\ f \in [D -> Int] /\ U \in SUBSET D /\ IsFiniteSet(U)
      /\ g \in [E -> Int] /\ V \in SUBSET E /\ IsFiniteSet(V)
  BY DEF Summable
<1> DEFINE Pre(B) == {i \in U : to[i] \in B}
<1>1. PICK F : Sums(F, f, SUBSET U) /\ SumFunctionOnSet(f, U) = F[U]
  BY SumIsSums
<1>2. PICK G : Sums(G, g, SUBSET V) /\ SumFunctionOnSet(g, V) = G[V]
  BY SumIsSums
<1>3. AnyOrder(F, f, SUBSET U)
  BY <1>1, AnyFirst
<1>4. AnyOrder(G, g, SUBSET V)
  BY <1>2, AnyFirst
<1>5. \A B \in SUBSET V : IsFiniteSet(B) /\ Cardinality(B) \in Nat
  BY <1>0, FS_Subset, FS_CardinalityType
<1>6. \A B \in SUBSET V : F[Pre(B)] = G[B]
  <2> DEFINE Bad == {n \in Nat : \E B \in SUBSET V : Cardinality(B) = n /\ F[Pre(B)] # G[B]}
  <2>1. SUFFICES ASSUME Bad # {} PROVE FALSE
    BY <1>5
  <2>2. Bad \in SUBSET Nat
    OBVIOUS
  <2>3. PICK m \in Bad : \A y \in Bad : m <= y
    BY <2>1, <2>2, LeastNumber
  <2>4. PICK B \in SUBSET V : Cardinality(B) = m /\ F[Pre(B)] # G[B]
    OBVIOUS
  <2>5. ASSUME NEW R \in SUBSET V, Cardinality(R) < m
        PROVE  F[Pre(R)] = G[R]
    <3>1. Cardinality(R) \in Nat /\ ~(m <= Cardinality(R))
      BY <1>5, <2>5
    <3>2. Cardinality(R) \notin Bad
      BY <2>3, <3>1, Zenon
    <3>3. QED
      BY <2>5, <3>1, <3>2, Zenon
  <2> HIDE DEF Bad
  <2>6. B # {}
    <3>1. SUFFICES ASSUME B = {} PROVE F[Pre(B)] = G[B]
      BY <2>4
    <3>2. Pre(B) = {}
      BY <3>1
    <3>3. F[{}] = 0 /\ G[{}] = 0
      BY <1>1, <1>2 DEF Sums, TakesApart
    <3>4. QED
      BY <3>1, <3>2, <3>3
  <2>7. PICK v \in B : TRUE
    BY <2>6
  <2>8. Cardinality(B \ {v}) < m
    <3>1. Cardinality(B \ {v}) = m - 1 /\ m \in Nat
      BY <1>5, <2>4, <2>6, FirstTaken
    <3>2. QED
      BY <3>1
  <2>9. F[Pre(B \ {v})] = G[B \ {v}]
    BY <2>5, <2>8
  <2>10. G[B] = g[v] + G[B \ {v}]
    BY <1>4 DEF AnyOrder
  <2>11. CASE \E i \in U : to[i] = v
    <3>1. PICK i \in U : to[i] = v
      BY <2>11
    <3>2. Pre(B \ {v}) = Pre(B) \ {i} /\ i \in Pre(B) /\ Pre(B) \in SUBSET U
      BY <3>1 DEF Matched
    <3>3. f[i] = g[v]
      BY <3>1 DEF Matched
    <3> HIDE DEF Pre
    <3>4. F[Pre(B)] = f[i] + F[Pre(B) \ {i}]
      BY <1>3, <3>2 DEF AnyOrder
    <3>5. QED
      BY <2>4, <2>9, <2>10, <3>2, <3>3, <3>4
  <2>12. CASE ~\E i \in U : to[i] = v
    <3>1. Pre(B \ {v}) = Pre(B) /\ g[v] = 0
      BY <2>12 DEF Matched
    <3>2. G[B \ {v}] \in Int
      BY <1>2 DEF Sums, TakesApart
    <3>3. 0 + G[B \ {v}] = G[B \ {v}]
      BY <3>2
    <3>4. QED
      BY <2>4, <2>9, <2>10, <3>1, <3>3, Zenon
  <2>13. QED
    BY <2>11, <2>12
<1>7. Pre(V) = U
  BY DEF Matched
<1>8. QED
  BY <1>1, <1>2, <1>6, <1>7

-----------------------------------------------------------------------------
(***************************************************************************)
(* The inductive invariant.                                                *)
(***************************************************************************)
BucketType ==
    /\ bucketSec \in [Slots -> Seconds \cup {-1}]
    /\ \A i \in Slots : bucketSec[i] = -1 => hits[i] = 0 /\ total[i] = 0

SeenType ==
    /\ seen \in [Seconds -> [hits : Nat, total : Nat]]
    /\ \A s \in Seconds : seen[s].hits <= seen[s].total

FutureUnseen == \A s \in Seconds : s > newest => seen[s].total = 0

NoFutureBucket == \A i \in Slots : bucketSec[i] <= newest

Inv ==
    /\ TypeOK /\ BucketType /\ SeenType
    /\ FutureUnseen /\ NoFutureBucket
    /\ WindowExact
    /\ RaisedIsAnnounced
    /\ SeverityExact

\* Two numbers with the same remainder are at least the divisor apart.
LEMMA SameRemainder ==
    ASSUME NEW d \in Nat \ {0}, NEW a \in Nat, NEW b \in Nat, a % d = b % d, a < b
    PROVE  b - a >= d
OBVIOUS

\* Two seconds that share a bucket are at least a window apart.
LEMMA SameBucket ==
    ASSUME NEW r \in Seconds, NEW s \in Seconds, r % Buckets = s % Buckets, r < s
    PROVE  s - r >= Buckets
<1>1. r \in Nat /\ s \in Nat /\ Buckets \in Nat \ {0}
  BY WindowAssumption, BoundsAssumption DEF Seconds
<1>2. QED
  BY <1>1, SameRemainder

\* The bucket of a second is a slot.
LEMMA BucketSlot ==
    ASSUME NEW s \in Seconds
    PROVE  s % Buckets \in Slots
<1>1. s \in Nat /\ Buckets \in Nat \ {0}
  BY WindowAssumption, BoundsAssumption DEF Seconds
<1>2. QED
  BY <1>1 DEF Slots

\* The severities are the ones Rank knows.
LEMMA SeverityType ==
    ASSUME NEW h, NEW n
    PROVE  Severity(h, n) \in {"none", "mild", "severe"}
<1>1. classifyTwoTier(h, n) \in {"none", "mild", "severe"}
  BY Zenon DEF classifyTwoTier, None
<1>2. QED
  BY <1>1 DEF Severity, None

\* The severities in their order.
LEMMA RankValues ==
    /\ DOMAIN Rank = {"none", "mild", "severe"}
    /\ Rank["none"] = 0 /\ Rank["mild"] = 1 /\ Rank["severe"] = 2
BY DEF Rank

-----------------------------------------------------------------------------
(***************************************************************************)
(* A span of second sec.                                                   *)
(***************************************************************************)

\* What a span does to the window and to the history.
LEMMA SpanEffect ==
    ASSUME Inv, NEW sec \in Seconds, NEW s \in Samples, NEW preempted \in BOOLEAN,
           OnRequestComplete(sec, s, preempted)
    PROVE  \E b \in Slots :
             /\ b = sec % Buckets /\ sec >= newest - Skew
             /\ hits' = [hits EXCEPT ![b] = (IF bucketSec[b] = sec THEN hits[b] ELSE 0) + s.h]
             /\ total' = [total EXCEPT ![b] = (IF bucketSec[b] = sec THEN total[b] ELSE 0) + s.n]
             /\ bucketSec' = [bucketSec EXCEPT ![b] = sec]
             /\ seen' = [seen EXCEPT ![sec] = [hits |-> seen[sec].hits + s.h,
                                               total |-> seen[sec].total + s.n]]
             /\ at' = sec
             /\ newest' = IF sec > newest THEN sec ELSE newest
             /\ judged' = ~preempted
<1>1. sec % Buckets \in Slots
  BY BucketSlot
<1>2. QED
  BY <1>1 DEF OnRequestComplete, Bucket, maybeRoll

\* What the samples of a span can be.
LEMMA SampleType ==
    ASSUME NEW s \in Samples
    PROVE  s.n \in Nat /\ s.h \in Nat /\ s.h <= s.n
BY DEF Samples

\* A span keeps the types.
LEMMA SpanTypes ==
    ASSUME Inv, NEW sec \in Seconds, NEW s \in Samples, NEW preempted \in BOOLEAN,
           OnRequestComplete(sec, s, preempted)
    PROVE  BucketType' /\ SeenType' /\ hits' \in [Slots -> Nat] /\ total' \in [Slots -> Nat]
<1>1. PICK b \in Slots :
           /\ hits' = [hits EXCEPT ![b] = (IF bucketSec[b] = sec THEN hits[b] ELSE 0) + s.h]
           /\ total' = [total EXCEPT ![b] = (IF bucketSec[b] = sec THEN total[b] ELSE 0) + s.n]
           /\ bucketSec' = [bucketSec EXCEPT ![b] = sec]
           /\ seen' = [seen EXCEPT ![sec] = [hits |-> seen[sec].hits + s.h,
                                             total |-> seen[sec].total + s.n]]
  BY SpanEffect
<1>2. TypeOK /\ BucketType /\ SeenType /\ s.n \in Nat /\ s.h \in Nat /\ s.h <= s.n
  BY SampleType DEF Inv
<1>3. sec # -1
  BY BoundsAssumption DEF Seconds
<1>4. hits' \in [Slots -> Nat] /\ total' \in [Slots -> Nat] /\ BucketType'
  <2>1. hits' \in [Slots -> Nat] /\ total' \in [Slots -> Nat]
    BY <1>1, <1>2 DEF TypeOK
  <2>2. bucketSec' \in [Slots -> Seconds \cup {-1}]
    BY <1>1, <1>2 DEF BucketType
  <2>3. \A i \in Slots : bucketSec'[i] = -1 => hits'[i] = 0 /\ total'[i] = 0
    BY <1>1, <1>2, <1>3 DEF BucketType, TypeOK
  <2>4. QED
    BY <2>1, <2>2, <2>3 DEF BucketType
<1>5. SeenType'
  <2>1. /\ seen[sec].hits \in Nat /\ seen[sec].total \in Nat
        /\ seen[sec].hits <= seen[sec].total
    BY <1>2 DEF SeenType
  <2>2. seen' \in [Seconds -> [hits : Nat, total : Nat]]
    BY <1>1, <1>2, <2>1 DEF SeenType
  <2>3. \A r \in Seconds : seen'[r].hits <= seen'[r].total
    BY <1>1, <1>2, <2>1 DEF SeenType
  <2>4. QED
    BY <2>2, <2>3 DEF SeenType
<1>6. QED
  BY <1>4, <1>5

\* Of the seconds in the window that ends at the newest one, the second of the
\* span is the only one that its bucket can belong to.
LEMMA OwnBucket ==
    ASSUME newest \in Seconds, NEW sec \in Seconds, sec >= newest - Skew,
           NEW new, new = IF sec > newest THEN sec ELSE newest,
           NEW r \in Seconds, r > new - Buckets, r <= new, r # sec
    PROVE  r % Buckets # sec % Buckets
<1>1. /\ r \in Nat /\ sec \in Nat /\ newest \in Nat /\ Buckets \in Nat \ {0}
      /\ Skew \in 0..(Buckets - 1)
  BY WindowAssumption, BoundsAssumption DEF Seconds
<1>2. r - sec < Buckets /\ sec - r < Buckets
  BY <1>1
<1>3. QED
  BY <1>1, <1>2, SameBucket

\* The window of the newest second stays exact.  The bucket that is emptied for
\* the span belonged to a second that has left the window; a second that enters
\* the window was not seen, and no bucket holds it.
LEMMA SpanWindow ==
    ASSUME Inv, NEW sec \in Seconds, NEW s \in Samples, NEW preempted \in BOOLEAN,
           OnRequestComplete(sec, s, preempted)
    PROVE  WindowExact'
<1>1. PICK b \in Slots :
           /\ b = sec % Buckets /\ sec >= newest - Skew
           /\ hits' = [hits EXCEPT ![b] = (IF bucketSec[b] = sec THEN hits[b] ELSE 0) + s.h]
           /\ total' = [total EXCEPT ![b] = (IF bucketSec[b] = sec THEN total[b] ELSE 0) + s.n]
           /\ bucketSec' = [bucketSec EXCEPT ![b] = sec]
           /\ seen' = [seen EXCEPT ![sec] = [hits |-> seen[sec].hits + s.h,
                                             total |-> seen[sec].total + s.n]]
           /\ newest' = IF sec > newest THEN sec ELSE newest
  BY SpanEffect
<1>2. /\ TypeOK /\ BucketType /\ SeenType /\ FutureUnseen /\ NoFutureBucket /\ WindowExact
      /\ s.n \in Nat /\ s.h \in Nat
  BY SampleType DEF Inv
<1>3. /\ newest \in Nat /\ sec \in Nat /\ Buckets \in Nat \ {0} /\ Skew \in 0..(Buckets - 1)
      /\ newest \in Seconds
  BY <1>2, WindowAssumption, BoundsAssumption DEF Seconds, TypeOK
<1>4. SUFFICES ASSUME NEW r \in Seconds, r > newest' - Buckets, r <= newest'
               PROVE  IF bucketSec'[r % Buckets] = r
                      THEN hits'[r % Buckets] = seen'[r].hits /\ total'[r % Buckets] = seen'[r].total
                      ELSE seen'[r].total = 0
  BY DEF WindowExact
<1>5. PICK c \in Slots : c = r % Buckets
  BY BucketSlot
<1>6. r \in Nat
  BY BoundsAssumption DEF Seconds
<1>7. hits \in [Slots -> Nat] /\ total \in [Slots -> Nat] /\ bucketSec \in [Slots -> Seconds \cup {-1}]
  BY <1>2 DEF TypeOK, BucketType
<1>8. seen \in [Seconds -> [hits : Nat, total : Nat]]
  BY <1>2 DEF SeenType
<1>9. CASE r = sec
  <2>1. bucketSec'[c] = r
    BY <1>1, <1>5, <1>7, <1>9
  <2>2. seen'[r].hits = seen[sec].hits + s.h /\ seen'[r].total = seen[sec].total + s.n
    BY <1>1, <1>8, <1>9
  <2>3. /\ hits'[c] = (IF bucketSec[b] = sec THEN hits[b] ELSE 0) + s.h
        /\ total'[c] = (IF bucketSec[b] = sec THEN total[b] ELSE 0) + s.n
    BY <1>1, <1>5, <1>7, <1>9
  <2>4. IF bucketSec[b] = sec THEN hits[b] = seen[sec].hits /\ total[b] = seen[sec].total
                              ELSE seen[sec].total = 0
    <3>1. CASE sec > newest
      <4>1. seen[sec].total = 0
        BY <1>2, <3>1 DEF FutureUnseen
      <4>2. bucketSec[b] # sec
        BY <1>2, <1>3, <3>1 DEF NoFutureBucket
      <4>3. QED
        BY <4>1, <4>2
    <3>2. CASE ~(sec > newest)
      <4>1. sec > newest - Buckets /\ sec <= newest
        BY <1>1, <1>3, <3>2
      <4>2. QED
        BY <1>1, <1>2, <4>1 DEF WindowExact
    <3>3. QED
      BY <3>1, <3>2
  <2>5. seen[sec].total = 0 => seen[sec].hits = 0
    BY <1>2, <1>8 DEF SeenType
  <2>6. QED
    BY <1>5, <2>1, <2>2, <2>3, <2>4, <2>5
<1>10. CASE r # sec
  <2>1. c # b
    BY <1>1, <1>3, <1>4, <1>5, <1>10, OwnBucket
  <2>2. /\ bucketSec'[c] = bucketSec[c] /\ hits'[c] = hits[c] /\ total'[c] = total[c]
        /\ seen'[r] = seen[r]
    BY <1>1, <1>5, <1>7, <1>8, <1>10, <2>1
  <2>3. IF bucketSec[c] = r THEN hits[c] = seen[r].hits /\ total[c] = seen[r].total
                            ELSE seen[r].total = 0
    <3>1. CASE r > newest
      <4>1. seen[r].total = 0
        BY <1>2, <3>1 DEF FutureUnseen
      <4>2. bucketSec[c] # r
        BY <1>2, <1>3, <1>6, <3>1 DEF NoFutureBucket
      <4>3. QED
        BY <4>1, <4>2
    <3>2. CASE ~(r > newest)
      <4>1. r > newest - Buckets /\ r <= newest
        BY <1>1, <1>3, <1>4, <1>6, <3>2
      <4>2. QED
        BY <1>2, <1>5, <4>1 DEF WindowExact
    <3>3. QED
      BY <3>1, <3>2
  <2>4. QED
    BY <1>5, <2>2, <2>3
<1>11. QED
  BY <1>9, <1>10

\* Nothing comes after the newest second.
LEMMA SpanFuture ==
    ASSUME Inv, NEW sec \in Seconds, NEW s \in Samples, NEW preempted \in BOOLEAN,
           OnRequestComplete(sec, s, preempted)
    PROVE  FutureUnseen' /\ NoFutureBucket'
<1>1. PICK b \in Slots :
           /\ bucketSec' = [bucketSec EXCEPT ![b] = sec]
           /\ seen' = [seen EXCEPT ![sec] = [hits |-> seen[sec].hits + s.h,
                                             total |-> seen[sec].total + s.n]]
           /\ newest' = IF sec > newest THEN sec ELSE newest
  BY SpanEffect
<1>2. /\ bucketSec \in [Slots -> Seconds \cup {-1}] /\ seen \in [Seconds -> [hits : Nat, total : Nat]]
      /\ FutureUnseen /\ NoFutureBucket /\ newest \in Seconds
  BY DEF Inv, BucketType, SeenType, TypeOK
<1>3. \A r \in Seconds : r \in Nat
  BY BoundsAssumption DEF Seconds
<1>4. FutureUnseen'
  <2>1. SUFFICES ASSUME NEW r \in Seconds, r > newest' PROVE seen'[r].total = 0
    BY DEF FutureUnseen
  <2>2. r # sec /\ r > newest
    BY <1>1, <1>2, <1>3, <2>1
  <2>3. QED
    BY <1>1, <1>2, <2>2 DEF FutureUnseen
<1>5. NoFutureBucket'
  <2>1. SUFFICES ASSUME NEW i \in Slots PROVE bucketSec'[i] <= newest'
    BY DEF NoFutureBucket
  <2>2. bucketSec[i] <= newest /\ bucketSec[i] \in Int
    BY <1>2, <1>3 DEF NoFutureBucket
  <2>3. QED
    BY <1>1, <1>2, <1>3, <2>2
<1>6. QED
  BY <1>4, <1>5

\* The severity that follows from the window.
WindowSeverity == Severity(collect(hits, bucketSec, newest), collect(total, bucketSec, newest))

\* In an exact window it is that of all the samples of the last Buckets seconds:
\* each bucket in the window is matched by its second, and neither a bucket
\* without a second nor a second without a bucket has samples.
LEMMA ExactSeverity ==
    TypeOK /\ BucketType /\ SeenType /\ WindowExact => WindowSeverity = RefSeverity(newest)
<1> SUFFICES ASSUME TypeOK, BucketType, SeenType, WindowExact
             PROVE  WindowSeverity = RefSeverity(newest)
  OBVIOUS
<1> DEFINE U  == InWindow(bucketSec, newest)
           W  == {i \in U : bucketSec[i] # -1}
           V  == InLast(newest)
           h  == [s \in Seconds |-> seen[s].hits]
           n  == [s \in Seconds |-> seen[s].total]
           in == [i \in W |-> i]
           to == [i \in W |-> bucketSec[i]]
<1>1. /\ Buckets \in Nat \ {0} /\ newest \in Seconds /\ newest \in Nat
      /\ \A s \in Seconds : s \in Nat
  BY WindowAssumption, BoundsAssumption DEF TypeOK, Seconds
<1>2. /\ hits \in [Slots -> Nat] /\ total \in [Slots -> Nat]
      /\ bucketSec \in [Slots -> Seconds \cup {-1}]
      /\ seen \in [Seconds -> [hits : Nat, total : Nat]]
  BY DEF TypeOK, BucketType, SeenType
<1>3. U \subseteq Slots /\ V \subseteq Seconds /\ W \subseteq Slots
  BY DEF InWindow, InLast
<1>4. IsFiniteSet(U) /\ IsFiniteSet(V) /\ IsFiniteSet(W)
  <2>1. IsFiniteSet(Slots) /\ IsFiniteSet(Seconds)
    BY FS_Interval, <1>1, BoundsAssumption DEF Slots, Seconds
  <2>2. QED
    BY <1>3, <2>1, FS_Subset
<1>5. /\ Summable(hits, Slots, U) /\ Summable(total, Slots, U)
      /\ Summable(hits, Slots, W) /\ Summable(total, Slots, W)
  BY <1>2, <1>3, <1>4 DEF Summable
<1>6. Summable(h, Seconds, V) /\ Summable(n, Seconds, V)
  BY <1>2, <1>3, <1>4 DEF Summable
<1>7. Matched(hits, W, hits, U, in) /\ Matched(total, W, total, U, in)
  <2>1. \A i \in U : (\A j \in W : in[j] # i) => hits[i] = 0 /\ total[i] = 0
    <3>1. SUFFICES ASSUME NEW i \in U, \A j \in W : in[j] # i PROVE hits[i] = 0 /\ total[i] = 0
      OBVIOUS
    <3>2. i \in Slots /\ i \notin W
      BY <1>3, <3>1
    <3>3. bucketSec[i] = -1
      BY <3>2
    <3>4. QED
      BY <3>2, <3>3 DEF BucketType
  <2>2. in \in [W -> U] /\ \A i \in W : in[i] = i
    OBVIOUS
  <2> HIDE DEF in, W, U
  <2>3. QED
    BY <2>1, <2>2 DEF Matched
<1>8. \A i \in W : bucketSec[i] \in V /\ bucketSec[i] % Buckets = i /\ i \in Slots
  <2>1. SUFFICES ASSUME NEW i \in W
                 PROVE  bucketSec[i] \in V /\ bucketSec[i] % Buckets = i /\ i \in Slots
    OBVIOUS
  <2>2. i \in Slots /\ bucketSec[i] \in (newest - (Buckets - 1))..newest /\ bucketSec[i] # -1
    BY DEF InWindow
  <2>3. bucketSec[i] \in Seconds /\ bucketSec[i] % Buckets = i
    BY <2>2 DEF TypeOK
  <2>4. PICK r \in Seconds : r = bucketSec[i]
    BY <2>3
  <2>5. r \in V
    BY <1>1, <2>2, <2>4 DEF InLast
  <2>6. QED
    BY <2>2, <2>3, <2>4, <2>5
<1>9. ASSUME NEW s \in V
      PROVE  IF s % Buckets \in W /\ bucketSec[s % Buckets] = s
             THEN hits[s % Buckets] = seen[s].hits /\ total[s % Buckets] = seen[s].total
             ELSE seen[s].hits = 0 /\ seen[s].total = 0
  <2>1. s \in Seconds /\ s > newest - Buckets /\ s <= newest /\ s \in Nat
    BY <1>1 DEF InLast
  <2>2. IF bucketSec[s % Buckets] = s
        THEN hits[s % Buckets] = seen[s].hits /\ total[s % Buckets] = seen[s].total
        ELSE seen[s].total = 0
    BY <2>1 DEF WindowExact
  <2>3. seen[s].total = 0 => seen[s].hits = 0
    BY <1>2, <2>1 DEF SeenType
  <2>4. bucketSec[s % Buckets] = s => s % Buckets \in W
    <3>1. s % Buckets \in Slots
      BY <2>1, BucketSlot
    <3>2. s \in (newest - (Buckets - 1))..newest /\ s # -1
      BY <1>1, <2>1
    <3>3. QED
      BY <3>1, <3>2 DEF InWindow
  <2>5. QED
    BY <2>2, <2>3, <2>4
<1>10. Matched(hits, W, h, V, to) /\ Matched(total, W, n, V, to)
  <2>1. to \in [W -> V] /\ \A i \in W : to[i] = bucketSec[i]
    BY <1>8
  <2>2. \A i, j \in W : to[i] = to[j] => i = j
    BY <1>8, <2>1
  <2>3. \A i \in W : hits[i] = h[to[i]] /\ total[i] = n[to[i]]
    <3>1. SUFFICES ASSUME NEW i \in W PROVE hits[i] = h[to[i]] /\ total[i] = n[to[i]]
      OBVIOUS
    <3>2. PICK s \in V : s = bucketSec[i] /\ s % Buckets = i
      BY <1>8
    <3>3. hits[i] = seen[s].hits /\ total[i] = seen[s].total
      BY <1>9, <3>2
    <3>4. s \in Seconds /\ to[i] = s
      BY <1>3, <3>2
    <3>5. QED
      BY <3>3, <3>4
  <2>4. \A s \in V : (\A i \in W : to[i] # s) => h[s] = 0 /\ n[s] = 0
    <3>1. SUFFICES ASSUME NEW s \in V, \A i \in W : to[i] # s PROVE h[s] = 0 /\ n[s] = 0
      OBVIOUS
    <3>2. ~(s % Buckets \in W /\ bucketSec[s % Buckets] = s)
      BY <2>1, <3>1
    <3>3. seen[s].hits = 0 /\ seen[s].total = 0
      BY <1>9, <3>2
    <3>4. QED
      BY <1>3, <3>3
  <2> HIDE DEF to, W, V, h, n
  <2>5. QED
    BY <2>1, <2>2, <2>3, <2>4 DEF Matched
<1> HIDE DEF U, V, W, h, n, in, to
<1>11. /\ SumFunctionOnSet(hits, W) = SumFunctionOnSet(hits, U)
       /\ SumFunctionOnSet(total, W) = SumFunctionOnSet(total, U)
  BY <1>5, <1>7, SumMatched
<1>12. /\ SumFunctionOnSet(hits, W) = SumFunctionOnSet(h, V)
       /\ SumFunctionOnSet(total, W) = SumFunctionOnSet(n, V)
  BY <1>5, <1>6, <1>10, SumMatched
<1>13. WindowSeverity = Severity(SumFunctionOnSet(hits, U), SumFunctionOnSet(total, U))
  BY Zenon DEF WindowSeverity, collect, U
<1>14. RefSeverity(newest) = Severity(SumFunctionOnSet(h, V), SumFunctionOnSet(n, V))
  BY Zenon DEF RefSeverity, h, n, V
<1>15. QED
  BY <1>11, <1>12, <1>13, <1>14

\* What a span does to the severities; now is the severity it is judged with.
LEMMA SpanVerdict ==
    ASSUME Inv, NEW sec \in Seconds, NEW s \in Samples, NEW preempted \in BOOLEAN,
           OnRequestComplete(sec, s, preempted)
    PROVE  \E now \in {"none", "mild", "severe"} :
             /\ now = Severity(collect(hits', bucketSec', sec), collect(total', bucketSec', sec))
             /\ preempted => lastSev' = lastSev /\ announced' = announced
             /\ ~preempted =>
                  /\ lastSev' = now
                  /\ announced' = IF shouldEmitTransition(lastSev, now) THEN now
                                  ELSE IF now = None THEN None ELSE announced
<1>1. PICK now : now = Severity(collect(hits', bucketSec', sec), collect(total', bucketSec', sec))
  OBVIOUS
<1>2. now \in {"none", "mild", "severe"}
  BY <1>1, SeverityType
<1>3. preempted => lastSev' = lastSev /\ announced' = announced
  BY DEF OnRequestComplete
<1>4. ~preempted => /\ lastSev' = now
                    /\ announced' = IF shouldEmitTransition(lastSev, now) THEN now
                                    ELSE IF now = None THEN None ELSE announced
  BY <1>1, Zenon DEF OnRequestComplete
<1>5. QED
  BY <1>1, <1>2, <1>3, <1>4

\* A severity that is not announced is not above the one before.
LEMMA SpanAnnounced ==
    ASSUME Inv, NEW sec \in Seconds, NEW s \in Samples, NEW preempted \in BOOLEAN,
           OnRequestComplete(sec, s, preempted)
    PROVE  /\ lastSev' \in DOMAIN Rank /\ announced' \in DOMAIN Rank
           /\ RaisedIsAnnounced'
<1>1. PICK now \in {"none", "mild", "severe"} :
           /\ preempted => lastSev' = lastSev /\ announced' = announced
           /\ ~preempted =>
                /\ lastSev' = now
                /\ announced' = IF shouldEmitTransition(lastSev, now) THEN now
                                ELSE IF now = None THEN None ELSE announced
  BY SpanVerdict
<1>2. lastSev \in {"none", "mild", "severe"} /\ announced \in {"none", "mild", "severe"}
  BY RankValues DEF Inv, TypeOK
<1>3. Rank[lastSev] <= Rank[announced]
  BY DEF Inv, RaisedIsAnnounced
<1>4. CASE preempted
  BY <1>1, <1>2, <1>3, <1>4, RankValues DEF RaisedIsAnnounced
<1>5. CASE ~preempted
  <2>1. lastSev' \in {"none", "mild", "severe"} /\ announced' \in {"none", "mild", "severe"}
    BY <1>1, <1>2, <1>5 DEF None
  <2>2. Rank[lastSev'] <= Rank[announced']
    <3>1. CASE shouldEmitTransition(lastSev, now)
      BY <1>1, <1>5, <3>1, RankValues
    <3>2. CASE ~shouldEmitTransition(lastSev, now)
      BY <1>1, <1>2, <1>3, <1>5, <3>2, RankValues DEF shouldEmitTransition, None
    <3>3. QED
      BY <3>1, <3>2
  <2>3. QED
    BY <2>1, <2>2, RankValues DEF RaisedIsAnnounced
<1>6. QED
  BY <1>4, <1>5

\* A span keeps the whole of TypeOK.
LEMMA SpanTypeOK ==
    ASSUME Inv, NEW sec \in Seconds, NEW s \in Samples, NEW preempted \in BOOLEAN,
           OnRequestComplete(sec, s, preempted)
    PROVE  TypeOK'
<1>1. PICK b \in Slots :
           /\ b = sec % Buckets
           /\ hits' = [hits EXCEPT ![b] = (IF bucketSec[b] = sec THEN hits[b] ELSE 0) + s.h]
           /\ total' = [total EXCEPT ![b] = (IF bucketSec[b] = sec THEN total[b] ELSE 0) + s.n]
           /\ bucketSec' = [bucketSec EXCEPT ![b] = sec]
           /\ at' = sec
           /\ newest' = IF sec > newest THEN sec ELSE newest
           /\ judged' = ~preempted
  BY SpanEffect
<1>2. hits' \in [Slots -> Nat] /\ total' \in [Slots -> Nat]
  BY SpanTypes
<1>3. /\ hits \in [Slots -> Nat] /\ total \in [Slots -> Nat]
      /\ bucketSec \in [Slots -> Seconds \cup {-1}] /\ newest \in Seconds
      /\ s.n \in Nat /\ s.h \in Nat /\ s.h <= s.n
      /\ \A i \in Slots : hits[i] <= total[i]
      /\ \A i \in Slots : bucketSec[i] = -1 \/ (bucketSec[i] \in Seconds /\ bucketSec[i] % Buckets = i)
  BY SampleType DEF Inv, TypeOK, BucketType
<1>4. \A i \in Slots : hits'[i] <= total'[i]
  BY <1>1, <1>3
<1>5. \A i \in Slots : bucketSec'[i] = -1 \/ (bucketSec'[i] \in Seconds /\ bucketSec'[i] % Buckets = i)
  <2>1. SUFFICES ASSUME NEW i \in Slots
                 PROVE  bucketSec'[i] = -1 \/ (bucketSec'[i] \in Seconds /\ bucketSec'[i] % Buckets = i)
    OBVIOUS
  <2>2. bucketSec'[i] = IF i = b THEN sec ELSE bucketSec[i]
    BY <1>1, <1>3
  <2>3. QED
    BY <1>1, <1>3, <2>2, Zenon
<1>6. at' \in Seconds /\ newest' \in Seconds
  BY <1>1, <1>3
<1>7. judged' \in BOOLEAN
  BY <1>1, Zenon
<1>8. QED
  BY <1>2, <1>4, <1>5, <1>6, <1>7, SpanAnnounced DEF TypeOK

\* A span that is judged and not late is judged with the whole window.
LEMMA SpanSeverity ==
    ASSUME Inv, NEW sec \in Seconds, NEW s \in Samples, NEW preempted \in BOOLEAN,
           OnRequestComplete(sec, s, preempted)
    PROVE  SeverityExact'
<1>1. SUFFICES ASSUME judged', at' = newest' PROVE lastSev' = RefSeverity(newest)'
  BY Zenon DEF SeverityExact
<1>2. at' = sec /\ judged' = ~preempted
  BY SpanEffect
<1>3. ~preempted /\ sec = newest'
  BY <1>1, <1>2, Zenon
<1>4. lastSev' = Severity(collect(hits', bucketSec', sec), collect(total', bucketSec', sec))
  BY <1>3, SpanVerdict
<1>5. lastSev' = WindowSeverity'
  BY <1>3, <1>4 DEF WindowSeverity
<1>6. (TypeOK /\ BucketType /\ SeenType /\ WindowExact)' => (WindowSeverity = RefSeverity(newest))'
  BY ExactSeverity, PTL
<1>7. TypeOK' /\ BucketType' /\ SeenType' /\ WindowExact'
  BY SpanTypeOK, SpanTypes, SpanWindow
<1>8. QED
  BY <1>5, <1>6, <1>7, Zenon

\* A span keeps the invariant.
LEMMA SpanKeepsInv ==
    ASSUME Inv, NEW sec \in Seconds, NEW s \in Samples, NEW preempted \in BOOLEAN,
           OnRequestComplete(sec, s, preempted)
    PROVE  Inv'
BY SpanTypeOK, SpanTypes, SpanFuture, SpanWindow, SpanAnnounced, SpanSeverity DEF Inv

\* Zeros add up to zero.
LEMMA SumOfZeros ==
    ASSUME NEW E, NEW g, NEW V, Summable(g, E, V), \A v \in V : g[v] = 0
    PROVE  SumFunctionOnSet(g, V) = 0
<1>1. Summable(g, E, {})
  BY FS_EmptySet DEF Summable
<1>2. Matched(g, {}, g, V, [i \in {} |-> i])
  BY DEF Matched
<1>3. SumFunctionOnSet(g, {}) = SumFunctionOnSet(g, V)
  BY <1>1, <1>2, SumMatched
<1>4. PICK F : Sums(F, g, SUBSET {}) /\ SumFunctionOnSet(g, {}) = F[{}]
  BY <1>1, SumIsSums
<1>5. F[{}] = 0
  BY <1>4 DEF Sums, TakesApart
<1>6. QED
  BY <1>3, <1>4, <1>5

\* The invariant holds before the first span: the window is empty and so is the
\* history, of which the severity is none.
LEMMA InitInv == Init => Inv
<1> SUFFICES ASSUME Init PROVE Inv
  OBVIOUS
<1>1. /\ \A i \in Slots : hits[i] = 0 /\ total[i] = 0 /\ bucketSec[i] = -1
      /\ \A r \in Seconds : seen[r] = [hits |-> 0, total |-> 0]
      /\ at = 0 /\ newest = 0
      /\ lastSev = "none" /\ announced = "none"
  BY DEF Init, None
<1>2. judged \in BOOLEAN
  BY Zenon DEF Init
<1>3. 0 \in Seconds
  BY BoundsAssumption DEF Seconds
<1>4. hits \in [Slots -> Nat] /\ total \in [Slots -> Nat]
  BY DEF Init
<1>5. TypeOK
  BY <1>1, <1>2, <1>3, <1>4, RankValues DEF TypeOK
<1>6. BucketType /\ SeenType
  BY <1>1 DEF BucketType, SeenType, Init
<1>7. FutureUnseen /\ NoFutureBucket
  BY <1>1 DEF FutureUnseen, NoFutureBucket
<1>8. WindowExact
  BY <1>1, BucketSlot DEF WindowExact
<1>9. RaisedIsAnnounced
  BY <1>1, RankValues DEF RaisedIsAnnounced
<1>10. SeverityExact
  <2> DEFINE n == [r \in Seconds |-> seen[r].total]
             V == InLast(newest)
  <2>1. Summable(n, Seconds, V)
    <3>1. n \in [Seconds -> Int]
      BY <1>1
    <3>2. V \subseteq Seconds /\ IsFiniteSet(Seconds)
      BY FS_Interval, BoundsAssumption DEF InLast, Seconds
    <3>3. QED
      BY <3>1, <3>2, FS_Subset DEF Summable
  <2>2. \A v \in V : n[v] = 0
    BY <1>1 DEF InLast
  <2> HIDE DEF n, V
  <2>3. SumFunctionOnSet(n, V) = 0
    BY <2>1, <2>2, SumOfZeros
  <2>4. RefSeverity(newest) = Severity(SumFunctionOnSet([r \in Seconds |-> seen[r].hits], V),
                                      SumFunctionOnSet(n, V))
    BY Zenon DEF RefSeverity, n, V
  <2>5. 0 < MinSamples
    BY RatesAssumption
  <2>6. RefSeverity(newest) = None
    BY <2>3, <2>4, <2>5 DEF Severity
  <2>7. QED
    BY <1>1, <2>6 DEF SeverityExact, None
<1>11. QED
  BY <1>5, <1>6, <1>7, <1>8, <1>9, <1>10 DEF Inv

\* The invariant is inductive.
THEOREM TriggerInvariant == Spec => []Inv
<1>1. Init => Inv
  BY InitInv
<1>2. Inv /\ [Next]_vars => Inv'
  <2>1. SUFFICES ASSUME Inv, [Next]_vars PROVE Inv'
    OBVIOUS
  <2>2. CASE Next
    BY <2>1, <2>2, SpanKeepsInv DEF Next
  <2>3. CASE UNCHANGED vars
    <3>1. UNCHANGED <<hits, total, bucketSec, lastSev, seen, at, newest, judged, announced>>
      BY <2>3 DEF vars
    <3>2. TypeOK' /\ BucketType' /\ SeenType'
      BY <2>1, <3>1 DEF Inv, TypeOK, BucketType, SeenType
    <3>3. FutureUnseen' /\ NoFutureBucket' /\ WindowExact' /\ RaisedIsAnnounced'
      BY <2>1, <3>1 DEF Inv, FutureUnseen, NoFutureBucket, WindowExact, RaisedIsAnnounced
    <3>4. RefSeverity(newest)' = RefSeverity(newest)
      BY <3>1 DEF RefSeverity, InLast
    <3>5. SeverityExact'
      BY <2>1, <3>1, <3>4 DEF Inv, SeverityExact
    <3>6. QED
      BY <3>2, <3>3, <3>5 DEF Inv
  <2>4. QED
    BY <2>1, <2>2, <2>3
<1>3. QED
  BY <1>1, <1>2, PTL DEF Spec

\* Every bucket keeps its types, no more hits than samples, and a second of its
\* own.
THEOREM TriggerTypes == Spec => []TypeOK
<1>1. Inv => TypeOK
  BY DEF Inv
<1>2. QED
  BY <1>1, TriggerInvariant, PTL

\* The window holds every sample of the last Buckets seconds and nothing else,
\* for every number of buckets and every skew below it.
THEOREM WindowIsExact == Spec => []WindowExact
<1>1. Inv => WindowExact
  BY DEF Inv
<1>2. QED
  BY <1>1, TriggerInvariant, PTL

\* A span that is judged and not late gets the severity of exactly the samples
\* of the last Buckets seconds.
THEOREM SeverityIsExact == Spec => []SeverityExact
<1>1. Inv => SeverityExact
  BY DEF Inv
<1>2. QED
  BY <1>1, TriggerInvariant, PTL

\* No severity is entered without a reason of that severity or a higher one.
THEOREM NoSilentRaise == Spec => []RaisedIsAnnounced
<1>1. Inv => RaisedIsAnnounced
  BY DEF Inv
<1>2. QED
  BY <1>1, TriggerInvariant, PTL
=============================================================================
