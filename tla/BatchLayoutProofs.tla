-------------------------- MODULE BatchLayoutProofs --------------------------
(***************************************************************************)
(* Lemmas about the operators of BatchLayout, for any requests, ranks and  *)
(* paddings: what they enumerate, where they put it and what they add up.  *)
(***************************************************************************)
EXTENDS BatchLayout, FiniteSetTheorems, FunctionTheorems, SequenceTheorems,
        TLAPS

\* A sequence, whatever its elements are.
IsSeq(s) == s \in Seq(ToSet(s))

\* A batch has each of its requests in one row.
IsBatch(b) ==
  /\ b \in Seq(Req)
  /\ \A i, j \in DOMAIN b : b[i] = b[j] => i = j

-----------------------------------------------------------------------------
(* Numbers.                                                                *)

\* A set of naturals that is not empty has a least element.
LEMMA NatLeast ==
  ASSUME NEW T \in SUBSET Nat, T # {}
  PROVE  \E x \in T : \A y \in T : x <= y
  <1>1. IsWellFoundedOn(OpToRel(<, Nat), Nat)
    BY NatLessThanWellFounded
  <1>2. PICK x \in T : \A y \in T : ~ (<<y, x>> \in OpToRel(<, Nat))
    BY <1>1, WFMin
  <1>3. \A y \in T : x <= y
    <2> SUFFICES ASSUME NEW y \in T, ~ (x <= y) PROVE FALSE
      OBVIOUS
    <2>1. y < x /\ y \in Nat /\ x \in Nat
      OBVIOUS
    <2>2. <<y, x>> \in {ss \in Nat \X Nat : ss[1] < ss[2]}
      BY <2>1
    <2>3. <<y, x>> \in OpToRel(<, Nat)
      BY <2>2 DEF OpToRel
    <2> QED
      BY <1>2, <2>3
  <1> QED
    BY <1>3

\* A set of naturals that holds n whenever it holds all numbers below n.
LEMMA NatAll ==
  ASSUME NEW T,
         \A n \in Nat : (\A m \in Nat : m < n => m \in T) => n \in T
  PROVE  Nat \subseteq T
  <1> SUFFICES ASSUME Nat \ T # {} PROVE FALSE
    OBVIOUS
  <1>1. PICK n \in Nat \ T : \A m \in Nat \ T : n <= m
    BY NatLeast
  <1>2. \A m \in Nat : m < n => m \in T
    BY <1>1
  <1> QED
    BY <1>2

\* The least and the greatest of a set of numbers, as Min() and Max() choose.
LEMMA MinIs ==
  ASSUME NEW S \in SUBSET Nat, S # {}
  PROVE  Min(S) \in S /\ \A y \in S : Min(S) <= y
  <1>1. \E x \in S : \A y \in S : x <= y
    BY NatLeast
  <1> QED
    BY <1>1 DEF Min

\* Max() chooses from a set of naturals that has a bound.
LEMMA MaxIs ==
  ASSUME NEW S \in SUBSET Nat, S # {}, NEW n \in Nat, \A x \in S : x <= n
  PROVE  Max(S) \in S /\ \A y \in S : Max(S) >= y
  <1> DEFINE T == {n - x : x \in S}
  <1>1. T \in SUBSET Nat /\ T # {}
    <2>1. \A x \in S : n - x \in Nat
      OBVIOUS
    <2>2. PICK x \in S : TRUE
      OBVIOUS
    <2> QED
      BY <2>1, <2>2
  <1>2. PICK t \in T : \A u \in T : t <= u
    BY <1>1, NatLeast
  <1>3. PICK x \in S : t = n - x
    BY <1>2
  <1>4. \A y \in S : x >= y
    <2> SUFFICES ASSUME NEW y \in S PROVE x >= y
      OBVIOUS
    <2>1. n - y \in T
      OBVIOUS
    <2>2. n - x <= n - y
      BY <1>2, <1>3, <2>1
    <2> QED
      BY <2>2
  <1> QED
    BY <1>4 DEF Max

-----------------------------------------------------------------------------
(* The layout of a batch.                                                  *)

\* How many numbers of S are less than i.
Below(S, i) == Cardinality({j \in S : j < i})

\* A number of a finite set has fewer below it than the set has members,
\* and a greater number has more.
LEMMA BelowFacts ==
  ASSUME NEW S \in SUBSET Nat, IsFiniteSet(S)
  PROVE  /\ Cardinality(S) \in Nat
         /\ \A i \in S : Below(S, i) \in 0 .. Cardinality(S) - 1
         /\ \A i, j \in S : i < j => Below(S, i) < Below(S, j)
  <1>1. Cardinality(S) \in Nat
    BY FS_CardinalityType
  <1>2. ASSUME NEW i \in S
        PROVE  /\ IsFiniteSet({j \in S : j < i})
               /\ Below(S, i) \in 0 .. Cardinality(S) - 1
    <2>1. {j \in S : j < i} \in SUBSET (S \ {i})
      OBVIOUS
    <2>2. /\ IsFiniteSet(S \ {i})
          /\ Cardinality(S \ {i}) = Cardinality(S) - 1
      BY FS_RemoveElement
    <2>3. /\ IsFiniteSet({j \in S : j < i})
          /\ Cardinality({j \in S : j < i}) <= Cardinality(S) - 1
      BY <2>1, <2>2, FS_Subset
    <2>4. Cardinality({j \in S : j < i}) \in Nat
      BY <2>3, FS_CardinalityType
    <2> QED
      BY <1>1, <2>3, <2>4 DEF Below
  <1>3. ASSUME NEW i \in S, NEW j \in S, i < j
        PROVE  Below(S, i) < Below(S, j)
    <2> DEFINE A == {k \in S : k < i}
               B == {k \in S : k < j}
    <2>1. IsFiniteSet(A) /\ IsFiniteSet(B)
      BY <1>2
    <2>2. i \notin A /\ A \cup {i} \in SUBSET B
      <3>1. i \in Nat /\ j \in Nat /\ ~ (i < i)
        OBVIOUS
      <3>2. \A k \in S : k < i => k < j
        BY <1>3, <3>1
      <3> QED
        BY <1>3, <3>1, <3>2
    <2>3. Cardinality(A \cup {i}) = Cardinality(A) + 1
      BY <2>1, <2>2, FS_AddElement
    <2>4. Cardinality(A \cup {i}) <= Cardinality(B)
      BY <2>1, <2>2, FS_Subset
    <2>5. Below(S, i) = Cardinality(A) /\ Below(S, j) = Cardinality(B)
      BY DEF Below
    <2>6. Cardinality(A) \in Nat /\ Cardinality(B) \in Nat
      BY <2>1, FS_CardinalityType
    <2> HIDE DEF A, B
    <2> QED
      BY <2>3, <2>4, <2>5, <2>6
  <1> QED
    BY <1>1, <1>2, <1>3

\* Nth() enumerates a finite set in ascending order.
LEMMA NthIs ==
  ASSUME NEW S \in SUBSET Nat, IsFiniteSet(S)
  PROVE  /\ \A k \in 1 .. Cardinality(S) :
              Nth(S, k) \in S /\ Below(S, Nth(S, k)) = k - 1
         /\ \A i \in S : Nth(S, Below(S, i) + 1) = i
  <1> DEFINE m == Cardinality(S)
             f == [i \in S |-> Below(S, i) + 1]
  <1>1. /\ m \in Nat
        /\ \A i \in S : Below(S, i) \in 0 .. m - 1
        /\ \A i, j \in S : i < j => Below(S, i) < Below(S, j)
    BY BelowFacts
  <1> HIDE DEF m
  <1>2. f \in [S -> 1 .. m]
    BY <1>1
  <1>3. ASSUME NEW i \in S, NEW j \in S, f[i] = f[j] PROVE i = j
    <2>1. ~ (i < j) /\ ~ (j < i)
      BY <1>1, <1>3
    <2> QED
      BY <2>1
  <1>4. f \in Injection(S, 1 .. m)
    BY <1>2, <1>3, Fun_IsInj
  <1>5. IsFiniteSet(1 .. m) /\ Cardinality(1 .. m) = m
    BY <1>1, FS_Interval
  <1>6. f \in Surjection(S, 1 .. m)
    BY <1>4, <1>5, FS_Injection DEF m
  <1> HIDE DEF f
  <1>7. \A k \in 1 .. m : \E i \in S : f[i] = k
    BY <1>6, Fun_SurjectionProperties
  <1> USE DEF f
  <1>8. \A k \in 1 .. m : \E i \in S : Below(S, i) = k - 1
    <2> SUFFICES ASSUME NEW k \in 1 .. m PROVE \E i \in S : Below(S, i) = k - 1
      OBVIOUS
    <2>1. PICK i \in S : f[i] = k
      BY <1>7
    <2> QED
      BY <1>1, <2>1
  <1>9. ASSUME NEW k \in 1 .. m
        PROVE  Nth(S, k) \in S /\ Below(S, Nth(S, k)) = k - 1
    BY <1>8 DEF Nth, Below
  <1>10. ASSUME NEW i \in S
         PROVE  Nth(S, Below(S, i) + 1) = i
    <2>1. Below(S, i) + 1 \in 1 .. m /\ (Below(S, i) + 1) - 1 = Below(S, i)
      BY <1>1
    <2>2. /\ Nth(S, Below(S, i) + 1) \in S
          /\ Below(S, Nth(S, Below(S, i) + 1)) = Below(S, i)
      BY <1>9, <2>1
    <2> QED
      BY <1>1, <1>3, <2>2
  <1> QED
    BY <1>9, <1>10 DEF m

\* Indices() lists the rows of a rank, each once, and OnRank() their requests.
LEMMA IndicesFacts ==
  ASSUME NEW b, IsBatch(b), NEW d
  PROVE  /\ DOMAIN Indices(b, d) = 1 .. Len(OnRank(b, d))
         /\ DOMAIN OnRank(b, d) = 1 .. Len(OnRank(b, d))
         /\ Len(OnRank(b, d)) \in 0 .. Cardinality(Req)
         /\ \A k \in DOMAIN Indices(b, d) :
              /\ Indices(b, d)[k] \in DOMAIN b
              /\ Rank[b[Indices(b, d)[k]]] = d
              /\ OnRank(b, d)[k] = b[Indices(b, d)[k]]
         /\ \A i \in DOMAIN b : Rank[b[i]] = d =>
              \E k \in DOMAIN Indices(b, d) : Indices(b, d)[k] = i
  <1> DEFINE at == {i \in DOMAIN b : Rank[b[i]] = d}
             m == Cardinality(at)
  <1>1. /\ b \in Seq(Req) /\ DOMAIN b = 1 .. Len(b) /\ Len(b) \in Nat
        /\ IsFiniteSet(DOMAIN b)
    BY FS_Interval DEF IsBatch
  <1>2. at \in SUBSET DOMAIN b /\ at \in SUBSET Nat /\ IsFiniteSet(at)
    <2>1. at \in SUBSET DOMAIN b
      OBVIOUS
    <2>2. DOMAIN b \in SUBSET Nat
      BY <1>1
    <2> HIDE DEF at
    <2> QED
      BY <1>1, <2>1, <2>2, FS_Subset
  <1>3. m \in Nat /\ m <= Cardinality(Req)
    <2>1. [i \in at |-> b[i]] \in [at -> Req]
      BY <1>1
    <2>2. \A i, j \in at : [k \in at |-> b[k]][i] = [k \in at |-> b[k]][j]
                             => i = j
      BY DEF IsBatch
    <2> HIDE DEF at
    <2>3. [i \in at |-> b[i]] \in Injection(at, Req)
      BY <2>1, <2>2, Fun_IsInj
    <2>4. IsFiniteSet(Req)
      BY LayoutAssumption
    <2> QED
      BY <1>2, <2>3, <2>4, FS_Injection, FS_CardinalityType
  <1>4. /\ \A k \in 1 .. m : Nth(at, k) \in at
        /\ \A i \in at : Nth(at, Below(at, i) + 1) = i
        /\ \A i \in at : Below(at, i) \in 0 .. m - 1
    <2> HIDE DEF at
    <2> QED
      BY <1>2, NthIs, BelowFacts
  <1>5. Indices(b, d) = [k \in 1 .. m |-> Nth(at, k)]
    BY DEF Indices
  <1>6. OnRank(b, d) = [k \in 1 .. m |-> b[Nth(at, k)]]
    <2> HIDE DEF at, m
    <2> QED
      BY <1>5 DEF OnRank
  <1>7. Len(OnRank(b, d)) = m
    <2> HIDE DEF at, m
    <2> QED
      BY <1>3, <1>6
  <1>8. ASSUME NEW i \in DOMAIN b, Rank[b[i]] = d
        PROVE  \E k \in DOMAIN Indices(b, d) : Indices(b, d)[k] = i
    <2>1. i \in at
      BY <1>8
    <2> HIDE DEF at, m
    <2>2. Below(at, i) + 1 \in 1 .. m
      BY <1>3, <1>4, <2>1
    <2> QED
      BY <1>4, <1>5, <2>1, <2>2
  <1>9. \A k \in 1 .. m : Nth(at, k) \in DOMAIN b /\ Rank[b[Nth(at, k)]] = d
    BY <1>4
  <1> HIDE DEF at, m
  <1> QED
    BY <1>3, <1>5, <1>6, <1>7, <1>8, <1>9

\* It lists no row twice.
LEMMA IndicesOnce ==
  ASSUME NEW b, IsBatch(b), NEW d
  PROVE  \A k, l \in DOMAIN Indices(b, d) :
           Indices(b, d)[k] = Indices(b, d)[l] => k = l
  <1> DEFINE at == {i \in DOMAIN b : Rank[b[i]] = d}
             m == Cardinality(at)
  <1>1. DOMAIN b = 1 .. Len(b) /\ Len(b) \in Nat
    BY DEF IsBatch
  <1>2. IsFiniteSet(DOMAIN b) /\ DOMAIN b \in SUBSET Nat
    BY <1>1, FS_Interval
  <1>3. at \in SUBSET Nat /\ IsFiniteSet(at)
    <2>1. at \in SUBSET DOMAIN b
      OBVIOUS
    <2> HIDE DEF at
    <2> QED
      BY <1>2, <2>1, FS_Subset
  <1>4. m \in Nat
    BY <1>3, FS_CardinalityType
  <1>5. Indices(b, d) = [k \in 1 .. m |-> Nth(at, k)]
    BY DEF Indices
  <1> HIDE DEF at
  <1>6. \A k \in 1 .. m : Below(at, Nth(at, k)) = k - 1
    BY <1>3, NthIs
  <1> HIDE DEF m
  <1>7. \A k, l \in 1 .. m : Nth(at, k) = Nth(at, l) => k = l
    <2> SUFFICES ASSUME NEW k \in 1 .. m, NEW l \in 1 .. m,
                        Nth(at, k) = Nth(at, l)
                 PROVE  k = l
      OBVIOUS
    <2>1. k - 1 = l - 1
      BY <1>6
    <2> QED
      BY <1>4, <2>1
  <1> QED
    BY <1>5, <1>7

\* A rank's share of next_tokens has room for its requests.
LEMMA PaddedReqsFacts ==
  ASSUME NEW b, IsBatch(b)
  PROVE  /\ PaddedReqs(b) \in Nat \ {0}
         /\ \A d \in 0 .. DP - 1 : Len(OnRank(b, d)) <= PaddedReqs(b)
  <1> DEFINE S == {Len(OnRank(b, d)) : d \in 0 .. DP - 1}
             n == Cardinality(Req)
  <1>1. n \in Nat
    BY LayoutAssumption, FS_CardinalityType
  <1>2. S \in SUBSET Nat /\ \A x \in S : x <= n
    BY IndicesFacts
  <1>3. S # {}
    <2>1. 0 \in 0 .. DP - 1
      BY LayoutAssumption
    <2> QED
      BY <2>1
  <1> HIDE DEF n
  <1>4. /\ Max(S) \in S /\ Max(S) \in Nat /\ Max(S) <= n
        /\ \A y \in S : Max(S) >= y
    <2> HIDE DEF S
    <2> QED
      BY <1>1, <1>2, <1>3, MaxIs
  <1>5. PICK x \in Nat : x = Max(S)
    BY <1>4
  <1>6. /\ {p \in Paddings : p >= x} \in SUBSET Nat
        /\ {p \in Paddings : p >= x} # {}
    <2>1. PICK p \in Paddings : p >= n
      BY LayoutAssumption DEF n
    <2>2. Paddings \in SUBSET Nat
      BY LayoutAssumption
    <2> HIDE DEF S
    <2>3. p >= x
      BY <1>1, <1>4, <1>5, <2>1, <2>2
    <2> QED
      BY <2>1, <2>2, <2>3
  <1>7. PaddedLen(x) \in Paddings /\ PaddedLen(x) >= x
    BY <1>6, MinIs DEF PaddedLen
  <1>8. PaddedReqs(b) = PaddedLen(x)
    BY <1>5 DEF PaddedReqs
  <1>9. \A d \in 0 .. DP - 1 : Len(OnRank(b, d)) \in S
    OBVIOUS
  <1>10. PaddedLen(x) \in Nat \ {0}
    BY <1>7, LayoutAssumption
  <1>11. ASSUME NEW d \in 0 .. DP - 1
         PROVE  Len(OnRank(b, d)) <= PaddedLen(x)
    <2>1. PICK y \in Nat : y = Len(OnRank(b, d)) /\ y \in S
      BY <1>2, <1>9
    <2> HIDE DEF S
    <2>2. y <= x
      BY <1>4, <1>5, <2>1
    <2> QED
      BY <1>7, <1>10, <2>1, <2>2
  <1> QED
    BY <1>8, <1>10, <1>11

\* The place of a request lies in the share of its rank.
LEMMA PlacesFacts ==
  ASSUME NEW b, IsBatch(b), NEW w \in Nat, NEW i \in DOMAIN b
  PROVE  \E d \in 0 .. DP - 1 : \E k \in 1 .. Len(OnRank(b, d)) :
           Places(b, w)[i] = k - 1 + w * d
  <1> DEFINE placed == UNION {{<<Indices(b, d)[k], k - 1 + w * d>> :
                         k \in DOMAIN Indices(b, d)} : d \in 0 .. DP - 1}
  <1>1. b[i] \in Req /\ Rank[b[i]] \in 0 .. DP - 1
    BY LayoutAssumption DEF IsBatch
  <1>2. PICK k \in DOMAIN Indices(b, Rank[b[i]]) :
          Indices(b, Rank[b[i]])[k] = i
    BY IndicesFacts
  <1>3. <<i, k - 1 + w * Rank[b[i]]>> \in placed
    BY <1>1, <1>2
  <1>4. \E p \in placed : p[1] = i
    BY <1>3
  <1>5. PICK p \in placed : p = CHOOSE q \in placed : q[1] = i
    BY <1>4
  <1>6. Places(b, w)[i] = p[2]
    <2>1. Places(b, w)
            = [j \in DOMAIN b |-> (CHOOSE q \in placed : q[1] = j)[2]]
      BY DEF Places
    <2> HIDE DEF placed
    <2> QED
      BY <1>5, <2>1
  <1>7. PICK d \in 0 .. DP - 1 : \E l \in DOMAIN Indices(b, d) :
          p = <<Indices(b, d)[l], l - 1 + w * d>>
    OBVIOUS
  <1>8. PICK l \in DOMAIN Indices(b, d) :
          p = <<Indices(b, d)[l], l - 1 + w * d>>
    BY <1>7
  <1>9. l \in 1 .. Len(OnRank(b, d)) /\ p[2] = l - 1 + w * d
    BY <1>8, IndicesFacts
  <1> QED
    BY <1>6, <1>9

-----------------------------------------------------------------------------
(* Sums over finite sets: the fold picks the elements in an order of its   *)
(* own, and the sum is the same in any.                                    *)

\* What the fold computes for the subsets of U.
IsFold(U, f, g) ==
  g = [s \in SUBSET U |->
        IF s = {} THEN 0
        ELSE f[CHOOSE x \in s : TRUE] + g[s \ {CHOOSE x \in s : TRUE}]]

\* A property of finite sets that a set has if every smaller one does.
LEMMA FiniteAll ==
  ASSUME NEW U, IsFiniteSet(U), NEW G,
         \A s \in SUBSET U :
           (\A t \in SUBSET U : Cardinality(t) < Cardinality(s) => t \in G)
             => s \in G
  PROVE  \A s \in SUBSET U : s \in G
  <1> DEFINE T == {n \in Nat :
                    \A s \in SUBSET U : Cardinality(s) = n => s \in G}
  <1>1. \A s \in SUBSET U : Cardinality(s) \in Nat
    BY FS_Subset, FS_CardinalityType
  <1>2. ASSUME NEW n \in Nat, \A m \in Nat : m < n => m \in T
        PROVE  n \in T
    <2> SUFFICES ASSUME NEW s \in SUBSET U, Cardinality(s) = n PROVE s \in G
      OBVIOUS
    <2>1. \A t \in SUBSET U : Cardinality(t) < Cardinality(s) => t \in G
      BY <1>1, <1>2
    <2> QED
      BY <2>1
  <1>3. Nat \subseteq T
    <2> HIDE DEF T
    <2> QED
      BY <1>2, NatAll
  <1> QED
    BY <1>1, <1>3

\* Without one of its elements a set is smaller.
LEMMA Smaller ==
  ASSUME NEW U, IsFiniteSet(U), NEW s \in SUBSET U, NEW x \in s
  PROVE  /\ s \ {x} \in SUBSET U
         /\ Cardinality(s) \in Nat /\ Cardinality(s \ {x}) \in Nat
         /\ Cardinality(s \ {x}) = Cardinality(s) - 1
         /\ Cardinality(s \ {x}) < Cardinality(s)
  <1>1. IsFiniteSet(s)
    BY FS_Subset
  <1>2. /\ Cardinality(s) \in Nat
        /\ IsFiniteSet(s \ {x})
        /\ Cardinality(s \ {x}) = Cardinality(s) - 1
    BY <1>1, FS_RemoveElement, FS_CardinalityType
  <1>3. Cardinality(s \ {x}) \in Nat
    BY <1>2, FS_CardinalityType
  <1> QED
    BY <1>2, <1>3

\* The recursion of the fold has a solution.
LEMMA FoldExists ==
  ASSUME NEW U, IsFiniteSet(U), NEW f
  PROVE  \E g : IsFold(U, f, g)
  <1> DEFINE first(s) == CHOOSE x \in s : TRUE
             val(g, s) == IF s = {} THEN 0
                          ELSE f[first(s)] + g[s \ {first(s)}]
             T == {n \in Nat : \E g : /\ g = [s \in SUBSET U |-> g[s]]
                                      /\ \A s \in SUBSET U :
                                           Cardinality(s) <= n
                                             => g[s] = val(g, s)}
  <1>1. \A s \in SUBSET U : s # {} =>
          /\ first(s) \in s
          /\ s \ {first(s)} \in SUBSET U
          /\ Cardinality(s) \in Nat /\ Cardinality(s \ {first(s)}) \in Nat
          /\ Cardinality(s \ {first(s)}) < Cardinality(s)
    <2> SUFFICES ASSUME NEW s \in SUBSET U, s # {}
                 PROVE  /\ first(s) \in s
                        /\ s \ {first(s)} \in SUBSET U
                        /\ Cardinality(s) \in Nat
                        /\ Cardinality(s \ {first(s)}) \in Nat
                        /\ Cardinality(s \ {first(s)}) < Cardinality(s)
      OBVIOUS
    <2>1. first(s) \in s
      OBVIOUS
    <2> HIDE DEF first
    <2> QED
      BY <2>1, Smaller
  <1> HIDE DEF first
  <1>2. \A s \in SUBSET U : Cardinality(s) \in Nat
    BY FS_Subset, FS_CardinalityType
  <1>3. ASSUME NEW n \in Nat, \A m \in Nat : m < n => m \in T
        PROVE  n \in T
    <2>1. PICK g : \A s \in SUBSET U :
                     Cardinality(s) < n => g[s] = val(g, s)
      <3>1. CASE n = 0
        BY <1>2, <3>1
      <3>2. CASE n # 0
        <4>1. n - 1 \in T
          <5>1. n - 1 \in Nat /\ n - 1 < n
            BY <3>2
          <5> HIDE DEF T
          <5> QED
            BY <1>3, <5>1
        <4>2. PICK g : \A s \in SUBSET U :
                         Cardinality(s) <= n - 1 => g[s] = val(g, s)
          BY <4>1
        <4> QED
          BY <1>2, <4>2
      <3> QED
        BY <3>1, <3>2
    <2> DEFINE h == [s \in SUBSET U |-> val(g, s)]
    <2>2. ASSUME NEW s \in SUBSET U, Cardinality(s) <= n
          PROVE  h[s] = val(h, s)
      <3>1. CASE s = {}
        BY <3>1
      <3>2. CASE s # {}
        <4>1. /\ s \ {first(s)} \in SUBSET U
              /\ Cardinality(s \ {first(s)}) < n
          BY <1>1, <2>2, <3>2
        <4>2. h[s \ {first(s)}] = g[s \ {first(s)}]
          BY <2>1, <4>1
        <4> QED
          BY <3>2, <4>2
      <3> QED
        BY <3>1, <3>2
    <2>3. h = [s \in SUBSET U |-> h[s]]
      OBVIOUS
    <2> HIDE DEF h
    <2> QED
      BY <2>2, <2>3
  <1>4. Nat \subseteq T
    <2> HIDE DEF T
    <2> QED
      BY <1>3, NatAll
  <1>5. Cardinality(U) \in T
    BY <1>4, FS_CardinalityType
  <1>6. PICK g : /\ g = [s \in SUBSET U |-> g[s]]
                 /\ \A s \in SUBSET U :
                      Cardinality(s) <= Cardinality(U) => g[s] = val(g, s)
    BY <1>5
  <1>7. \A s \in SUBSET U : g[s] = val(g, s)
    BY <1>6, FS_Subset
  <1>8. g = [s \in SUBSET U |-> val(g, s)]
    BY <1>6, <1>7
  <1> QED
    BY <1>8 DEF IsFold, first

\* Two folds agree on the sets that both have, and their values are numbers.
LEMMA FoldUnique ==
  ASSUME NEW U, IsFiniteSet(U), NEW V \in SUBSET U, NEW f,
         \A x \in U : f[x] \in Int,
         NEW g, IsFold(U, f, g), NEW h, IsFold(V, f, h)
  PROVE  \A s \in SUBSET V : h[s] = g[s] /\ h[s] \in Int
  <1> DEFINE first(s) == CHOOSE x \in s : TRUE
             G == {s \in SUBSET V : h[s] = g[s] /\ h[s] \in Int}
  <1>1. IsFiniteSet(V)
    BY FS_Subset
  <1>2. \A s \in SUBSET V :
          /\ h[s] = IF s = {} THEN 0 ELSE f[first(s)] + h[s \ {first(s)}]
          /\ g[s] = IF s = {} THEN 0 ELSE f[first(s)] + g[s \ {first(s)}]
    BY DEF IsFold
  <1>3. ASSUME NEW s \in SUBSET V,
               \A t \in SUBSET V : Cardinality(t) < Cardinality(s) => t \in G
        PROVE  s \in G
    <2> SUFFICES h[s] = g[s] /\ h[s] \in Int
      OBVIOUS
    <2> HIDE DEF G
    <2>1. /\ h[s] = IF s = {} THEN 0 ELSE f[first(s)] + h[s \ {first(s)}]
          /\ g[s] = IF s = {} THEN 0 ELSE f[first(s)] + g[s \ {first(s)}]
      BY <1>2
    <2>2. CASE s = {}
      BY <2>1, <2>2
    <2>3. CASE s # {}
      <3>1. first(s) \in s
        BY <2>3
      <3> HIDE DEF first
      <3>2. /\ s \ {first(s)} \in SUBSET V
            /\ Cardinality(s \ {first(s)}) < Cardinality(s)
        BY <1>1, <3>1, Smaller
      <3>3. s \ {first(s)} \in G
        BY <1>3, <3>2
      <3>4. f[first(s)] \in Int
        BY <3>1
      <3>5. /\ h[s \ {first(s)}] = g[s \ {first(s)}]
            /\ h[s \ {first(s)}] \in Int
        BY <3>3 DEF G
      <3> QED
        BY <2>3, <2>1, <3>4, <3>5
    <2> QED
      BY <2>2, <2>3
  <1>4. \A s \in SUBSET V : s \in G
    <2> HIDE DEF G
    <2> QED
      BY <1>1, <1>3, FiniteAll
  <1> QED
    BY <1>4

\* The sum of f over S, as MapThenSumSet() computes it.
Total(f, S) == MapThenSumSet(LAMBDA x : f[x], S)

\* The total is the value of a fold.
LEMMA TotalIsFold ==
  ASSUME NEW U, IsFiniteSet(U), NEW f, \A x \in U : f[x] \in Int,
         NEW g, IsFold(U, f, g), NEW s \in SUBSET U
  PROVE  Total(f, s) = g[s] /\ g[s] \in Int
  <1>1. IsFiniteSet(s) /\ s \in SUBSET s
    BY FS_Subset
  <1>2. Total(f, s) = (CHOOSE h : IsFold(s, f, h))[s]
    BY DEF Total, MapThenSumSet, MapThenFoldSet, IsFold
  <1>3. PICK h : h = (CHOOSE e : IsFold(s, f, e))
    OBVIOUS
  <1>4. IsFold(s, f, h)
    BY <1>1, <1>3, FoldExists
  <1>5. h[s] = g[s] /\ h[s] \in Int
    BY <1>1, <1>4, FoldUnique
  <1> QED
    BY <1>2, <1>3, <1>5

\* Whichever element is taken first, the total is the same.
LEMMA TotalRemove ==
  ASSUME NEW U, IsFiniteSet(U), NEW f, \A x \in U : f[x] \in Int
  PROVE  /\ Total(f, {}) = 0
         /\ \A s \in SUBSET U :
              /\ Total(f, s) \in Int
              /\ \A x \in s : Total(f, s) = f[x] + Total(f, s \ {x})
  <1>1. PICK g : IsFold(U, f, g)
    BY FoldExists
  <1> DEFINE first(s) == CHOOSE x \in s : TRUE
             G == {s \in SUBSET U : \A x \in s : g[s] = f[x] + g[s \ {x}]}
  <1>2. \A s \in SUBSET U : Total(f, s) = g[s] /\ g[s] \in Int
    BY <1>1, TotalIsFold
  <1>3. \A s \in SUBSET U :
          g[s] = IF s = {} THEN 0 ELSE f[first(s)] + g[s \ {first(s)}]
    BY <1>1 DEF IsFold
  <1>4. ASSUME NEW s \in SUBSET U,
               \A t \in SUBSET U : Cardinality(t) < Cardinality(s) => t \in G
        PROVE  s \in G
    <2> SUFFICES ASSUME NEW x \in s PROVE g[s] = f[x] + g[s \ {x}]
      OBVIOUS
    <2>1. PICK c \in s : c = first(s)
      OBVIOUS
    <2>2. g[s] = f[c] + g[s \ {c}]
      BY <1>3, <2>1
    <2>3. CASE x = c
      BY <2>2, <2>3
    <2>4. CASE x # c
      <3> DEFINE sx == s \ {x}
                 sc == s \ {c}
                 rest == s \ {x, c}
      <3>1. /\ sx \in SUBSET U /\ sc \in SUBSET U /\ rest \in SUBSET U
            /\ Cardinality(sx) < Cardinality(s)
            /\ Cardinality(sc) < Cardinality(s)
        BY Smaller
      <3>2. sx \in G /\ sc \in G
        <4> HIDE DEF sx, sc, G
        <4> QED
          BY <1>4, <3>1
      <3>3. /\ c \in sx /\ x \in sc
            /\ sx \ {c} = rest /\ sc \ {x} = rest
        BY <2>4
      <3>4. g[sx] = f[c] + g[rest] /\ g[sc] = f[x] + g[rest]
        BY <3>2, <3>3
      <3>5. PICK a \in Int, b \in Int, e \in Int :
              a = f[x] /\ b = f[c] /\ e = g[rest]
        BY <1>2, <3>1
      <3> HIDE DEF sx, sc, rest
      <3>6. g[s] = b + (a + e) /\ g[sx] = b + e
        BY <2>2, <3>4, <3>5 DEF sc
      <3> QED
        BY <3>5, <3>6 DEF sx
    <2> QED
      BY <2>3, <2>4
  <1>5. \A s \in SUBSET U : s \in G
    <2> HIDE DEF G
    <2> QED
      BY <1>4, FiniteAll
  <1>6. ASSUME NEW s \in SUBSET U, NEW x \in s
        PROVE  Total(f, s) = f[x] + Total(f, s \ {x})
    <2>1. s \ {x} \in SUBSET U
      OBVIOUS
    <2>2. g[s] = f[x] + g[s \ {x}]
      BY <1>5
    <2> QED
      BY <1>2, <2>1, <2>2
  <1>7. Total(f, {}) = 0
    BY <1>2, <1>3
  <1> QED
    BY <1>2, <1>6, <1>7

\* A total over another set of the same numbers is the same.
LEMMA TotalBijection ==
  ASSUME NEW S, IsFiniteSet(S), NEW T, IsFiniteSet(T), NEW f, NEW h,
         \A x \in T : h[x] \in Int,
         NEW b \in [S -> T], \A x, y \in S : b[x] = b[y] => x = y,
         \A y \in T : \E x \in S : b[x] = y,
         \A x \in S : f[x] = h[b[x]]
  PROVE  Total(f, S) = Total(h, T)
  <1> DEFINE im(s) == {b[x] : x \in s}
             G == {s \in SUBSET S : Total(f, s) = Total(h, im(s))}
  <1>1. \A x \in S : f[x] \in Int
    OBVIOUS
  <1>2. /\ Total(f, {}) = 0
        /\ \A s \in SUBSET S : \A x \in s :
             Total(f, s) = f[x] + Total(f, s \ {x})
    BY <1>1, TotalRemove
  <1>3. /\ Total(h, {}) = 0
        /\ \A s \in SUBSET T : \A x \in s :
             Total(h, s) = h[x] + Total(h, s \ {x})
    BY TotalRemove
  <1>4. ASSUME NEW s \in SUBSET S,
               \A t \in SUBSET S : Cardinality(t) < Cardinality(s) => t \in G
        PROVE  s \in G
    <2>1. CASE s = {}
      <3>1. im(s) = {}
        BY <2>1
      <3> QED
        BY <1>2, <1>3, <2>1, <3>1
    <2>2. CASE s # {}
      <3>1. PICK x \in s : TRUE
        BY <2>2
      <3>2. /\ s \ {x} \in SUBSET S
            /\ Cardinality(s \ {x}) < Cardinality(s)
        BY Smaller
      <3>3. s \ {x} \in G
        <4> HIDE DEF G
        <4> QED
          BY <1>4, <3>2
      <3>4. Total(f, s \ {x}) = Total(h, im(s \ {x}))
        BY <3>3
      <3>5. im(s \ {x}) = im(s) \ {b[x]}
        OBVIOUS
      <3>6. im(s) \in SUBSET T /\ b[x] \in im(s)
        OBVIOUS
      <3> HIDE DEF im
      <3>7. Total(h, im(s)) = h[b[x]] + Total(h, im(s) \ {b[x]})
        BY <1>3, <3>6
      <3>8. Total(f, s) = f[x] + Total(f, s \ {x})
        BY <1>2
      <3> QED
        BY <3>4, <3>5, <3>7, <3>8
    <2> QED
      BY <2>1, <2>2
  <1>5. S \in G
    <2>1. \A s \in SUBSET S : s \in G
      <3> HIDE DEF G
      <3> QED
        BY <1>4, FiniteAll
    <2> QED
      BY <2>1
  <1>6. im(S) = T
    OBVIOUS
  <1> QED
    BY <1>5, <1>6

-----------------------------------------------------------------------------
(* The tokens of a rank.                                                   *)

\* The scheduled tokens of the requests of rank d, in the order of the batch.
TokenCounts(b, n, d) == [k \in DOMAIN OnRank(b, d) |-> n[OnRank(b, d)[k]]]

\* QueryStart() is their sum over the first requests of the rank.
LEMMA QueryStartIs ==
  ASSUME NEW b, NEW n, NEW d, NEW k, 1 .. k \subseteq DOMAIN OnRank(b, d)
  PROVE  QueryStart(b, n, d, k) = Total(TokenCounts(b, n, d), 1 .. k)
  <1>1. PICK o : o = OnRank(b, d)
    OBVIOUS
  <1>2. PICK S : S = 1 .. k
    OBVIOUS
  <1> DEFINE f == [i \in DOMAIN o |-> n[o[i]]]
             first(s) == CHOOSE x \in s : TRUE
             step(h) == [s \in SUBSET S |->
                          IF s = {} THEN 0
                          ELSE n[o[first(s)]] + h[s \ {first(s)}]]
             fold(h) == [s \in SUBSET S |->
                          IF s = {} THEN 0
                          ELSE f[first(s)] + h[s \ {first(s)}]]
  <1>3. \A h : step(h) = fold(h)
    <2> SUFFICES ASSUME NEW h, NEW s \in SUBSET S, s # {}
                 PROVE  n[o[first(s)]] = f[first(s)]
      OBVIOUS
    <2>1. first(s) \in s
      OBVIOUS
    <2>2. first(s) \in DOMAIN o
      BY <1>1, <1>2, <2>1
    <2> HIDE DEF first
    <2> QED
      BY <2>2
  <1>4. QueryStart(b, n, d, k) = (CHOOSE h : h = step(h))[S]
    BY <1>1, <1>2 DEF QueryStart, MapThenSumSet, MapThenFoldSet
  <1>5. Total(TokenCounts(b, n, d), 1 .. k) = (CHOOSE h : h = fold(h))[S]
    BY <1>1, <1>2 DEF Total, TokenCounts, MapThenSumSet, MapThenFoldSet
  <1> HIDE DEF step, fold
  <1>6. \A h : h = step(h) <=> h = fold(h)
    BY <1>3
  <1>7. (CHOOSE h : h = step(h)) = (CHOOSE h : h = fold(h))
    BY <1>6
  <1> QED
    BY <1>4, <1>5, <1>7

\* The tokens of a rank are those of its requests, in whatever order.
LEMMA RankTotal ==
  ASSUME NEW b, IsBatch(b), NEW n, ToSet(b) \subseteq DOMAIN n,
         \A r \in ToSet(b) : n[r] \in Int, NEW d
  PROVE  TokensOnRank(b, n, d)
           = Total(n, {r \in ToSet(b) : Rank[r] = d})
  <1> DEFINE S == 1 .. Len(OnRank(b, d))
             T == {r \in ToSet(b) : Rank[r] = d}
             f == TokenCounts(b, n, d)
             o == OnRank(b, d)
  <1>1. /\ DOMAIN o = S /\ DOMAIN Indices(b, d) = S
        /\ Len(o) \in Nat
        /\ \A k \in S : /\ Indices(b, d)[k] \in DOMAIN b
                        /\ Rank[b[Indices(b, d)[k]]] = d
                        /\ o[k] = b[Indices(b, d)[k]]
        /\ \A i \in DOMAIN b : Rank[b[i]] = d =>
             \E k \in S : Indices(b, d)[k] = i
    BY IndicesFacts
  <1>2. \A k, l \in S : Indices(b, d)[k] = Indices(b, d)[l] => k = l
    BY <1>1, IndicesOnce
  <1>3. IsFiniteSet(S) /\ IsFiniteSet(ToSet(b))
    <2>1. ToSet(b) \in SUBSET Req
      BY DEF IsBatch, ToSet
    <2> QED
      BY <1>1, <2>1, FS_Interval, FS_Subset, LayoutAssumption
  <1>4. IsFiniteSet(T) /\ \A r \in T : n[r] \in Int
    BY <1>3, FS_Subset
  <1>5. \A k \in S : o[k] \in T
    BY <1>1 DEF ToSet
  <1>6. \A k, l \in S : o[k] = o[l] => k = l
    BY <1>1, <1>2 DEF IsBatch
  <1>7. \A r \in T : \E k \in S : o[k] = r
    BY <1>1 DEF ToSet
  <1>8. TokensOnRank(b, n, d) = Total(f, S)
    BY <1>1, QueryStartIs DEF TokensOnRank
  <1>9. f = [k \in S |-> n[o[k]]]
    BY <1>1 DEF TokenCounts
  <1>10. o = [k \in S |-> o[k]]
    BY <1>1 DEF OnRank
  <1> HIDE DEF S, T, f, o
  <1>11. o \in [S -> T]
    BY <1>5, <1>10
  <1>12. \A k \in S : f[k] = n[o[k]]
    BY <1>9
  <1>13. Total(f, S) = Total(n, T)
    BY <1>3, <1>4, <1>6, <1>7, <1>11, <1>12, TotalBijection
  <1> QED
    BY <1>8, <1>13 DEF T

\* SetToSeq() gives each request of a step one row.
LEMMA SetToSeqIs ==
  ASSUME NEW S \in SUBSET Req
  PROVE  IsBatch(SetToSeq(S)) /\ ToSet(SetToSeq(S)) = S
  <1>1. IsFiniteSet(S)
    BY FS_Subset, LayoutAssumption
  <1>2. PICK m \in Nat : m = Cardinality(S)
    BY <1>1, FS_CardinalityType
  <1>3. PICK g : g \in Bijection(1 .. m, S)
    BY <1>1, <1>2, FS_CardinalityType DEF ExistsBijection
  <1>4. /\ g \in [1 .. m -> S]
        /\ \A i, j \in 1 .. m : g[i] = g[j] => i = j
    BY <1>3, Fun_BijectionProperties
  <1>5. IsInjective(g)
    BY <1>4 DEF IsInjective
  <1>6. PICK q : q = SetToSeq(S)
    OBVIOUS
  <1>7. q \in [1 .. m -> S] /\ IsInjective(q)
    BY <1>2, <1>4, <1>5, <1>6 DEF SetToSeq
  <1>8. q \in Seq(Req) /\ DOMAIN q = 1 .. m
    BY <1>7
  <1>9. \A i, j \in DOMAIN q : q[i] = q[j] => i = j
    BY <1>7 DEF IsInjective
  <1>10. ToSet(q) = S
    <2>1. q \in Injection(1 .. m, S)
      BY <1>7, <1>8, <1>9, Fun_IsInj
    <2>2. IsFiniteSet(1 .. m) /\ Cardinality(1 .. m) = m
      BY FS_Interval
    <2>3. q \in Surjection(1 .. m, S)
      BY <1>1, <1>2, <2>1, <2>2, FS_Injection
    <2>4. \A x \in S : \E i \in 1 .. m : q[i] = x
      BY <2>3 DEF Surjection
    <2> QED
      BY <1>7, <1>8, <2>4 DEF ToSet
  <1> QED
    BY <1>6, <1>8, <1>9, <1>10 DEF IsBatch

-----------------------------------------------------------------------------
(* Sequences of tokens, whatever the tokens are.                           *)

\* The length of a sequence, and its indices.
LEMMA SeqFacts ==
  ASSUME NEW s, IsSeq(s)
  PROVE  /\ Len(s) \in Nat /\ DOMAIN s = 1 .. Len(s)
         /\ Len(s) = 0 <=> s = <<>>
  BY DEF IsSeq

\* A function on 1 .. m is a sequence of that length.
LEMMA FunctionIsSeq ==
  ASSUME NEW m \in Nat, NEW s, s = [k \in 1 .. m |-> s[k]]
  PROVE  IsSeq(s) /\ Len(s) = m
  <1>1. s \in [1 .. m -> ToSet(s)]
    BY DEF ToSet
  <1>2. s \in Seq(ToSet(s))
    BY <1>1
  <1>3. Len(s) = m
    BY <1>1
  <1> QED
    BY <1>2, <1>3 DEF IsSeq

\* A list of one is a sequence.
LEMMA OneIsSeq == \A x : IsSeq(<<x>>) /\ Len(<<x>>) = 1
  <1> SUFFICES ASSUME NEW x PROVE IsSeq(<<x>>) /\ Len(<<x>>) = 1
    OBVIOUS
  <1>1. <<x>> = [k \in 1 .. 1 |-> <<x>>[k]]
    OBVIOUS
  <1> QED
    BY <1>1, FunctionIsSeq

\* The empty list is a sequence.
LEMMA EmptyIsSeq == IsSeq(<<>>) /\ Len(<<>>) = 0
  BY DEF IsSeq

\* Lengths add up in a concatenation.
LEMMA ConcatIsSeq ==
  ASSUME NEW s, NEW t, IsSeq(s), IsSeq(t)
  PROVE  IsSeq(s \o t) /\ Len(s \o t) = Len(s) + Len(t)
  <1>1. PICK S : S = ToSet(s) \cup ToSet(t)
    OBVIOUS
  <1>2. s \in Seq(S) /\ t \in Seq(S)
    BY <1>1 DEF IsSeq
  <1>3. s \o t \in Seq(S) /\ Len(s \o t) = Len(s) + Len(t)
    BY <1>2
  <1>4. Len(s \o t) \in Nat
    BY <1>3
  <1>5. \A u \in Seq(S) : u = [k \in 1 .. Len(u) |-> u[k]]
    OBVIOUS
  <1>6. s \o t = [k \in 1 .. Len(s \o t) |-> (s \o t)[k]]
    BY <1>3, <1>5
  <1> QED
    BY <1>3, <1>4, <1>6, FunctionIsSeq

\* A prefix has the length that was asked for.
LEMMA PrefixIsSeq ==
  ASSUME NEW s, IsSeq(s), NEW m \in 0 .. Len(s)
  PROVE  IsSeq(SubSeq(s, 1, m)) /\ Len(SubSeq(s, 1, m)) = m
  <1>1. PICK S : S = ToSet(s)
    OBVIOUS
  <1>2. s \in Seq(S) /\ m \in Nat
    BY <1>1, SeqFacts DEF IsSeq
  <1>3. SubSeq(s, 1, m) = [k \in 1 .. m |-> s[k]]
    BY <1>2
  <1>4. SubSeq(s, 1, m) = [k \in 1 .. m |-> SubSeq(s, 1, m)[k]]
    BY <1>3
  <1> QED
    BY <1>2, <1>4, FunctionIsSeq

\* What sampling yields at any place is one token, or with drafts some more.
LEMMA NextTokensFacts ==
  ASSUME NEW b, IsBatch(b), NEW n, NEW dr, \A r \in ToSet(b) : dr[r] \in Nat,
         NEW whole, NEW ids, NEW positions, NEW width,
         NEW s \in 0 .. DP * PaddedReqs(b) - 1,
         NEW t, t = NextTokens(b, n, dr, whole, ids, positions, width)[s]
  PROVE  /\ IsSeq(t) /\ Len(t) >= 1
         /\ (\A r \in ToSet(b) : dr[r] = 0) => Len(t) = 1
  <1> DEFINE slots == PaddedReqs(b)
             logits == LogitsIndices(b, n)
             d == s \div slots
             k == (s % slots) + 1
             r == OnRank(b, d)[k]
             last == width * d + logits[s]
             right(g) == ids[g] = <<r, positions[g]>>
             known == last - dr[r]
             A == {j \in 0 .. dr[r] : \A i \in 1 .. j : right(known + i)}
             accepted == Max(A)
             next == positions[known] + 1
  <1>1. t = IF logits[s] < 0 THEN <<Garbage>>
            ELSE IF r \notin whole THEN <<<<r, -next>>>>
            ELSE IF \A g \in last - n[r] + 1 .. known : right(g)
            THEN [j \in 1 .. accepted + 1 |-> <<r, next + j - 1>>]
            ELSE <<Garbage>>
    BY DEF NextTokens
  <1>2. slots \in Nat \ {0} /\ s \in Nat /\ k \in Nat \ {0}
    <2>1. slots \in Nat \ {0}
      BY PaddedReqsFacts
    <2>2. s \in Nat
      OBVIOUS
    <2> HIDE DEF slots
    <2> QED
      BY <2>1, <2>2
  <1>3. ~ (logits[s] < 0) => r \in ToSet(b)
    <2> SUFFICES ASSUME ~ (logits[s] < 0) PROVE r \in ToSet(b)
      OBVIOUS
    <2>1. logits[s] = IF k <= Len(OnRank(b, d))
                      THEN QueryStart(b, n, d, k) - 1 ELSE -1
      BY DEF LogitsIndices
    <2>2. k <= Len(OnRank(b, d))
      <3> HIDE DEF k, d, logits
      <3> QED
        BY <2>1
    <2>3. k \in 1 .. Len(OnRank(b, d))
      <3>1. Len(OnRank(b, d)) \in Nat
        BY IndicesFacts
      <3> HIDE DEF k, d
      <3> QED
        BY <1>2, <2>2, <3>1
    <2> HIDE DEF k, d
    <2>4. OnRank(b, d)[k] \in ToSet(b)
      BY <2>3, IndicesFacts DEF ToSet
    <2> QED
      BY <2>4
  <1>4. r \in ToSet(b) => accepted \in 0 .. dr[r]
    <2> SUFFICES ASSUME r \in ToSet(b) PROVE accepted \in 0 .. dr[r]
      OBVIOUS
    <2> HIDE DEF r, last
    <2>1. dr[r] \in Nat
      OBVIOUS
    <2>2. 0 \in A
      <3>1. \A i \in 1 .. 0 : FALSE
        OBVIOUS
      <3> QED
        BY <2>1, <3>1
    <2>3. A \in SUBSET Nat /\ \A x \in A : x <= dr[r]
      BY <2>1
    <2>4. A # {}
      BY <2>2
    <2>5. Max(A) \in A
      <3> HIDE DEF A
      <3> QED
        BY <2>1, <2>3, <2>4, MaxIs
    <2> QED
      BY <2>5
  <1> HIDE DEF r, logits, last, accepted, next, known
  <1>5. CASE logits[s] < 0 \/ r \notin whole
             \/ ~ (\A g \in last - n[r] + 1 .. known : right(g))
    <2>1. \E x : t = <<x>>
      BY <1>1, <1>5
    <2> QED
      BY <2>1, OneIsSeq
  <1>6. CASE ~ (logits[s] < 0) /\ r \in whole
             /\ \A g \in last - n[r] + 1 .. known : right(g)
    <2>1. t = [j \in 1 .. accepted + 1 |-> <<r, next + j - 1>>]
      BY <1>1, <1>6
    <2>2. r \in ToSet(b) /\ dr[r] \in Nat /\ accepted \in 0 .. dr[r]
      BY <1>3, <1>4, <1>6
    <2>3. PICK m \in Nat : m = accepted + 1 /\ m >= 1 /\ (dr[r] = 0 => m = 1)
      BY <2>2
    <2>4. t = [j \in 1 .. m |-> t[j]]
      BY <2>1, <2>3
    <2>5. IsSeq(t) /\ Len(t) = m
      BY <2>4, FunctionIsSeq
    <2> QED
      BY <2>2, <2>3, <2>5
  <1> QED
    BY <1>5, <1>6

-----------------------------------------------------------------------------
(* Where the tokens of a step are.                                         *)

\* A place of an array, by the share it lies in.
LEMMA InShare ==
  ASSUME NEW w \in Nat \ {0}, NEW d \in 0 .. DP - 1, NEW j \in 0 .. w - 1
  PROVE  /\ w * d + j \in 0 .. DP * w - 1
         /\ (w * d + j) \div w = d /\ (w * d + j) % w = j
  <1>1. DP \in Nat \ {0}
    BY LayoutAssumption
  <1>2. w * d \in Nat /\ w * d + w <= DP * w
    <2>1. w * d + w = w * (d + 1) /\ w * (d + 1) <= w * DP /\ w * DP = DP * w
      BY <1>1
    <2> QED
      BY <2>1
  <1>3. PICK n \in Nat : n = w * d + j
    BY <1>2
  <1>4. /\ n \div w \in Int /\ n % w \in 0 .. w - 1
        /\ n = w * (n \div w) + (n % w)
    BY SMT
  <1>5. PICK q \in Int, m \in 0 .. w - 1 :
          q = n \div w /\ m = n % w /\ n = w * q + m
    BY <1>4
  <1>6. w * q + m = w * d + j
    BY <1>3, <1>5
  <1>7. CASE q < d
    <2>1. w * (q + 1) <= w * d /\ w * (q + 1) = w * q + w
      BY <1>7
    <2> QED
      BY <1>5, <1>6, <2>1
  <1>8. CASE q > d
    <2>1. w * (d + 1) <= w * q /\ w * (d + 1) = w * d + w
      BY <1>8
    <2> QED
      BY <1>5, <1>6, <2>1
  <1>9. CASE q = d
    <2>1. m = j
      <3>1. PICK p \in Int : p = w * d
        BY <1>2
      <3>2. p + m = p + j
        BY <1>6, <1>9, <3>1
      <3> QED
        BY <3>2
    <2>2. n \div w = d /\ n % w = j
      BY <1>5, <1>9, <2>1
    <2>3. n \in 0 .. DP * w - 1
      <3>1. PICK p \in Nat, z \in Int :
              p = w * d /\ z = DP * w /\ p + w <= z
        BY <1>1, <1>2
      <3>2. n = p + j
        BY <1>3, <3>1
      <3>3. n \in 0 .. z - 1
        BY <3>1, <3>2
      <3> QED
        BY <3>1, <3>3
    <2> QED
      BY <1>3, <2>2, <2>3
  <1> QED
    BY <1>7, <1>8, <1>9

\* Shares do not overlap.
LEMMA ShareOnce ==
  ASSUME NEW w \in Nat \ {0}, NEW d \in 0 .. DP - 1, NEW e \in 0 .. DP - 1,
         NEW i \in 0 .. w - 1, NEW j \in 0 .. w - 1, w * d + i = w * e + j
  PROVE  d = e /\ i = j
  <1>1. PICK n : n = w * d + i /\ n = w * e + j
    OBVIOUS
  <1>2. n \div w = d /\ n % w = i
    BY <1>1, InShare
  <1>3. n \div w = e /\ n % w = j
    <2>1. (w * e + j) \div w = e /\ (w * e + j) % w = j
      BY InShare
    <2> QED
      BY <1>1, <2>1
  <1> QED
    BY <1>2, <1>3

\* n gives every request of batch b the number of its tokens.
IsCount(b, n) == \A r \in ToSet(b) : n[r] \in Nat

\* Every request of the rank of d comes once, at its own place of the rank.
LEMMA RankFacts ==
  ASSUME NEW b, IsBatch(b), NEW d
  PROVE  /\ \A k \in 1 .. Len(OnRank(b, d)) :
              OnRank(b, d)[k] \in ToSet(b) /\ Rank[OnRank(b, d)[k]] = d
         /\ \A k, l \in 1 .. Len(OnRank(b, d)) :
              OnRank(b, d)[k] = OnRank(b, d)[l] => k = l
         /\ \A r \in ToSet(b) : Rank[r] = d =>
              \E k \in 1 .. Len(OnRank(b, d)) : OnRank(b, d)[k] = r
  <1>1. /\ DOMAIN Indices(b, d) = 1 .. Len(OnRank(b, d))
        /\ \A k \in DOMAIN Indices(b, d) :
              /\ Indices(b, d)[k] \in DOMAIN b
              /\ Rank[b[Indices(b, d)[k]]] = d
              /\ OnRank(b, d)[k] = b[Indices(b, d)[k]]
        /\ \A i \in DOMAIN b : Rank[b[i]] = d =>
             \E k \in DOMAIN Indices(b, d) : Indices(b, d)[k] = i
    BY IndicesFacts
  <1>2. \A k, l \in DOMAIN Indices(b, d) :
          Indices(b, d)[k] = Indices(b, d)[l] => k = l
    BY IndicesOnce
  <1>3. \A k, l \in 1 .. Len(OnRank(b, d)) :
              OnRank(b, d)[k] = OnRank(b, d)[l] => k = l
    BY <1>1, <1>2 DEF IsBatch
  <1> QED
    BY <1>1, <1>3 DEF ToSet

\* The total over the first k numbers, by that over the first k - 1.
LEMMA TotalNext ==
  ASSUME NEW m \in Nat, NEW f, \A k \in 1 .. m : f[k] \in Int
  PROVE  /\ Total(f, {}) = 0
         /\ \A k \in 0 .. m : Total(f, 1 .. k) \in Int
         /\ \A k \in 1 .. m :
              Total(f, 1 .. k) = f[k] + Total(f, 1 .. k - 1)
  <1>1. PICK U : U = 1 .. m
    OBVIOUS
  <1>2. IsFiniteSet(U)
    <2>1. IsFiniteSet(1 .. m)
      BY FS_Interval
    <2> QED
      BY Zenon, <1>1, <2>1
  <1>3. \A x \in U : f[x] \in Int
    BY Zenon, <1>1
  <1>4. Total(f, {}) = 0
    BY <1>2, <1>3, TotalRemove
  <1>5. ASSUME NEW s \in SUBSET U PROVE Total(f, s) \in Int
    BY <1>2, <1>3, TotalRemove
  <1>6. ASSUME NEW s \in SUBSET U, NEW x \in s
        PROVE  Total(f, s) = f[x] + Total(f, s \ {x})
    BY <1>2, <1>3, TotalRemove
  <1>7. ASSUME NEW k \in 0 .. m PROVE Total(f, 1 .. k) \in Int
    <2>1. 1 .. k \in SUBSET U
      BY <1>1
    <2> QED
      BY <1>5, <2>1
  <1>8. ASSUME NEW k \in 1 .. m
        PROVE  Total(f, 1 .. k) = f[k] + Total(f, 1 .. k - 1)
    <2>1. PICK s \in SUBSET U : s = 1 .. k
      BY <1>1
    <2>2. k \in s /\ s \ {k} = 1 .. k - 1
      BY <2>1
    <2>3. Total(f, s) = f[k] + Total(f, s \ {k})
      BY <1>6, <2>2
    <2> QED
      BY Zenon, <2>1, <2>2, <2>3
  <1> QED
    BY <1>4, <1>7, <1>8

\* A request's tokens follow those of the requests before it.
LEMMA QueryStartNext ==
  ASSUME NEW b, IsBatch(b), NEW n, IsCount(b, n), NEW d
  PROVE  /\ QueryStart(b, n, d, 0) = 0
         /\ \A k \in 0 .. Len(OnRank(b, d)) : QueryStart(b, n, d, k) \in Int
         /\ \A k \in 1 .. Len(OnRank(b, d)) :
              QueryStart(b, n, d, k)
                = QueryStart(b, n, d, k - 1) + n[OnRank(b, d)[k]]
  <1>1. PICK m \in Nat : /\ m = Len(OnRank(b, d))
                         /\ DOMAIN OnRank(b, d) = 1 .. m
    BY IndicesFacts
  <1>2. PICK f : f = TokenCounts(b, n, d)
    OBVIOUS
  <1>3. \A k \in 1 .. m : f[k] = n[OnRank(b, d)[k]] /\ f[k] \in Int
    BY <1>1, <1>2, RankFacts DEF TokenCounts, IsCount
  <1>4. /\ Total(f, {}) = 0
        /\ \A k \in 0 .. m : Total(f, 1 .. k) \in Int
        /\ \A k \in 1 .. m :
             Total(f, 1 .. k) = f[k] + Total(f, 1 .. k - 1)
    BY <1>3, TotalNext
  <1>5. \A k \in 0 .. m : QueryStart(b, n, d, k) = Total(f, 1 .. k)
    <2> SUFFICES ASSUME NEW k \in 0 .. m
                 PROVE  QueryStart(b, n, d, k) = Total(f, 1 .. k)
      OBVIOUS
    <2>1. 1 .. k \subseteq DOMAIN OnRank(b, d)
      BY <1>1
    <2> QED
      BY <1>2, <2>1, QueryStartIs
  <1>6. QueryStart(b, n, d, 0) = 0
    <2>1. 1 .. 0 = {}
      OBVIOUS
    <2> QED
      BY <1>4, <1>5, <2>1
  <1>7. \A k \in 0 .. m : QueryStart(b, n, d, k) \in Int
    BY <1>4, <1>5
  <1>8. ASSUME NEW k \in 1 .. m
        PROVE  QueryStart(b, n, d, k)
                 = QueryStart(b, n, d, k - 1) + n[OnRank(b, d)[k]]
    <2>1. k \in 0 .. m /\ k - 1 \in 0 .. m
      OBVIOUS
    <2>2. Total(f, 1 .. k) = f[k] + Total(f, 1 .. k - 1)
      BY <1>4
    <2>3. QueryStart(b, n, d, k) = f[k] + QueryStart(b, n, d, k - 1)
      BY <1>5, <2>1, <2>2
    <2>4. PICK x \in Int, y \in Int :
            x = f[k] /\ y = QueryStart(b, n, d, k - 1)
      BY <1>3, <1>7, <2>1
    <2>5. x + y = y + x
      OBVIOUS
    <2> QED
      BY <1>3, <2>3, <2>4, <2>5
  <1> QED
    BY <1>1, <1>6, <1>7, <1>8

\* Numbers none of which is less than the one before it grow.
LEMMA GrowsUp ==
  ASSUME NEW m \in Nat, NEW q, \A k \in 0 .. m : q[k] \in Int,
         \A k \in 1 .. m : q[k - 1] <= q[k]
  PROVE  \A k, l \in 0 .. m : k <= l => q[k] <= q[l]
  <1> DEFINE T == {l \in Nat : l <= m => \A k \in 0 .. l : q[k] <= q[l]}
  <1>1. ASSUME NEW l \in Nat, \A j \in Nat : j < l => j \in T
        PROVE  l \in T
    <2> SUFFICES ASSUME l <= m, NEW k \in 0 .. l PROVE q[k] <= q[l]
      OBVIOUS
    <2>1. CASE k = l
      BY <2>1
    <2>2. CASE k # l
      <3>1. l - 1 \in Nat /\ l - 1 < l /\ l - 1 <= m /\ k \in 0 .. l - 1
        BY <2>2
      <3>2. q[k] <= q[l - 1]
        BY <1>1, <3>1
      <3>3. q[l - 1] <= q[l]
        BY <3>1
      <3>4. k \in 0 .. m /\ l - 1 \in 0 .. m /\ l \in 0 .. m
        BY <3>1
      <3> QED
        BY <3>2, <3>3, <3>4
    <2> QED
      BY <2>1, <2>2
  <1>2. Nat \subseteq T
    <2> HIDE DEF T
    <2> QED
      BY <1>1, NatAll
  <1> QED
    BY <1>2

\* The more requests, the more tokens.
LEMMA QueryStartGrows ==
  ASSUME NEW b, IsBatch(b), NEW n, IsCount(b, n), NEW d
  PROVE  /\ \A k \in 0 .. Len(OnRank(b, d)) : QueryStart(b, n, d, k) \in Nat
         /\ \A k, l \in 0 .. Len(OnRank(b, d)) :
              k <= l => QueryStart(b, n, d, k) <= QueryStart(b, n, d, l)
  <1>1. PICK m \in Nat : m = Len(OnRank(b, d))
    BY IndicesFacts
  <1>2. PICK q : q = [k \in 0 .. m |-> QueryStart(b, n, d, k)]
    OBVIOUS
  <1>3. /\ q[0] = 0 /\ \A k \in 0 .. m : q[k] \in Int
        /\ \A k \in 1 .. m : q[k - 1] <= q[k]
    <2>1. q[0] = 0 /\ \A k \in 0 .. m : q[k] \in Int
      BY <1>1, <1>2, QueryStartNext
    <2>2. ASSUME NEW k \in 1 .. m PROVE q[k - 1] <= q[k]
      <3>1. n[OnRank(b, d)[k]] \in Nat
        BY <1>1, RankFacts DEF IsCount
      <3>2. k - 1 \in 0 .. m /\ k \in 0 .. m
        OBVIOUS
      <3>3. q[k] = q[k - 1] + n[OnRank(b, d)[k]]
        BY <1>1, <1>2, <3>2, QueryStartNext
      <3> QED
        BY <2>1, <3>1, <3>2, <3>3
    <2> QED
      BY <2>1, <2>2
  <1>4. \A k, l \in 0 .. m : k <= l => q[k] <= q[l]
    BY <1>3, GrowsUp
  <1>5. \A k \in 0 .. m : q[k] \in Nat
    BY <1>3, <1>4
  <1> QED
    BY <1>1, <1>2, <1>4, <1>5

\* The tokens of the requests of r's rank that come before it.
Start(b, n, r) ==
  LET k == CHOOSE k \in 1 .. Len(OnRank(b, Rank[r])) :
             OnRank(b, Rank[r])[k] = r
  IN QueryStart(b, n, Rank[r], k - 1)

\* w places per rank have room for the tokens of batch b.
Fits(b, n, w) ==
  w \in Nat \ {0} /\ \A d \in 0 .. DP - 1 : TokensOnRank(b, n, d) <= w

\* A request's tokens are between those of the requests beside it.
LEMMA StartFacts ==
  ASSUME NEW b, IsBatch(b), NEW n, IsCount(b, n), NEW r \in ToSet(b),
         NEW k \in 1 .. Len(OnRank(b, Rank[r])), OnRank(b, Rank[r])[k] = r
  PROVE  /\ Start(b, n, r) = QueryStart(b, n, Rank[r], k - 1)
         /\ Start(b, n, r) + n[r] = QueryStart(b, n, Rank[r], k)
         /\ Start(b, n, r) \in Nat
         /\ Start(b, n, r) + n[r] <= TokensOnRank(b, n, Rank[r])
         /\ TokensOnRank(b, n, Rank[r]) \in Nat
  <1>1. PICK d : d = Rank[r]
    OBVIOUS
  <1>2. PICK m \in Nat : m = Len(OnRank(b, d))
    BY IndicesFacts
  <1>3. \A i, j \in 1 .. m : OnRank(b, d)[i] = OnRank(b, d)[j] => i = j
    BY <1>2, RankFacts
  <1>4. (CHOOSE i \in 1 .. m : OnRank(b, d)[i] = r) = k
    BY <1>1, <1>2, <1>3
  <1>5. Start(b, n, r) = QueryStart(b, n, d, k - 1)
    BY <1>1, <1>2, <1>4 DEF Start
  <1>6. k \in 0 .. m /\ k - 1 \in 0 .. m /\ m \in 0 .. m /\ k <= m
    BY <1>1, <1>2
  <1>7. /\ QueryStart(b, n, d, k - 1) \in Nat
        /\ QueryStart(b, n, d, k) \in Nat
        /\ QueryStart(b, n, d, m) \in Nat
        /\ QueryStart(b, n, d, k) <= QueryStart(b, n, d, m)
    BY <1>2, <1>6, QueryStartGrows
  <1>8. QueryStart(b, n, d, k) = QueryStart(b, n, d, k - 1) + n[r]
    BY <1>1, <1>2, QueryStartNext
  <1> QED
    BY <1>1, <1>2, <1>5, <1>7, <1>8 DEF TokensOnRank

\* A request has a place on its rank.
LEMMA StartExists ==
  ASSUME NEW b, IsBatch(b), NEW n, IsCount(b, n), NEW r \in ToSet(b)
  PROVE  /\ r \in Req /\ Rank[r] \in 0 .. DP - 1 /\ n[r] \in Nat
         /\ Start(b, n, r) \in Nat
         /\ Start(b, n, r) + n[r] <= TokensOnRank(b, n, Rank[r])
         /\ TokensOnRank(b, n, Rank[r]) \in Nat
  <1>1. PICK k \in 1 .. Len(OnRank(b, Rank[r])) : OnRank(b, Rank[r])[k] = r
    BY RankFacts
  <1>2. r \in Req /\ Rank[r] \in 0 .. DP - 1 /\ n[r] \in Nat
    BY LayoutAssumption DEF IsBatch, IsCount, ToSet
  <1> QED
    BY <1>1, <1>2, StartFacts

\* Only one request of a rank has a token at an offset.
LEMMA OwnerIs ==
  ASSUME NEW b, IsBatch(b), NEW n, IsCount(b, n), NEW d,
         NEW k \in 1 .. Len(OnRank(b, d)), NEW l \in 1 .. Len(OnRank(b, d)),
         NEW j \in Nat,
         QueryStart(b, n, d, k - 1) <= j, j < QueryStart(b, n, d, k),
         QueryStart(b, n, d, l - 1) <= j, j < QueryStart(b, n, d, l)
  PROVE  k = l
  <1>1. PICK m \in Nat : m = Len(OnRank(b, d))
    BY IndicesFacts
  <1>2. /\ k \in 0 .. m /\ k - 1 \in 0 .. m
        /\ l \in 0 .. m /\ l - 1 \in 0 .. m
    BY <1>1
  <1>3. /\ \A i \in 0 .. m : QueryStart(b, n, d, i) \in Nat
        /\ \A i, e \in 0 .. m :
             i <= e => QueryStart(b, n, d, i) <= QueryStart(b, n, d, e)
    BY <1>1, QueryStartGrows
  <1>4. CASE k < l
    <2>1. QueryStart(b, n, d, k) <= QueryStart(b, n, d, l - 1)
      BY <1>2, <1>3, <1>4
    <2> QED
      BY <1>2, <1>3, <2>1
  <1>5. CASE l < k
    <2>1. QueryStart(b, n, d, l) <= QueryStart(b, n, d, k - 1)
      BY <1>2, <1>3, <1>5
    <2> QED
      BY <1>2, <1>3, <2>1
  <1> QED
    BY <1>1, <1>4, <1>5

\* The tokens of a request lie in its rank's share.
LEMMA FirstPlaceFacts ==
  ASSUME NEW b, IsBatch(b), NEW n, IsCount(b, n), NEW w, Fits(b, n, w),
         NEW r \in ToSet(b), NEW j \in 0 .. n[r] - 1
  PROVE  /\ FirstPlace(b, n, r, w) = w * Rank[r] + Start(b, n, r)
         /\ FirstPlace(b, n, r, w) \in Nat
         /\ Start(b, n, r) + j \in 0 .. w - 1
         /\ FirstPlace(b, n, r, w) + j = w * Rank[r] + (Start(b, n, r) + j)
         /\ FirstPlace(b, n, r, w) + j \in 0 .. DP * w - 1
  <1>1. /\ Rank[r] \in 0 .. DP - 1 /\ n[r] \in Nat
        /\ Start(b, n, r) \in Nat
        /\ Start(b, n, r) + n[r] <= TokensOnRank(b, n, Rank[r])
        /\ TokensOnRank(b, n, Rank[r]) \in Nat
    BY StartExists
  <1>2. w \in Nat \ {0} /\ TokensOnRank(b, n, Rank[r]) <= w
    BY <1>1 DEF Fits
  <1>3. PICK x \in Nat : x = Start(b, n, r)
    BY <1>1
  <1>4. PICK d \in 0 .. DP - 1 : d = Rank[r]
    BY <1>1
  <1>5. FirstPlace(b, n, r, w) = w * d + x
    BY <1>3, <1>4 DEF FirstPlace, Start
  <1>6. x + j \in 0 .. w - 1
    BY <1>1, <1>2, <1>3
  <1>7. w * d + (x + j) \in 0 .. DP * w - 1
    BY <1>2, <1>6, InShare
  <1>8. DP \in Nat \ {0}
    BY LayoutAssumption
  <1>9. w * d \in Nat
    BY <1>2, <1>8
  <1>10. (w * d + x) + j = w * d + (x + j) /\ w * d + x \in Nat
    BY <1>9
  <1> QED
    BY <1>3, <1>4, <1>5, <1>6, <1>7, <1>10

\* Different tokens have different places.
LEMMA PlaceOnce ==
  ASSUME NEW b, IsBatch(b), NEW n, IsCount(b, n), NEW w, Fits(b, n, w),
         NEW r \in ToSet(b), NEW i \in 0 .. n[r] - 1,
         NEW q \in ToSet(b), NEW j \in 0 .. n[q] - 1,
         FirstPlace(b, n, r, w) + i = FirstPlace(b, n, q, w) + j
  PROVE  r = q /\ i = j
  <1>1. /\ Start(b, n, r) + i \in 0 .. w - 1
        /\ FirstPlace(b, n, r, w) + i = w * Rank[r] + (Start(b, n, r) + i)
    BY FirstPlaceFacts
  <1>2. /\ Start(b, n, q) + j \in 0 .. w - 1
        /\ FirstPlace(b, n, q, w) + j = w * Rank[q] + (Start(b, n, q) + j)
    BY FirstPlaceFacts
  <1>3. Rank[r] \in 0 .. DP - 1 /\ Rank[q] \in 0 .. DP - 1
    BY StartExists
  <1>4. w \in Nat \ {0}
    BY DEF Fits
  <1>5. Rank[r] = Rank[q] /\ Start(b, n, r) + i = Start(b, n, q) + j
    <2>1. PICK x \in 0 .. w - 1 : x = Start(b, n, r) + i
      BY <1>1
    <2>2. PICK y \in 0 .. w - 1 : y = Start(b, n, q) + j
      BY <1>2
    <2>3. PICK d \in 0 .. DP - 1, e \in 0 .. DP - 1 :
            d = Rank[r] /\ e = Rank[q]
      BY <1>3
    <2>4. w * d + x = w * e + y
      BY <1>1, <1>2, <2>1, <2>2, <2>3
    <2>5. d = e /\ x = y
      BY <1>4, <2>4, ShareOnce
    <2> QED
      BY <2>1, <2>2, <2>3, <2>5
  <1>6. PICK k \in 1 .. Len(OnRank(b, Rank[r])) : OnRank(b, Rank[r])[k] = r
    BY RankFacts
  <1>7. PICK l \in 1 .. Len(OnRank(b, Rank[q])) : OnRank(b, Rank[q])[l] = q
    BY RankFacts
  <1>8. /\ Start(b, n, r) = QueryStart(b, n, Rank[r], k - 1)
        /\ Start(b, n, r) + n[r] = QueryStart(b, n, Rank[r], k)
        /\ Start(b, n, r) \in Nat /\ n[r] \in Nat
    BY <1>6, StartFacts, StartExists
  <1>9. /\ Start(b, n, q) = QueryStart(b, n, Rank[q], l - 1)
        /\ Start(b, n, q) + n[q] = QueryStart(b, n, Rank[q], l)
        /\ Start(b, n, q) \in Nat /\ n[q] \in Nat
    BY <1>7, StartFacts, StartExists
  <1>10. PICK x \in Nat : x = Start(b, n, r) + i
    BY <1>8
  <1>11. /\ QueryStart(b, n, Rank[r], k - 1) <= x
         /\ x < QueryStart(b, n, Rank[r], k)
    BY <1>8, <1>10
  <1>12. /\ QueryStart(b, n, Rank[r], l - 1) <= x
         /\ x < QueryStart(b, n, Rank[r], l)
    BY <1>5, <1>9, <1>10
  <1>13. k = l
    BY <1>5, <1>11, <1>12, OwnerIs
  <1>14. r = q
    BY <1>5, <1>6, <1>7, <1>13
  <1> QED
    BY <1>5, <1>8, <1>14

\* ids has each request's tokens of its row, from position c on.
FeedsRows(ids, b, n, c, row, w) ==
  \A r \in ToSet(b) : c[r] \in Int =>
    \A j \in 0 .. n[r] - 1 :
      ids[FirstPlace(b, n, r, w) + j] = row[r][c[r] + j]

\* A request's tokens are read from its row, from its position on.
LEMMA InputIdsAt ==
  ASSUME NEW b, IsBatch(b), NEW n, IsCount(b, n), NEW w, Fits(b, n, w),
         NEW c, NEW row
  PROVE  FeedsRows(InputIds(b, n, c, row, w), b, n, c, row, w)
  <1> SUFFICES ASSUME NEW r \in ToSet(b), NEW j \in 0 .. n[r] - 1,
                      c[r] \in Int
               PROVE  InputIds(b, n, c, row, w)[FirstPlace(b, n, r, w) + j]
                        = row[r][c[r] + j]
    BY DEF FeedsRows
  <1>1. PICK g \in 0 .. DP * w - 1 : g = FirstPlace(b, n, r, w) + j
    BY FirstPlaceFacts
  <1>2. PICK x \in 0 .. w - 1 : x = Start(b, n, r) + j
    BY FirstPlaceFacts
  <1>3. PICK d \in 0 .. DP - 1 : d = Rank[r]
    BY StartExists
  <1>4. g = w * d + x
    BY <1>1, <1>2, <1>3, FirstPlaceFacts
  <1>5. g \div w = d /\ g % w = x
    BY <1>4, InShare DEF Fits
  <1>6. PICK m \in Nat : m = Len(OnRank(b, d))
    BY IndicesFacts
  <1>7. PICK k \in 1 .. m : OnRank(b, d)[k] = r
    BY <1>3, <1>6, RankFacts
  <1> DEFINE owner == {i \in 1 .. Len(OnRank(b, d)) :
                        /\ QueryStart(b, n, d, i - 1) <= x
                        /\ x < QueryStart(b, n, d, i)}
  <1>8. /\ Start(b, n, r) = QueryStart(b, n, d, k - 1)
        /\ Start(b, n, r) + n[r] = QueryStart(b, n, d, k)
        /\ Start(b, n, r) \in Nat /\ n[r] \in Nat
    BY <1>3, <1>6, <1>7, StartFacts, StartExists
  <1>9. k \in owner
    BY <1>2, <1>6, <1>8
  <1>10. ASSUME NEW l \in owner PROVE l = k
    BY <1>6, <1>9, OwnerIs
  <1>11. (CHOOSE i \in owner : TRUE) = k /\ owner # {}
    <2> HIDE DEF owner
    <2> QED
      BY <1>9, <1>10
  <1>12. OnRank(b, d) # <<>>
    BY <1>6, <1>7
  <1> DEFINE own(e, y) == {i \in 1 .. Len(OnRank(b, e)) :
                            /\ QueryStart(b, n, e, i - 1) <= y
                            /\ y < QueryStart(b, n, e, i)}
             held(e, y, i) == row[OnRank(b, e)[i]][
               c[OnRank(b, e)[i]] + y - QueryStart(b, n, e, i - 1)]
             at(e, y) == IF OnRank(b, e) = <<>> THEN Garbage
                         ELSE IF own(e, y) = {} THEN Zero
                         ELSE held(e, y, CHOOSE i \in own(e, y) : TRUE)
  <1>13. InputIds(b, n, c, row, w)[g] = at(d, x)
    <2>1. InputIds(b, n, c, row, w)
            = [p \in 0 .. DP * w - 1 |-> at(p \div w, p % w)]
      BY Zenon DEF InputIds
    <2> HIDE DEF at
    <2> QED
      BY <1>1, <1>5, <2>1
  <1>14. InputIds(b, n, c, row, w)[g]
           = row[r][c[r] + x - QueryStart(b, n, d, k - 1)]
    <2>1. at(d, x) = held(d, x, k)
      <3>1. own(d, x) = owner
        OBVIOUS
      <3> HIDE DEF own, owner, held
      <3> QED
        BY <1>11, <1>12, <3>1
    <2> QED
      BY <1>7, <1>13, <2>1
  <1>15. c[r] + x - QueryStart(b, n, d, k - 1) = c[r] + j
    BY <1>2, <1>8
  <1> QED
    BY <1>1, <1>14, <1>15

\* positions has where the tokens are in their requests, less what u gives.
Counts(positions, b, n, c, u, w) ==
  \A r \in ToSet(b) : \A j \in 0 .. n[r] - 1 :
    positions[FirstPlace(b, n, r, w) + j] = c[r] + j - u[r]

\* positions has there the position of the token in the request.
LEMMA PositionsAt ==
  ASSUME NEW b, IsBatch(b), NEW n, IsCount(b, n), NEW w, Fits(b, n, w),
         NEW c, NEW u
  PROVE  Counts(Positions(b, n, c, u, w), b, n, c, u, w)
  <1> SUFFICES ASSUME NEW r \in ToSet(b), NEW j \in 0 .. n[r] - 1
               PROVE  Positions(b, n, c, u, w)[FirstPlace(b, n, r, w) + j]
                        = c[r] + j - u[r]
    BY DEF Counts
  <1> DEFINE of(q) == {<<FirstPlace(b, n, q, w) + i, c[q] + i - u[q]>> :
                        i \in 0 .. n[q] - 1}
             at == UNION {of(q) : q \in ToSet(b)}
  <1>1. PICK g : g = FirstPlace(b, n, r, w) + j
    OBVIOUS
  <1>2. <<g, c[r] + j - u[r]>> \in at
    BY <1>1
  <1>3. ASSUME NEW a \in at, a[1] = g PROVE a[2] = c[r] + j - u[r]
    <2>1. PICK q \in ToSet(b) : a \in of(q)
      OBVIOUS
    <2>2. PICK i \in 0 .. n[q] - 1 :
            a = <<FirstPlace(b, n, q, w) + i, c[q] + i - u[q]>>
      BY <2>1
    <2>3. r = q /\ j = i
      BY <1>1, <1>3, <2>2, PlaceOnce
    <2> QED
      BY <2>2, <2>3
  <1>4. Positions(b, n, c, u, w)
          = [p \in {a[1] : a \in at} |-> (CHOOSE a \in at : a[1] = p)[2]]
    BY DEF Positions
  <1> HIDE DEF at
  <1>5. PICK a : a = <<g, c[r] + j - u[r]>>
    OBVIOUS
  <1>6. a \in at /\ a[1] = g
    BY <1>2, <1>5
  <1>7. g \in {e[1] : e \in at}
    BY <1>6
  <1>8. PICK e \in at : e = (CHOOSE x \in at : x[1] = g) /\ e[1] = g
    BY <1>6
  <1>9. Positions(b, n, c, u, w)[g] = e[2]
    BY <1>4, <1>7, <1>8
  <1> QED
    BY <1>1, <1>3, <1>8, <1>9

\* A request's place in next_tokens, by its place on its rank.
LEMMA PlacesAt ==
  ASSUME NEW b, IsBatch(b), NEW w, NEW i \in DOMAIN b
  PROVE  \E k \in 1 .. Len(OnRank(b, Rank[b[i]])) :
           /\ OnRank(b, Rank[b[i]])[k] = b[i]
           /\ Places(b, w)[i] = k - 1 + w * Rank[b[i]]
  <1> DEFINE placed == UNION {{<<Indices(b, d)[k], k - 1 + w * d>> :
                         k \in DOMAIN Indices(b, d)} : d \in 0 .. DP - 1}
  <1>1. b[i] \in Req /\ Rank[b[i]] \in 0 .. DP - 1
    BY LayoutAssumption DEF IsBatch
  <1>2. PICK k \in DOMAIN Indices(b, Rank[b[i]]) :
          Indices(b, Rank[b[i]])[k] = i
    <2>1. PICK d : d = Rank[b[i]]
      OBVIOUS
    <2>2. \A e \in DOMAIN b : Rank[b[e]] = d =>
            \E k \in DOMAIN Indices(b, d) : Indices(b, d)[k] = e
      BY IndicesFacts
    <2> QED
      BY <2>1, <2>2
  <1>3. <<i, k - 1 + w * Rank[b[i]]>> \in placed
    BY <1>1, <1>2
  <1>4. ASSUME NEW p \in placed, p[1] = i
        PROVE  p[2] = k - 1 + w * Rank[b[i]]
    <2>1. PICK d \in 0 .. DP - 1 :
            p \in {<<Indices(b, d)[l], l - 1 + w * d>> :
                     l \in DOMAIN Indices(b, d)}
      OBVIOUS
    <2>2. PICK l \in DOMAIN Indices(b, d) :
            p = <<Indices(b, d)[l], l - 1 + w * d>>
      BY <2>1
    <2>3. Indices(b, d)[l] = i
      BY <1>4, <2>2
    <2>4. Rank[b[i]] = d
      BY <2>3, IndicesFacts
    <2>5. l = k
      BY <1>2, <2>3, <2>4, IndicesOnce
    <2> QED
      BY <2>2, <2>4, <2>5
  <1>5. Places(b, w) = [j \in DOMAIN b |->
                          (CHOOSE q \in placed : q[1] = j)[2]]
    BY DEF Places
  <1> HIDE DEF placed
  <1>6. PICK a : a = <<i, k - 1 + w * Rank[b[i]]>>
    OBVIOUS
  <1>7. a \in placed /\ a[1] = i
    BY <1>3, <1>6
  <1>8. PICK e \in placed : e = (CHOOSE q \in placed : q[1] = i) /\ e[1] = i
    BY <1>7
  <1>9. Places(b, w)[i] = e[2]
    BY <1>5, <1>8
  <1>10. k \in 1 .. Len(OnRank(b, Rank[b[i]]))
         /\ OnRank(b, Rank[b[i]])[k] = b[i]
    BY <1>2, IndicesFacts
  <1> QED
    BY <1>4, <1>8, <1>9, <1>10

\* Max() of a single number.
LEMMA MaxOfOne == Max({0}) = 0
  <1>1. {0} \in SUBSET Nat /\ {0} # {} /\ \A x \in {0} : x <= 0
    OBVIOUS
  <1>2. Max({0}) \in {0}
    BY <1>1, MaxIs
  <1> QED
    BY <1>2

\* The logits of a request are those of its last token.
LEMMA LogitsAt ==
  ASSUME NEW b, IsBatch(b), NEW n, IsCount(b, n), NEW w, Fits(b, n, w),
         NEW i \in DOMAIN b, n[b[i]] >= 1,
         NEW s, s = Places(b, PaddedReqs(b))[i]
  PROVE  /\ s \in 0 .. DP * PaddedReqs(b) - 1
         /\ OnRank(b, s \div PaddedReqs(b))[(s % PaddedReqs(b)) + 1] = b[i]
         /\ LogitsIndices(b, n)[s] \in Nat
         /\ w * (s \div PaddedReqs(b)) + LogitsIndices(b, n)[s]
              = FirstPlace(b, n, b[i], w) + (n[b[i]] - 1)
  <1>1. PICK p \in Nat \ {0} :
          /\ p = PaddedReqs(b)
          /\ \A d \in 0 .. DP - 1 : Len(OnRank(b, d)) <= p
    BY PaddedReqsFacts
  <1>2. PICK r \in ToSet(b) : r = b[i]
    BY DEF ToSet
  <1>3. PICK d \in 0 .. DP - 1 : d = Rank[r]
    BY StartExists
  <1>4. PICK m \in Nat : m = Len(OnRank(b, d)) /\ m <= p
    BY <1>1, IndicesFacts
  <1>5. PICK k \in 1 .. m : OnRank(b, d)[k] = r /\ s = k - 1 + p * d
    <2>1. \E k \in 1 .. Len(OnRank(b, Rank[b[i]])) :
            /\ OnRank(b, Rank[b[i]])[k] = b[i]
            /\ Places(b, p)[i] = k - 1 + p * Rank[b[i]]
      BY PlacesAt
    <2>2. Rank[b[i]] = d /\ s = Places(b, p)[i]
      BY <1>1, <1>2, <1>3
    <2> QED
      BY <1>2, <1>4, <2>1, <2>2
  <1>6. k - 1 \in 0 .. p - 1 /\ p * d \in Nat
    <2>1. DP \in Nat
      BY LayoutAssumption
    <2> QED
      BY <1>1, <1>4, <2>1
  <1>7. s = p * d + (k - 1)
    BY <1>5, <1>6
  <1>8. s \in 0 .. DP * p - 1 /\ s \div p = d /\ s % p = k - 1
    <2>1. PICK j \in 0 .. p - 1 : j = k - 1
      BY <1>6
    <2>2. s = p * d + j
      BY <1>7, <2>1
    <2>3. /\ p * d + j \in 0 .. DP * p - 1
          /\ (p * d + j) \div p = d /\ (p * d + j) % p = j
      BY InShare
    <2> QED
      BY <2>1, <2>2, <2>3
  <1>9. LogitsIndices(b, n)[s] = QueryStart(b, n, d, k) - 1
    <2> DEFINE at(e, y) == IF y <= Len(OnRank(b, e))
                           THEN QueryStart(b, n, e, y) - 1 ELSE -1
    <2>1. LogitsIndices(b, n)
            = [t \in 0 .. DP * p - 1 |-> at(t \div p, (t % p) + 1)]
      BY Zenon, <1>1 DEF LogitsIndices
    <2>2. (s % p) + 1 = k
      BY <1>8
    <2>3. LogitsIndices(b, n)[s] = at(d, k)
      <3> HIDE DEF at
      <3> QED
        BY <1>8, <2>1, <2>2
    <2> QED
      BY <1>4, <2>3
  <1>10. /\ Start(b, n, r) + n[r] = QueryStart(b, n, d, k)
         /\ Start(b, n, r) \in Nat /\ n[r] \in Nat
    BY <1>3, <1>4, <1>5, StartFacts, StartExists
  <1>11. n[r] >= 1 /\ 0 \in 0 .. n[r] - 1
    BY <1>2, <1>10
  <1>12. FirstPlace(b, n, r, w) = w * d + Start(b, n, r)
    BY <1>3, <1>11, FirstPlaceFacts
  <1>13. PICK x \in Nat, y \in Nat : x = Start(b, n, r) /\ y = n[r]
    BY <1>10
  <1>14. PICK z \in Nat : z = w * d
    <2>1. DP \in Nat /\ w \in Nat
      BY LayoutAssumption DEF Fits
    <2> QED
      BY <2>1
  <1>15. w * d + LogitsIndices(b, n)[s] = FirstPlace(b, n, r, w) + (n[r] - 1)
    BY <1>9, <1>10, <1>12, <1>13, <1>14
  <1>16. LogitsIndices(b, n)[s] \in Nat
    BY <1>9, <1>10, <1>11, <1>13
  <1>17. OnRank(b, s \div p)[(s % p) + 1] = r
    BY <1>5, <1>8
  <1> QED
    BY <1>1, <1>2, <1>8, <1>15, <1>16, <1>17

\* A request that was fed its own tokens, without drafts, gets the one that
\* follows its last position.
LEMMA NextAt ==
  ASSUME NEW b, IsBatch(b), NEW n, IsCount(b, n), NEW w, Fits(b, n, w),
         NEW dr, NEW whole, NEW ids, NEW positions,
         NEW i \in DOMAIN b, NEW r, r = b[i],
         n[r] >= 1, dr[r] = 0, r \in whole,
         NEW f \in Nat, f = FirstPlace(b, n, r, w),
         \A j \in 0 .. n[r] - 1 : ids[f + j] = <<r, positions[f + j]>>,
         NEW p \in Int, p = positions[f + (n[r] - 1)]
  PROVE  NextTokens(b, n, dr, whole, ids, positions, w)[
           Places(b, PaddedReqs(b))[i]] = <<<<r, p + 1>>>>
  <1>1. PICK s : s = Places(b, PaddedReqs(b))[i]
    OBVIOUS
  <1>2. PICK slots : slots = PaddedReqs(b)
    OBVIOUS
  <1>3. n[r] \in Nat
    BY DEF IsCount, ToSet
  <1>4. PICK last \in Nat : last = f + (n[r] - 1)
    BY <1>3
  <1> DEFINE logits == LogitsIndices(b, n)
             d == s \div slots
             q == OnRank(b, d)[(s % slots) + 1]
             end == w * d + logits[s]
             right(g) == ids[g] = <<q, positions[g]>>
             known == end - dr[q]
             accepted == Max({k \in 0 .. dr[q] :
                               \A j \in 1 .. k : right(known + j)})
             next == positions[known] + 1
  <1>5. /\ s \in 0 .. DP * slots - 1
        /\ q = r /\ logits[s] \in Nat /\ end = last
    BY <1>1, <1>2, <1>4, LogitsAt
  <1>6. NextTokens(b, n, dr, whole, ids, positions, w)[s]
          = IF logits[s] < 0 THEN <<Garbage>>
            ELSE IF q \notin whole THEN <<<<q, -next>>>>
            ELSE IF \A g \in end - n[q] + 1 .. known : right(g)
            THEN [k \in 1 .. accepted + 1 |-> <<q, next + k - 1>>]
            ELSE <<Garbage>>
    BY <1>2, <1>5 DEF NextTokens
  <1> HIDE DEF logits, q, end
  <1>7. known = last /\ dr[q] = 0
    BY <1>5
  <1>8. next = p + 1
    BY <1>4, <1>7
  <1>9. \A g \in end - n[q] + 1 .. known : right(g)
    <2> SUFFICES ASSUME NEW g \in last - n[r] + 1 .. last
                 PROVE  ids[g] = <<r, positions[g]>>
      BY <1>5, <1>7
    <2>1. PICK j \in 0 .. n[r] - 1 : g = f + j
      <3>1. g - f \in 0 .. n[r] - 1 /\ g = f + (g - f)
        BY <1>3, <1>4
      <3> QED
        BY <3>1
    <2> QED
      BY <2>1
  <1> HIDE DEF right, known, next
  <1>10. accepted = 0
    <2>1. {k \in 0 .. dr[q] : \A j \in 1 .. k : right(known + j)} = {0}
      <3>1. 0 .. dr[q] = {0} /\ 1 .. 0 = {}
        BY <1>7
      <3> QED
        BY <3>1
    <2> QED
      BY <2>1, MaxOfOne
  <1> HIDE DEF accepted
  <1>11. NextTokens(b, n, dr, whole, ids, positions, w)[s]
           = [k \in 1 .. 0 + 1 |-> <<r, p + 1 + k - 1>>]
    <2>1. ~ (logits[s] < 0) /\ q \in whole
      BY <1>5
    <2>2. NextTokens(b, n, dr, whole, ids, positions, w)[s]
           = [k \in 1 .. accepted + 1 |-> <<q, next + k - 1>>]
      BY <1>6, <1>9, <2>1
    <2> QED
      BY <1>5, <1>8, <1>10, <2>2
  <1>12. [k \in 1 .. 0 + 1 |-> <<r, p + 1 + k - 1>>] = <<<<r, p + 1>>>>
    <2>1. 1 .. 0 + 1 = {1} /\ p + 1 + 1 - 1 = p + 1
      OBVIOUS
    <2>2. <<<<r, p + 1>>>> = [k \in {1} |-> <<r, p + 1>>]
      OBVIOUS
    <2>3. \A k \in {1} : <<r, p + 1 + k - 1>> = <<r, p + 1>>
      BY <2>1
    <2> QED
      BY <2>1, <2>2, <2>3
  <1> QED
    BY Zenon, <1>1, <1>11, <1>12

\* Each request of a rank adds at most c tokens.
LEMMA TokensBound ==
  ASSUME NEW b, IsBatch(b), NEW n, NEW c \in Nat,
         \A r \in ToSet(b) : n[r] \in 0 .. c, NEW d
  PROVE  /\ IsCount(b, n)
         /\ TokensOnRank(b, n, d) \in Nat
         /\ TokensOnRank(b, n, d) <= Len(OnRank(b, d)) * c
  <1>1. IsCount(b, n)
    BY DEF IsCount
  <1>2. PICK m \in Nat : m = Len(OnRank(b, d))
    BY IndicesFacts
  <1>3. PICK q : q = [k \in 0 .. m |-> QueryStart(b, n, d, k)]
    OBVIOUS
  <1>4. \A k \in 0 .. m : q[k] \in Nat
    BY <1>1, <1>2, <1>3, QueryStartGrows
  <1>5. q[0] = 0
    BY <1>1, <1>2, <1>3, QueryStartNext
  <1>6. ASSUME NEW k \in 1 .. m PROVE q[k] <= q[k - 1] + c
    <2>1. n[OnRank(b, d)[k]] \in 0 .. c
      BY <1>2, RankFacts
    <2>2. k - 1 \in 0 .. m /\ k \in 0 .. m
      OBVIOUS
    <2>3. q[k] = q[k - 1] + n[OnRank(b, d)[k]]
      BY <1>1, <1>2, <1>3, <2>2, QueryStartNext
    <2> QED
      BY <1>4, <2>1, <2>2, <2>3
  <1> DEFINE T == {l \in Nat : l <= m => q[l] <= l * c}
  <1>7. ASSUME NEW l \in Nat, \A j \in Nat : j < l => j \in T
        PROVE  l \in T
    <2> SUFFICES ASSUME l <= m PROVE q[l] <= l * c
      OBVIOUS
    <2>1. CASE l = 0
      BY <1>5, <2>1
    <2>2. CASE l # 0
      <3>1. PICK j \in Nat : l = j + 1 /\ j < l /\ j <= m
        <4>1. l - 1 \in Nat /\ l = (l - 1) + 1 /\ l - 1 < l /\ l - 1 <= m
          BY <2>2
        <4> QED
          BY <4>1
      <3>2. q[j] <= j * c
        BY <1>7, <3>1
      <3>3. q[l] <= q[j] + c
        <4>1. l \in 1 .. m /\ l - 1 = j
          BY <3>1
        <4> QED
          BY <1>6, <4>1
      <3>4. (j + 1) * c = j * c + c /\ j * c \in Nat
        OBVIOUS
      <3>5. q[j] \in Nat /\ q[l] \in Nat
        BY <1>4, <3>1
      <3> QED
        BY <3>1, <3>2, <3>3, <3>4, <3>5
    <2> QED
      BY <2>1, <2>2
  <1>8. Nat \subseteq T
    <2> HIDE DEF T
    <2> QED
      BY <1>7, NatAll
  <1>9. q[m] <= m * c
    BY <1>8
  <1>10. q[m] = TokensOnRank(b, n, d)
    BY <1>2, <1>3 DEF TokensOnRank
  <1> QED
    BY <1>1, <1>2, <1>4, <1>9, <1>10

\* The padded share has room for the tokens of a step.
LEMMA TokensFit ==
  ASSUME NEW b, IsBatch(b), NEW n, NEW c \in Nat,
         \A r \in ToSet(b) : n[r] \in 0 .. c,
         \E p \in Paddings : p >= Cardinality(Req) * c
  PROVE  Fits(b, n, PaddedTokens(b, n, FALSE))
  <1> DEFINE S == {TokensOnRank(b, n, d) : d \in 0 .. DP - 1}
  <1>1. PICK z \in Nat : z = Cardinality(Req) * c
    BY LayoutAssumption, FS_CardinalityType
  <1>2. ASSUME NEW d \in 0 .. DP - 1
        PROVE  TokensOnRank(b, n, d) \in Nat /\ TokensOnRank(b, n, d) <= z
    <2>1. /\ TokensOnRank(b, n, d) \in Nat
          /\ TokensOnRank(b, n, d) <= Len(OnRank(b, d)) * c
      BY TokensBound
    <2>2. PICK m \in Nat, e \in Nat :
            /\ m = Len(OnRank(b, d)) /\ e = Cardinality(Req) /\ m <= e
      BY IndicesFacts, LayoutAssumption, FS_CardinalityType
    <2>3. m * c <= e * c
      BY <2>2
    <2> QED
      BY <1>1, <2>1, <2>2, <2>3
  <1>3. S \in SUBSET Nat /\ \A x \in S : x <= z
    BY <1>2
  <1>4. S # {}
    <2>1. 0 \in 0 .. DP - 1
      BY LayoutAssumption
    <2> QED
      BY <2>1
  <1>5. \A d \in 0 .. DP - 1 : TokensOnRank(b, n, d) \in S
    OBVIOUS
  <1>6. PaddedTokens(b, n, FALSE) = PaddedLen(Max(S))
    BY DEF PaddedTokens
  <1> HIDE DEF S
  <1>7. Max(S) \in S /\ \A y \in S : Max(S) >= y
    BY <1>1, <1>3, <1>4, MaxIs
  <1>8. PICK x \in Nat : x = Max(S) /\ x <= z
    BY <1>3, <1>7
  <1>9. /\ {p \in Paddings : p >= x} \in SUBSET Nat
        /\ {p \in Paddings : p >= x} # {}
    <2>1. Paddings \in SUBSET Nat
      BY LayoutAssumption
    <2>2. PICK p \in Paddings : p >= z
      BY <1>1
    <2>3. p >= x
      BY <1>8, <2>1, <2>2
    <2> QED
      BY <2>1, <2>2, <2>3
  <1>10. PaddedLen(x) \in Paddings /\ PaddedLen(x) >= x
    BY <1>9, MinIs DEF PaddedLen
  <1>11. PICK w \in Nat \ {0} : w = PaddedLen(x) /\ w >= x
    BY <1>10, LayoutAssumption
  <1>12. ASSUME NEW d \in 0 .. DP - 1 PROVE TokensOnRank(b, n, d) <= w
    <2>1. PICK y \in Nat : y = TokensOnRank(b, n, d) /\ y \in S
      BY <1>2, <1>5
    <2>2. y <= x
      BY <1>7, <1>8, <2>1
    <2> QED
      BY <1>11, <2>1, <2>2
  <1> QED
    BY <1>6, <1>8, <1>11, <1>12 DEF Fits

\* In a burst there is one token per request.
LEMMA BurstTokensFit ==
  ASSUME NEW b, IsBatch(b), NEW n, \A r \in ToSet(b) : n[r] = 1
  PROVE  /\ IsCount(b, n)
         /\ PaddedTokens(b, n, TRUE) = PaddedReqs(b)
         /\ Fits(b, n, PaddedTokens(b, n, TRUE))
  <1>1. PaddedTokens(b, n, TRUE) = PaddedReqs(b)
    BY DEF PaddedTokens
  <1>2. PICK w \in Nat \ {0} :
          /\ w = PaddedReqs(b)
          /\ \A d \in 0 .. DP - 1 : Len(OnRank(b, d)) <= w
    BY PaddedReqsFacts
  <1>3. ASSUME NEW d \in 0 .. DP - 1 PROVE TokensOnRank(b, n, d) <= w
    <2>1. PICK m \in Nat : m = Len(OnRank(b, d))
      BY IndicesFacts
    <2>2. /\ TokensOnRank(b, n, d) \in Nat
          /\ TokensOnRank(b, n, d) <= m * 1
      <3>1. \A r \in ToSet(b) : n[r] \in 0 .. 1
        OBVIOUS
      <3> QED
        BY <2>1, <3>1, TokensBound
    <2> QED
      BY <1>2, <2>1, <2>2
  <1>4. IsCount(b, n)
    BY DEF IsCount
  <1> QED
    BY <1>1, <1>2, <1>3, <1>4 DEF Fits

\* In sub the tokens of who are those of next from the places ph on; the
\* others are those of ids.
TakesFrom(sub, ids, b, n, w, who, ph, stride, next) ==
  \A r \in ToSet(b) : \A j \in 0 .. n[r] - 1 :
    LET g == FirstPlace(b, n, r, w) + j
    IN g \in DOMAIN ids => sub[g] = IF r \in who
                                    THEN next[ph[r] * stride + j] ELSE ids[g]

\* The token of the previous step is put in the place of the request's token;
\* a request that has none keeps what its row holds.
LEMMA SubstitutedAt ==
  ASSUME NEW b, IsBatch(b), NEW n, IsCount(b, n), NEW w, Fits(b, n, w),
         NEW dec, NEW ph, NEW stride, NEW ids, NEW next,
         NEW sub, sub = Substituted(ids,
           SubstitutionIndices(b, n, dec, ph, w, stride), next)
  PROVE  TakesFrom(sub, ids, b, n, w, dec \cap DOMAIN ph, ph, stride, next)
  <1> SUFFICES ASSUME NEW r \in ToSet(b), NEW j \in 0 .. n[r] - 1,
                      NEW f, f = FirstPlace(b, n, r, w), f + j \in DOMAIN ids
               PROVE  /\ r \in dec /\ r \in DOMAIN ph =>
                           sub[f + j] = next[ph[r] * stride + j]
                      /\ ~ (r \in dec /\ r \in DOMAIN ph) =>
                           sub[f + j] = ids[f + j]
    BY DEF TakesFrom
  <1> DEFINE of(q) == {<<FirstPlace(b, n, q, w) + i, ph[q] * stride + i>> :
                        i \in 0 .. n[q] - 1}
             who == ToSet(b) \cap dec \cap DOMAIN ph
             pairs == UNION {of(q) : q \in who}
  <1>1. pairs = SubstitutionIndices(b, n, dec, ph, w, stride)
    BY DEF SubstitutionIndices
  <1>2. PICK g : g = f + j /\ g \in DOMAIN ids
    OBVIOUS
  <1>3. ASSUME NEW p \in pairs, p[1] = g
        PROVE  r \in who /\ p[2] = ph[r] * stride + j
    <2>1. PICK q \in who : p \in of(q)
      OBVIOUS
    <2>2. PICK i \in 0 .. n[q] - 1 :
            p = <<FirstPlace(b, n, q, w) + i, ph[q] * stride + i>>
      BY <2>1
    <2>3. FirstPlace(b, n, r, w) + j = FirstPlace(b, n, q, w) + i
      BY <1>2, <1>3, <2>2
    <2>4. q \in ToSet(b)
      OBVIOUS
    <2> HIDE DEF who
    <2>5. r = q /\ j = i
      BY <2>3, <2>4, PlaceOnce
    <2> QED
      BY <2>2, <2>5
  <1>4. r \in who => <<g, ph[r] * stride + j>> \in pairs
    BY <1>2
  <1>5. sub = [e \in DOMAIN ids |->
                IF \E p \in pairs : p[1] = e
                THEN next[(CHOOSE p \in pairs : p[1] = e)[2]]
                ELSE ids[e]]
    BY <1>1 DEF Substituted
  <1> HIDE DEF pairs
  <1>6. ASSUME r \in dec, r \in DOMAIN ph
        PROVE  sub[g] = next[ph[r] * stride + j]
    <2>1. PICK a : a = <<g, ph[r] * stride + j>>
      OBVIOUS
    <2>2. a \in pairs /\ a[1] = g
      BY <1>4, <1>6, <2>1
    <2>3. PICK e \in pairs : e = (CHOOSE p \in pairs : p[1] = g) /\ e[1] = g
      BY <2>2
    <2>4. sub[g] = next[e[2]]
      BY <1>2, <1>5, <2>3
    <2> QED
      BY <1>3, <2>3, <2>4
  <1>7. ASSUME ~ (r \in dec /\ r \in DOMAIN ph)
        PROVE  sub[g] = ids[g]
    <2>1. ~ (\E p \in pairs : p[1] = g)
      BY <1>3, <1>7
    <2> QED
      BY <1>2, <1>5, <2>1
  <1> QED
    BY <1>2, <1>6, <1>7

=============================================================================
