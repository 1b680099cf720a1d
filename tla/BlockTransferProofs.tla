------------------------ MODULE BlockTransferProofs ------------------------
(***************************************************************************)
(* Which blocks a transfer moves, for any block size, prompt and layout of *)
(* D's cache.  The proof has three parts: the arithmetic on which P and D  *)
(* must agree, the bucket a transfer is padded to, and the chunks the      *)
(* insert copies.  The last two reason about every element of a recursion  *)
(* or of a list; they do so by a least counterexample.                     *)
(***************************************************************************)
EXTENDS BlockTransfer, FiniteSetTheorems, TLAPS

\* A set of naturals that is not empty has a least element.
LEMMA NatLeast ==
  ASSUME NEW T \in SUBSET Nat, T # {}
  PROVE  \E x \in T : \A y \in T : x <= y
  <1>1. IsWellFoundedOn(OpToRel(<, Nat), Nat)
    BY NatLessThanWellFounded
  <1>2. PICK x \in T : \A y \in T : ~ (<<y, x>> \in OpToRel(<, Nat))
    BY <1>1, WFMin
  <1>3. \A y \in T : x <= y
    <2> SUFFICES ASSUME NEW y \in T, ~ (x <= y) PROVE FALSE
      OBVIOUS
    <2>1. y < x /\ y \in Nat /\ x \in Nat
      OBVIOUS
    <2>2. <<y, x>> \in {ss \in Nat \X Nat : ss[1] < ss[2]}
      BY <2>1
    <2>3. <<y, x>> \in OpToRel(<, Nat)
      BY <2>2 DEF OpToRel
    <2> QED
      BY <1>2, <2>3
  <1> QED
    BY <1>3

\* A set of naturals that holds n whenever it holds all numbers below n.
LEMMA NatAll ==
  ASSUME NEW T,
         \A n \in Nat : (\A m \in Nat : m < n => m \in T) => n \in T
  PROVE  Nat \subseteq T
  <1> SUFFICES ASSUME Nat \ T # {} PROVE FALSE
    OBVIOUS
  <1>1. PICK n \in Nat \ T : \A m \in Nat \ T : n <= m
    BY NatLeast
  <1>2. \A m \in Nat : m < n => m \in T
    BY <1>1
  <1> QED
    BY <1>2

-----------------------------------------------------------------------------
(* 1 << m.bit_length(), the recursion that TLC evaluates.                  *)

\* The first n + 1 values of the recursion.
Start(n) == {g \in [0 .. n -> Nat] :
               \A m \in 0 .. n : g[m] = IF m = 0 THEN 1 ELSE 2 * g[m \div 2]}

\* What halving does to a positive number, as m >> 1 does.
LEMMA Halves ==
  ASSUME NEW m \in Nat, m # 0
  PROVE  m \div 2 \in Nat /\ m \div 2 < m /\ 2 * (m \div 2) <= m
         /\ m < 2 * (m \div 2) + 2
  OBVIOUS

\* The recursion of m.bit_length() has a value table of every length.
LEMMA StartExists == \A n \in Nat : Start(n) # {}
  <1> DEFINE T == {n \in Nat : Start(n) # {}}
  <1>1. ASSUME NEW n \in Nat, \A m \in Nat : m < n => m \in T
        PROVE  n \in T
    <2>1. CASE n = 0
      <3>1. [m \in 0 .. 0 |-> 1] \in Start(0)
        BY DEF Start
      <3> QED
        BY <2>1, <3>1
    <2>2. CASE n # 0
      <3>1. n - 1 \in Nat /\ n - 1 < n
        BY <2>2
      <3>2. PICK g : g \in Start(n - 1)
        BY <1>1, <3>1
      <3>3. /\ g \in [0 .. n - 1 -> Nat]
            /\ \A m \in 0 .. n - 1 :
                 g[m] = IF m = 0 THEN 1 ELSE 2 * g[m \div 2]
        BY <3>2 DEF Start
      <3> DEFINE h == [m \in 0 .. n |-> IF m = n THEN 2 * g[n \div 2]
                                                 ELSE g[m]]
      <3>4. n \div 2 \in 0 .. n - 1
        BY <2>2, Halves
      <3>5. h \in [0 .. n -> Nat]
        BY <3>3, <3>4
      <3>6. \A m \in 0 .. n : h[m] = IF m = 0 THEN 1 ELSE 2 * h[m \div 2]
        <4> SUFFICES ASSUME NEW m \in 0 .. n
                     PROVE  h[m] = IF m = 0 THEN 1 ELSE 2 * h[m \div 2]
          OBVIOUS
        <4>1. CASE m = 0
          BY <2>2, <3>3, <4>1
        <4>2. CASE m # 0
          <5>1. m \div 2 \in 0 .. n - 1
            BY <4>2, Halves
          <5>2. h[m \div 2] = g[m \div 2]
            BY <5>1
          <5> QED
            BY <3>3, <4>2, <5>1, <5>2
        <4> QED
          BY <4>1, <4>2
      <3>7. h \in Start(n)
        BY <3>5, <3>6 DEF Start
      <3> QED
        BY <3>7
    <2> QED
      BY <2>1, <2>2
  <1>2. Nat \subseteq T
    BY <1>1, NatAll
  <1> QED
    BY <1>2

\* Such a table takes both equations of the recursion.
LEMMA StartFacts ==
  ASSUME NEW n \in Nat, NEW g \in Start(n), NEW m \in Nat, m <= n
  PROVE  /\ m = 0 => g[m] = 1
         /\ m # 0 => g[m] = 2 * g[m \div 2]
  <1>1. m \in 0 .. n
    OBVIOUS
  <1>2. g[m] = IF m = 0 THEN 1 ELSE 2 * g[m \div 2]
    BY <1>1 DEF Start
  <1> QED
    BY <1>2

\* Two such tables agree wherever both are defined.
LEMMA StartsAgree ==
  ASSUME NEW i \in Nat, NEW j \in Nat, NEW g \in Start(i), NEW h \in Start(j)
  PROVE  \A m \in Nat : m <= i /\ m <= j => g[m] = h[m]
  <1> DEFINE T == {m \in Nat : m <= i /\ m <= j => g[m] = h[m]}
  <1>1. ASSUME NEW n \in Nat, \A m \in Nat : m < n => m \in T
        PROVE  n \in T
    <2>1. CASE n = 0
      BY <2>1, StartFacts
    <2>2. CASE n # 0
      <3>1. n \div 2 \in T
        BY <1>1, <2>2, Halves
      <3>2. n <= i /\ n <= j
              => g[n] = 2 * g[n \div 2] /\ h[n] = 2 * h[n \div 2]
        BY <2>2, StartFacts
      <3> QED
        BY <2>2, <3>1, <3>2, Halves
    <2> QED
      BY <2>1, <2>2
  <1>2. Nat \subseteq T
    BY <1>1, NatAll
  <1> QED
    BY <1>2

\* The recursion defines a function.
LEMMA Doubling ==
  ShiftByBitLength = [m \in Nat |-> IF m = 0 THEN 1
                                    ELSE 2 * ShiftByBitLength[m \div 2]]
  <1> DEFINE G(n) == CHOOSE g \in Start(n) : TRUE
             F == [n \in Nat |-> G(n)[n]]
  <1>1. \A n \in Nat : G(n) \in Start(n)
    BY StartExists
  <1>2. \A n \in Nat : F[n] = G(n)[n]
    OBVIOUS
  <1> HIDE DEF G
  <1>3. ASSUME NEW m \in Nat
        PROVE  F[m] = IF m = 0 THEN 1 ELSE 2 * F[m \div 2]
    <2>1. CASE m = 0
      BY <1>1, <1>2, <2>1, StartFacts
    <2>2. CASE m # 0
      <3>1. m \div 2 \in Nat /\ m \div 2 <= m
        BY <2>2, Halves
      <3>2. G(m)[m] = 2 * G(m)[m \div 2]
        BY <1>1, <2>2, StartFacts
      <3>3. G(m)[m \div 2] = G(m \div 2)[m \div 2]
        BY <1>1, <3>1, StartsAgree
      <3> QED
        BY <1>2, <2>2, <3>1, <3>2, <3>3
    <2> QED
      BY <2>1, <2>2
  <1>4. F = [m \in Nat |-> F[m]]
    OBVIOUS
  <1> HIDE DEF F
  <1>5. F = [m \in Nat |-> IF m = 0 THEN 1 ELSE 2 * F[m \div 2]]
    BY <1>3, <1>4
  <1>6. \E f : f = [m \in Nat |-> IF m = 0 THEN 1 ELSE 2 * f[m \div 2]]
    BY <1>5
  <1> QED
    BY <1>6 DEF ShiftByBitLength

\* The value for m lies strictly above m and at most twice as high.
LEMMA DoublingBounds ==
  \A m \in Nat :
    /\ ShiftByBitLength[m] \in Nat
    /\ m < ShiftByBitLength[m]
    /\ m # 0 => ShiftByBitLength[m] <= 2 * m
  <1> DEFINE f == ShiftByBitLength
             T == {m \in Nat : f[m] \in Nat /\ m < f[m]
                                 /\ (m # 0 => f[m] <= 2 * m)}
  <1>1. ASSUME NEW m \in Nat
        PROVE  /\ m = 0 => f[m] = 1
               /\ m # 0 => f[m] = 2 * f[m \div 2]
    BY Doubling
  <1> HIDE DEF f
  <1>2. ASSUME NEW n \in Nat, \A m \in Nat : m < n => m \in T
        PROVE  n \in T
    <2>1. CASE n = 0
      BY <1>1, <2>1
    <2>2. CASE n = 1
      <3>1. 1 \div 2 = 0
        OBVIOUS
      <3> QED
        BY <1>1, <2>2, <3>1
    <2>3. CASE n > 1
      <3>1. /\ n \div 2 \in Nat /\ n \div 2 < n /\ 2 * (n \div 2) <= n
            /\ n < 2 * (n \div 2) + 2 /\ n \div 2 # 0
        BY <2>3
      <3>2. /\ f[n \div 2] \in Nat /\ n \div 2 < f[n \div 2]
            /\ f[n \div 2] <= 2 * (n \div 2)
        BY <1>2, <3>1
      <3>3. f[n] = 2 * f[n \div 2]
        BY <1>1, <2>3
      <3> QED
        BY <3>1, <3>2, <3>3
    <2> QED
      BY <2>1, <2>2, <2>3
  <1>3. Nat \subseteq T
    BY <1>2, NatAll
  <1> QED
    BY <1>3 DEF f

\* A bucket holds what it is made for and less than twice as much.
LEMMA BucketBounds ==
  ASSUME NEW n \in Nat, n # 0
  PROVE  Bucket(n) \in Nat /\ n <= Bucket(n) /\ Bucket(n) < 2 * n
  <1>1. n - 1 \in Nat
    OBVIOUS
  <1>2. CASE n = 1
    <2>1. ShiftByBitLength[0] = 1
      BY Doubling
    <2> QED
      BY <1>2, <2>1 DEF Bucket
  <1>3. CASE n # 1
    BY <1>1, <1>3, DoublingBounds DEF Bucket
  <1> QED
    BY <1>2, <1>3

\* 2^n, as the number of subsets of a set of n elements.
LEMMA PowersOfTwo ==
  ASSUME NEW n \in Nat
  PROVE  2^n \in Nat /\ 2^(n + 1) = 2 * 2^n
  <1> DEFINE P == SUBSET (1 .. n)
             Q == {A \cup {n + 1} : A \in P}
             g == [A \in P |-> A \cup {n + 1}]
  <1>1. /\ IsFiniteSet(1 .. n) /\ Cardinality(1 .. n) = n
        /\ IsFiniteSet(1 .. n + 1) /\ Cardinality(1 .. n + 1) = n + 1
    BY FS_Interval
  <1>2. /\ IsFiniteSet(P) /\ Cardinality(P) = 2^n
        /\ Cardinality(SUBSET (1 .. n + 1)) = 2^(n + 1)
    BY <1>1, FS_SUBSET
  <1>3. 2^n \in Nat
    BY <1>2, FS_CardinalityType
  <1>4. P \cap Q = {}
    <2>1. \A A \in P : n + 1 \notin A
      BY SMT
    <2>2. \A B \in Q : n + 1 \in B
      OBVIOUS
    <2> QED
      BY <2>1, <2>2
  <1>5. P \cup Q = SUBSET (1 .. n + 1)
    <2>1. 1 .. n + 1 = 1 .. n \cup {n + 1}
      OBVIOUS
    <2>2. ASSUME NEW B \in SUBSET (1 .. n + 1), n + 1 \in B
          PROVE  B \in Q
      <3>1. B \ {n + 1} \in P
        BY <2>1
      <3>2. B = (B \ {n + 1}) \cup {n + 1}
        BY <2>2
      <3> QED
        BY <3>1, <3>2
    <2>3. ASSUME NEW B \in SUBSET (1 .. n + 1), n + 1 \notin B
          PROVE  B \in P
      BY <2>1, <2>3
    <2>4. P \subseteq SUBSET (1 .. n + 1) /\ Q \subseteq SUBSET (1 .. n + 1)
      BY <2>1
    <2> QED
      BY <2>2, <2>3, <2>4
  <1>6. ExistsBijection(P, Q)
    <2>1. g \in [P -> Q]
      OBVIOUS
    <2>2. \A A, B \in P : g[A] = g[B] => A = B
      <3> SUFFICES ASSUME NEW A \in P, NEW B \in P,
                          A \cup {n + 1} = B \cup {n + 1}
                   PROVE  A = B
        OBVIOUS
      <3>1. n + 1 \notin A /\ n + 1 \notin B
        BY SMT
      <3> QED
        BY <3>1
    <2>3. \A B \in Q : \E A \in P : g[A] = B
      OBVIOUS
    <2>4. g \in Bijection(P, Q)
      BY <2>1, <2>2, <2>3 DEF Bijection, Injection, Surjection, IsInjective
    <2> QED
      BY <2>4 DEF ExistsBijection
  <1> HIDE DEF P, Q, g
  <1>7. IsFiniteSet(Q) /\ Cardinality(Q) = Cardinality(P)
    BY <1>2, <1>6, FS_Bijection
  <1>8. Cardinality(P \cup Q) = 2^n + 2^n - Cardinality({})
    BY <1>2, <1>4, <1>7, FS_Union
  <1>9. PICK k \in Nat : k = 2^n
    BY <1>3
  <1>10. 2^(n + 1) = k + k
    BY <1>2, <1>5, <1>8, <1>9, FS_EmptySet
  <1>11. k + k = 2 * k
    OBVIOUS
  <1> QED
    BY <1>3, <1>9, <1>10, <1>11

\* The recursion yields powers of two.
LEMMA DoublingPowers ==
  \A m \in Nat : \E e \in 0 .. m : ShiftByBitLength[m] = 2^e
  <1> DEFINE f == ShiftByBitLength
             T == {m \in Nat : \E e \in 0 .. m : f[m] = 2^e}
  <1>1. ASSUME NEW m \in Nat
        PROVE  /\ m = 0 => f[m] = 1
               /\ m # 0 => f[m] = 2 * f[m \div 2]
    BY Doubling
  <1> HIDE DEF f
  <1>2. ASSUME NEW n \in Nat, \A m \in Nat : m < n => m \in T
        PROVE  n \in T
    <2>1. CASE n = 0
      <3>1. f[n] = 2^0 /\ 0 \in 0 .. n
        BY <1>1, <2>1
      <3> QED
        BY <3>1
    <2>2. CASE n # 0
      <3>1. /\ n \div 2 \in Nat /\ n \div 2 < n
        BY <2>2, Halves
      <3>2. PICK e \in 0 .. n \div 2 : f[n \div 2] = 2^e
        BY <1>2, <3>1
      <3>3. e \in Nat /\ e + 1 \in 0 .. n
        BY <3>1, <3>2
      <3>4. f[n] = 2^(e + 1)
        BY <1>1, <2>2, <3>2, <3>3, PowersOfTwo
      <3> QED
        BY <3>3, <3>4
    <2> QED
      BY <2>1, <2>2
  <1>3. Nat \subseteq T
    BY <1>2, NatAll
  <1> QED
    BY <1>3 DEF f

\* A bucket is a power of two.
LEMMA BucketPower ==
  ASSUME NEW n \in Nat, n # 0
  PROVE  \E e \in 0 .. Bucket(n) : Bucket(n) = 2^e
  <1>1. PICK e \in 0 .. n - 1 : Bucket(n) = 2^e
    BY DoublingPowers DEF Bucket
  <1> QED
    BY <1>1, BucketBounds

-----------------------------------------------------------------------------
(* The arithmetic of P and D.                                              *)

\* A quotient is the only multiple that fits under n.
LEMMA DivUnique ==
  ASSUME NEW n \in Nat, NEW b \in Nat \ {0}, NEW q \in Nat,
         q * b <= n, n < q * b + b
  PROVE  n \div b = q /\ n % b = n - q * b
  <1>1. /\ n \div b \in Int /\ n % b \in 0 .. b - 1
        /\ n = b * (n \div b) + (n % b)
    BY SMT
  <1>2. ASSUME NEW p \in Int, n = b * p + (n % b)
        PROVE  p = q
    <2>1. b * p <= n /\ n < b * p + b
      BY <1>1, <1>2
    <2>2. CASE p < q
      <3>1. b * (p + 1) <= b * q
        BY <2>2
      <3> QED
        BY <2>1, <3>1
    <2>3. CASE q < p
      <3>1. b * (q + 1) <= b * p
        BY <2>3
      <3> QED
        BY <2>1, <3>1
    <2> QED
      BY <2>2, <2>3
  <1> QED
    BY <1>1, <1>2

\* What n // b is: the number of whole blocks in n tokens.
LEMMA DivFacts ==
  ASSUME NEW n \in Nat, NEW b \in Nat \ {0}
  PROVE  /\ n \div b \in Nat
         /\ (n \div b) * b <= n
         /\ n < (n \div b) * b + b
         /\ n % b = n - (n \div b) * b
  OBVIOUS

\* The blocks that hold a prompt: its full blocks, and a partial one if any.
LEMMA CeilDivFacts ==
  ASSUME NEW n \in Nat, NEW b \in Nat \ {0}
  PROVE  CeilDiv(n, b) = IF n % b = 0 THEN n \div b ELSE n \div b + 1
  <1> DEFINE q == n \div b
  <1>1. /\ q \in Nat /\ q * b <= n /\ n < q * b + b
        /\ n % b = n - q * b
    BY DivFacts
  <1> HIDE DEF q
  <1>2. n + b - 1 \in Nat
    OBVIOUS
  <1>3. CASE n % b = 0
    <2>1. q * b <= n + b - 1 /\ n + b - 1 < q * b + b
      BY <1>1, <1>3
    <2>2. (n + b - 1) \div b = q
      BY <1>1, <1>2, <2>1, DivUnique
    <2> QED
      BY <1>3, <2>2 DEF CeilDiv, q
  <1>4. CASE n % b # 0
    <2>1. (q + 1) * b = q * b + b
      BY <1>1
    <2>2. (q + 1) * b <= n + b - 1 /\ n + b - 1 < (q + 1) * b + b
      BY <1>1, <1>4, <2>1
    <2>3. (n + b - 1) \div b = q + 1
      <3>1. q + 1 \in Nat
        BY <1>1
      <3> QED
        BY <1>2, <2>2, <3>1, DivUnique
    <2> QED
      BY <1>4, <2>3 DEF CeilDiv, q
  <1> QED
    BY <1>3, <1>4

\* P offers the full blocks in prompt order, whether the last is partial.
LEMMA Computed ==
  ASSUME NEW n \in Nat, NEW b \in Nat \ {0}
  PROVE  ComputedBlockIds(n, b) = [k \in 1 .. n \div b |-> 10 * k]
  <1> DEFINE q == n \div b
  <1>1. q \in Nat
    BY DivFacts
  <1>2. CASE n % b = 0
    BY <1>2, CeilDivFacts DEF ComputedBlockIds, ProducerIds
  <1>3. CASE n % b # 0
    <2>1. CeilDiv(n, b) = q + 1
      BY <1>3, CeilDivFacts
    <2>2. ComputedBlockIds(n, b)
            = SubSeq([k \in 1 .. q + 1 |-> 10 * k], 1, q + 1 - 1)
      BY <1>3, <2>1 DEF ComputedBlockIds, ProducerIds
    <2> HIDE DEF q
    <2>3. SubSeq([k \in 1 .. q + 1 |-> 10 * k], 1, q + 1 - 1)
            = [k \in 1 .. q |-> 10 * k]
      BY <1>1
    <2> QED
      BY <2>2, <2>3 DEF q
  <1> QED
    BY <1>2, <1>3

\* D asks for the blocks it lacks: what it counts in tokens comes out even.
LEMMA External ==
  ASSUME NEW n \in Nat, NEW b \in Nat \ {0}, NEW h \in 0 .. n \div b
  PROVE  ExternalTokens(n, b, h) = (n \div b - h) * b
  <1> DEFINE q == n \div b
  <1>1. q \in Nat /\ h \in 0 .. q
    BY DivFacts
  <1>2. ExternalTokens(n, b, h) = IF q * b > h * b THEN q * b - h * b ELSE 0
    BY DEF ExternalTokens
  <1> HIDE DEF q
  <1>3. h * b <= q * b /\ (q - h) * b = q * b - h * b
    BY <1>1
  <1> QED
    BY <1>1, <1>2, <1>3 DEF q

\* The blocks missing from a whole number of them are all of them.
LEMMA Missing ==
  ASSUME NEW x \in Nat, NEW b \in Nat \ {0}
  PROVE  MissingBlocks(x * b, b) = x
  <1>1. x * b + b - 1 \in Nat /\ x * b <= x * b + b - 1
        /\ x * b + b - 1 < x * b + b
    OBVIOUS
  <1>2. (x * b + b - 1) \div b = x
    BY <1>1, DivUnique
  <1> QED
    BY <1>2 DEF MissingBlocks, CeilDiv

-----------------------------------------------------------------------------
(* The chunks of an insert.                                                *)

\* The indices a chunk that starts at i takes.
Run(ids, i) == {j \in DOMAIN ids : j >= i /\
                  \A k \in ChunkStarts(ids) : k <= i \/ k > j}

\* A chunk takes an interval: up to the next start, or to the end.
LEMMA RunIsInterval ==
  ASSUME NEW ids \in Seq(Nat), NEW i \in ChunkStarts(ids)
  PROVE  \E e \in DOMAIN ids :
           /\ i <= e /\ Run(ids, i) = i .. e
           /\ \A k \in ChunkStarts(ids) : k <= i \/ k > e
  <1> DEFINE later == {k \in ChunkStarts(ids) : k > i}
  <1>1. /\ DOMAIN ids = 1 .. Len(ids) /\ Len(ids) \in Nat
        /\ ChunkStarts(ids) \subseteq DOMAIN ids
    BY DEF ChunkStarts
  <1>2. CASE later = {}
    <2>1. \A k \in ChunkStarts(ids) : k <= i
      BY <1>1, <1>2
    <2>2. Run(ids, i) = i .. Len(ids)
      BY <1>1, <2>1 DEF Run
    <2> QED
      BY <1>1, <2>1, <2>2
  <1>3. CASE later # {}
    <2>1. later \in SUBSET Nat
      BY <1>1
    <2>2. PICK k \in later : \A m \in later : k <= m
      BY <1>3, <2>1, NatLeast
    <2>3. k \in 1 .. Len(ids) /\ i \in 1 .. Len(ids) /\ k > i
      BY <1>1
    <2>4. k - 1 \in DOMAIN ids /\ i <= k - 1
      BY <1>1, <2>3
    <2>5. \A m \in ChunkStarts(ids) : m <= i \/ m > k - 1
      BY <1>1, <2>2, <2>3
    <2>6. \A j \in Run(ids, i) : j \in i .. k - 1
      BY <1>1, <2>3 DEF Run
    <2>7. \A j \in i .. k - 1 : j \in Run(ids, i)
      BY <1>1, <2>3, <2>5 DEF Run
    <2> QED
      BY <2>4, <2>5, <2>6, <2>7
  <1> QED
    BY <1>2, <1>3

\* Within a chunk the ids follow one another.
LEMMA RunIsContiguous ==
  ASSUME NEW ids \in Seq(Nat), NEW i \in DOMAIN ids, NEW e \in DOMAIN ids,
         \A k \in ChunkStarts(ids) : k <= i \/ k > e
  PROVE  \A j \in i .. e : ids[j] = ids[i] + (j - i)
  <1> DEFINE T == {d \in Nat : i + d <= e => ids[i + d] = ids[i] + d}
  <1>1. /\ DOMAIN ids = 1 .. Len(ids) /\ Len(ids) \in Nat
        /\ \A j \in DOMAIN ids : ids[j] \in Nat
    OBVIOUS
  <1>2. ASSUME NEW d \in Nat, \A m \in Nat : m < d => m \in T
        PROVE  d \in T
    <2>1. CASE d = 0
      BY <1>1, <2>1
    <2>2. CASE d # 0 /\ i + d <= e
      <3>1. d - 1 \in T /\ d - 1 \in Nat
        BY <1>2, <2>2
      <3>2. ids[i + (d - 1)] = ids[i] + (d - 1)
        BY <1>1, <2>2, <3>1
      <3>3. PICK p \in DOMAIN ids : p = i + d
        BY <1>1, <2>2
      <3>4. p # 1 /\ ~ (p <= i) /\ ~ (p > e) /\ p - 1 = i + (d - 1)
        BY <1>1, <2>2, <3>3
      <3>5. ids[p] = ids[p - 1] + 1
        BY <3>4 DEF ChunkStarts
      <3>6. ids[i] + (d - 1) + 1 = ids[i] + d
        BY <1>1
      <3> QED
        BY <3>2, <3>3, <3>4, <3>5, <3>6
    <2>3. CASE ~ (i + d <= e)
      BY <2>3
    <2> QED
      BY <2>1, <2>2, <2>3
  <1>3. Nat \subseteq T
    BY <1>2, NatAll
  <1>4. ASSUME NEW j \in i .. e PROVE ids[j] = ids[i] + (j - i)
    <2>1. j - i \in Nat /\ i + (j - i) = j /\ j <= e
      BY <1>1
    <2>2. j - i \in T
      BY <1>3, <2>1
    <2> QED
      BY <2>1, <2>2
  <1> QED
    BY <1>4

\* What a copy writes: at each of its ids, the block of that id's index.
LEMMA ChunkHolds ==
  ASSUME NEW ids \in Seq(Nat), NEW w, NEW h \in Chunks(ids, w),
         NEW id \in Nat, id \in h.dest .. h.dest + h.size - 1
  PROVE  /\ h.src + id - h.dest \in DOMAIN ids
         /\ ids[h.src + id - h.dest] = id
  <1>1. PICK i \in ChunkStarts(ids) :
          h = [src |-> i, dest |-> ids[i], size |-> Cardinality(Run(ids, i))]
    <2>1. CASE h \in Pads(ids, w)
      <3>1. h.dest = 0 /\ h.size = 0
        BY <2>1 DEF Pads
      <3> QED
        BY <3>1
    <2>2. CASE h \in Runs(ids)
      BY <2>2 DEF Runs, Run
    <2> QED
      BY <2>1, <2>2 DEF Chunks
  <1>2. PICK e \in DOMAIN ids :
          /\ i <= e /\ Run(ids, i) = i .. e
          /\ \A k \in ChunkStarts(ids) : k <= i \/ k > e
    BY RunIsInterval
  <1>3. /\ DOMAIN ids = 1 .. Len(ids) /\ Len(ids) \in Nat
        /\ i \in DOMAIN ids /\ ids[i] \in Nat
    BY DEF ChunkStarts
  <1>4. h.src = i /\ h.dest = ids[i] /\ h.size = e - i + 1
    <2>1. Cardinality(i .. e) = e - i + 1
      BY <1>2, <1>3, FS_Interval
    <2> QED
      BY <1>1, <1>2, <2>1
  <1>5. PICK v \in Nat : v = ids[i]
    BY <1>3
  <1>6. id >= v /\ id <= v + (e - i)
    <2>1. id \in v .. v + (e - i + 1) - 1
      BY <1>4, <1>5
    <2> QED
      BY <1>2, <1>3, <2>1
  <1>7. PICK p \in i .. e : p = i + (id - v)
    <2>1. i \in Nat /\ e \in Nat
      BY <1>2, <1>3
    <2>2. i + (id - v) \in i .. e
      BY <1>6, <2>1
    <2> QED
      BY <2>2
  <1>8. ids[p] = v + (p - i)
    BY <1>2, <1>3, <1>5, RunIsContiguous
  <1>9. v + (p - i) = id /\ p \in DOMAIN ids
    BY <1>2, <1>3, <1>7
  <1>10. h.src + id - h.dest = p
    BY <1>3, <1>4, <1>5, <1>7
  <1> QED
    BY <1>8, <1>9, <1>10

\* Every id is in some copy: that of the last start before it.
LEMMA ChunksCover ==
  ASSUME NEW ids \in Seq(Nat), NEW w, NEW j \in DOMAIN ids
  PROVE  \E h \in Chunks(ids, w) : ids[j] \in h.dest .. h.dest + h.size - 1
  <1> DEFINE D == {d \in Nat : d < j /\ j - d \in ChunkStarts(ids)}
  <1>1. /\ DOMAIN ids = 1 .. Len(ids) /\ Len(ids) \in Nat
        /\ \A m \in DOMAIN ids : ids[m] \in Nat
    OBVIOUS
  <1>2. PICK d \in D : \A m \in D : d <= m
    <2>1. 1 \in ChunkStarts(ids)
      BY <1>1 DEF ChunkStarts
    <2>2. j - 1 \in Nat /\ j - 1 < j /\ j - (j - 1) = 1
      BY <1>1
    <2>3. j - 1 \in D
      BY <2>1, <2>2
    <2> QED
      BY <2>3, NatLeast
  <1> DEFINE i == j - d
  <1>3. i \in ChunkStarts(ids) /\ i \in DOMAIN ids /\ i <= j /\ i \in Nat
    BY <1>1 DEF ChunkStarts
  <1>4. \A k \in ChunkStarts(ids) : k <= i \/ k > j
    <2> SUFFICES ASSUME NEW k \in ChunkStarts(ids), ~ (k <= i), ~ (k > j)
                 PROVE  FALSE
      OBVIOUS
    <2> HIDE DEF i, D
    <2>1. k \in DOMAIN ids /\ i \in Nat /\ j \in DOMAIN ids
      BY <1>3 DEF ChunkStarts
    <2>2. k \in 1 .. Len(ids) /\ k > i /\ k <= j
      BY <1>1, <2>1
    <2> USE DEF i, D
    <2>3. j - k \in Nat /\ j - k < j /\ j - (j - k) = k
      BY <1>1, <2>2
    <2>4. j - k \in D
      BY <2>3
    <2> QED
      BY <1>1, <1>2, <2>4, <2>2
  <1> HIDE DEF i, D
  <1>5. PICK e \in DOMAIN ids :
          /\ i <= e /\ Run(ids, i) = i .. e
          /\ \A k \in ChunkStarts(ids) : k <= i \/ k > e
    BY <1>3, RunIsInterval
  <1>6. j \in i .. e
    BY <1>3, <1>4, <1>5 DEF Run
  <1>7. ids[j] = ids[i] + (j - i)
    BY <1>3, <1>5, <1>6, RunIsContiguous
  <1>8. Cardinality(Run(ids, i)) = e - i + 1
    BY <1>1, <1>3, <1>5, FS_Interval
  <1>9. [src |-> i, dest |-> ids[i], size |-> Cardinality(Run(ids, i))]
          \in Chunks(ids, w)
    BY <1>3 DEF Chunks, Runs, Run
  <1>10. ids[j] \in ids[i] .. ids[i] + (e - i + 1) - 1
    BY <1>1, <1>3, <1>5, <1>6, <1>7
  <1> QED
    BY <1>8, <1>9, <1>10

\* insert_kv_chunks() copies to each id of the list the block at its index.
LEMMA CopiedInside ==
  ASSUME NEW ids \in Seq(Nat), Distinct(ids), NEW j \in DOMAIN ids,
         NEW c, NEW s, NEW w, ids[j] \in DOMAIN c
  PROVE  Copied(c, s, Chunks(ids, w))[ids[j]] = s[j]
  <1> DEFINE In(h) == ids[j] \in h.dest .. h.dest + h.size - 1
             h0 == CHOOSE h \in Chunks(ids, w) : In(h)
  <1>1. ids[j] \in Nat
    OBVIOUS
  <1>2. \E h \in Chunks(ids, w) : In(h)
    BY ChunksCover
  <1>3. h0 \in Chunks(ids, w) /\ In(h0)
    BY <1>2
  <1>4. Copied(c, s, Chunks(ids, w))[ids[j]] = s[h0.src + ids[j] - h0.dest]
    BY <1>2 DEF Copied
  <1> HIDE DEF h0
  <1>5. /\ h0.src + ids[j] - h0.dest \in DOMAIN ids
        /\ ids[h0.src + ids[j] - h0.dest] = ids[j]
    BY <1>1, <1>3, ChunkHolds
  <1>6. h0.src + ids[j] - h0.dest = j
    BY <1>5 DEF Distinct
  <1> QED
    BY <1>4, <1>6

\* An id that the list does not have keeps its block.
LEMMA CopiedOutside ==
  ASSUME NEW ids \in Seq(Nat), NEW c, NEW s, NEW w, NEW id \in DOMAIN c,
         id \in Nat, \A j \in DOMAIN ids : ids[j] # id
  PROVE  Copied(c, s, Chunks(ids, w))[id] = c[id]
  <1>1. ASSUME NEW h \in Chunks(ids, w), id \in h.dest .. h.dest + h.size - 1
        PROVE  FALSE
    BY <1>1, ChunkHolds
  <1> QED
    BY <1>1 DEF Copied

\* insert_kv_chunks() as a whole: what a cache looks like afterwards.
LEMMA CopiedAll ==
  ASSUME NEW ids \in Seq(Nat), Distinct(ids), NEW c, NEW s, NEW w,
         DOMAIN c \subseteq Nat, \A j \in DOMAIN ids : ids[j] \in DOMAIN c
  PROVE  /\ \A j \in DOMAIN ids : Copied(c, s, Chunks(ids, w))[ids[j]] = s[j]
         /\ \A id \in DOMAIN c :
              (\A j \in DOMAIN ids : ids[j] # id)
                => Copied(c, s, Chunks(ids, w))[id] = c[id]
  <1>1. ASSUME NEW j \in DOMAIN ids
        PROVE  Copied(c, s, Chunks(ids, w))[ids[j]] = s[j]
    <2>1. ids[j] \in DOMAIN c
      OBVIOUS
    <2> QED
      BY <2>1, CopiedInside
  <1>2. ASSUME NEW id \in DOMAIN c, \A j \in DOMAIN ids : ids[j] # id
        PROVE  Copied(c, s, Chunks(ids, w))[id] = c[id]
    <2>1. id \in Nat
      OBVIOUS
    <2> QED
      BY <1>2, <2>1, CopiedOutside
  <1> QED
    BY <1>1, <1>2

-----------------------------------------------------------------------------
(* What P and D know of one another at each stage.                         *)

\* The prompt's full blocks, and how many of them D does not ask for.
Full == prompt \div blockSize
First == IF selective THEN hit ELSE 0

Shape ==
  /\ blockSize \in BlockSizes
  /\ prompt \in Nat \ {0}
  /\ selective \in BOOLEAN
  /\ hit \in 0 .. Full
  /\ decoder \in IdLists(Full)
  /\ cache \in [DecoderIds -> Nat]

\* D holds the first n blocks of the prompt at their places, and nothing else.
Holds(n) ==
  /\ \A k \in 1 .. n : cache[decoder[k]] = k
  /\ \A id \in DecoderIds :
       (\A k \in 1 .. n : decoder[k] # id) => cache[id] = 0

\* What each step leaves for the next one.
Stages ==
  /\ stage \in {"finished", "notified", "matched", "planned", "prepared",
                "inserted"}
  /\ stage = "inserted" => Holds(Full)
  /\ stage # "inserted" => Holds(hit)
  /\ stage = "notified" => hit = Full
  /\ stage \in {"matched", "planned", "prepared"} => hit < Full
  /\ stage = "matched" => external = (Full - hit) * blockSize
  /\ stage \in {"planned", "prepared"} =>
       /\ remote = [i \in 1 .. Full - First |-> 10 * (First + i)]
       /\ local = [i \in 1 .. Full - First |-> decoder[First + i]]
  /\ stage = "prepared" =>
       /\ slab \in [1 .. Bucket(Full - First) -> Nat]
       /\ \A i \in 1 .. Full - First : slab[i] = First + i

BTInv == Shape /\ Stages

-----------------------------------------------------------------------------

\* Sequence facts that the steps share.
LEMMA SuffixIs ==
  ASSUME NEW n \in Nat, NEW s \in [1 .. n -> Nat], NEW h \in 0 .. n
  PROVE  Suffix(s, h) = [i \in 1 .. n - h |-> s[h + i]]
  <1>1. Len(s) = n
    OBVIOUS
  <1>2. SubSeq(s, h + 1, n) = [i \in 1 .. n - (h + 1) + 1 |-> s[h + 1 + i - 1]]
    OBVIOUS
  <1> QED
    BY <1>1, <1>2 DEF Suffix

\* P's block ids, and when there are none.
LEMMA AllIds ==
  ASSUME NEW n \in Nat
  PROVE  /\ [k \in 1 .. n |-> 10 * k] \in [1 .. n -> Nat]
         /\ Len([k \in 1 .. n |-> 10 * k]) = n
         /\ [k \in 1 .. n |-> 10 * k] = <<>> <=> n = 0
  OBVIOUS

\* What the shape of a request gives to each step.
LEMMA ShapeFacts ==
  ASSUME Shape
  PROVE  /\ blockSize \in Nat \ {0} /\ prompt \in Nat
         /\ Full \in Nat /\ hit \in 0 .. Full /\ First \in 0 .. hit
         /\ decoder \in [1 .. Full -> DecoderIds] /\ Distinct(decoder)
         /\ Len(decoder) = Full
         /\ \A k \in 1 .. Full : decoder[k] \in Nat
         /\ ComputedBlockIds(prompt, blockSize) = [k \in 1 .. Full |-> 10 * k]
  <1>1. blockSize \in Nat \ {0} /\ prompt \in Nat /\ hit \in 0 .. Full
    BY BlockTransferAssumption DEF Shape
  <1>2. Full \in Nat
    BY <1>1, DivFacts DEF Full
  <1>3. decoder \in [1 .. Full -> DecoderIds] /\ Distinct(decoder)
    BY DEF Shape, IdLists
  <1>4. First \in 0 .. hit
    BY <1>1, <1>2 DEF First
  <1>5. ComputedBlockIds(prompt, blockSize) = [k \in 1 .. Full |-> 10 * k]
    BY <1>1, Computed DEF Full
  <1>6. Len(decoder) = Full
    BY <1>2, <1>3
  <1>7. \A k \in 1 .. Full : decoder[k] \in Nat
    BY <1>3, BlockTransferAssumption
  <1> QED
    BY <1>1, <1>2, <1>3, <1>4, <1>5, <1>6, <1>7

\* What a step leaves alone keeps the shape.
LEMMA ShapeStays ==
  ASSUME Shape,
         UNCHANGED <<prompt, blockSize, selective, hit, decoder>>
  PROVE  /\ Full' = Full /\ First' = First
         /\ cache' \in [DecoderIds -> Nat] => Shape'
         /\ cache' = cache => \A n \in Nat : Holds(n) => Holds(n)'
  BY DEF Shape, Full, First, Holds

\* Any prompt, any prefix of it cached.
LEMMA InitBTInv == Init => BTInv
  <1> SUFFICES ASSUME Init PROVE BTInv
    OBVIOUS
  <1>1. /\ blockSize \in Nat \ {0} /\ prompt \in Nat \ {0}
        /\ blockSize \in BlockSizes /\ selective \in BOOLEAN
        /\ hit \in 0 .. (prompt - 1) \div blockSize
        /\ decoder \in IdLists(Full)
    BY BlockTransferAssumption DEF Init, Full
  <1>2. Full \in Nat
    BY <1>1, DivFacts DEF Full
  <1>3. hit \in 0 .. Full
    <2> DEFINE p == (prompt - 1) \div blockSize
    <2>1. /\ p \in Nat /\ p * blockSize <= prompt - 1
          /\ prompt < Full * blockSize + blockSize
      BY <1>1, DivFacts DEF Full
    <2> HIDE DEF p
    <2>2. p <= Full
      <3>1. CASE p > Full
        <4>1. p * blockSize >= (Full + 1) * blockSize
          BY <1>1, <1>2, <2>1, <3>1
        <4>2. (Full + 1) * blockSize = Full * blockSize + blockSize
          BY <1>1, <1>2
        <4> QED
          BY <1>1, <1>2, <2>1, <4>1, <4>2
      <3> QED
        BY <1>2, <2>1, <3>1
    <2>3. hit \in 0 .. p
      BY <1>1 DEF p
    <2> QED
      BY <1>2, <2>1, <2>2, <2>3
  <1>4. decoder \in [1 .. Full -> DecoderIds] /\ Distinct(decoder)
    BY <1>1 DEF IdLists
  <1>5. \A k \in 1 .. hit : k \in 1 .. Full /\ k \in Nat
    BY <1>2, <1>3
  <1>6. ASSUME NEW id \in DecoderIds
        PROVE  /\ \A k \in 1 .. hit : decoder[k] = id => cache[id] = k
               /\ (\A k \in 1 .. hit : decoder[k] # id) => cache[id] = 0
               /\ cache[id] \in Nat
    <2>1. cache[id] = IF \E k \in 1 .. hit : decoder[k] = id
                      THEN CHOOSE k \in 1 .. hit : decoder[k] = id ELSE 0
      BY DEF Init
    <2>2. CASE \E k \in 1 .. hit : decoder[k] = id
      <3>1. /\ cache[id] \in 1 .. hit /\ decoder[cache[id]] = id
        BY <2>1, <2>2
      <3>2. \A k \in 1 .. hit : decoder[k] = id => cache[id] = k
        BY <1>4, <1>5, <3>1 DEF Distinct
      <3> QED
        BY <1>5, <2>2, <3>1, <3>2
    <2>3. CASE ~ \E k \in 1 .. hit : decoder[k] = id
      BY <2>1, <2>3
    <2> QED
      BY <2>2, <2>3
  <1>7. cache \in [DecoderIds -> Nat]
    BY <1>6 DEF Init
  <1>8. Shape
    BY <1>1, <1>3, <1>7 DEF Shape
  <1>9. Holds(hit)
    BY <1>4, <1>5, <1>6 DEF Holds
  <1>10. stage = "finished"
    BY DEF Init
  <1> QED
    BY <1>8, <1>9, <1>10 DEF BTInv, Stages

\* D's scheduler asks for what it lacks, if anything.
LEMMA MatchBTInv == BTInv /\ Match => BTInv'
  <1> SUFFICES ASSUME BTInv, Match PROVE BTInv'
    OBVIOUS
  <1>1. Shape /\ Holds(hit)
    BY DEF BTInv, Stages, Match
  <1>2. UNCHANGED <<prompt, blockSize, selective, hit, decoder, cache>>
    BY DEF Match
  <1>3. Shape' /\ Full' = Full /\ First' = First /\ Holds(hit)'
    <2>1. hit \in Nat
      BY <1>1, ShapeFacts
    <2>2. Holds(hit)' <=> Holds(hit)
      BY <1>2 DEF Holds
    <2> QED
      BY <1>1, <1>2, <2>2, ShapeStays DEF Shape
  <1>4. external' = (Full - hit) * blockSize
    <2>1. external' = ExternalTokens(prompt, blockSize, hit)
      BY DEF Match
    <2> QED
      BY <1>1, <2>1, External, ShapeFacts DEF Full
  <1>5. CASE hit = Full
    <2>1. external' = 0
      BY <1>1, <1>4, <1>5, ShapeFacts
    <2>2. stage' = "notified"
      BY <2>1 DEF Match
    <2> QED
      BY <1>2, <1>3, <1>5, <2>2 DEF BTInv, Stages
  <1>6. CASE hit < Full
    <2>1. external' > 0
      BY <1>1, <1>4, <1>6, ShapeFacts
    <2>2. stage' = "matched"
      BY <2>1 DEF Match
    <2> QED
      BY <1>2, <1>3, <1>4, <1>6, <2>2 DEF BTInv, Stages
  <1> QED
    BY <1>1, <1>5, <1>6, ShapeFacts

\* A prompt without a full block has nothing to wait for.
LEMMA NothingBTInv == BTInv /\ NothingToTransfer => BTInv'
  <1> SUFFICES ASSUME BTInv, NothingToTransfer PROVE BTInv'
    OBVIOUS
  <1>1. Shape /\ Holds(hit)
    BY DEF BTInv, Stages, NothingToTransfer
  <1>2. /\ UNCHANGED <<prompt, blockSize, selective, hit, decoder, cache>>
        /\ stage' = "notified"
    BY DEF NothingToTransfer
  <1>3. Full = 0 /\ hit = Full
    <2>1. ComputedBlockIds(prompt, blockSize) = <<>>
      BY DEF NothingToTransfer
    <2> QED
      BY <1>1, <2>1, ShapeFacts, AllIds
  <1>4. Holds(hit)' <=> Holds(hit)
    BY <1>2 DEF Holds
  <1>5. Shape' /\ Full' = Full
    BY <1>1, <1>2, ShapeStays DEF Shape
  <1> QED
    BY <1>1, <1>2, <1>3, <1>4, <1>5 DEF BTInv, Stages

\* The plan is the suffix that D lacks, on both sides.
LEMMA PlanBTInv == BTInv /\ Plan => BTInv'
  <1> SUFFICES ASSUME BTInv, Plan PROVE BTInv'
    OBVIOUS
  <1> DEFINE all == ComputedBlockIds(prompt, blockSize)
  <1>1. /\ Shape /\ Holds(hit) /\ hit < Full
        /\ external = (Full - hit) * blockSize
        /\ UNCHANGED <<prompt, blockSize, selective, hit, decoder, cache>>
    BY DEF BTInv, Stages, Plan
  <1>2. /\ Full \in Nat /\ hit \in 0 .. Full /\ Full - hit \in Nat
        /\ decoder \in [1 .. Full -> DecoderIds] /\ Len(decoder) = Full
        /\ blockSize \in Nat \ {0}
    BY <1>1, ShapeFacts
  <1>3. all = [k \in 1 .. Full |-> 10 * k] /\ all \in [1 .. Full -> Nat]
          /\ Len(all) = Full
    BY <1>1, <1>2, ShapeFacts, AllIds
  <1>4. MissingBlocks(external, blockSize) = Full - hit
    BY <1>1, <1>2, Missing
  <1> HIDE DEF all
  <1>5. /\ ~ selective => remote' = all /\ local' = decoder
                            /\ stage' = "planned"
        /\ selective => /\ remote' = Suffix(all, hit)
                        /\ local' = Suffix(decoder, hit)
                        /\ stage' = "planned"
    <2> DEFINE missing == MissingBlocks(external, blockSize)
    <2>1. /\ ~ (missing > Len(all))
          /\ Len(all) - missing = hit
          /\ Len(decoder) = Len(all)
      BY <1>2, <1>3, <1>4
    <2>2. /\ Len(Suffix(decoder, hit)) = missing
          /\ hit = 0 => Suffix(decoder, hit) = decoder
      <3>1. decoder \in [1 .. Full -> Nat]
        BY <1>1, <1>2, ShapeFacts
      <3>2. Suffix(decoder, hit)
              = [i \in 1 .. Full - hit |-> decoder[hit + i]]
        BY <1>2, <3>1, SuffixIs
      <3>3. Len(Suffix(decoder, hit)) = Full - hit
        BY <1>2, <3>2
      <3>4. ASSUME hit = 0 PROVE Suffix(decoder, hit) = decoder
        <4>1. \A i \in 1 .. Full : decoder[0 + i] = decoder[i]
          BY <1>2
        <4>2. Suffix(decoder, hit) = [i \in 1 .. Full |-> decoder[i]]
          BY <1>2, <3>2, <3>4, <4>1
        <4> QED
          BY <1>2, <4>2
      <3> QED
        BY <1>4, <3>3, <3>4
    <2>3. missing = Len(all) => hit = 0
      BY <1>2, <1>3, <1>4
    <2> HIDE DEF missing
    <2>4. PICK ids \in AllocatedIds :
            IF ~ selective
            THEN remote' = all /\ local' = ids /\ stage' = "planned"
            ELSE /\ remote' = Suffix(all, hit)
                 /\ IF Len(ids) = Len(all)
                    THEN local' = Suffix(ids, hit) /\ stage' = "planned"
                    ELSE /\ local' = ids
                         /\ stage' = IF Len(ids) = missing THEN "planned"
                                                           ELSE "alloc error"
      BY <2>1 DEF Plan, all, missing
    <2>5. CASE selective /\ ids = decoder
      BY <2>1, <2>4, <2>5
    <2>6. CASE selective /\ ids = Suffix(decoder, hit)
      <3>1. CASE Len(ids) = Len(all)
        <4>1. ids = decoder
          BY <2>2, <2>3, <2>6, <3>1
        <4> QED
          BY <2>4, <2>6, <3>1, <4>1
      <3>2. CASE Len(ids) # Len(all)
        BY <2>2, <2>4, <2>6, <3>2
      <3> QED
        BY <3>1, <3>2
    <2>7. CASE ~ selective
      BY <2>4, <2>7 DEF AllocatedIds
    <2> QED
      BY <2>4, <2>5, <2>6, <2>7 DEF AllocatedIds
  <1>6. /\ stage' = "planned"
        /\ remote' = [i \in 1 .. Full - First |-> 10 * (First + i)]
        /\ local' = [i \in 1 .. Full - First |-> decoder[First + i]]
    <2>1. CASE selective
      <3>1. /\ Suffix(all, hit) = [i \in 1 .. Full - hit |-> all[hit + i]]
            /\ Suffix(decoder, hit)
                 = [i \in 1 .. Full - hit |-> decoder[hit + i]]
        <4>1. all \in [1 .. Full -> Nat] /\ Full \in Nat /\ hit \in 0 .. Full
          BY <1>2, <1>3
        <4>2. decoder \in [1 .. Full -> Nat]
          BY <1>1, <1>2, ShapeFacts
        <4>3. Suffix(all, hit) = [i \in 1 .. Full - hit |-> all[hit + i]]
          BY <4>1, SuffixIs
        <4>4. Suffix(decoder, hit)
                = [i \in 1 .. Full - hit |-> decoder[hit + i]]
          BY <4>1, <4>2, SuffixIs
        <4> QED
          BY <4>3, <4>4
      <3>2. \A i \in 1 .. Full - hit : all[hit + i] = 10 * (hit + i)
        BY <1>2, <1>3
      <3> QED
        BY <1>5, <2>1, <3>1, <3>2 DEF First
    <2>2. CASE ~ selective
      <3>1. First = 0 /\ Full - 0 = Full
        BY <1>2, <2>2 DEF First
      <3>2. /\ all = [i \in 1 .. Full |-> 10 * (0 + i)]
            /\ decoder = [i \in 1 .. Full |-> decoder[0 + i]]
        BY <1>2, <1>3
      <3> QED
        BY <1>5, <2>2, <3>1, <3>2
    <2> QED
      BY <2>1, <2>2, <1>1 DEF Shape
  <1>7. Shape' /\ Full' = Full /\ First' = First
    BY <1>1, ShapeStays DEF Shape
  <1>8. Holds(hit)' <=> Holds(hit)
    BY <1>1 DEF Holds
  <1> QED
    BY <1>1, <1>6, <1>7, <1>8 DEF BTInv, Stages

\* What a plan is, where it is used.
LEMMA PlanFacts ==
  ASSUME BTInv, stage \in {"planned", "prepared"}
  PROVE  /\ Full - First \in Nat \ {0}
         /\ remote = [i \in 1 .. Full - First |-> 10 * (First + i)]
         /\ local = [i \in 1 .. Full - First |-> decoder[First + i]]
         /\ Len(remote) = Full - First /\ remote \in Seq(Nat)
         /\ Len(local) = Full - First /\ local \in Seq(Nat)
         /\ Distinct(local)
  <1>1. /\ Shape /\ hit < Full
        /\ remote = [i \in 1 .. Full - First |-> 10 * (First + i)]
        /\ local = [i \in 1 .. Full - First |-> decoder[First + i]]
    BY DEF BTInv, Stages
  <1>2. /\ Full \in Nat /\ First \in Nat /\ First < Full
        /\ \A k \in 1 .. Full : decoder[k] \in Nat
        /\ decoder \in [1 .. Full -> DecoderIds] /\ Distinct(decoder)
    BY <1>1, ShapeFacts
  <1>3. Full - First \in Nat \ {0}
    BY <1>2
  <1>4. \A i \in 1 .. Full - First : First + i \in 1 .. Full
    BY <1>2
  <1>5. remote \in Seq(Nat) /\ Len(remote) = Full - First
    BY <1>1, <1>2, <1>3
  <1>6. local \in Seq(Nat) /\ Len(local) = Full - First
    BY <1>1, <1>2, <1>3, <1>4
  <1>7. Distinct(local)
    <2> SUFFICES ASSUME NEW i \in 1 .. Full - First,
                        NEW j \in 1 .. Full - First, i # j
                 PROVE  local[i] # local[j]
      BY <1>1 DEF Distinct
    <2>1. First + i # First + j
      BY <1>2
    <2> QED
      BY <1>1, <1>2, <1>4, <2>1 DEF Distinct
  <1> QED
    BY <1>1, <1>3, <1>5, <1>6, <1>7

\* P finds the suffix it holds, and pads it.
LEMMA PrepareBTInv == BTInv /\ Prepare => BTInv'
  <1> SUFFICES ASSUME BTInv, Prepare PROVE BTInv'
    OBVIOUS
  <1> DEFINE all == ComputedBlockIds(prompt, blockSize)
             n == Full - First
  <1>1. /\ Shape /\ Holds(hit) /\ hit < Full /\ stage = "planned"
        /\ UNCHANGED <<prompt, blockSize, selective, hit, decoder, cache,
                       remote, local>>
    BY DEF BTInv, Stages, Prepare
  <1>2. /\ n \in Nat \ {0}
        /\ remote = [i \in 1 .. n |-> 10 * (First + i)]
        /\ local = [i \in 1 .. n |-> decoder[First + i]]
        /\ Len(remote) = n /\ Len(local) = n
    BY <1>1, PlanFacts
  <1>3. /\ Full \in Nat /\ First \in 0 .. Full
        /\ all = [k \in 1 .. Full |-> 10 * k] /\ all \in [1 .. Full -> Nat]
        /\ Len(all) = Full
    BY <1>1, ShapeFacts, AllIds
  <1>4. IsSuffix(all, remote)
    <2>1. Full - n = First /\ n <= Full
      BY <1>3
    <2>2. Suffix(all, First) = [i \in 1 .. n |-> all[First + i]]
      <3>1. all \in [1 .. Full -> Nat] /\ Full \in Nat /\ First \in 0 .. Full
        BY <1>3
      <3> QED
        BY <3>1, SuffixIs
    <2>3. \A i \in 1 .. n : all[First + i] = 10 * (First + i)
      BY <1>3
    <2> QED
      BY <1>2, <1>3, <2>1, <2>2, <2>3 DEF IsSuffix
  <1> HIDE DEF all
  <1>5. /\ stage' = "prepared"
        /\ slab' = [i \in DOMAIN Padded(remote) |-> Padded(remote)[i] \div 10]
    BY <1>2, <1>4 DEF Prepare, all
  <1>6. Padded(remote) = [i \in 1 .. Bucket(n) |->
                            IF i <= n THEN remote[i] ELSE remote[n]]
    BY <1>2 DEF Padded
  <1>7. Bucket(n) \in Nat /\ n <= Bucket(n)
    BY <1>2, BucketBounds
  <1>8. \A i \in 1 .. Bucket(n) :
          slab'[i] = IF i <= n THEN First + i ELSE First + n
    <2> SUFFICES ASSUME NEW i \in 1 .. Bucket(n)
                 PROVE  slab'[i] = IF i <= n THEN First + i ELSE First + n
      OBVIOUS
    <2>1. \A m \in Nat : (10 * m) \div 10 = m
      OBVIOUS
    <2>2. slab'[i] = (IF i <= n THEN remote[i] ELSE remote[n]) \div 10
      BY <1>5, <1>6
    <2>3. CASE i <= n
      <3>1. i \in 1 .. n /\ First + i \in Nat
        BY <1>2, <1>3, <1>7, <2>3
      <3>2. remote[i] = 10 * (First + i)
        BY <1>2, <3>1
      <3> QED
        BY <2>1, <2>2, <2>3, <3>1, <3>2
    <2>4. CASE ~ (i <= n)
      <3>1. n \in 1 .. n /\ First + n \in Nat
        BY <1>2, <1>3
      <3>2. remote[n] = 10 * (First + n)
        BY <1>2, <3>1
      <3> QED
        BY <2>1, <2>2, <2>4, <3>1, <3>2
    <2> QED
      BY <2>3, <2>4
  <1>9. slab' \in [1 .. Bucket(n) -> Nat]
    <2>1. DOMAIN slab' = 1 .. Bucket(n) /\ slab' = [i \in 1 .. Bucket(n) |->
                                                      slab'[i]]
      BY <1>5, <1>6
    <2>2. \A i \in 1 .. Bucket(n) : slab'[i] \in Nat
      BY <1>2, <1>3, <1>8
    <2> QED
      BY <2>1, <2>2
  <1>10. \A i \in 1 .. n : slab'[i] = First + i
    BY <1>2, <1>7, <1>8
  <1>11. Shape' /\ Full' = Full /\ First' = First
    BY <1>1, ShapeStays DEF Shape
  <1>12. Holds(hit)' <=> Holds(hit)
    BY <1>1 DEF Holds
  <1>13. Bucket(Full - First)' = Bucket(Full - First)
    BY <1>11 DEF Bucket
  <1> QED
    BY <1>1, <1>2, <1>5, <1>9, <1>10, <1>11, <1>12, <1>13 DEF BTInv, Stages

\* D's insert completes the prompt and touches nothing else.
LEMMA InsertBTInv == BTInv /\ Insert => BTInv'
  <1> SUFFICES ASSUME BTInv, Insert PROVE BTInv'
    OBVIOUS
  <1> DEFINE n == Full - First
  <1>1. /\ Shape /\ Holds(hit) /\ hit < Full /\ stage = "prepared"
        /\ slab \in [1 .. Bucket(n) -> Nat]
        /\ \A i \in 1 .. n : slab[i] = First + i
        /\ UNCHANGED <<prompt, blockSize, selective, hit, decoder>>
    BY DEF BTInv, Stages, Insert
  <1>2. /\ n \in Nat \ {0} /\ Len(local) = n /\ local \in Seq(Nat)
        /\ Distinct(local)
        /\ local = [i \in 1 .. n |-> decoder[First + i]]
    BY <1>1, PlanFacts
  <1>3. /\ Full \in Nat /\ First \in 0 .. hit /\ hit \in 0 .. Full
        /\ decoder \in [1 .. Full -> DecoderIds] /\ Distinct(decoder)
    BY <1>1, ShapeFacts
  <1>4. Bucket(n) \in Nat /\ n <= Bucket(n)
    BY <1>2, BucketBounds
  <1>5. /\ stage' = "inserted"
        /\ cache' = Copied(cache, slab, Chunks(local, Len(slab)))
    <2>1. Len(slab) = Bucket(n)
      BY <1>1, <1>4
    <2>2. ~ (Len(local) > Len(slab))
      BY <1>2, <1>4, <2>1
    <2> QED
      BY <2>2 DEF Insert
  <1>6. DOMAIN cache = DecoderIds /\ DecoderIds \in SUBSET Nat
    BY <1>1, BlockTransferAssumption DEF Shape
  <1>7. ASSUME NEW id \in DecoderIds
        PROVE  /\ \A j \in 1 .. n : local[j] = id => cache'[id] = First + j
               /\ (\A j \in 1 .. n : local[j] # id) => cache'[id] = cache[id]
    <2>1. PICK ids \in Seq(Nat) : ids = local
      BY <1>2
    <2>2. PICK c : c = cache
      OBVIOUS
    <2>3. PICK s : s = slab
      OBVIOUS
    <2>4. DOMAIN ids = 1 .. n
      BY <1>2, <2>1
    <2>5. \A j \in DOMAIN ids : ids[j] \in DecoderIds
      <3> SUFFICES ASSUME NEW j \in DOMAIN ids PROVE ids[j] \in DecoderIds
        OBVIOUS
      <3>1. j \in 1 .. n /\ First + j \in 1 .. Full
        BY <1>3, <2>4
      <3> QED
        BY <1>2, <1>3, <2>1, <3>1
    <2>6. Distinct(ids)
      BY <1>2, <2>1
    <2>7. DOMAIN c = DecoderIds /\ DOMAIN c \subseteq Nat
      BY <1>6, <2>2
    <2> DEFINE w == Len(s)
               new == Copied(c, s, Chunks(ids, w))
    <2>8. /\ \A j \in DOMAIN ids : new[ids[j]] = s[j]
          /\ \A i \in DOMAIN c :
               (\A j \in DOMAIN ids : ids[j] # i) => new[i] = c[i]
      BY <2>5, <2>6, <2>7, CopiedAll
    <2>9. cache' = new
      BY <1>5, <2>1, <2>2, <2>3
    <2>10. /\ \A j \in 1 .. n : cache'[local[j]] = slab[j]
           /\ (\A j \in 1 .. n : local[j] # id) => cache'[id] = cache[id]
      BY <2>1, <2>2, <2>3, <2>4, <2>7, <2>8, <2>9
    <2> QED
      BY <1>1, <2>10
  <1> HIDE DEF n
  <1>8. ASSUME NEW k \in 1 .. Full
        PROVE  cache'[decoder[k]] = k
    <2>1. decoder[k] \in DecoderIds
      BY <1>3
    <2>2. CASE k <= First
      <3>1. k \in 1 .. hit
        BY <1>3, <2>2
      <3>2. \A j \in 1 .. n : local[j] # decoder[k]
        <4> SUFFICES ASSUME NEW j \in 1 .. n PROVE local[j] # decoder[k]
          OBVIOUS
        <4>1. First + j \in 1 .. Full /\ First + j # k
          BY <1>2, <1>3, <2>2 DEF n
        <4> QED
          BY <1>2, <1>3, <4>1 DEF Distinct
      <3> QED
        BY <1>1, <1>7, <2>1, <3>1, <3>2 DEF Holds
    <2>3. CASE ~ (k <= First)
      <3>1. k - First \in 1 .. n /\ First + (k - First) = k
        BY <1>3, <2>3 DEF n
      <3>2. local[k - First] = decoder[k]
        BY <1>2, <3>1
      <3> QED
        BY <1>7, <2>1, <3>1, <3>2
    <2> QED
      BY <2>2, <2>3
  <1>9. ASSUME NEW id \in DecoderIds, \A k \in 1 .. Full : decoder[k] # id
        PROVE  cache'[id] = 0
    <2>1. \A j \in 1 .. n : local[j] # id
      <3> SUFFICES ASSUME NEW j \in 1 .. n PROVE local[j] # id
        OBVIOUS
      <3>1. First + j \in 1 .. Full
        BY <1>2, <1>3 DEF n
      <3> QED
        BY <1>2, <1>9, <3>1
    <2>2. \A k \in 1 .. hit : decoder[k] # id
      BY <1>3, <1>9
    <2> QED
      BY <1>1, <1>7, <2>1, <2>2 DEF Holds
  <1>10. Full' = Full
    BY <1>1 DEF Full
  <1>11. Holds(Full)'
    BY <1>1, <1>8, <1>9, <1>10 DEF Holds
  <1>12. cache' \in [DecoderIds -> Nat]
    <2>1. cache' = [id \in DecoderIds |-> cache'[id]]
      BY <1>5, <1>6 DEF Copied
    <2>2. \A id \in DecoderIds : cache'[id] \in Nat
      <3> SUFFICES ASSUME NEW id \in DecoderIds PROVE cache'[id] \in Nat
        OBVIOUS
      <3>1. CASE \E k \in 1 .. Full : decoder[k] = id
        BY <1>3, <1>8, <3>1
      <3>2. CASE ~ \E k \in 1 .. Full : decoder[k] = id
        BY <1>9, <3>2
      <3> QED
        BY <3>1, <3>2
    <2> QED
      BY <2>1, <2>2
  <1>13. Shape'
    BY <1>1, <1>12, ShapeStays
  <1> QED
    BY <1>5, <1>11, <1>13 DEF BTInv, Stages

-----------------------------------------------------------------------------

\* The invariant holds at every stage of every transfer.
THEOREM SpecBTInv == Spec => []BTInv
  <1>1. Init => BTInv
    BY InitBTInv
  <1>2. BTInv /\ [Next]_vars => BTInv'
    <2>1. ASSUME BTInv, UNCHANGED vars PROVE BTInv'
      <3>1. UNCHANGED <<stage, prompt, blockSize, selective, hit, decoder,
                        external, remote, local, slab, cache>>
        BY <2>1 DEF vars
      <3>2. Shape' /\ Full' = Full /\ First' = First
        BY <2>1, <3>1 DEF BTInv, Shape, Full, First
      <3>3. Holds(hit)' <=> Holds(hit)
        BY <3>1 DEF Holds
      <3>4. Holds(Full)' <=> Holds(Full)
        BY <3>1, <3>2 DEF Holds
      <3>5. Bucket(Full - First)' = Bucket(Full - First)
        BY <3>2 DEF Bucket
      <3> QED
        BY <2>1, <3>1, <3>2, <3>3, <3>4, <3>5 DEF BTInv, Stages
    <2> QED
      BY <2>1, MatchBTInv, PlanBTInv, PrepareBTInv, InsertBTInv, NothingBTInv
      DEF Next
  <1> QED
    BY <1>1, <1>2, PTL DEF Spec

\* No check of a plan ever fails: what D asks for is what P holds
\* (update_state_after_alloc(), _prepare_selective_kv(), process_send_load()).
THEOREM PlansAccepted == Spec => []PlanIsAccepted
  <1>1. BTInv => PlanIsAccepted
    BY DEF BTInv, Stages, PlanIsAccepted
  <1> QED
    BY <1>1, SpecBTInv, PTL

\* When D starts to decode it has the whole prefix, each block in its place
\* (get_num_new_matched_tokens() to insert_kv_chunks()).
THEOREM PrefixComplete == Spec => []PrefixIsComplete
  <1>1. BTInv => PrefixIsComplete
    <2> SUFFICES ASSUME BTInv, stage \in {"inserted", "notified"},
                        NEW k \in DOMAIN decoder
                 PROVE  cache[decoder[k]] = k
      BY DEF PrefixIsComplete
    <2>1. Holds(Full)
      BY DEF BTInv, Stages
    <2>2. k \in 1 .. Full
      BY ShapeFacts DEF BTInv
    <2> QED
      BY <2>1, <2>2 DEF Holds
  <1> QED
    BY <1>1, SpecBTInv, PTL

\* A block outside the allocation is never written (insert_kv_chunks()).
THEOREM OthersLeftAlone == Spec => []OthersUntouched
  <1>1. BTInv => OthersUntouched
    <2> SUFFICES ASSUME BTInv, NEW id \in DecoderIds,
                        \A k \in DOMAIN decoder : decoder[k] # id
                 PROVE  cache[id] = 0
      BY DEF OthersUntouched
    <2>1. \A k \in 1 .. Full : decoder[k] # id
      BY ShapeFacts DEF BTInv
    <2>2. \A k \in 1 .. hit : k \in 1 .. Full
      BY ShapeFacts DEF BTInv
    <2>3. Holds(Full) \/ Holds(hit)
      BY DEF BTInv, Stages
    <2> QED
      BY <2>1, <2>2, <2>3 DEF Holds
  <1> QED
    BY <1>1, SpecBTInv, PTL

\* A transfer is padded to the least power of two that holds it
\* (get_transfer_block_bucket()).
THEOREM BucketLeast == Spec => []BucketIsLeast
  <1>1. BTInv => BucketIsLeast
    <2> SUFFICES ASSUME BTInv, stage = "prepared"
                 PROVE  /\ \E e \in 0 .. Len(slab) : Len(slab) = 2^e
                        /\ Len(remote) <= Len(slab)
                        /\ Len(slab) < 2 * Len(remote)
      BY DEF BucketIsLeast
    <2> DEFINE n == Full - First
    <2>1. n \in Nat \ {0} /\ Len(remote) = n
      BY PlanFacts
    <2>2. slab \in [1 .. Bucket(n) -> Nat]
      BY DEF BTInv, Stages
    <2>3. Bucket(n) \in Nat /\ n <= Bucket(n) /\ Bucket(n) < 2 * n
      BY <2>1, BucketBounds
    <2>4. \E e \in 0 .. Bucket(n) : Bucket(n) = 2^e
      BY <2>1, BucketPower
    <2> HIDE DEF n
    <2>5. Len(slab) = Bucket(n)
      BY <2>2, <2>3
    <2> QED
      BY <2>1, <2>3, <2>4, <2>5
  <1> QED
    BY <1>1, SpecBTInv, PTL

=============================================================================
