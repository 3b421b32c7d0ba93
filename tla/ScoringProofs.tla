---------------------------- MODULE ScoringProofs -----------------------------
(***************************************************************************)
(* Proofs about the posture, for every scoring model, every set of         *)
(* collectors and replies, and any number of refutes.                      *)
(***************************************************************************)
EXTENDS ScoringEngine, FiniteSetTheorems, TLAPS
WF == INSTANCE WellFoundedInduction

-------------------------------------------------------------------------------
(* Least members. *)

LEMMA LessIsWellFounded ==
    \E R : WF!IsWellFoundedOn(R, Nat) /\ \A x, y \in Nat : x < y => <<x, y>> \in R
<1>1. \A x, y \in Nat : x < y => <<x, y>> \in WF!OpToRel(<, Nat)
  BY DEF WF!OpToRel
<1> QED BY <1>1, WF!NatLessThanWellFounded, Zenon

\* A part of the naturals that an order is well founded on has a minimal member.
LEMMA MinimalNatural ==
    ASSUME NEW R, WF!IsWellFoundedOn(R, Nat), NEW T, T \subseteq Nat, T # {}
    PROVE  \E x \in T : \A y \in T : ~(<<y, x>> \in R)
BY WF!WFMin, Zenon

\* A set of naturals with a member has a least one.
LEMMA LeastNatural ==
    ASSUME NEW T, T \subseteq Nat, T # {}
    PROVE  \E x \in T : \A y \in T : x <= y
<1>1. PICK R : WF!IsWellFoundedOn(R, Nat) /\ \A x, y \in Nat : x < y => <<x, y>> \in R
  BY LessIsWellFounded
<1>2. PICK x \in T : \A y \in T : ~(<<y, x>> \in R)
  BY <1>1, MinimalNatural, Zenon
<1>3. ASSUME NEW y \in T PROVE x <= y
  <2>1. x \in Nat /\ y \in Nat
    OBVIOUS
  <2>2. ~(y < x)
    BY <1>1, <1>2, <2>1
  <2> QED BY <2>1, <2>2
<1> QED BY <1>3

\* A finite set of naturals with a member has a greatest one, and Max is it.
LEMMA MaxOfFinite ==
    ASSUME NEW S, S \subseteq Nat, IsFiniteSet(S), S # {}
    PROVE  Max(S) \in S /\ \A y \in S : y <= Max(S)
<1> DEFINE Above(x) == {y \in S : y > x}
           T == {Cardinality(Above(x)) : x \in S}
<1>1. \A x \in S : IsFiniteSet(Above(x)) /\ Cardinality(Above(x)) \in Nat
  BY FS_Subset, FS_CardinalityType
<1>2. PICK n \in T : \A m \in T : n <= m
  <2>1. T \subseteq Nat /\ T # {}
    BY <1>1
  <2> QED BY <2>1, LeastNatural
<1>3. PICK x \in S : n = Cardinality(Above(x))
  BY <1>2
<1>4. ASSUME NEW y \in S PROVE y <= x
  <2>1. SUFFICES ASSUME y > x PROVE FALSE
    OBVIOUS
  <2>2. Above(y) \in SUBSET Above(x) /\ y \in Above(x) /\ y \notin Above(y)
    <3>1. \A z \in S : z \in Nat
      OBVIOUS
    <3>2. \A z \in S : z > y => z > x
      BY <2>1, <3>1
    <3>3. ~(y > y)
      BY <3>1
    <3> QED BY <2>1, <3>2, <3>3
  <2>3. Cardinality(Above(y)) <= Cardinality(Above(x)) /\ Cardinality(Above(x)) # Cardinality(Above(y))
    BY <1>1, <2>2, FS_Subset
  <2>4. Cardinality(Above(x)) <= Cardinality(Above(y))
    BY <1>2, <1>3
  <2> QED BY <1>1, <2>3, <2>4
<1>5. \E m \in S : \A y \in S : m >= y
  BY <1>4
<1>6. Max(S) \in S /\ \A y \in S : Max(S) >= y
  BY <1>5 DEF Max
<1> QED BY <1>6

\* The smaller of two.
LEMMA MinOfTwo ==
    ASSUME NEW x \in Nat, NEW y \in Nat
    PROVE  Min({x, y}) = IF x <= y THEN x ELSE y
BY DEF Min

-------------------------------------------------------------------------------
(* Sums. *)

Some(s) == CHOOSE x \in s : TRUE

\* I holds the partial sums of f over the subsets of D.
IsPartial(I, f, D) == I = [s \in SUBSET D |-> IF s = {} THEN 0 ELSE f[Some(s)] + I[s \ {Some(s)}]]

\* The recursive function of a fold exists, so a sum is the last of its partial sums.
LEMMA PartialSums ==
    ASSUME NEW D, IsFiniteSet(D), NEW f, DOMAIN f = D
    PROVE  \E I : IsPartial(I, f, D) /\ SumFunction(f) = I[D]
<1> DEFINE Upto(n) == {s \in SUBSET D : Cardinality(s) <= n}
           IsUpto(I, n) == I = [s \in Upto(n) |-> IF s = {} THEN 0 ELSE f[Some(s)] + I[s \ {Some(s)}]]
           Missing == {n \in Nat : ~\E I : IsUpto(I, n)}
<1>1. \A s \in SUBSET D : IsFiniteSet(s) /\ Cardinality(s) \in Nat /\ Cardinality(s) <= Cardinality(D)
  BY FS_Subset, FS_CardinalityType
<1>2. ASSUME NEW n \in Nat, NEW s \in Upto(n), s # {}
      PROVE  s \ {Some(s)} \in SUBSET D /\ Cardinality(s \ {Some(s)}) = Cardinality(s) - 1
  <2>1. Some(s) \in s
    BY <1>2 DEF Some
  <2>2. Cardinality(s \ {Some(s)}) = Cardinality(s) - 1
    BY <1>1, <2>1, FS_RemoveElement
  <2> QED BY <2>2
<1>3. Missing = {}
  <2>1. SUFFICES ASSUME Missing # {} PROVE FALSE
    OBVIOUS
  <2>2. PICK n \in Missing : \A m \in Missing : n <= m
    <3>1. Missing \subseteq Nat
      OBVIOUS
    <3> QED BY <2>1, <3>1, LeastNatural
  <2>3. CASE n = 0
    <3> DEFINE I == [s \in Upto(0) |-> 0]
    <3>1. \A s \in Upto(0) : s = {}
      BY <1>1, FS_EmptySet
    <3>2. IsUpto(I, 0)
      BY <3>1
    <3> QED BY <2>3, <3>2
  <2>4. CASE n # 0
    <3>1. n - 1 \in Nat /\ n - 1 \notin Missing
      <4>1. n \in Nat
        OBVIOUS
      <4>2. n - 1 \in Nat /\ ~(n <= n - 1)
        BY <2>4, <4>1
      <4> QED BY <2>2, <4>2
    <3>2. PICK I : IsUpto(I, n - 1)
      BY <3>1
    <3> DEFINE J == [s \in Upto(n) |-> IF s = {} THEN 0 ELSE f[Some(s)] + I[s \ {Some(s)}]]
    <3>3. ASSUME NEW s \in Upto(n - 1) PROVE I[s] = J[s]
      <4>1. s \in Upto(n)
        BY <1>1, <3>1
      <4> QED BY <3>2, <4>1
    <3>4. ASSUME NEW s \in Upto(n), s # {} PROVE I[s \ {Some(s)}] = J[s \ {Some(s)}]
      <4>1. s \ {Some(s)} \in Upto(n - 1)
        BY <1>1, <1>2, <3>1, <3>4
      <4> QED BY <3>3, <4>1
    <3>5. IsUpto(J, n)
      BY <3>4, Zenon
    <3> QED BY <3>5
  <2> QED BY <2>3, <2>4
<1>4. \E I : IsPartial(I, f, D)
  <2>1. Cardinality(D) \in Nat
    BY FS_CardinalityType
  <2>2. Upto(Cardinality(D)) = SUBSET D
    BY <1>1
  <2>3. \E I : IsUpto(I, Cardinality(D))
    BY <1>3, <2>1
  <2> QED BY <2>2, <2>3 DEF IsPartial
<1>5. SumFunction(f) = (CHOOSE I : IsPartial(I, f, D))[D]
  BY DEF SumFunction, SumFunctionOnSet, FoldFunctionOnSet, MapThenFoldSet, IsPartial, Some
<1> QED BY <1>4, <1>5

\* A set of subsets of a finite set has a smallest member, if it has one.
LEMMA SmallestSubset ==
    ASSUME NEW D, IsFiniteSet(D), NEW Bad, Bad \subseteq SUBSET D, Bad # {}
    PROVE  \E s \in Bad : \A t \in SUBSET D : Cardinality(t) < Cardinality(s) => t \notin Bad
<1> DEFINE Sizes == {Cardinality(s) : s \in Bad}
<1>1. \A s \in SUBSET D : Cardinality(s) \in Nat
  BY FS_Subset, FS_CardinalityType
<1>2. Sizes \subseteq Nat /\ Sizes # {}
  BY <1>1
<1>3. PICK n \in Sizes : \A m \in Sizes : n <= m
  BY <1>2, LeastNatural
<1>4. PICK s \in Bad : n = Cardinality(s)
  BY <1>3
<1>5. ASSUME NEW t \in Bad PROVE ~(Cardinality(t) < Cardinality(s))
  BY <1>1, <1>3, <1>4
<1> QED BY <1>5

\* A partial sum is a term and a smaller partial sum.
LEMMA PartialStep ==
    ASSUME NEW D, IsFiniteSet(D), NEW f, NEW I, IsPartial(I, f, D), NEW s \in SUBSET D
    PROVE  \/ s = {} /\ I[s] = 0
           \/ \E x \in D, t \in SUBSET D :
                 /\ x = Some(s) /\ t = s \ {x} /\ s # {}
                 /\ I[s] = f[x] + I[t] /\ Cardinality(t) < Cardinality(s)
<1>1. CASE s = {}
  BY <1>1 DEF IsPartial
<1>2. CASE s # {}
  <2>1. Some(s) \in s
    BY <1>2 DEF Some
  <2>2. Cardinality(s \ {Some(s)}) = Cardinality(s) - 1 /\ Cardinality(s) \in Nat
    BY <2>1, FS_Subset, FS_RemoveElement, FS_CardinalityType
  <2>3. I[s] = f[Some(s)] + I[s \ {Some(s)}]
    BY <1>2 DEF IsPartial
  <2>4. Some(s) \in D /\ s \ {Some(s)} \in SUBSET D /\ Cardinality(s \ {Some(s)}) < Cardinality(s)
    BY <2>1, <2>2
  <2> QED BY <1>2, <2>3, <2>4
<1> QED BY <1>1, <1>2

\* A sum of naturals is one.
LEMMA SumIsNat ==
    ASSUME NEW D, IsFiniteSet(D), NEW f \in [D -> Nat]
    PROVE  SumFunction(f) \in Nat
<1>1. PICK I : IsPartial(I, f, D) /\ SumFunction(f) = I[D]
  BY PartialSums
<1> DEFINE Bad == {s \in SUBSET D : I[s] \notin Nat}
<1>2. Bad = {}
  <2>1. SUFFICES ASSUME Bad # {} PROVE FALSE
    OBVIOUS
  <2>2. PICK s \in Bad : \A t \in SUBSET D : Cardinality(t) < Cardinality(s) => t \notin Bad
    <3>1. Bad \subseteq SUBSET D
      OBVIOUS
    <3> HIDE DEF Bad
    <3> QED BY <2>1, <3>1, SmallestSubset
  <2>3. s \in SUBSET D /\ I[s] \notin Nat
    OBVIOUS
  <2>4. PICK x \in D, t \in SUBSET D : I[s] = f[x] + I[t] /\ Cardinality(t) < Cardinality(s)
    BY <1>1, <2>3, PartialStep
  <2>5. I[t] \in Nat /\ f[x] \in Nat
    BY <2>2, <2>4
  <2> QED BY <2>3, <2>4, <2>5
<1> QED BY <1>1, <1>2

\* Sums over one domain whose terms stay within a ratio stay within it.
LEMMA SumsScale ==
    ASSUME NEW D, IsFiniteSet(D), NEW f \in [D -> Nat], NEW g \in [D -> Nat],
           NEW a \in {1, 3}, NEW b \in {1, 10}, \A x \in D : a * f[x] <= b * g[x]
    PROVE  a * SumFunction(f) <= b * SumFunction(g)
<1>1. PICK I : IsPartial(I, f, D) /\ SumFunction(f) = I[D]
  BY PartialSums
<1>2. PICK J : IsPartial(J, g, D) /\ SumFunction(g) = J[D]
  BY PartialSums
<1> DEFINE Bad == {s \in SUBSET D : ~(I[s] \in Nat /\ J[s] \in Nat /\ a * I[s] <= b * J[s])}
<1>3. Bad = {}
  <2>1. SUFFICES ASSUME Bad # {} PROVE FALSE
    OBVIOUS
  <2>2. PICK s \in Bad : \A t \in SUBSET D : Cardinality(t) < Cardinality(s) => t \notin Bad
    <3>1. Bad \subseteq SUBSET D
      OBVIOUS
    <3> HIDE DEF Bad
    <3> QED BY <2>1, <3>1, SmallestSubset
  <2>3. s \in SUBSET D /\ ~(I[s] \in Nat /\ J[s] \in Nat /\ a * I[s] <= b * J[s])
    OBVIOUS
  <2>4. s # {}
    BY <1>1, <1>2, <2>3 DEF IsPartial
  <2>5. PICK x \in D, t \in SUBSET D :
          x = Some(s) /\ t = s \ {x} /\ I[s] = f[x] + I[t] /\ Cardinality(t) < Cardinality(s)
    BY <1>1, <2>3, <2>4, PartialStep
  <2>6. J[s] = g[x] + J[t]
    BY <1>2, <2>3, <2>4, <2>5 DEF IsPartial
  <2>7. I[t] \in Nat /\ J[t] \in Nat /\ a * I[t] <= b * J[t]
    BY <2>2, <2>5
  <2>8. f[x] \in Nat /\ g[x] \in Nat /\ a * f[x] <= b * g[x]
    OBVIOUS
  <2> QED BY <2>3, <2>5, <2>6, <2>7, <2>8
<1> QED BY <1>1, <1>2, <1>3

-------------------------------------------------------------------------------
(* Ranks. *)

LEMMA ImageIsFinite ==
    ASSUME NEW S, IsFiniteSet(S), NEW f, DOMAIN f = S
    PROVE  IsFiniteSet({f[x] : x \in S})
<1> DEFINE T == {f[x] : x \in S}
<1>1. [x \in S |-> f[x]] \in Surjection(S, T)
  BY DEF Surjection
<1> QED BY <1>1, FS_Surjection

Signals(rows) == {row.signal : row \in rows}
AtLeast(rows, v) == {row \in rows : row.penalty >= v}

\* Finitely many rows with penalties, one of a signal.
Rated(rows) == /\ IsFiniteSet(rows)
               /\ \A r, q \in rows : r.signal = q.signal => r = q
               /\ \A r \in rows : r.penalty \in Nat

LEMMA CountBySignal ==
    ASSUME NEW rows, Rated(rows)
    PROVE  IsFiniteSet(Signals(rows)) /\ Cardinality(Signals(rows)) = Cardinality(rows)
<1> DEFINE f == [r \in rows |-> r.signal]
<1>1. f \in Bijection(rows, Signals(rows))
  BY DEF Rated, Signals, Bijection, Injection, Surjection, IsInjective
<1>2. ExistsBijection(rows, Signals(rows))
  BY <1>1 DEF ExistsBijection
<1> QED BY <1>2, FS_Bijection DEF Rated

LEMMA SomeOfRated ==
    ASSUME NEW rows, Rated(rows), NEW part, part \in SUBSET rows
    PROVE  Rated(part) /\ Cardinality(part) \in Nat /\ Cardinality(part) <= Cardinality(rows)
<1>1. IsFiniteSet(part) /\ Cardinality(part) <= Cardinality(rows)
  BY FS_Subset DEF Rated
<1>2. Cardinality(part) \in Nat
  BY <1>1, FS_CardinalityType
<1> QED BY <1>1, <1>2 DEF Rated

\* A row of the smallest penalty.
LEMMA Cheapest ==
    ASSUME NEW rows, Rated(rows), rows # {}
    PROVE  \E r \in rows : \A q \in rows : r.penalty <= q.penalty
<1> DEFINE S == {r.penalty : r \in rows}
<1>1. S \subseteq Nat /\ S # {}
  BY DEF Rated
<1>2. PICK n \in S : \A m \in S : n <= m
  BY <1>1, LeastNatural
<1> QED BY <1>2

\* The penalty at a rank is that of a row which so many reach, and the greatest one that is.
LEMMA RankIs ==
    ASSUME NEW rows, Rated(rows), NEW k \in 1 .. Cardinality(rows)
    PROVE  /\ \E q \in rows : AtRank(rows, k) = q.penalty /\ Cardinality(AtLeast(rows, q.penalty)) >= k
           /\ \A r \in rows : Cardinality(AtLeast(rows, r.penalty)) >= k => r.penalty <= AtRank(rows, k)
           /\ AtRank(rows, k) \in Nat
<1> DEFINE High == {q \in rows : Cardinality(AtLeast(rows, q.penalty)) >= k}
           S == {row.penalty : row \in High}
<1>1. Cardinality(rows) \in Nat /\ rows # {}
  BY FS_CardinalityType, FS_EmptySet DEF Rated
<1>2. High # {}
  <2>1. PICK r \in rows : \A q \in rows : r.penalty <= q.penalty
    BY <1>1, Cheapest
  <2>2. AtLeast(rows, r.penalty) = rows
    BY <2>1 DEF AtLeast, Rated
  <2> QED BY <1>1, <2>2
<1>3. Rated(High)
  BY SomeOfRated
<1>4. S \subseteq Nat /\ S # {} /\ IsFiniteSet(S)
  <2> DEFINE f == [r \in High |-> r.penalty]
  <2>1. DOMAIN f = High /\ IsFiniteSet(High)
    BY <1>3 DEF Rated
  <2>2. {f[x] : x \in High} = S
    OBVIOUS
  <2> HIDE DEF f
  <2>3. IsFiniteSet({f[x] : x \in High})
    BY <2>1, ImageIsFinite
  <2>4. S \subseteq Nat /\ S # {}
    BY <1>2, <1>3 DEF Rated
  <2> QED BY <2>2, <2>3, <2>4
<1>5. AtRank(rows, k) = Max(S)
  BY DEF AtRank, AtLeast
<1>6. Max(S) \in S /\ \A y \in S : y <= Max(S)
  BY <1>4, MaxOfFinite
<1> QED BY <1>4, <1>5, <1>6

\* If the penalties of the same signals stay within a ratio, so does the penalty at every rank,
\* although the signals may trade places.
LEMMA RanksScale ==
    ASSUME NEW Q, NEW R, Rated(Q), Rated(R), Signals(Q) = Signals(R),
           NEW a \in {1, 3}, NEW b \in {1, 10},
           \A q \in Q, r \in R : q.signal = r.signal => a * q.penalty <= b * r.penalty
    PROVE  /\ Cardinality(Q) = Cardinality(R)
           /\ \A k \in 1 .. Cardinality(R) : a * AtRank(Q, k) <= b * AtRank(R, k)
<1>1. Cardinality(Q) = Cardinality(R) /\ Cardinality(R) \in Nat
  BY CountBySignal, FS_CardinalityType DEF Rated
<1>2. ASSUME NEW k \in 1 .. Cardinality(R) PROVE a * AtRank(Q, k) <= b * AtRank(R, k)
  <2>1. PICK q \in Q : AtRank(Q, k) = q.penalty /\ Cardinality(AtLeast(Q, q.penalty)) >= k
    BY <1>1, RankIs
  <2> DEFINE A == AtLeast(Q, q.penalty)
             B == {r \in R : b * r.penalty >= a * q.penalty}
  <2>2. Rated(A) /\ Rated(B) /\ Cardinality(A) \in Nat /\ Cardinality(B) \in Nat
    BY SomeOfRated DEF AtLeast
  <2>3. Signals(A) \subseteq Signals(B)
    <3>1. ASSUME NEW x \in A PROVE \E r \in B : r.signal = x.signal
      <4>1. PICK r \in R : r.signal = x.signal
        BY DEF Signals, AtLeast
      <4>2. x \in Q /\ x.penalty \in Nat /\ q.penalty \in Nat /\ r.penalty \in Nat /\ x.penalty >= q.penalty
        BY DEF Rated, AtLeast
      <4>3. a * x.penalty <= b * r.penalty
        BY <4>1, <4>2
      <4>4. b * r.penalty >= a * q.penalty
        BY <4>2, <4>3
      <4> QED BY <4>1, <4>4
    <3> QED BY <3>1 DEF Signals
  <2>4. Cardinality(B) >= k
    <3>1. Cardinality(Signals(A)) <= Cardinality(Signals(B))
      BY <2>2, <2>3, CountBySignal, FS_Subset
    <3> QED BY <2>1, <2>2, <3>1, CountBySignal
  <2>5. PICK r \in B : \A x \in B : r.penalty <= x.penalty
    <3>1. B # {}
      BY <2>2, <2>4, FS_EmptySet
    <3> QED BY <2>2, <3>1, Cheapest
  <2>6. r \in R /\ r.penalty \in Nat /\ q.penalty \in Nat /\ b * r.penalty >= a * q.penalty
    BY DEF Rated
  <2>7. Cardinality(AtLeast(R, r.penalty)) >= k
    <3>1. B \in SUBSET AtLeast(R, r.penalty)
      BY <2>5, <2>6 DEF AtLeast, Rated
    <3>2. Rated(AtLeast(R, r.penalty)) /\ Cardinality(AtLeast(R, r.penalty)) \in Nat
      BY SomeOfRated DEF AtLeast
    <3>3. Cardinality(B) <= Cardinality(AtLeast(R, r.penalty))
      BY <3>1, <3>2, SomeOfRated
    <3> QED BY <2>2, <2>4, <3>2, <3>3
  <2>8. r.penalty <= AtRank(R, k) /\ AtRank(R, k) \in Nat
    BY <2>6, <2>7, RankIs
  <2> QED BY <2>1, <2>6, <2>8
<1> QED BY <1>1, <1>2

\* What the rows of a category charge by rank.
Ladder(rows) == [rank \in 1 .. Cardinality(rows) |-> AtRank(rows, rank) * Discount[rank]]

LEMMA LadderIs ==
    ASSUME NEW rows, Rated(rows), Cardinality(rows) <= Len(Discount)
    PROVE  /\ Ladder(rows) \in [1 .. Cardinality(rows) -> Nat]
           /\ IsFiniteSet(1 .. Cardinality(rows))
           /\ \A k \in 1 .. Cardinality(rows) : Discount[k] \in Nat
<1>1. Cardinality(rows) \in Nat /\ Len(Discount) \in Nat /\ Discount \in [1 .. Len(Discount) -> Nat]
  BY FS_CardinalityType, ModelAssumption DEF Rated
<1>2. \A k \in 1 .. Cardinality(rows) : Discount[k] \in Nat
  BY <1>1
<1>3. \A k \in 1 .. Cardinality(rows) : AtRank(rows, k) \in Nat
  BY RankIs
<1>4. IsFiniteSet(1 .. Cardinality(rows))
  BY <1>1, FS_Interval
<1>5. \A k \in 1 .. Cardinality(rows) : AtRank(rows, k) * Discount[k] \in Nat
  BY <1>2, <1>3
<1> QED BY <1>2, <1>4, <1>5 DEF Ladder

\* What a category charges stays within a ratio if the penalties of its signals do.
LEMMA LaddersScale ==
    ASSUME NEW Q, NEW R, Rated(Q), Rated(R), Signals(Q) = Signals(R), Cardinality(R) <= Len(Discount),
           NEW a \in {1, 3}, NEW b \in {1, 10},
           \A q \in Q, r \in R : q.signal = r.signal => a * q.penalty <= b * r.penalty
    PROVE  a * SumFunction(Ladder(Q)) <= b * SumFunction(Ladder(R))
<1>1. /\ Cardinality(Q) = Cardinality(R)
      /\ \A k \in 1 .. Cardinality(R) : a * AtRank(Q, k) <= b * AtRank(R, k)
  BY RanksScale
<1>2. /\ Ladder(Q) \in [1 .. Cardinality(R) -> Nat] /\ Ladder(R) \in [1 .. Cardinality(R) -> Nat]
      /\ IsFiniteSet(1 .. Cardinality(R))
  BY <1>1, LadderIs
<1>3. ASSUME NEW k \in 1 .. Cardinality(R) PROVE a * Ladder(Q)[k] <= b * Ladder(R)[k]
  <2>1. AtRank(Q, k) \in Nat /\ AtRank(R, k) \in Nat /\ Discount[k] \in Nat
    BY <1>1, RankIs, LadderIs
  <2>2. Ladder(Q)[k] = AtRank(Q, k) * Discount[k] /\ Ladder(R)[k] = AtRank(R, k) * Discount[k]
    BY <1>1 DEF Ladder
  <2>3. a * AtRank(Q, k) <= b * AtRank(R, k)
    BY <1>1
  <2>4. \A x, y, d \in Nat : a * x <= b * y => a * (x * d) <= b * (y * d)
    <3>1. \A x, y, d \in Nat : x <= y => x * d <= y * d
      OBVIOUS
    <3>2. \A x, y, d \in Nat : a * (x * d) = (a * x) * d /\ b * (y * d) = (b * y) * d
      OBVIOUS
    <3>3. \A x, y \in Nat : a * x \in Nat /\ b * y \in Nat
      OBVIOUS
    <3> QED BY <3>1, <3>2, <3>3
  <2> QED BY <2>1, <2>2, <2>3, <2>4
<1> QED BY <1>2, <1>3, SumsScale

-------------------------------------------------------------------------------
(* Rows. *)

EvidenceOK(ev) == DOMAIN ev = Sources /\ \A s \in Sources : ev[s] \in Seq(FindingType)
RefutesOK(refutes) == \A t \in DOMAIN refutes : refutes[t] \in {"nullify", "mitigate"}

F(p, ev) == ev[p[1]][p[2]]
Group(sig, ev) == {p \in AllFindings(ev) : ev[p[1]][p[2]].signal = sig}
Factor(sig, ev) == IF sig \in FreqExempt THEN 4 ELSE Frequency(Cardinality(Group(sig, ev)))

LEMMA ScoredSeverity ==
    ASSUME NEW f, f.signal \in Scored
    PROVE  Base(f) \in Nat
<1>1. Severity(f) \in DOMAIN Points
  BY ModelAssumption DEF Severity
<1> QED BY <1>1, ModelAssumption DEF Base

LEMMA AgeFactors ==
    ASSUME NEW f \in FindingType
    PROVE  AgeFactor(f) \in {20, 10, 3}
<1>1. f.age \in 0 .. 2
  BY DEF FindingType, OldestAge, Decay
<1> QED BY <1>1 DEF AgeFactor, Decay

\* A charge in three cases.
LEMMA ChargeIs ==
    ASSUME NEW f \in FindingType, f.signal \in Scored, NEW refutes, RefutesOK(refutes)
    PROVE  \/ Dispute(f, refutes) = "nullify" /\ Charge(f, refutes) = 0
           \/ Dispute(f, refutes) = "mitigate" /\ Charge(f, refutes) = Base(f) * AgeFactor(f) * 3
           \/ Dispute(f, refutes) = "none" /\ Charge(f, refutes) = Base(f) * AgeFactor(f) * 5
<1>1. Dispute(f, refutes) \in {"nullify", "mitigate", "none"}
  BY DEF Dispute, RefutesOK
<1> QED BY <1>1 DEF Charge

LEMMA ChargeIsNat ==
    ASSUME NEW f \in FindingType, f.signal \in Scored, NEW refutes, RefutesOK(refutes)
    PROVE  Charge(f, refutes) \in Nat
BY ChargeIs, AgeFactors, ScoredSeverity

LEMMA GroupIs ==
    ASSUME NEW ev, EvidenceOK(ev), NEW sig \in Answered(ev)
    PROVE  /\ IsFiniteSet(Group(sig, ev)) /\ Group(sig, ev) # {} /\ sig \in Scored
           /\ \A p \in Group(sig, ev) : F(p, ev) \in FindingType /\ F(p, ev).signal = sig
<1> DEFINE Of(s) == {<<s, i>> : i \in DOMAIN ev[s]}
<1>1. ASSUME NEW s \in Sources PROVE IsFiniteSet(Of(s))
  <2> DEFINE f == [i \in DOMAIN ev[s] |-> <<s, i>>]
  <2>1. DOMAIN ev[s] = 1 .. Len(ev[s]) /\ Len(ev[s]) \in Nat
    BY DEF EvidenceOK
  <2>2. IsFiniteSet(DOMAIN ev[s]) /\ DOMAIN f = DOMAIN ev[s]
    BY <2>1, FS_Interval
  <2>3. {f[i] : i \in DOMAIN ev[s]} = Of(s)
    OBVIOUS
  <2> HIDE DEF f
  <2> QED BY <2>2, <2>3, ImageIsFinite
<1>2. IsFiniteSet({Of(s) : s \in Sources})
  <2> DEFINE f == [s \in Sources |-> Of(s)]
  <2>1. DOMAIN f = Sources /\ IsFiniteSet(Sources)
    BY ModelAssumption
  <2>2. {f[s] : s \in Sources} = {Of(s) : s \in Sources}
    OBVIOUS
  <2> HIDE DEF f
  <2> QED BY <2>1, <2>2, ImageIsFinite
<1>3. IsFiniteSet(AllFindings(ev))
  <2>1. \A T \in {Of(s) : s \in Sources} : IsFiniteSet(T)
    BY <1>1
  <2>2. AllFindings(ev) = UNION {Of(s) : s \in Sources}
    BY DEF AllFindings
  <2> HIDE DEF Of
  <2> QED BY <1>2, <2>1, <2>2, FS_UNION
<1>4. Group(sig, ev) \in SUBSET AllFindings(ev)
  BY DEF Group
<1>5. ASSUME NEW p \in AllFindings(ev) PROVE F(p, ev) \in FindingType
  <2>1. PICK s \in Sources : p \in Of(s)
    BY DEF AllFindings
  <2>2. PICK i \in DOMAIN ev[s] : p = <<s, i>>
    BY <2>1
  <2>3. ev[s] \in Seq(FindingType)
    BY DEF EvidenceOK
  <2>4. ev[s][i] \in FindingType
    BY <2>2, <2>3
  <2> QED BY <2>2, <2>4 DEF F
<1>6. Group(sig, ev) # {} /\ sig \in Scored
  BY DEF Answered, Findings, Group
<1> QED BY <1>3, <1>4, <1>5, <1>6, FS_Subset DEF Group, F

LEMMA FactorIs ==
    ASSUME NEW ev, EvidenceOK(ev), NEW sig \in Answered(ev)
    PROVE  Factor(sig, ev) \in 4 .. 8
<1>1. Cardinality(Group(sig, ev)) \in Nat /\ Cardinality(Group(sig, ev)) # 0
  BY GroupIs, FS_CardinalityType, FS_EmptySet
<1> QED BY <1>1 DEF Factor, Frequency

\* A row is worth its worst finding times the recurrence.
LEMMA RowIs ==
    ASSUME NEW ev, EvidenceOK(ev), NEW refutes, RefutesOK(refutes), NEW sig \in Answered(ev)
    PROVE  LET row == Row(sig, ev, refutes)
           IN /\ row = [signal |-> sig, bands |-> row.bands, penalty |-> row.penalty]
              /\ row.penalty \in Nat
              /\ \E p \in Group(sig, ev) :
                    /\ row.penalty = Charge(F(p, ev), refutes) * Factor(sig, ev)
                    /\ \A q \in Group(sig, ev) : Charge(F(q, ev), refutes) <= Charge(F(p, ev), refutes)
                    /\ \A band : band \in row.bands <=>
                          \E q \in Group(sig, ev) :
                             F(q, ev).band = band /\ Charge(F(q, ev), refutes) = Charge(F(p, ev), refutes)
<1> DEFINE group == Group(sig, ev)
           charges == {<<F(p, ev).band, Charge(F(p, ev), refutes)>> : p \in group}
           S == {c[2] : c \in charges}
           bands == {c[1] : c \in {d \in charges : d[2] = Max(S)}}
           row == Row(sig, ev, refutes)
<1>1. row = [signal |-> sig, bands |-> bands, penalty |-> Max(S) * Factor(sig, ev)]
  BY DEF Row, Group, F, Factor
<1>2. \A p \in group : Charge(F(p, ev), refutes) \in Nat
  BY GroupIs, ChargeIsNat
<1>3. S = {Charge(F(p, ev), refutes) : p \in group}
  <2> DEFINE pair(p) == <<F(p, ev).band, Charge(F(p, ev), refutes)>>
  <2>1. \A p \in group : pair(p)[2] = Charge(F(p, ev), refutes)
    OBVIOUS
  <2>2. S = {pair(p)[2] : p \in group}
    OBVIOUS
  <2> HIDE DEF pair
  <2> QED BY <2>1, <2>2
<1>4. IsFiniteSet(S) /\ S # {} /\ S \subseteq Nat
  <2> DEFINE f == [p \in group |-> Charge(F(p, ev), refutes)]
  <2>1. DOMAIN f = group /\ IsFiniteSet(group) /\ group # {}
    BY GroupIs
  <2>2. {f[p] : p \in group} = S
    BY <1>3
  <2>3. S # {} /\ S \subseteq Nat
    BY <1>2, <1>3, <2>1
  <2> HIDE DEF f
  <2> QED BY <2>1, <2>2, <2>3, ImageIsFinite
<1>5. Max(S) \in S /\ \A y \in S : y <= Max(S)
  BY <1>4, MaxOfFinite
<1>6. PICK p \in group : Max(S) = Charge(F(p, ev), refutes)
  BY <1>3, <1>5
<1>7. \A q \in group : Charge(F(q, ev), refutes) <= Charge(F(p, ev), refutes)
  BY <1>3, <1>5, <1>6, SMT
<1>8. \A band : band \in bands <=>
         \E q \in group : F(q, ev).band = band /\ Charge(F(q, ev), refutes) = Charge(F(p, ev), refutes)
  <2> DEFINE pair(q) == <<F(q, ev).band, Charge(F(q, ev), refutes)>>
  <2>1. \A q \in group : pair(q)[1] = F(q, ev).band /\ pair(q)[2] = Charge(F(q, ev), refutes)
    OBVIOUS
  <2>2. charges = {pair(q) : q \in group}
    OBVIOUS
  <2> HIDE DEF pair, charges, S
  <2>3. \A band : band \in bands <=> \E q \in group : pair(q)[1] = band /\ pair(q)[2] = Max(S)
    BY <2>2
  <2> HIDE DEF bands
  <2> QED BY <1>6, <2>1, <2>3
<1>9. Max(S) * Factor(sig, ev) \in Nat
  BY <1>4, <1>5, FactorIs
<1> HIDE DEF bands, S
<1> QED BY <1>1, <1>6, <1>7, <1>8, <1>9

-------------------------------------------------------------------------------
(* Damage. *)

Owed(row, rows) == IF Waived(row, rows) THEN 0 ELSE row.penalty

\* What a category ranks: a row of each signal that answered, with what it owes.
LEMMA ChargedIs ==
    ASSUME NEW ev, EvidenceOK(ev), NEW refutes, RefutesOK(refutes), NEW cat \in Categories
    PROVE  LET charged == ChargedRows(cat, Rows(ev, refutes))
           IN /\ Rated(charged) /\ Cardinality(charged) <= Len(Discount)
              /\ Signals(charged) = {sig \in Answered(ev) : CategoryOf[sig] = cat}
              /\ \A c \in charged : c.signal \in Answered(ev)
                                    /\ c.penalty = Owed(Row(c.signal, ev, refutes), Rows(ev, refutes))
<1> DEFINE rows == Rows(ev, refutes)
           charged == ChargedRows(cat, rows)
           Here == {sig \in Answered(ev) : CategoryOf[sig] = cat}
           Paid(sig) == [Row(sig, ev, refutes) EXCEPT !.penalty = IF Waived(Row(sig, ev, refutes), rows) THEN 0 ELSE @]
<1>1. \A sig \in Answered(ev) :
         /\ Row(sig, ev, refutes).signal = sig
         /\ Paid(sig).signal = sig /\ Paid(sig).penalty = Owed(Row(sig, ev, refutes), rows)
         /\ Paid(sig).penalty \in Nat
  <2>1. ASSUME NEW sig \in Answered(ev)
        PROVE  /\ Row(sig, ev, refutes).signal = sig
               /\ Paid(sig).signal = sig /\ Paid(sig).penalty = Owed(Row(sig, ev, refutes), rows)
               /\ Paid(sig).penalty \in Nat
    <3> DEFINE row == Row(sig, ev, refutes)
    <3>1. row = [signal |-> sig, bands |-> row.bands, penalty |-> row.penalty] /\ row.penalty \in Nat
      BY RowIs
    <3>2. row.signal = sig
      BY <3>1
    <3>3. Paid(sig) = [row EXCEPT !.penalty = IF Waived(row, rows) THEN 0 ELSE row.penalty]
      OBVIOUS
    <3> HIDE DEF row
    <3>4. Paid(sig) = [signal |-> sig, bands |-> row.bands, penalty |-> IF Waived(row, rows) THEN 0 ELSE row.penalty]
      BY <3>1, <3>3
    <3> USE DEF row
    <3> HIDE DEF Paid
    <3> QED BY <3>1, <3>2, <3>4 DEF Owed
  <2> HIDE DEF Paid, rows
  <2> QED BY <2>1
<1>2. charged = {Paid(sig) : sig \in Here}
  <2>1. ASSUME NEW c \in charged PROVE c \in {Paid(sig) : sig \in Here}
    <3>1. PICK r \in rows : CategoryOf[r.signal] = cat /\ c = [r EXCEPT !.penalty = IF Waived(r, rows) THEN 0 ELSE @]
      BY DEF ChargedRows
    <3>2. PICK sig \in Answered(ev) : r = Row(sig, ev, refutes)
      BY DEF Rows
    <3>3. r.signal = sig
      BY <1>1, <3>2
    <3> QED BY <3>1, <3>2, <3>3
  <2>2. ASSUME NEW sig \in Here PROVE Paid(sig) \in charged
    <3>1. Row(sig, ev, refutes) \in {r \in rows : CategoryOf[r.signal] = cat}
      BY <1>1 DEF Rows
    <3> QED BY <3>1 DEF ChargedRows
  <2> HIDE DEF Paid, charged
  <2> QED BY <2>1, <2>2
<1>3. IsFiniteSet(Here) /\ Here \in SUBSET {sig \in Scored : CategoryOf[sig] = cat}
  <2>1. Here \in SUBSET Scored
    BY DEF Answered
  <2>2. IsFiniteSet(Here)
    BY <2>1, ModelAssumption, FS_Subset
  <2> QED BY <2>1, <2>2
<1> HIDE DEF Paid
<1>4. IsFiniteSet(charged)
  <2> DEFINE f == [sig \in Here |-> Paid(sig)]
  <2>1. DOMAIN f = Here /\ {f[sig] : sig \in Here} = charged
    BY <1>2
  <2> HIDE DEF f
  <2> QED BY <1>3, <2>1, ImageIsFinite
<1>5. Rated(charged)
  BY <1>1, <1>2, <1>4 DEF Rated
<1>6. Signals(charged) = Here
  <2>1. \A sig \in Here : Paid(sig).signal = sig
    BY <1>1
  <2> HIDE DEF charged
  <2> QED BY <1>2, <2>1 DEF Signals
<1>7. Cardinality(charged) <= Len(Discount)
  <2>1. Cardinality(Here) = Cardinality(charged)
    BY <1>5, <1>6, CountBySignal
  <2>2. Cardinality({sig \in Scored : CategoryOf[sig] = cat}) <= Len(Discount)
    BY ModelAssumption
  <2>3. IsFiniteSet({sig \in Scored : CategoryOf[sig] = cat})
    BY ModelAssumption, FS_Subset
  <2>4. Cardinality(Here) <= Cardinality({sig \in Scored : CategoryOf[sig] = cat})
    BY <1>3, <2>3, FS_Subset
  <2>5. Len(Discount) \in Nat /\ Cardinality(Here) \in Nat /\ Cardinality({sig \in Scored : CategoryOf[sig] = cat}) \in Nat
    BY <1>3, <2>3, FS_CardinalityType, ModelAssumption
  <2> QED BY <2>1, <2>2, <2>4, <2>5
<1>8. \A c \in charged : c.signal \in Answered(ev)
                         /\ c.penalty = Owed(Row(c.signal, ev, refutes), rows)
  BY <1>1, <1>2
<1> QED BY <1>5, <1>6, <1>7, <1>8

LEMMA PointIs == Point \in Nat /\ 100 * Point \in Nat /\ Whole \in Nat /\ Whole > 0
BY ModelAssumption, SMT DEF Point, Whole

LEMMA CategoriesFinite == IsFiniteSet(Categories)
<1>1. IsFiniteSet(Scored) /\ DOMAIN CategoryOf = Scored
  BY ModelAssumption DEF Scored
<1> QED BY <1>1, ImageIsFinite DEF Categories

LEMMA CategoryPenaltyIsNat ==
    ASSUME NEW ev, EvidenceOK(ev), NEW refutes, RefutesOK(refutes), NEW cat \in Categories
    PROVE  /\ CategoryPenalty(cat, Rows(ev, refutes)) = SumFunction(Ladder(ChargedRows(cat, Rows(ev, refutes))))
           /\ CategoryPenalty(cat, Rows(ev, refutes)) \in Nat
<1> DEFINE charged == ChargedRows(cat, Rows(ev, refutes))
<1>1. CategoryPenalty(cat, Rows(ev, refutes)) = SumFunction(Ladder(charged))
  BY DEF CategoryPenalty, Ladder
<1>2. Rated(charged) /\ Cardinality(charged) <= Len(Discount)
  BY ChargedIs
<1>3. SumFunction(Ladder(charged)) \in Nat
  BY <1>2, LadderIs, SumIsNat
<1> QED BY <1>1, <1>3

\* What the categories add, each of at most 100 points.
Capped(rows) == [cat \in Categories |-> Min({CategoryPenalty(cat, rows), 100 * Point})]

LEMMA DamageIsNat ==
    ASSUME NEW ev, EvidenceOK(ev), NEW refutes, RefutesOK(refutes)
    PROVE  /\ Capped(Rows(ev, refutes)) \in [Categories -> Nat]
           /\ Damage(Rows(ev, refutes)) = SumFunction(Capped(Rows(ev, refutes)))
           /\ Damage(Rows(ev, refutes)) \in Nat
<1>1. Damage(Rows(ev, refutes)) = SumFunction(Capped(Rows(ev, refutes)))
  BY DEF Damage, Capped
<1>2. \A cat \in Categories : Min({CategoryPenalty(cat, Rows(ev, refutes)), 100 * Point}) \in Nat
  <2>1. 100 * Point \in Nat
    BY PointIs
  <2> QED BY <2>1, CategoryPenaltyIsNat, MinOfTwo
<1>3. Capped(Rows(ev, refutes)) \in [Categories -> Nat]
  BY <1>2 DEF Capped
<1> QED BY <1>1, <1>3, CategoriesFinite, SumIsNat

\* The damage of one vendor stays within a ratio of another's, if what their signals owe does.
LEMMA DamageScales ==
    ASSUME NEW evQ, NEW evR, EvidenceOK(evQ), EvidenceOK(evR), Answered(evQ) = Answered(evR),
           NEW refQ, NEW refR, RefutesOK(refQ), RefutesOK(refR),
           NEW a \in {1, 3}, NEW b \in {1, 10}, a <= b,
           \A sig \in Answered(evR) : a * Owed(Row(sig, evQ, refQ), Rows(evQ, refQ))
                                         <= b * Owed(Row(sig, evR, refR), Rows(evR, refR))
    PROVE  a * Damage(Rows(evQ, refQ)) <= b * Damage(Rows(evR, refR))
<1> DEFINE Q == Rows(evQ, refQ)
           R == Rows(evR, refR)
<1>1. ASSUME NEW cat \in Categories PROVE a * Capped(Q)[cat] <= b * Capped(R)[cat]
  <2>1. a * SumFunction(Ladder(ChargedRows(cat, Q))) <= b * SumFunction(Ladder(ChargedRows(cat, R)))
    <3> DEFINE C == ChargedRows(cat, Q)
               E == ChargedRows(cat, R)
    <3>1. Rated(C) /\ Rated(E) /\ Cardinality(E) <= Len(Discount) /\ Signals(C) = Signals(E)
      <4>1. Rated(C) /\ Signals(C) = {sig \in Answered(evQ) : CategoryOf[sig] = cat}
        BY ChargedIs
      <4>2. /\ Rated(E) /\ Cardinality(E) <= Len(Discount)
            /\ Signals(E) = {sig \in Answered(evR) : CategoryOf[sig] = cat}
        BY ChargedIs
      <4> HIDE DEF C, E
      <4> QED BY <4>1, <4>2
    <3>2. /\ \A c \in C : c.signal \in Answered(evQ) /\ c.penalty = Owed(Row(c.signal, evQ, refQ), Q)
          /\ \A c \in E : c.signal \in Answered(evR) /\ c.penalty = Owed(Row(c.signal, evR, refR), R)
      BY ChargedIs
    <3>3. \A q \in C, r \in E : q.signal = r.signal => a * q.penalty <= b * r.penalty
      BY <3>2
    <3> HIDE DEF C, E
    <3>4. a * SumFunction(Ladder(C)) <= b * SumFunction(Ladder(E))
      BY <3>1, <3>3, LaddersScale
    <3> QED BY <3>4 DEF C, E
  <2>2. /\ CategoryPenalty(cat, Q) = SumFunction(Ladder(ChargedRows(cat, Q))) /\ CategoryPenalty(cat, Q) \in Nat
        /\ CategoryPenalty(cat, R) = SumFunction(Ladder(ChargedRows(cat, R))) /\ CategoryPenalty(cat, R) \in Nat
    BY CategoryPenaltyIsNat
  <2>3. /\ Capped(Q)[cat] = Min({CategoryPenalty(cat, Q), 100 * Point})
        /\ Capped(R)[cat] = Min({CategoryPenalty(cat, R), 100 * Point})
    BY DEF Capped
  <2> HIDE DEF Q, R
  <2>4. 100 * Point \in Nat
    BY PointIs
  <2>5. a * Min({CategoryPenalty(cat, Q), 100 * Point}) <= b * Min({CategoryPenalty(cat, R), 100 * Point})
    <3> DEFINE x == CategoryPenalty(cat, Q)
               y == CategoryPenalty(cat, R)
               top == 100 * Point
    <3>1. x \in Nat /\ y \in Nat /\ top \in Nat /\ a * x <= b * y
      BY <2>1, <2>2, <2>4
    <3> HIDE DEF x, y, top
    <3>2. Min({x, top}) = (IF x <= top THEN x ELSE top) /\ Min({y, top}) = (IF y <= top THEN y ELSE top)
      BY <3>1, MinOfTwo
    <3>3. a * Min({x, top}) <= b * Min({y, top})
      BY <3>1, <3>2
    <3> QED BY <3>3 DEF x, y, top
  <2> QED BY <2>3, <2>5
<1>2. Capped(Q) \in [Categories -> Nat] /\ Capped(R) \in [Categories -> Nat]
  BY DamageIsNat
<1>3. Damage(Q) = SumFunction(Capped(Q)) /\ Damage(R) = SumFunction(Capped(R))
  BY DamageIsNat
<1> HIDE DEF Q, R
<1>4. a * SumFunction(Capped(Q)) <= b * SumFunction(Capped(R))
  BY <1>1, <1>2, CategoriesFinite, SumsScale
<1> QED BY <1>3, <1>4 DEF Q, R

-------------------------------------------------------------------------------
(* Scores. *)

\* A posture of at most n points rounds to at most n.
LEMMA RoundedIs ==
    ASSUME NEW n \in {49, 100}, NEW x \in 0 .. n * Whole
    PROVE  Rounded(x) \in 0 .. n
<1> DEFINE q == x \div Whole
           r == x % Whole
<1>1. Whole \in Nat /\ Whole > 0
  BY PointIs
<1>2. x \in Nat /\ x <= n * Whole
  BY <1>1, SMT
<1>3. q \in Int /\ r \in 0 .. Whole - 1 /\ x = Whole * q + r
  BY <1>1, <1>2, SMT
<1>4. Rounded(x) = q \/ (Rounded(x) = q + 1 /\ r > 0)
  <2>1. Rounded(x) = IF 2 * r > Whole \/ (2 * r = Whole /\ q % 2 = 1) THEN q + 1 ELSE q
    BY DEF Rounded
  <2> HIDE DEF q, r
  <2> QED BY <1>1, <1>3, <2>1, SMT
<1> HIDE DEF q, r
<1>5. q >= 0
  BY <1>1, <1>2, <1>3, SMT
<1>6. q <= n /\ (r > 0 => q < n)
  BY <1>1, <1>2, <1>3, SMT
<1> QED BY <1>4, <1>5, <1>6, <1>3, SMT

LEMMA CeilingIs ==
    ASSUME NEW c
    PROVE  ConfidenceCeiling(c) \in {100, 97, 90, 80}
BY DEF ConfidenceCeiling

\* What a score is made of.
LEMMA ScoreIs ==
    ASSUME NEW ev, EvidenceOK(ev), NEW refutes, RefutesOK(refutes), NEW vendor
    PROVE  LET c == Score(ev, refutes, vendor)
               rows == Rows(ev, refutes)
           IN /\ c.status \in {"blocked", "refused", "published"}
              /\ c.posture \in 0 .. 100 /\ c.capped \in BOOLEAN
              /\ c.damage \in Nat /\ c.waived \subseteq Scored
              /\ c.status # "blocked" =>
                    /\ c.damage = Damage(rows)
                    /\ c.waived = {row.signal : row \in {r \in rows : Waived(r, rows)}}
              /\ c.status = "published" /\ CriticalSeen(ev, refutes) => c.posture <= CriticalCeiling
<1> DEFINE c == Score(ev, refutes, vendor)
           rows == Rows(ev, refutes)
           damage == Damage(rows)
           raw == RawPosture(damage)
           armed == CriticalSeen(ev, refutes)
           lowered == armed /\ raw > CriticalCeiling * Whole
           posture == IF lowered THEN CriticalCeiling * Whole ELSE raw
           confidence == ConfidenceIn(rows, vendor)
           ceiling == ConfidenceCeiling(confidence)
           capped == posture > ceiling * Whole
           refused == ~Attains(confidence, 40) /\ ~lowered
           waived == {row.signal : row \in {r \in rows : Waived(r, rows)}}
<1>1. c = IF Gated(ev, vendor)
          THEN [status |-> "blocked", posture |-> 0, capped |-> FALSE, damage |-> 0, waived |-> {}]
          ELSE [status  |-> IF refused THEN "refused" ELSE "published",
                posture |-> IF refused THEN 0 ELSE IF capped THEN ceiling ELSE Rounded(posture),
                capped  |-> ~refused /\ capped,
                damage  |-> damage,
                waived  |-> waived]
  BY DEF Score
<1>2. damage \in Nat
  BY DamageIsNat
<1>3. Whole \in Nat /\ Whole > 0 /\ CriticalCeiling = 49
  BY PointIs DEF CriticalCeiling
<1>4. raw \in 0 .. 100 * Whole
  <2> HIDE DEF damage
  <2> QED BY <1>2, <1>3, SMT DEF RawPosture
<1> HIDE DEF raw, armed
<1>5. posture \in 0 .. 100 * Whole /\ (armed => posture \in 0 .. 49 * Whole)
  BY <1>3, <1>4, SMT
<1> HIDE DEF posture, confidence
<1>6. ceiling \in {100, 97, 90, 80}
  BY CeilingIs
<1> HIDE DEF ceiling
<1>7. Rounded(posture) \in 0 .. 100 /\ (armed => Rounded(posture) \in 0 .. 49)
  BY <1>5, RoundedIs
<1>8. armed => ~capped
  BY <1>3, <1>5, <1>6, SMT
<1>9. waived \subseteq Scored
  <2>1. ASSUME NEW row \in rows PROVE row.signal \in Scored
    <3>1. PICK sig \in Answered(ev) : row = Row(sig, ev, refutes)
      BY DEF Rows
    <3>2. row.signal = sig
      BY <3>1 DEF Row
    <3> QED BY <3>2 DEF Answered
  <2> HIDE DEF rows
  <2> QED BY <2>1
<1> HIDE DEF damage, waived, lowered, refused, capped
<1> HIDE DEF c
<1>10. ASSUME Gated(ev, vendor) PROVE c.status = "blocked" /\ c.posture = 0 /\ c.capped = FALSE /\ c.damage = 0 /\ c.waived = {}
  BY <1>1, <1>10
<1>11. ASSUME ~Gated(ev, vendor)
       PROVE  /\ c.status \in {"refused", "published"} /\ c.capped \in BOOLEAN
              /\ c.damage = damage /\ c.waived = waived /\ c.posture \in 0 .. 100
              /\ c.status = "published" /\ armed => c.posture <= CriticalCeiling
  <2>1. c = [status  |-> IF refused THEN "refused" ELSE "published",
             posture |-> IF refused THEN 0 ELSE IF capped THEN ceiling ELSE Rounded(posture),
             capped  |-> ~refused /\ capped,
             damage  |-> damage,
             waived  |-> waived]
    BY <1>1, <1>11
  <2>2. c.status \in {"refused", "published"} /\ c.capped \in BOOLEAN /\ c.damage = damage /\ c.waived = waived
    BY <2>1
  <2>3. c.posture = IF refused THEN 0 ELSE IF capped THEN ceiling ELSE Rounded(posture)
    BY <2>1
  <2>4. c.posture \in 0 .. 100
    BY <1>6, <1>7, <2>3
  <2>5. c.status = "published" => ~refused
    BY <2>1
  <2>6. c.status = "published" /\ armed => c.posture <= CriticalCeiling
    BY <1>3, <1>7, <1>8, <2>3, <2>5, SMT
  <2> QED BY <2>2, <2>4, <2>6
<1>12. /\ c.status \in {"blocked", "refused", "published"}
       /\ c.posture \in 0 .. 100 /\ c.capped \in BOOLEAN /\ c.damage \in Nat /\ c.waived \subseteq Scored
       /\ c.status # "blocked" => c.damage = damage /\ c.waived = waived
       /\ c.status = "published" /\ armed => c.posture <= CriticalCeiling
  <2>1. CASE Gated(ev, vendor)
    <3>1. c.status = "blocked" /\ c.posture \in 0 .. 100 /\ c.capped \in BOOLEAN /\ c.damage \in Nat /\ c.waived \subseteq Scored
      <4>1. c.status = "blocked" /\ c.posture = 0 /\ c.capped = FALSE /\ c.damage = 0 /\ c.waived = {}
        BY <1>10, <2>1
      <4>2. 0 \in 0 .. 100 /\ 0 \in Nat /\ {} \subseteq Scored /\ FALSE \in BOOLEAN
        OBVIOUS
      <4> QED BY <4>1, <4>2, Zenon
    <3> QED BY <3>1
  <2>2. CASE ~Gated(ev, vendor)
    <3>1. c.damage \in Nat /\ c.waived \subseteq Scored
      BY <1>2, <1>9, <1>11, <2>2
    <3>2. c.status \in {"blocked", "refused", "published"}
      BY <1>11, <2>2
    <3> QED BY <1>11, <2>2, <3>1, <3>2
  <2> QED BY <2>1, <2>2
<1> QED BY <1>12 DEF c, damage, waived, armed

-------------------------------------------------------------------------------
(* The inductive invariant: the card is the score of what is on record. *)

ScoringInv ==
    /\ EvidenceOK(evidence) /\ RefutesOK(accepted)
    /\ IsFiniteSet(DOMAIN accepted) /\ Cardinality(DOMAIN accepted) <= MaxRefutes
    /\ ambiguous \in BOOLEAN /\ scorer \in {"api", "sweep"}
    /\ card = Score(evidence, accepted, VendorOf(scorer, ambiguous))

Aging(ev) == [s \in Sources |-> [i \in DOMAIN ev[s] |-> Older(ev[s][i])]]

LEMMA OlderIs ==
    ASSUME NEW f \in FindingType
    PROVE  /\ Older(f) \in FindingType /\ Older(f).signal = f.signal /\ Older(f).band = f.band
           /\ Older(f).age = f.age \/ Older(f).age = f.age + 1
           /\ f.signal \in Undated \/ Base(f) = 0 => Older(f) = f
BY DEF Older, FindingType, OldestAge, Decay

LEMMA AgingIsEvidence ==
    ASSUME NEW ev, EvidenceOK(ev)
    PROVE  EvidenceOK(Aging(ev))
<1>1. ASSUME NEW s \in Sources PROVE Aging(ev)[s] \in Seq(FindingType)
  <2>1. ev[s] \in Seq(FindingType)
    BY DEF EvidenceOK
  <2>2. \A i \in DOMAIN ev[s] : Older(ev[s][i]) \in FindingType
    BY <2>1, OlderIs
  <2>3. Aging(ev)[s] = [i \in 1 .. Len(ev[s]) |-> Older(ev[s][i])] /\ Len(ev[s]) \in Nat
    BY <2>1 DEF Aging
  <2> QED BY <2>1, <2>2, <2>3
<1> QED BY <1>1 DEF EvidenceOK, Aging

LEMMA InitScoring == Init => ScoringInv
<1> SUFFICES ASSUME Init PROVE ScoringInv
  OBVIOUS
<1>1. EvidenceOK(Silence)
  BY DEF EvidenceOK, Silence
<1>2. DOMAIN NoRefute = {} /\ RefutesOK(NoRefute)
  BY DEF NoRefute, RefutesOK
<1>3. IsFiniteSet(DOMAIN NoRefute) /\ Cardinality(DOMAIN NoRefute) <= MaxRefutes
  BY <1>2, FS_EmptySet, ModelAssumption
<1> QED BY <1>1, <1>2, <1>3 DEF Init, ScoringInv

LEMMA NextScoring == ScoringInv /\ [Next]_vars => ScoringInv'
<1> SUFFICES ASSUME ScoringInv, [Next]_vars PROVE ScoringInv'
  OBVIOUS
<1> USE DEF ScoringInv
<1>1. ASSUME NEW s \in Sources, Collect(s) PROVE ScoringInv'
  <2>1. PICK reply \in Replies[s] \cup {<<>>} :
          /\ evidence' = [evidence EXCEPT ![s] = reply]
          /\ card' = Score(evidence', accepted, VendorOf(scorer, ambiguous))
          /\ UNCHANGED <<accepted, ambiguous, scorer>>
    BY <1>1 DEF Collect
  <2>2. reply \in Seq(FindingType)
    <3>1. \A r \in Replies[s] : r \in Seq(FindingType)
      BY ModelAssumption
    <3>2. <<>> \in Seq(FindingType)
      OBVIOUS
    <3> QED BY <3>1, <3>2
  <2>3. EvidenceOK(evidence')
    BY <2>1, <2>2 DEF EvidenceOK
  <2> QED BY <2>1, <2>3 DEF RefutesOK
<1>2. ASSUME NEW f \in Disputable, NEW kind \in {"nullify", "mitigate"}, Refute(f, kind) PROVE ScoringInv'
  <2>1. DOMAIN accepted' = DOMAIN accepted \cup {<<f.signal, f.band>>}
    BY <1>2 DEF Refute
  <2>2. RefutesOK(accepted')
    BY <1>2, <2>1 DEF Refute, RefutesOK
  <2>3. IsFiniteSet(DOMAIN accepted') /\ Cardinality(DOMAIN accepted') <= MaxRefutes
    <3>1. Cardinality(DOMAIN accepted) \in Nat /\ MaxRefutes \in Nat
      BY FS_CardinalityType, ModelAssumption
    <3>2. Cardinality(DOMAIN accepted) < MaxRefutes
      BY <1>2 DEF Refute
    <3> DEFINE more == DOMAIN accepted \cup {<<f.signal, f.band>>}
    <3>3. IsFiniteSet(more) /\ Cardinality(more) <= Cardinality(DOMAIN accepted) + 1 /\ Cardinality(more) \in Nat
      <4> DEFINE D == DOMAIN accepted
                 t == <<f.signal, f.band>>
      <4>1. IsFiniteSet(D) /\ more = D \cup {t} /\ Cardinality(D) \in Nat
        BY <3>1
      <4> HIDE DEF more, D, t
      <4>2. IsFiniteSet(more) /\ Cardinality(more) = IF t \in D THEN Cardinality(D) ELSE Cardinality(D) + 1
        BY <4>1, FS_AddElement
      <4>3. Cardinality(more) <= Cardinality(D) + 1 /\ Cardinality(more) \in Nat
        BY <4>1, <4>2
      <4> QED BY <4>2, <4>3 DEF D
    <3>4. DOMAIN accepted' = more
      BY <2>1
    <3> HIDE DEF more
    <3> QED BY <3>1, <3>2, <3>3, <3>4
  <2> QED BY <1>2, <2>2, <2>3 DEF Refute
<1>3. CASE Age
  <2>1. evidence' = Aging(evidence)
    BY <1>3 DEF Age, Aging
  <2>2. EvidenceOK(evidence')
    BY <2>1, AgingIsEvidence
  <2> QED BY <1>3, <2>2 DEF Age, RefutesOK
<1>4. CASE Resolve
  BY <1>4 DEF Resolve, RefutesOK
<1>5. ASSUME NEW who \in {"api", "sweep"}, Rescore(who) PROVE ScoringInv'
  BY <1>5 DEF Rescore, RefutesOK
<1>6. CASE UNCHANGED vars
  BY <1>6 DEF vars, RefutesOK
<1> QED BY <1>1, <1>2, <1>3, <1>4, <1>5, <1>6 DEF Next

\* The card is always the score of the evidence and the refutes on record, for the process that made it.
THEOREM ScoringInvariant == Spec => []ScoringInv
BY InitScoring, NextScoring, PTL DEF Spec

\* The types; a posture is a number of points from 0 to 100, whatever the model.
THEOREM ScoringTypes == Spec => []TypeOK
<1>1. ScoringInv => TypeOK
  <2> SUFFICES ASSUME ScoringInv PROVE TypeOK
    OBVIOUS
  <2>1. \A f \in Findings(evidence) : f \in FindingType
    <3>1. \A s \in Sources : \A i \in DOMAIN evidence[s] : evidence[s][i] \in FindingType
      BY DEF ScoringInv, EvidenceOK
    <3> QED BY <3>1 DEF Findings, AllFindings
  <2>2. /\ card.status \in {"blocked", "refused", "published"}
        /\ card.posture \in 0 .. 100 /\ card.capped \in BOOLEAN
        /\ card.damage \in Nat /\ card.waived \subseteq Scored
    BY ScoreIs DEF ScoringInv
  <2> QED BY <2>1, <2>2 DEF ScoringInv, TypeOK, EvidenceOK, RefutesOK
<1> QED BY <1>1, ScoringInvariant, PTL

\* The knockout: with a live critical on record that no refute nullified, nothing above the
\* ceiling is published, at any age, coverage or mitigation.
THEOREM KnockoutIsProved == Spec => []KnockoutHolds
<1>1. ScoringInv => KnockoutHolds
  <2> SUFFICES ASSUME ScoringInv, card.status = "published",
                      NEW f \in Findings(evidence), f.signal \in AutoSignals, Severity(f) = "critical",
                      <<f.signal, f.band>> \in DOMAIN accepted => accepted[<<f.signal, f.band>>] = "mitigate"
               PROVE  card.posture <= CriticalCeiling
    BY DEF KnockoutHolds
  <2>1. Dispute(f, accepted) # "nullify"
    BY DEF Dispute
  <2>2. CriticalSeen(evidence, accepted)
    BY <2>1 DEF CriticalSeen, IsCritical
  <2> QED BY <2>2, ScoreIs DEF ScoringInv
<1> QED BY <1>1, ScoringInvariant, PTL

-------------------------------------------------------------------------------
(* Time passes. *)

LEMMA AgingGroups ==
    ASSUME NEW ev, EvidenceOK(ev)
    PROVE  /\ \A p \in AllFindings(ev) : F(p, ev) \in FindingType /\ F(p, Aging(ev)) = Older(F(p, ev))
           /\ \A sig : Group(sig, Aging(ev)) = Group(sig, ev) /\ Factor(sig, Aging(ev)) = Factor(sig, ev)
           /\ Answered(Aging(ev)) = Answered(ev)
<1>1. \A s \in Sources : DOMAIN Aging(ev)[s] = DOMAIN ev[s]
  BY DEF Aging
<1>2. AllFindings(Aging(ev)) = AllFindings(ev)
  BY <1>1 DEF AllFindings
<1>3. ASSUME NEW p \in AllFindings(ev)
      PROVE  F(p, ev) \in FindingType /\ F(p, Aging(ev)) = Older(F(p, ev))
  <2>1. PICK s \in Sources : p \in {<<s, i>> : i \in DOMAIN ev[s]}
    BY DEF AllFindings
  <2>2. PICK i \in DOMAIN ev[s] : p = <<s, i>>
    BY <2>1
  <2>3. ev[s] \in Seq(FindingType)
    BY DEF EvidenceOK
  <2>4. ev[s][i] \in FindingType
    BY <2>3
  <2>5. Aging(ev)[s][i] = Older(ev[s][i])
    BY DEF Aging
  <2> QED BY <2>2, <2>4, <2>5 DEF F
<1>4. \A p \in AllFindings(ev) : F(p, Aging(ev)).signal = F(p, ev).signal
  BY <1>3, OlderIs
<1>5. \A sig : Group(sig, Aging(ev)) = Group(sig, ev)
  BY <1>2, <1>4 DEF Group, F
<1>6. \A sig : Factor(sig, Aging(ev)) = Factor(sig, ev)
  BY <1>5 DEF Factor
<1>7. Answered(Aging(ev)) = Answered(ev)
  <2>1. \A e : Answered(e) = {F(p, e).signal : p \in AllFindings(e)} \cap Scored
    BY DEF Answered, Findings, F
  <2>2. {F(p, Aging(ev)).signal : p \in AllFindings(ev)} = {F(p, ev).signal : p \in AllFindings(ev)}
    BY <1>4
  <2>3. Answered(Aging(ev)) = {F(p, Aging(ev)).signal : p \in AllFindings(ev)} \cap Scored
    BY <1>2, <2>1
  <2> QED BY <2>1, <2>2, <2>3
<1> QED BY <1>3, <1>5, <1>6, <1>7

\* One step of age takes at most seven tenths of a charge, and nothing of what is not dated.
LEMMA OlderCharge ==
    ASSUME NEW f \in FindingType, f.signal \in Scored, NEW refutes, RefutesOK(refutes)
    PROVE  LET now == Charge(f, refutes)
               later == Charge(Older(f), refutes)
           IN /\ later <= now /\ 3 * now <= 10 * later
              /\ f.signal \in Timeless \cup Undated \/ Base(f) = 0 => later = now
              /\ Base(f) = 0 => now = 0
<1> DEFINE g == Older(f)
<1>1. g \in FindingType /\ g.signal = f.signal /\ g.band = f.band
  BY OlderIs
<1>2. Base(g) = Base(f) /\ Base(f) \in Nat
  BY <1>1, ScoredSeverity DEF Base, Severity
<1>3. Dispute(g, refutes) = Dispute(f, refutes)
  BY <1>1, <1>2 DEF Dispute
<1>4. /\ AgeFactor(f) \in {20, 10, 3} /\ AgeFactor(g) \in {20, 10, 3}
      /\ AgeFactor(g) <= AgeFactor(f) /\ 3 * AgeFactor(f) <= 10 * AgeFactor(g)
      /\ f.signal \in Timeless \cup Undated => AgeFactor(g) = AgeFactor(f)
  <2>1. f.age \in 0 .. 2 /\ g.age \in 0 .. 2 /\ (g.age = f.age \/ g.age = f.age + 1)
    BY <1>1, OlderIs DEF FindingType, OldestAge, Decay
  <2> HIDE DEF g
  <2> QED BY <1>1, <2>1 DEF AgeFactor, Decay
<1> HIDE DEF g
<1>5. \/ Dispute(f, refutes) = "nullify" /\ Charge(f, refutes) = 0 /\ Charge(g, refutes) = 0
      \/ /\ Charge(f, refutes) = Base(f) * AgeFactor(f) * 3
         /\ Charge(g, refutes) = Base(f) * AgeFactor(g) * 3
      \/ /\ Charge(f, refutes) = Base(f) * AgeFactor(f) * 5
         /\ Charge(g, refutes) = Base(f) * AgeFactor(g) * 5
  <2>1. g.signal \in Scored
    BY <1>1
  <2>2. Dispute(f, refutes) \in {"nullify", "mitigate", "none"}
    BY DEF Dispute, RefutesOK
  <2> QED BY <1>2, <1>3, <2>2 DEF Charge
<1>6. /\ Charge(g, refutes) <= Charge(f, refutes) /\ 3 * Charge(f, refutes) <= 10 * Charge(g, refutes)
      /\ AgeFactor(g) = AgeFactor(f) \/ Base(f) = 0 => Charge(g, refutes) = Charge(f, refutes)
      /\ Base(f) = 0 => Charge(f, refutes) = 0
  BY <1>2, <1>4, <1>5
<1> QED BY <1>4, <1>6 DEF g

LEMMA AgedRow ==
    ASSUME NEW ev, EvidenceOK(ev), NEW refutes, RefutesOK(refutes), NEW sig \in Answered(ev)
    PROVE  LET now == Row(sig, ev, refutes)
               later == Row(sig, Aging(ev), refutes)
           IN /\ now.penalty \in Nat /\ later.penalty \in Nat
              /\ later.penalty <= now.penalty /\ 3 * now.penalty <= 10 * later.penalty
              /\ \A band : Base([signal |-> sig, band |-> band]) = 0 =>
                              (band \in later.bands <=> band \in now.bands)
              /\ (\A p \in Group(sig, ev) : sig \in Timeless \cup Undated \/ Base(F(p, ev)) = 0)
                    => later.penalty = now.penalty
<1> DEFINE now == Row(sig, ev, refutes)
           later == Row(sig, Aging(ev), refutes)
           group == Group(sig, ev)
           C(p) == Charge(F(p, ev), refutes)
           D(p) == Charge(F(p, Aging(ev)), refutes)
           k == Factor(sig, ev)
<1>1. EvidenceOK(Aging(ev)) /\ sig \in Answered(Aging(ev)) /\ Group(sig, Aging(ev)) = group /\ Factor(sig, Aging(ev)) = k
  BY AgingIsEvidence, AgingGroups
<1>2. PICK p \in group : /\ now.penalty = C(p) * k
                         /\ \A q \in group : C(q) <= C(p)
                         /\ \A band : band \in now.bands <=> \E q \in group : F(q, ev).band = band /\ C(q) = C(p)
  BY RowIs
<1>3. PICK r \in group : /\ later.penalty = D(r) * k
                         /\ \A q \in group : D(q) <= D(r)
                         /\ \A band : band \in later.bands <=>
                               \E q \in group : F(q, Aging(ev)).band = band /\ D(q) = D(r)
  <2>1. \E r \in Group(sig, Aging(ev)) :
           /\ later.penalty = D(r) * Factor(sig, Aging(ev))
           /\ \A q \in Group(sig, Aging(ev)) : D(q) <= D(r)
           /\ \A band : band \in later.bands <=>
                 \E q \in Group(sig, Aging(ev)) : F(q, Aging(ev)).band = band /\ D(q) = D(r)
    BY <1>1, RowIs
  <2> HIDE DEF group, k, later, D
  <2> QED BY <1>1, <2>1
<1>4. now.penalty \in Nat /\ later.penalty \in Nat
  BY <1>1, RowIs
<1>5. k \in 4 .. 8
  BY FactorIs
<1>6. ASSUME NEW q \in group
      PROVE  /\ C(q) \in Nat /\ D(q) \in Nat /\ D(q) <= C(q) /\ 3 * C(q) <= 10 * D(q)
             /\ F(q, ev).signal = sig /\ F(q, Aging(ev)).band = F(q, ev).band
             /\ sig \in Timeless \cup Undated \/ Base(F(q, ev)) = 0 => D(q) = C(q)
             /\ Base(F(q, ev)) = 0 => C(q) = 0
  <2>1. F(q, ev) \in FindingType /\ F(q, ev).signal = sig /\ sig \in Scored
    BY GroupIs
  <2>2. F(q, Aging(ev)) = Older(F(q, ev))
    BY AgingGroups DEF Group
  <2>3. Older(F(q, ev)) \in FindingType /\ Older(F(q, ev)).signal = sig /\ Older(F(q, ev)).band = F(q, ev).band
    BY <2>1, OlderIs
  <2>4. C(q) \in Nat /\ D(q) \in Nat
    BY <2>1, <2>2, <2>3, ChargeIsNat
  <2>5. /\ D(q) <= C(q) /\ 3 * C(q) <= 10 * D(q)
        /\ sig \in Timeless \cup Undated \/ Base(F(q, ev)) = 0 => D(q) = C(q)
        /\ Base(F(q, ev)) = 0 => C(q) = 0
    BY <2>1, <2>2, OlderCharge
  <2> QED BY <2>1, <2>2, <2>3, <2>4, <2>5
<1>7. ASSUME NEW q \in group, NEW band, F(q, ev).band = band, Base([signal |-> sig, band |-> band]) = 0
      PROVE  C(q) = 0 /\ D(q) = 0
  <2>1. Base(F(q, ev)) = 0
    BY <1>6, <1>7 DEF Base, Severity
  <2> QED BY <1>6, <2>1
<1> HIDE DEF C, D, group, k, now, later
<1>8. D(r) <= C(p) /\ 3 * C(p) <= 10 * D(r) /\ C(p) \in Nat /\ D(r) \in Nat
  <2>1. D(r) <= C(r) /\ C(r) <= C(p) /\ 3 * C(p) <= 10 * D(p) /\ D(p) <= D(r)
    BY <1>2, <1>3, <1>6
  <2>2. C(p) \in Nat /\ D(p) \in Nat /\ C(r) \in Nat /\ D(r) \in Nat
    BY <1>6
  <2> QED BY <2>1, <2>2
<1>9. later.penalty <= now.penalty /\ 3 * now.penalty <= 10 * later.penalty
  BY <1>2, <1>3, <1>5, <1>8
<1>10. ASSUME NEW band, Base([signal |-> sig, band |-> band]) = 0
       PROVE  band \in later.bands <=> band \in now.bands
  <2>1. ASSUME band \in now.bands PROVE band \in later.bands
    <3>1. PICK q \in group : F(q, ev).band = band /\ C(q) = C(p)
      BY <1>2, <2>1
    <3>2. D(q) = D(r)
      BY <1>7, <1>8, <1>10, <3>1
    <3> QED BY <1>3, <1>6, <3>1, <3>2
  <2>2. ASSUME band \in later.bands PROVE band \in now.bands
    <3>1. PICK q \in group : F(q, Aging(ev)).band = band /\ D(q) = D(r)
      BY <1>3, <2>2
    <3>2. F(q, ev).band = band
      BY <1>6, <3>1
    <3>3. C(q) = C(p)
      BY <1>7, <1>8, <1>10, <3>1, <3>2
    <3> QED BY <1>2, <3>2, <3>3
  <2> QED BY <2>1, <2>2
<1>11. ASSUME \A q \in group : sig \in Timeless \cup Undated \/ Base(F(q, ev)) = 0
       PROVE  later.penalty = now.penalty
  <2>1. D(r) = C(r) /\ D(p) = C(p) /\ C(r) <= C(p) /\ D(p) <= D(r)
    BY <1>2, <1>3, <1>6, <1>11
  <2>2. D(r) = C(p)
    BY <1>6, <1>8, <2>1
  <2> QED BY <1>2, <1>3, <2>2
<1> QED BY <1>4, <1>9, <1>10, <1>11 DEF now, later, group

\* A waiver in terms of the signals.
LEMMA WaivedIs ==
    ASSUME NEW ev, EvidenceOK(ev), NEW refutes, RefutesOK(refutes), NEW sig \in Answered(ev)
    PROVE  Waived(Row(sig, ev, refutes), Rows(ev, refutes)) <=>
              /\ Row(sig, ev, refutes).penalty > 0
              /\ \E other \in Answered(ev) :
                    /\ CategoryOf[other] = CategoryOf[sig]
                    /\ \/ <<other, sig>> \in Precedence /\ Row(other, ev, refutes).penalty > 0
                       \/ \E band \in Row(other, ev, refutes).bands : <<sig, other, band>> \in SatisfiedBy
<1> DEFINE R(x) == Row(x, ev, refutes)
<1>1. \A x \in Answered(ev) : R(x).signal = x
  BY DEF Row
<1>2. Rows(ev, refutes) = {R(x) : x \in Answered(ev)}
  BY DEF Rows
<1> HIDE DEF R
<1>3. Waived(R(sig), Rows(ev, refutes)) <=>
              /\ R(sig).penalty > 0
              /\ \E other \in Answered(ev) :
                    /\ CategoryOf[R(other).signal] = CategoryOf[R(sig).signal]
                    /\ \/ <<R(other).signal, R(sig).signal>> \in Precedence /\ R(other).penalty > 0
                       \/ \E band \in R(other).bands : <<R(sig).signal, R(other).signal, band>> \in SatisfiedBy
  BY <1>2 DEF Waived
<1> QED BY <1>1, <1>3 DEF R

\* Age neither lifts a waiver nor grants one: what charges goes on charging, down to the floor, and
\* what passes goes on passing.
LEMMA AgedWaiver ==
    ASSUME NEW ev, EvidenceOK(ev), NEW refutes, RefutesOK(refutes), NEW sig \in Answered(ev)
    PROVE  Waived(Row(sig, Aging(ev), refutes), Rows(Aging(ev), refutes))
              <=> Waived(Row(sig, ev, refutes), Rows(ev, refutes))
<1> DEFINE R(x) == Row(x, ev, refutes)
           Q(x) == Row(x, Aging(ev), refutes)
<1>1. EvidenceOK(Aging(ev)) /\ Answered(Aging(ev)) = Answered(ev)
  BY AgingIsEvidence, AgingGroups
<1>2. \A x \in Answered(ev) : Q(x).penalty > 0 <=> R(x).penalty > 0
  <2>1. ASSUME NEW x \in Answered(ev) PROVE Q(x).penalty > 0 <=> R(x).penalty > 0
    <3>1. /\ R(x).penalty \in Nat /\ Q(x).penalty \in Nat
          /\ Q(x).penalty <= R(x).penalty /\ 3 * R(x).penalty <= 10 * Q(x).penalty
      BY AgedRow
    <3> QED BY <3>1
  <2> QED BY <2>1
<1>3. ASSUME NEW x \in Answered(ev), NEW band, <<sig, x, band>> \in SatisfiedBy
      PROVE  band \in Q(x).bands <=> band \in R(x).bands
  <2>1. x \in Scored
    BY DEF Answered
  <2>2. Base([signal |-> x, band |-> band]) = 0
    <3> DEFINE rule == <<sig, x, band>>
    <3>1. rule \in SatisfiedBy /\ rule[2] = x /\ rule[3] = band
      BY <1>3
    <3> HIDE DEF rule
    <3> QED BY <2>1, <3>1, PassingAssumption
  <2> QED BY <2>2, AgedRow
<1>4. Waived(R(sig), Rows(ev, refutes)) <=>
              /\ R(sig).penalty > 0
              /\ \E other \in Answered(ev) :
                    /\ CategoryOf[other] = CategoryOf[sig]
                    /\ \/ <<other, sig>> \in Precedence /\ R(other).penalty > 0
                       \/ \E band \in R(other).bands : <<sig, other, band>> \in SatisfiedBy
  BY WaivedIs
<1>5. Waived(Q(sig), Rows(Aging(ev), refutes)) <=>
              /\ Q(sig).penalty > 0
              /\ \E other \in Answered(ev) :
                    /\ CategoryOf[other] = CategoryOf[sig]
                    /\ \/ <<other, sig>> \in Precedence /\ Q(other).penalty > 0
                       \/ \E band \in Q(other).bands : <<sig, other, band>> \in SatisfiedBy
  BY <1>1, WaivedIs
<1> HIDE DEF R, Q
<1> QED BY <1>2, <1>3, <1>4, <1>5 DEF R, Q

\* What age does to the damage.
LEMMA AgedDamage ==
    ASSUME NEW ev, EvidenceOK(ev), NEW refutes, RefutesOK(refutes)
    PROVE  LET now == Damage(Rows(ev, refutes))
               later == Damage(Rows(Aging(ev), refutes))
           IN /\ later <= now /\ 3 * now <= 10 * later
              /\ (\A f \in Findings(ev) : Base(f) > 0 => f.signal \in Timeless \cup Undated) => later = now
<1> DEFINE R(x) == Row(x, ev, refutes)
           Q(x) == Row(x, Aging(ev), refutes)
           now == Damage(Rows(ev, refutes))
           later == Damage(Rows(Aging(ev), refutes))
<1>1. EvidenceOK(Aging(ev)) /\ Answered(Aging(ev)) = Answered(ev)
  BY AgingIsEvidence, AgingGroups
<1>2. now \in Nat /\ later \in Nat
  BY <1>1, DamageIsNat
<1>3. ASSUME NEW x \in Answered(ev)
      PROVE  /\ 1 * Owed(Q(x), Rows(Aging(ev), refutes)) <= 1 * Owed(R(x), Rows(ev, refutes))
             /\ 3 * Owed(R(x), Rows(ev, refutes)) <= 10 * Owed(Q(x), Rows(Aging(ev), refutes))
  <2>1. /\ R(x).penalty \in Nat /\ Q(x).penalty \in Nat
        /\ Q(x).penalty <= R(x).penalty /\ 3 * R(x).penalty <= 10 * Q(x).penalty
    BY AgedRow
  <2>2. Waived(Q(x), Rows(Aging(ev), refutes)) <=> Waived(R(x), Rows(ev, refutes))
    BY AgedWaiver
  <2> HIDE DEF R, Q
  <2> QED BY <2>1, <2>2 DEF Owed
<1>4. 1 * later <= 1 * now
  <2>1. \A x \in Answered(ev) :
           1 * Owed(Q(x), Rows(Aging(ev), refutes)) <= 1 * Owed(R(x), Rows(ev, refutes))
    BY <1>3
  <2> QED BY <1>1, <2>1, DamageScales
<1>5. 3 * now <= 10 * later
  <2>1. \A x \in Answered(Aging(ev)) :
           3 * Owed(R(x), Rows(ev, refutes)) <= 10 * Owed(Q(x), Rows(Aging(ev), refutes))
    BY <1>1, <1>3
  <2> QED BY <1>1, <2>1, DamageScales
<1>6. ASSUME \A f \in Findings(ev) : Base(f) > 0 => f.signal \in Timeless \cup Undated
      PROVE  1 * now <= 1 * later
  <2>1. ASSUME NEW x \in Answered(ev)
        PROVE  1 * Owed(R(x), Rows(ev, refutes)) <= 1 * Owed(Q(x), Rows(Aging(ev), refutes))
    <3>1. ASSUME NEW p \in Group(x, ev) PROVE x \in Timeless \cup Undated \/ Base(F(p, ev)) = 0
      <4>1. F(p, ev).signal = x /\ x \in Scored
        BY GroupIs
      <4>2. Base(F(p, ev)) \in Nat
        BY <4>1, ScoredSeverity
      <4>3. F(p, ev) \in Findings(ev)
        BY DEF Group, F, Findings
      <4> QED BY <1>6, <4>1, <4>2, <4>3
    <3>2. Q(x).penalty = R(x).penalty /\ R(x).penalty \in Nat
      BY <3>1, AgedRow
    <3>3. Waived(Q(x), Rows(Aging(ev), refutes)) <=> Waived(R(x), Rows(ev, refutes))
      BY AgedWaiver
    <3> HIDE DEF R, Q
    <3> QED BY <3>2, <3>3 DEF Owed
  <2>2. \A x \in Answered(Aging(ev)) :
           1 * Owed(R(x), Rows(ev, refutes)) <= 1 * Owed(Q(x), Rows(Aging(ev), refutes))
    BY <1>1, <2>1
  <2> QED BY <1>1, <2>2, DamageScales
<1> HIDE DEF now, later
<1>7. later <= now
  BY <1>2, <1>4
<1>8. (\A f \in Findings(ev) : Base(f) > 0 => f.signal \in Timeless \cup Undated) => later = now
  BY <1>2, <1>6, <1>7
<1> QED BY <1>5, <1>7, <1>8 DEF now, later

\* Time softens what is dated and nothing else: the damage never grows, one step of age takes no
\* more of it than the steepest drop of Decay, and what is observed now keeps its full penalty.
THEOREM AgeingIsProved == Spec => AgeingSoftens
<1>1. ScoringInv /\ ScoringInv' =>
        [BothScored /\ Aged
          => /\ card'.damage <= card.damage
             /\ 10 * card'.damage >= 3 * card.damage
             /\ (\A f \in Findings(evidence) : Base(f) > 0 => f.signal \in Timeless \cup Undated)
                   => card'.damage = card.damage]_vars
  <2> SUFFICES ASSUME ScoringInv, ScoringInv', BothScored, Aged
               PROVE  /\ card'.damage <= card.damage
                      /\ 10 * card'.damage >= 3 * card.damage
                      /\ (\A f \in Findings(evidence) : Base(f) > 0 => f.signal \in Timeless \cup Undated)
                            => card'.damage = card.damage
    OBVIOUS
  <2>1. evidence' = Aging(evidence) /\ accepted' = accepted
    BY DEF Aged, Aging
  <2>2. EvidenceOK(evidence) /\ RefutesOK(accepted)
    BY DEF ScoringInv
  <2>3. card.damage = Damage(Rows(evidence, accepted)) /\ card.damage \in Nat
    BY <2>2, ScoreIs DEF ScoringInv, BothScored
  <2>4. card'.damage = Damage(Rows(evidence', accepted')) /\ card'.damage \in Nat
    <3>1. /\ EvidenceOK(evidence') /\ RefutesOK(accepted')
          /\ card' = Score(evidence', accepted', VendorOf(scorer', ambiguous')) /\ card'.status # "blocked"
      BY DEF ScoringInv, BothScored
    <3> QED BY <3>1, ScoreIs
  <2>5. card'.damage = Damage(Rows(Aging(evidence), accepted))
    BY <2>1, <2>4
  <2>6. /\ card'.damage <= card.damage /\ 3 * card.damage <= 10 * card'.damage
        /\ (\A f \in Findings(evidence) : Base(f) > 0 => f.signal \in Timeless \cup Undated)
              => card'.damage = card.damage
    BY <2>2, <2>3, <2>5, AgedDamage
  <2> QED BY <2>3, <2>4, <2>6
<1> QED BY <1>1, ScoringInvariant, PTL DEF AgeingSoftens

-------------------------------------------------------------------------------
(* A fix, a refute. *)

\* A milder finding of a signal charges no more, when no refute of the other was lost with its band.
LEMMA MilderCharge ==
    ASSUME NEW f \in FindingType, NEW g \in FindingType, f.signal = g.signal, g.signal \in Scored,
           NEW refutes, RefutesOK(refutes),
           \/ Base(f) = 0
           \/ /\ Base(f) <= Base(g) /\ f.age >= g.age
              /\ f.band = g.band \/ <<g.signal, g.band>> \notin DOMAIN refutes
    PROVE  Charge(f, refutes) <= Charge(g, refutes)
<1>1. Base(f) \in Nat /\ Base(g) \in Nat
  BY ScoredSeverity
<1>2. Charge(f, refutes) \in Nat /\ Charge(g, refutes) \in Nat
  BY ChargeIsNat
<1>3. AgeFactor(f) \in {20, 10, 3} /\ AgeFactor(g) \in {20, 10, 3}
  BY AgeFactors
<1>4. CASE Base(f) = 0
  <2>1. Charge(f, refutes) = 0
    BY <1>3, <1>4, ChargeIs
  <2> QED BY <1>2, <2>1
<1>5. CASE Base(f) # 0
  <2>1. Base(f) <= Base(g) /\ f.age >= g.age /\ Base(f) > 0 /\ Base(g) > 0
    BY <1>1, <1>5
  <2>2. AgeFactor(f) <= AgeFactor(g)
    <3>1. f.age \in 0 .. 2 /\ g.age \in 0 .. 2
      BY DEF FindingType, OldestAge, Decay
    <3> QED BY <2>1, <3>1 DEF AgeFactor, Decay
  <2>3. Base(f) * AgeFactor(f) <= Base(g) * AgeFactor(g)
    BY <1>1, <1>3, <2>1, <2>2
  <2> DEFINE x == Base(f) * AgeFactor(f)
             y == Base(g) * AgeFactor(g)
  <2>4. x \in Nat /\ y \in Nat /\ x <= y
    BY <1>1, <1>3, <2>3
  <2>5. \/ Dispute(f, refutes) = "nullify" /\ Charge(f, refutes) = 0
        \/ Dispute(f, refutes) = "mitigate" /\ Charge(f, refutes) = x * 3
        \/ Dispute(f, refutes) = "none" /\ Charge(f, refutes) = x * 5
    BY ChargeIs
  <2>6. \/ Dispute(g, refutes) = "nullify" /\ Charge(g, refutes) = 0
        \/ Dispute(g, refutes) = "mitigate" /\ Charge(g, refutes) = y * 3
        \/ Dispute(g, refutes) = "none" /\ Charge(g, refutes) = y * 5
    BY ChargeIs
  <2>7. Dispute(f, refutes) = Dispute(g, refutes) \/ Dispute(g, refutes) = "none"
    BY <1>5, <2>1 DEF Dispute
  <2> HIDE DEF x, y
  <2> QED BY <2>4, <2>5, <2>6, <2>7
<1> QED BY <1>4, <1>5

\* The refutes on record stay, and more may come.
Adds(more, refutes) == DOMAIN refutes \subseteq DOMAIN more /\ \A t \in DOMAIN refutes : more[t] = refutes[t]

LEMMA RefutedCharge ==
    ASSUME NEW f \in FindingType, f.signal \in Scored, NEW refutes, RefutesOK(refutes),
           NEW more, RefutesOK(more), Adds(more, refutes)
    PROVE  Charge(f, more) <= Charge(f, refutes)
<1> DEFINE x == Base(f) * AgeFactor(f)
<1>1. x \in Nat
  BY ScoredSeverity, AgeFactors
<1>2. Dispute(f, more) = Dispute(f, refutes) \/ Dispute(f, refutes) = "none"
  BY DEF Dispute, Adds
<1>3. \/ Dispute(f, refutes) = "nullify" /\ Charge(f, refutes) = 0
      \/ Dispute(f, refutes) = "mitigate" /\ Charge(f, refutes) = x * 3
      \/ Dispute(f, refutes) = "none" /\ Charge(f, refutes) = x * 5
  BY ChargeIs
<1>4. \/ Dispute(f, more) = "nullify" /\ Charge(f, more) = 0
      \/ Dispute(f, more) = "mitigate" /\ Charge(f, more) = x * 3
      \/ Dispute(f, more) = "none" /\ Charge(f, more) = x * 5
  BY ChargeIs
<1> HIDE DEF x
<1> QED BY <1>1, <1>2, <1>3, <1>4

\* A row whose findings are no more and each charges no more than some finding did.
LEMMA MilderRow ==
    ASSUME NEW evQ, NEW evR, EvidenceOK(evQ), EvidenceOK(evR),
           NEW refQ, NEW refR, RefutesOK(refQ), RefutesOK(refR),
           NEW sig \in Answered(evR), sig \in Answered(evQ),
           \A q \in Group(sig, evQ) : \E r \in Group(sig, evR) : Charge(F(q, evQ), refQ) <= Charge(F(r, evR), refR),
           Cardinality(Group(sig, evQ)) <= Cardinality(Group(sig, evR))
    PROVE  Row(sig, evQ, refQ).penalty <= Row(sig, evR, refR).penalty
<1> DEFINE Q(p) == Charge(F(p, evQ), refQ)
           R(p) == Charge(F(p, evR), refR)
<1>1. PICK q \in Group(sig, evQ) : Row(sig, evQ, refQ).penalty = Q(q) * Factor(sig, evQ)
  BY RowIs
<1>2. PICK r \in Group(sig, evR) : /\ Row(sig, evR, refR).penalty = R(r) * Factor(sig, evR)
                                   /\ \A p \in Group(sig, evR) : R(p) <= R(r)
  BY RowIs
<1>3. PICK p \in Group(sig, evR) : Q(q) <= R(p)
  OBVIOUS
<1>4. Q(q) \in Nat /\ R(p) \in Nat /\ R(r) \in Nat
  BY GroupIs, ChargeIsNat
<1>5. Factor(sig, evQ) \in 4 .. 8 /\ Factor(sig, evR) \in 4 .. 8
  BY FactorIs
<1>6. Factor(sig, evQ) <= Factor(sig, evR)
  <2>1. Cardinality(Group(sig, evQ)) \in Nat /\ Cardinality(Group(sig, evR)) \in Nat
    BY GroupIs, FS_CardinalityType
  <2>2. Cardinality(Group(sig, evQ)) # 0 /\ Cardinality(Group(sig, evR)) # 0
    BY GroupIs, FS_EmptySet
  <2> QED BY <2>1, <2>2 DEF Factor, Frequency
<1> HIDE DEF Q, R
<1>7. Q(q) <= R(r)
  BY <1>2, <1>3, <1>4
<1>8. Q(q) * Factor(sig, evQ) <= R(r) * Factor(sig, evR)
  <2>1. \A x, y \in Nat : \A m, n \in 4 .. 8 : x <= y /\ m <= n => x * m <= y * n
    OBVIOUS
  <2> QED BY <1>4, <1>5, <1>6, <1>7, <2>1
<1> QED BY <1>1, <1>2, <1>8

\* Unless a waiver of what still charges is lifted, milder rows are less damage.
LEMMA MilderDamage ==
    ASSUME NEW evQ, NEW evR, EvidenceOK(evQ), EvidenceOK(evR), Answered(evQ) = Answered(evR),
           NEW refQ, NEW refR, RefutesOK(refQ), RefutesOK(refR),
           \A sig \in Answered(evR) : Row(sig, evQ, refQ).penalty <= Row(sig, evR, refR).penalty,
           \A sig \in Answered(evR) :
              /\ Waived(Row(sig, evR, refR), Rows(evR, refR))
              /\ ~Waived(Row(sig, evQ, refQ), Rows(evQ, refQ))
              => ~(Row(sig, evQ, refQ).penalty > 0)
    PROVE  Damage(Rows(evQ, refQ)) <= Damage(Rows(evR, refR))
<1>1. ASSUME NEW sig \in Answered(evR)
      PROVE  1 * Owed(Row(sig, evQ, refQ), Rows(evQ, refQ)) <= 1 * Owed(Row(sig, evR, refR), Rows(evR, refR))
  <2> DEFINE q == Row(sig, evQ, refQ)
             r == Row(sig, evR, refR)
  <2>1. q.penalty \in Nat /\ r.penalty \in Nat /\ q.penalty <= r.penalty
    BY RowIs
  <2>2. Waived(r, Rows(evR, refR)) /\ ~Waived(q, Rows(evQ, refQ)) => ~(q.penalty > 0)
    OBVIOUS
  <2> HIDE DEF q, r
  <2>3. 1 * Owed(q, Rows(evQ, refQ)) <= 1 * Owed(r, Rows(evR, refR))
    BY <2>1, <2>2 DEF Owed
  <2> QED BY <2>3 DEF q, r
<1>2. 1 * Damage(Rows(evQ, refQ)) <= 1 * Damage(Rows(evR, refR))
  BY <1>1, DamageScales
<1>3. Damage(Rows(evQ, refQ)) \in Nat /\ Damage(Rows(evR, refR)) \in Nat
  BY DamageIsNat
<1> QED BY <1>2, <1>3

\* The findings of a signal that the collector s has, and those that another has.
Own(s, answer, sig) == {<<s, i>> : i \in {j \in DOMAIN answer : answer[j].signal = sig}}
Others(s, ev, sig) == {p \in Group(sig, ev) : p[1] # s}

LEMMA GroupSplits ==
    ASSUME NEW ev, EvidenceOK(ev), NEW s \in Sources, NEW sig \in Answered(ev)
    PROVE  /\ Group(sig, ev) = Others(s, ev, sig) \cup Own(s, ev[s], sig)
           /\ Cardinality(Group(sig, ev)) = Cardinality(Others(s, ev, sig)) + Times(ev[s], sig)
           /\ Cardinality(Others(s, ev, sig)) \in Nat
<1> DEFINE own == Own(s, ev[s], sig)
           others == Others(s, ev, sig)
           at == {j \in DOMAIN ev[s] : ev[s][j].signal = sig}
<1>1. Group(sig, ev) = others \cup own
  <2>1. ASSUME NEW p \in Group(sig, ev) PROVE p \in others \cup own
    <3>1. PICK x \in Sources : p \in {<<x, i>> : i \in DOMAIN ev[x]}
      BY DEF Group, AllFindings
    <3>2. PICK i \in DOMAIN ev[x] : p = <<x, i>>
      BY <3>1
    <3>3. ev[x][i].signal = sig
      BY <3>2 DEF Group
    <3>4. CASE x = s
      BY <3>2, <3>3, <3>4 DEF Own
    <3>5. CASE x # s
      BY <3>2, <3>5 DEF Others
    <3> QED BY <3>4, <3>5
  <2>2. ASSUME NEW i \in at PROVE <<s, i>> \in Group(sig, ev)
    <3>1. <<s, i>> \in AllFindings(ev)
      BY DEF AllFindings
    <3> QED BY <3>1 DEF Group
  <2>3. own \subseteq Group(sig, ev)
    BY <2>2 DEF Own
  <2>4. others \subseteq Group(sig, ev)
    BY DEF Others
  <2> QED BY <2>1, <2>3, <2>4
<1>2. IsFiniteSet(own) /\ IsFiniteSet(others)
  <2>1. IsFiniteSet(Group(sig, ev))
    BY GroupIs
  <2>2. own \in SUBSET Group(sig, ev) /\ others \in SUBSET Group(sig, ev)
    BY <1>1
  <2> QED BY <2>1, <2>2, FS_Subset
<1>3. others \cap own = {}
  BY DEF Others, Own
<1>4. Cardinality(own) = Times(ev[s], sig)
  <2> DEFINE f == [p \in own |-> p[2]]
  <2>1. f \in Bijection(own, at)
    <3>1. \A p \in own : \E i \in at : p = <<s, i>>
      BY DEF Own
    <3>2. f \in [own -> at] /\ \A p, q \in own : f[p] = f[q] => p = q
      BY <3>1
    <3>3. \A i \in at : \E p \in own : f[p] = i
      <4>1. ASSUME NEW i \in at PROVE <<s, i>> \in own /\ f[<<s, i>>] = i
        BY DEF Own
      <4> QED BY <4>1
    <3> HIDE DEF f, own, at
    <3> QED BY <3>2, <3>3 DEF Bijection, Injection, Surjection, IsInjective
  <2>2. ExistsBijection(own, at)
    BY <2>1 DEF ExistsBijection
  <2>3. Cardinality(at) = Cardinality(own)
    BY <1>2, <2>2, FS_Bijection
  <2> QED BY <2>3 DEF Times
<1>5. Cardinality(others) \in Nat /\ Cardinality(own) \in Nat
  BY <1>2, FS_CardinalityType
<1>6. Cardinality(others \cup own) = Cardinality(others) + Cardinality(own)
  <2> HIDE DEF others, own
  <2>1. Cardinality(others \cup own) = Cardinality(others) + Cardinality(own) - Cardinality(others \cap own)
    BY <1>2, FS_Union
  <2>2. Cardinality(others \cap own) = 0
    BY <1>3, FS_EmptySet
  <2> QED BY <1>5, <2>1, <2>2
<1> QED BY <1>1, <1>4, <1>5, <1>6

\* The collector s came back with this answer.
Answers(s, ev, answer) == [ev EXCEPT ![s] = answer]

LEMMA FixedRows ==
    ASSUME NEW ev, EvidenceOK(ev), NEW refutes, RefutesOK(refutes), NEW s \in Sources, NEW answer,
           EvidenceOK(Answers(s, ev, answer)),
           \A sig \in Scored : Times(answer, sig) <= Times(ev[s], sig),
           \A i \in DOMAIN answer : \E j \in DOMAIN ev[s] :
              /\ answer[i].signal = ev[s][j].signal
              /\ \/ Base(answer[i]) = 0
                 \/ /\ Base(answer[i]) <= Base(ev[s][j]) /\ answer[i].age >= ev[s][j].age
                    /\ \/ answer[i].band = ev[s][j].band
                       \/ <<ev[s][j].signal, ev[s][j].band>> \notin DOMAIN refutes,
           \A j \in DOMAIN ev[s] : \E i \in DOMAIN answer : answer[i].signal = ev[s][j].signal
    PROVE  /\ Answered(Answers(s, ev, answer)) = Answered(ev)
           /\ \A sig \in Answered(ev) :
                 Row(sig, Answers(s, ev, answer), refutes).penalty <= Row(sig, ev, refutes).penalty
<1> DEFINE new == Answers(s, ev, answer)
<1>1. new[s] = answer /\ DOMAIN new = Sources /\ \A x \in Sources : x # s => new[x] = ev[x]
  BY DEF Answers, EvidenceOK
<1> HIDE DEF new
<1>2. \A e, sig : sig \in Answered(e) <=>
         sig \in Scored /\ \E x \in Sources : \E i \in DOMAIN e[x] : e[x][i].signal = sig
  <2>1. \A e, p : p \in AllFindings(e) <=> \E x \in Sources : \E i \in DOMAIN e[x] : p = <<x, i>>
    BY DEF AllFindings
  <2>2. \A e, sig : sig \in Answered(e) <=>
           sig \in Scored /\ \E p \in AllFindings(e) : e[p[1]][p[2]].signal = sig
    BY DEF Answered, Findings
  <2>3. ASSUME NEW e, NEW sig
        PROVE  sig \in Answered(e) <=>
                  sig \in Scored /\ \E x \in Sources : \E i \in DOMAIN e[x] : e[x][i].signal = sig
    <3>1. ASSUME sig \in Answered(e)
          PROVE  sig \in Scored /\ \E x \in Sources : \E i \in DOMAIN e[x] : e[x][i].signal = sig
      <4>1. PICK p \in AllFindings(e) : e[p[1]][p[2]].signal = sig
        BY <2>2, <3>1
      <4>2. PICK x \in Sources : \E i \in DOMAIN e[x] : p = <<x, i>>
        BY <2>1
      <4>3. PICK i \in DOMAIN e[x] : p = <<x, i>>
        BY <4>2
      <4> QED BY <2>2, <3>1, <4>1, <4>3
    <3>2. ASSUME sig \in Scored, NEW x \in Sources, NEW i \in DOMAIN e[x], e[x][i].signal = sig
          PROVE  sig \in Answered(e)
      <4>1. <<x, i>> \in AllFindings(e)
        BY <2>1
      <4> QED BY <2>2, <3>2, <4>1
    <3> QED BY <3>1, <3>2
  <2> QED BY <2>3
<1>3. Answered(new) = Answered(ev)
  <2>1. ASSUME NEW sig \in Answered(new) PROVE sig \in Answered(ev)
    <3>1. PICK x \in Sources : \E i \in DOMAIN new[x] : new[x][i].signal = sig
      BY <1>2
    <3>2. PICK i \in DOMAIN new[x] : new[x][i].signal = sig
      BY <3>1
    <3>3. \E j \in DOMAIN ev[x] : ev[x][j].signal = sig
      <4>1. CASE x # s
        BY <1>1, <3>2, <4>1
      <4>2. CASE x = s
        <5>1. i \in DOMAIN answer /\ answer[i].signal = sig
          BY <1>1, <3>2, <4>2
        <5>2. PICK j \in DOMAIN ev[s] : answer[i].signal = ev[s][j].signal
          BY <5>1
        <5> QED BY <4>2, <5>1, <5>2
      <4> QED BY <4>1, <4>2
    <3> QED BY <1>2, <3>3
  <2>2. ASSUME NEW sig \in Answered(ev) PROVE sig \in Answered(new)
    <3>1. PICK x \in Sources : \E i \in DOMAIN ev[x] : ev[x][i].signal = sig
      BY <1>2
    <3>2. PICK i \in DOMAIN ev[x] : ev[x][i].signal = sig
      BY <3>1
    <3>3. \E j \in DOMAIN new[x] : new[x][j].signal = sig
      BY <1>1, <3>2
    <3> QED BY <1>2, <3>3
  <2> QED BY <2>1, <2>2
<1>4. ASSUME NEW sig \in Answered(ev) PROVE Row(sig, new, refutes).penalty <= Row(sig, ev, refutes).penalty
  <2>1. EvidenceOK(new) /\ sig \in Answered(new) /\ sig \in Scored
    BY <1>3 DEF new, Answered
  <2>2. Cardinality(Group(sig, new)) <= Cardinality(Group(sig, ev))
    <3>1. Others(s, new, sig) = Others(s, ev, sig)
      <4>1. \A p : p \in Others(s, new, sig) <=>
               \E x \in Sources : x # s /\ \E i \in DOMAIN new[x] : p = <<x, i>> /\ new[x][i].signal = sig
        BY DEF Others, Group, AllFindings
      <4>2. \A p : p \in Others(s, ev, sig) <=>
               \E x \in Sources : x # s /\ \E i \in DOMAIN ev[x] : p = <<x, i>> /\ ev[x][i].signal = sig
        BY DEF Others, Group, AllFindings
      <4>3. \A p : p \in Others(s, new, sig) <=> p \in Others(s, ev, sig)
        BY <1>1, <4>1, <4>2
      <4> QED BY <4>3 DEF Others
    <3>2. /\ Cardinality(Group(sig, ev)) = Cardinality(Others(s, ev, sig)) + Times(ev[s], sig)
          /\ Cardinality(Others(s, ev, sig)) \in Nat
      BY GroupSplits
    <3>3. Cardinality(Group(sig, new)) = Cardinality(Others(s, new, sig)) + Times(new[s], sig)
      BY <2>1, GroupSplits
    <3>4. Times(answer, sig) <= Times(ev[s], sig)
      BY <2>1
    <3>5. Times(answer, sig) \in Nat /\ Times(ev[s], sig) \in Nat
      <4>1. \A e, x : EvidenceOK(e) /\ x \in Sources => Times(e[x], sig) \in Nat
        <5>1. ASSUME NEW e, NEW x \in Sources, EvidenceOK(e) PROVE Times(e[x], sig) \in Nat
          <6>1. DOMAIN e[x] = 1 .. Len(e[x]) /\ Len(e[x]) \in Nat
            BY <5>1 DEF EvidenceOK
          <6>2. IsFiniteSet(DOMAIN e[x])
            BY <6>1, FS_Interval
          <6> QED BY <6>2, FS_Subset, FS_CardinalityType DEF Times
        <5> QED BY <5>1
      <4> QED BY <1>1, <2>1, <4>1
    <3> QED BY <1>1, <3>1, <3>2, <3>3, <3>4, <3>5
  <2>3. ASSUME NEW q \in Group(sig, new)
        PROVE  \E r \in Group(sig, ev) : Charge(F(q, new), refutes) <= Charge(F(r, ev), refutes)
    <3>1. PICK x \in Sources : q \in {<<x, i>> : i \in DOMAIN new[x]}
      BY DEF Group, AllFindings
    <3>2. PICK i \in DOMAIN new[x] : q = <<x, i>>
      BY <3>1
    <3>3. F(q, new) = new[x][i] /\ F(q, new) \in FindingType /\ F(q, new).signal = sig
      BY <2>1, <3>2, GroupIs DEF F
    <3>4. CASE x # s
      <4>1. new[x] = ev[x]
        BY <1>1, <3>4
      <4>2. q \in AllFindings(ev) /\ F(q, ev) = F(q, new)
        BY <3>2, <4>1 DEF AllFindings, F
      <4>3. q \in Group(sig, ev)
        BY <3>3, <4>2 DEF Group, F
      <4>4. Charge(F(q, ev), refutes) \in Nat
        BY <2>1, <3>3, <4>2, ChargeIsNat
      <4> QED BY <4>2, <4>3, <4>4
    <3>5. CASE x = s
      <4>1. new[x][i] = answer[i] /\ i \in DOMAIN answer
        BY <1>1, <3>5
      <4>2. PICK j \in DOMAIN ev[s] :
              /\ answer[i].signal = ev[s][j].signal
              /\ \/ Base(answer[i]) = 0
                 \/ /\ Base(answer[i]) <= Base(ev[s][j]) /\ answer[i].age >= ev[s][j].age
                    /\ \/ answer[i].band = ev[s][j].band
                       \/ <<ev[s][j].signal, ev[s][j].band>> \notin DOMAIN refutes
        BY <4>1
      <4> DEFINE r == <<s, j>>
      <4>3. F(r, ev) = ev[s][j] /\ r \in AllFindings(ev)
        BY DEF F, AllFindings
      <4>4. r \in Group(sig, ev)
        BY <3>3, <4>1, <4>2, <4>3 DEF Group, F
      <4>5. F(r, ev) \in FindingType /\ F(r, ev).signal = sig
        BY <4>4, GroupIs
      <4>6. Charge(answer[i], refutes) <= Charge(ev[s][j], refutes)
        BY <2>1, <3>3, <4>1, <4>2, <4>3, <4>5, MilderCharge
      <4> QED BY <3>3, <4>1, <4>3, <4>4, <4>6
    <3> QED BY <3>4, <3>5
  <2> QED BY <2>1, <2>2, <2>3, MilderRow
<1> QED BY <1>3, <1>4 DEF new

\* A refute makes no row dearer.
LEMMA RefutedRows ==
    ASSUME NEW ev, EvidenceOK(ev), NEW refutes, RefutesOK(refutes),
           NEW more, RefutesOK(more), Adds(more, refutes), NEW sig \in Answered(ev)
    PROVE  Row(sig, ev, more).penalty <= Row(sig, ev, refutes).penalty
<1>1. ASSUME NEW q \in Group(sig, ev) PROVE Charge(F(q, ev), more) <= Charge(F(q, ev), refutes)
  BY GroupIs, RefutedCharge
<1>2. Cardinality(Group(sig, ev)) \in Nat
  BY GroupIs, FS_CardinalityType
<1> QED BY <1>1, <1>2, MilderRow

\* A fix, an accepted refute or the passage of time never adds damage, although it re-ranks the
\* other penalties to a dearer rung of the ladder: unless it lifts a root-cause waiver.
THEOREM FixIsProved == Spec => FixIsRewarded
<1>1. ScoringInv /\ ScoringInv' /\ [Next]_vars =>
        [card'.damage > card.damage /\ BothScored
          => ~(evidence' = evidence \/ Aged \/ \E s \in Sources : Fixed(s)) \/ WaiverLifted]_vars
  <2> SUFFICES ASSUME ScoringInv, ScoringInv', [Next]_vars, card'.damage > card.damage, BothScored,
                      evidence' = evidence \/ Aged \/ \E s \in Sources : Fixed(s), ~WaiverLifted
               PROVE  FALSE
    OBVIOUS
  <2> DEFINE rowsR == Rows(evidence, accepted)
             rowsQ == Rows(evidence', accepted')
  <2>1. /\ EvidenceOK(evidence) /\ RefutesOK(accepted)
        /\ EvidenceOK(evidence') /\ RefutesOK(accepted')
    BY DEF ScoringInv
  <2>2. /\ card.damage = Damage(rowsR) /\ card.damage \in Nat
        /\ card.waived = {row.signal : row \in {r \in rowsR : Waived(r, rowsR)}}
    BY <2>1, ScoreIs DEF ScoringInv, BothScored
  <2>3. /\ card'.damage = Damage(rowsQ) /\ card'.damage \in Nat
        /\ card'.waived = {row.signal : row \in {r \in rowsQ : Waived(r, rowsQ)}}
    <3>1. card' = Score(evidence', accepted', VendorOf(scorer', ambiguous')) /\ card'.status # "blocked"
      BY DEF ScoringInv, BothScored
    <3> QED BY <2>1, <3>1, ScoreIs
  <2>4. /\ Answered(evidence') = Answered(evidence)
        /\ \A sig \in Answered(evidence) :
              Row(sig, evidence', accepted').penalty <= Row(sig, evidence, accepted).penalty
    <3>1. CASE evidence' = evidence
      <4>1. Adds(accepted', accepted)
        <5>1. accepted' = accepted => Adds(accepted', accepted)
          BY DEF Adds
        <5>2. ASSUME NEW f \in Disputable, NEW kind \in {"nullify", "mitigate"}, Refute(f, kind)
              PROVE  Adds(accepted', accepted)
          <6>1. <<f.signal, f.band>> \notin DOMAIN accepted
            BY DEF Disputable
          <6>2. accepted' = [t \in DOMAIN accepted \cup {<<f.signal, f.band>>} |->
                                IF t = <<f.signal, f.band>> THEN kind ELSE accepted[t]]
            BY <5>2 DEF Refute
          <6> QED BY <6>1, <6>2 DEF Adds
        <5>3. \/ accepted' = accepted
              \/ \E f \in Disputable, kind \in {"nullify", "mitigate"} : Refute(f, kind)
          BY DEF Next, Collect, Age, Resolve, Rescore, vars
        <5> QED BY <5>1, <5>2, <5>3
      <4> QED BY <2>1, <3>1, <4>1, RefutedRows
    <3>2. CASE Aged
      <4>1. evidence' = Aging(evidence) /\ accepted' = accepted
        BY <3>2 DEF Aged, Aging
      <4>2. Answered(evidence') = Answered(evidence)
        BY <2>1, <4>1, AgingGroups
      <4>3. \A sig \in Answered(evidence) :
               Row(sig, Aging(evidence), accepted).penalty <= Row(sig, evidence, accepted).penalty
        BY <2>1, AgedRow
      <4> QED BY <4>1, <4>2, <4>3
    <3>3. ASSUME NEW s \in Sources, Fixed(s)
          PROVE  /\ Answered(evidence') = Answered(evidence)
                 /\ \A sig \in Answered(evidence) :
                       Row(sig, evidence', accepted').penalty <= Row(sig, evidence, accepted).penalty
      <4>1. evidence' = Answers(s, evidence, evidence'[s]) /\ accepted' = accepted
        BY <3>3 DEF Fixed, Answers
      <4>2. /\ \A sig \in Scored : Times(evidence'[s], sig) <= Times(evidence[s], sig)
            /\ \A i \in DOMAIN evidence'[s] : \E j \in DOMAIN evidence[s] : NoWorse(evidence'[s][i], evidence[s][j])
            /\ \A j \in DOMAIN evidence[s] : \E i \in DOMAIN evidence'[s] : evidence'[s][i].signal = evidence[s][j].signal
        BY <3>3 DEF Fixed
      <4> DEFINE answer == evidence'[s]
      <4>3. EvidenceOK(Answers(s, evidence, answer))
        BY <2>1, <4>1
      <4>4. \A i \in DOMAIN answer : \E j \in DOMAIN evidence[s] :
              /\ answer[i].signal = evidence[s][j].signal
              /\ \/ Base(answer[i]) = 0
                 \/ /\ Base(answer[i]) <= Base(evidence[s][j]) /\ answer[i].age >= evidence[s][j].age
                    /\ \/ answer[i].band = evidence[s][j].band
                       \/ <<evidence[s][j].signal, evidence[s][j].band>> \notin DOMAIN accepted
        BY <4>2 DEF NoWorse
      <4>5. evidence' = Answers(s, evidence, answer)
        BY <4>1
      <4>6. /\ \A sig \in Scored : Times(answer, sig) <= Times(evidence[s], sig)
            /\ \A j \in DOMAIN evidence[s] : \E i \in DOMAIN answer : answer[i].signal = evidence[s][j].signal
        BY <4>2
      <4> HIDE DEF answer
      <4>7. /\ Answered(Answers(s, evidence, answer)) = Answered(evidence)
            /\ \A sig \in Answered(evidence) :
                 Row(sig, Answers(s, evidence, answer), accepted).penalty <= Row(sig, evidence, accepted).penalty
        BY <2>1, <4>3, <4>4, <4>6, FixedRows
      <4> QED BY <4>1, <4>5, <4>7
    <3> QED BY <3>1, <3>2, <3>3
  <2>5. ASSUME NEW sig \in Answered(evidence),
               Waived(Row(sig, evidence, accepted), rowsR), ~Waived(Row(sig, evidence', accepted'), rowsQ)
        PROVE  ~(Row(sig, evidence', accepted').penalty > 0)
    <3> DEFINE q == Row(sig, evidence', accepted')
               r == Row(sig, evidence, accepted)
    <3>1. r \in rowsR /\ r.signal = sig
      BY DEF Rows, Row
    <3>2. q \in rowsQ /\ q.signal = sig
      BY <2>4 DEF Rows, Row
    <3>3. ASSUME NEW row \in rowsQ, row.signal = sig PROVE row = q
      <4>1. PICK x \in Answered(evidence') : row = Row(x, evidence', accepted')
        BY DEF Rows
      <4>2. row.signal = x
        BY <4>1 DEF Row
      <4> QED BY <3>3, <4>1, <4>2
    <3> HIDE DEF q, r, rowsQ, rowsR
    <3>4. sig \in card.waived
      BY <2>2, <2>5, <3>1 DEF r
    <3>5. sig \notin card'.waived
      BY <2>3, <2>5, <3>2, <3>3 DEF q
    <3>6. ASSUME q.penalty > 0 PROVE WaiverLifted
      <4>1. Rows(evidence, accepted)' = rowsQ
        BY DEF rowsQ
      <4> QED BY <3>2, <3>4, <3>5, <3>6, <4>1 DEF WaiverLifted
    <3> QED BY <3>6 DEF q
  <2>6. Damage(rowsQ) <= Damage(rowsR)
    BY <2>1, <2>4, <2>5, MilderDamage
  <2> HIDE DEF rowsQ, rowsR
  <2> QED BY <2>2, <2>3, <2>6
<1> QED BY <1>1, ScoringInvariant, PTL DEF Spec, FixIsRewarded
===============================================================================
