---------------------------- MODULE RecursionLemmas ----------------------------
(***************************************************************************)
(* What the community operators that are defined by recursion or by choice *)
(* compute: Max of a bounded set, FlattenSeq of a sequence of sequences,   *)
(* SumFunction of a function on 1..n; and the elements Picked from a       *)
(* sequence. Induction is by least counterexample, from the                *)
(* well-foundedness of the naturals.                                       *)
(***************************************************************************)
EXTENDS Integers, Sublists, SequencesExt, SequenceTheorems, FiniteSetTheorems, WellFoundedInduction, TLAPS

(* The order of the naturals as a set of pairs is well-founded.           *)
LEMMA LessRelation ==
  \E R : IsWellFoundedOn(R, Nat) /\ \A x, y \in Nat : <<x, y>> \in R <=> x < y
<1> DEFINE R == OpToRel(<, Nat)
<1>1. IsWellFoundedOn(R, Nat)
  BY NatLessThanWellFounded
<1>2. \A x, y \in Nat : <<x, y>> \in R <=> x < y
  BY Zenon DEF OpToRel
<1> QED BY <1>1, <1>2, Zenon

(* A non-empty set of naturals has a least element.                       *)
LEMMA NatMin ==
  ASSUME NEW T, T \subseteq Nat, T # {}
  PROVE  \E m \in T : \A k \in T : m <= k
<1>1. PICK R : IsWellFoundedOn(R, Nat) /\ \A x, y \in Nat : <<x, y>> \in R <=> x < y
  BY LessRelation
<1>2. \E m \in T : \A k \in T : ~(<<k, m>> \in R)
  <2>1. IsWellFoundedOn(R, Nat) /\ T \subseteq Nat /\ T # {}
    BY <1>1
  <2> QED BY <2>1, WFMin, ZenonT(60)
<1>3. PICK m \in T : \A k \in T : ~(<<k, m>> \in R)
  BY <1>2
<1>4. ASSUME NEW k \in T PROVE m <= k
  <2>1. ~(k < m)
    BY <1>1, <1>3
  <2> QED BY <2>1
<1> QED BY <1>3, <1>4

(* Max(S) is the greatest element of a non-empty bounded set of naturals. *)
LEMMA MaxExists ==
  ASSUME NEW S, NEW N \in Nat, S \subseteq 0..N, S # {}
  PROVE  Max(S) \in S /\ \A y \in S : Max(S) >= y
<1> DEFINE T == {k \in Nat : \A y \in S : y <= k}
<1>0. N \in T /\ T \subseteq Nat
  OBVIOUS
<1>1. PICK m \in T : \A k \in T : m <= k
  BY <1>0, NatMin
<1>2. m \in S
  <2> SUFFICES ASSUME m \notin S PROVE FALSE
    OBVIOUS
  <2>1. \A y \in S : y \in Nat /\ y < m
    BY <1>1
  <2>2. PICK z \in S : TRUE
    OBVIOUS
  <2>3. m \in Nat /\ z \in Nat /\ z < m
    BY <2>1
  <2>4. m - 1 \in Nat /\ \A y \in S : y <= m - 1
    BY <2>1, <2>3
  <2> QED BY <1>1, <2>3, <2>4
<1> QED BY <1>1, <1>2 DEF Max
-----------------------------------------------------------------------------
(* The recursion that FlattenSeq is made of has a solution.               *)
LEMMA FlattenExists ==
  ASSUME NEW seqs, NEW n \in Nat \ {0}
  PROVE  \E f : f = [i \in 1..n |-> IF i = 1 THEN seqs[i] ELSE f[i - 1] \o seqs[i]]
<1> DEFINE Step(f, m) == f = [i \in 1..m |-> IF i = 1 THEN seqs[i] ELSE f[i - 1] \o seqs[i]]
           Solvable(m) == \E f : Step(f, m)
           Bad == {m \in 1..n : ~Solvable(m)}
<1> HIDE DEF Step, Solvable
<1>0. Bad = {}
  <2> SUFFICES ASSUME Bad # {} PROVE FALSE
    OBVIOUS
  <2>1. Bad \subseteq Nat
    OBVIOUS
  <2>2. PICK m \in Bad : \A k \in Bad : m <= k
    BY <2>1, NatMin
  <2>3. m \in Nat \ {0} /\ m <= n
    BY <2>2
  <2>4. CASE m = 1
    <3> DEFINE f == [i \in 1..1 |-> seqs[i]]
    <3>1. \A i \in 1..1 : i = 1
      OBVIOUS
    <3>2. Step(f, 1)
      BY <3>1 DEF Step
    <3>3. Solvable(1)
      BY <3>2 DEF Solvable
    <3> QED BY <2>2, <2>4, <3>3
  <2>5. CASE m # 1
    <3>1. m - 1 \in 1..n /\ m - 1 < m
      BY <2>3, <2>5
    <3>2. Solvable(m - 1)
      <4>1. ~(m <= m - 1)
        BY <2>3
      <4> QED BY <2>2, <3>1, <4>1
    <3>3. PICK g : Step(g, m - 1)
      BY <3>2 DEF Solvable
    <3> DEFINE f == [i \in 1..m |-> IF i = m THEN g[m - 1] \o seqs[m] ELSE g[i]]
    <3>a. \A i \in 1..m : f[i] = IF i = m THEN g[m - 1] \o seqs[m] ELSE g[i]
      OBVIOUS
    <3>b. f = [i \in 1..m |-> f[i]]
      OBVIOUS
    <3> HIDE DEF f
    <3>4. \A i \in 1..m : f[i] = IF i = 1 THEN seqs[i] ELSE f[i - 1] \o seqs[i]
      <4> SUFFICES ASSUME NEW i \in 1..m
                   PROVE  f[i] = IF i = 1 THEN seqs[i] ELSE f[i - 1] \o seqs[i]
        OBVIOUS
      <4>1. CASE i = m
        <5>1. f[i] = g[m - 1] \o seqs[m] /\ f[m - 1] = g[m - 1] /\ i # 1
          <6>1. m - 1 \in 1..m /\ m - 1 # m /\ m # 1
            BY <2>3, <2>5
          <6> QED BY <3>1, <3>a, <3>3, <4>1, <6>1
        <5> QED BY <4>1, <5>1
      <4>2. CASE i # m
        <5>1. i \in 1..(m - 1) /\ f[i] = g[i]
          BY <2>3, <3>a, <4>2
        <5>2. g[i] = IF i = 1 THEN seqs[i] ELSE g[i - 1] \o seqs[i]
          BY <3>3, <5>1 DEF Step
        <5>3. i # 1 => i - 1 \in 1..m /\ i - 1 # m /\ f[i - 1] = g[i - 1]
          BY <2>3, <3>a, <5>1
        <5> QED BY <5>1, <5>2, <5>3
      <4> QED BY <4>1, <4>2
    <3>5. Solvable(m)
      <4>1. f = [i \in 1..m |-> IF i = 1 THEN seqs[i] ELSE f[i - 1] \o seqs[i]]
        BY <3>4, <3>b
      <4> QED BY <4>1 DEF Solvable, Step
    <3> QED BY <2>2, <3>5
  <2> QED BY <2>4, <2>5
<1> QED
  <2>1. n \in 1..n
    OBVIOUS
  <2>2. Solvable(n)
    BY <1>0, <2>1
  <2> QED BY <2>2 DEF Solvable, Step

(* A position of a concatenation comes from one of the two sequences.     *)
Joins(h, f, s) ==
  /\ Len(h) = Len(f) + Len(s)
  /\ \A i \in 1..Len(h) : \/ i \in 1..Len(f) /\ h[i] = f[i]
                          \/ \E j \in 1..Len(s) : i = Len(f) + j /\ h[i] = s[j]

LEMMA ConcatPieces ==
  ASSUME NEW S, NEW f \in Seq(S), NEW s \in Seq(S)
  PROVE  f \o s \in Seq(S) /\ Joins(f \o s, f, s)
<1>1. /\ f \o s \in Seq(S) /\ Len(f \o s) = Len(f) + Len(s)
      /\ \A i \in 1..Len(f) + Len(s) :
           (f \o s)[i] = IF i <= Len(f) THEN f[i] ELSE s[i - Len(f)]
  BY ConcatProperties
<1>2. ASSUME NEW i \in 1..Len(f) + Len(s), ~(i <= Len(f))
      PROVE  i - Len(f) \in 1..Len(s) /\ i = Len(f) + (i - Len(f))
  BY <1>2
<1>3. ASSUME NEW i \in 1..Len(f) + Len(s), i <= Len(f)
      PROVE  i \in 1..Len(f)
  BY <1>3
<1> QED BY <1>1, <1>2, <1>3 DEF Joins

(* FlattenSeq lays its sequences end to end: ends[k] is where the k-th    *)
(* ends, and every position of the result comes from one of them.         *)
EndsOf(seqs, ends) ==
  /\ ends[0] = 0
  /\ \A k \in 0..Len(seqs) : ends[k] \in Int
  /\ \A k \in 1..Len(seqs) : ends[k] = ends[k - 1] + Len(seqs[k])

LaidOut(whole, seqs, ends) ==
  /\ Len(whole) = ends[Len(seqs)]
  /\ \A i \in 1..ends[Len(seqs)] :
       \E k \in 1..Len(seqs) : \E j \in 1..Len(seqs[k]) :
         i = ends[k - 1] + j /\ whole[i] = seqs[k][j]

LEMMA FlattenLayout ==
  ASSUME NEW S, NEW seqs \in Seq(Seq(S)), Len(seqs) > 0, NEW ends, EndsOf(seqs, ends)
  PROVE  FlattenSeq(seqs) \in Seq(S) /\ LaidOut(FlattenSeq(seqs), seqs, ends)
<1> DEFINE n == Len(seqs)
           F == CHOOSE f : f = [i \in 1..n |-> IF i = 1 THEN seqs[i] ELSE f[i - 1] \o seqs[i]]
<1>0. n \in Nat \ {0}
  OBVIOUS
<1>1. F = [i \in 1..n |-> IF i = 1 THEN seqs[i] ELSE F[i - 1] \o seqs[i]]
  BY <1>0, FlattenExists
<1>2. FlattenSeq(seqs) = F[n]
  BY <1>0 DEF FlattenSeq
<1>3. \A k \in 1..n : seqs[k] \in Seq(S) /\ Len(seqs[k]) \in Nat
  OBVIOUS
<1> HIDE DEF n, F
<1> DEFINE Placed(m) ==
             /\ F[m] \in Seq(S) /\ Len(F[m]) = ends[m]
             /\ \A i \in 1..ends[m] :
                  \E k \in 1..m : \E j \in 1..Len(seqs[k]) :
                    i = ends[k - 1] + j /\ F[m][i] = seqs[k][j]
           Bad == {m \in 1..n : ~Placed(m)}
<1> HIDE DEF Placed
<1>4. Bad = {}
  <2> SUFFICES ASSUME Bad # {} PROVE FALSE
    OBVIOUS
  <2>0. Bad \subseteq Nat
    BY <1>0
  <2>1. PICK m \in Bad : \A k \in Bad : m <= k
    BY <2>0, NatMin
  <2>2. m \in 1..n /\ m \in Nat /\ ~Placed(m)
    BY <1>0, <2>1
  <2>a. /\ ends[0] = 0 /\ \A k \in 0..n : ends[k] \in Int
        /\ \A k \in 1..n : ends[k] = ends[k - 1] + Len(seqs[k])
    BY DEF n, EndsOf
  <2>3. CASE m = 1
    <3>1. F[1] = seqs[1] /\ 1 \in 1..n
      BY <1>0, <1>1
    <3>2. ends[1] = Len(seqs[1])
      <4>1. ends[1] = ends[1 - 1] + Len(seqs[1])
        BY <2>a, <3>1
      <4> QED BY <1>3, <2>a, <3>1, <4>1
    <3>3. \A i \in 1..ends[1] :
            \E k \in 1..1 : \E j \in 1..Len(seqs[k]) :
              i = ends[k - 1] + j /\ F[1][i] = seqs[k][j]
      <4> SUFFICES ASSUME NEW i \in 1..ends[1]
                   PROVE  \E k \in 1..1 : \E j \in 1..Len(seqs[k]) :
                            i = ends[k - 1] + j /\ F[1][i] = seqs[k][j]
        OBVIOUS
      <4>1. i \in 1..Len(seqs[1]) /\ i = ends[1 - 1] + i /\ F[1][i] = seqs[1][i]
        BY <1>3, <2>a, <3>1, <3>2
      <4>2. 1 \in 1..1
        OBVIOUS
      <4> QED BY <4>1, <4>2
    <3>4. Placed(1)
      BY <1>3, <3>1, <3>2, <3>3 DEF Placed
    <3> QED BY <2>2, <2>3, <3>4
  <2>4. CASE m # 1
    <3>1. m - 1 \in 1..n /\ m - 1 < m /\ m - 1 \in 0..n
      BY <1>0, <2>2, <2>4
    <3>2. Placed(m - 1)
      <4>1. ~(m <= m - 1)
        BY <2>2
      <4> QED BY <2>1, <3>1, <4>1
    <3>a. /\ F[m - 1] \in Seq(S) /\ Len(F[m - 1]) = ends[m - 1]
          /\ \A i \in 1..ends[m - 1] :
               \E k \in 1..(m - 1) : \E j \in 1..Len(seqs[k]) :
                 i = ends[k - 1] + j /\ F[m - 1][i] = seqs[k][j]
      BY <3>2 DEF Placed
    <3>3. F[m] = F[m - 1] \o seqs[m]
      BY <1>1, <2>2, <2>4
    <3>4. F[m - 1] \in Seq(S) /\ seqs[m] \in Seq(S)
      BY <1>3, <2>2, <3>a
    <3>b. F[m] \in Seq(S) /\ Joins(F[m], F[m - 1], seqs[m])
      BY <3>3, <3>4, ConcatPieces
    <3>5. /\ Len(F[m]) = Len(F[m - 1]) + Len(seqs[m])
          /\ \A i \in 1..Len(F[m]) :
               \/ i \in 1..Len(F[m - 1]) /\ F[m][i] = F[m - 1][i]
               \/ \E j \in 1..Len(seqs[m]) : i = Len(F[m - 1]) + j /\ F[m][i] = seqs[m][j]
      BY <3>b DEF Joins
    <3>6. ends[m - 1] = Len(F[m - 1]) /\ ends[m] = Len(F[m])
      BY <2>2, <2>a, <3>a, <3>5
    <3>7. ASSUME NEW i \in 1..ends[m]
          PROVE  \E k \in 1..m : \E j \in 1..Len(seqs[k]) :
                   i = ends[k - 1] + j /\ F[m][i] = seqs[k][j]
      <4>1. CASE i \in 1..Len(F[m - 1]) /\ F[m][i] = F[m - 1][i]
        <5>1. i \in 1..ends[m - 1]
          BY <3>6, <4>1
        <5>2. PICK k \in 1..(m - 1) : \E j \in 1..Len(seqs[k]) :
                i = ends[k - 1] + j /\ F[m - 1][i] = seqs[k][j]
          BY <3>a, <5>1
        <5>3. k \in 1..m
          BY <2>2
        <5> QED BY <4>1, <5>2, <5>3
      <4>2. CASE \E j \in 1..Len(seqs[m]) : i = Len(F[m - 1]) + j /\ F[m][i] = seqs[m][j]
        <5>1. m \in 1..m
          BY <2>2
        <5> QED BY <3>6, <4>2, <5>1
      <4>3. i \in 1..Len(F[m])
        BY <3>6
      <4> QED BY <3>5, <4>1, <4>2, <4>3
    <3>8. Placed(m)
      BY <3>6, <3>7, <3>b DEF Placed
    <3> QED BY <2>2, <3>8
  <2> QED BY <2>3, <2>4
<1>5. Placed(n)
  <2>1. n \in 1..n
    BY <1>0 DEF n
  <2> QED BY <1>4, <2>1
<1>6. /\ FlattenSeq(seqs) \in Seq(S) /\ Len(FlattenSeq(seqs)) = ends[n]
      /\ \A i \in 1..ends[n] :
           \E k \in 1..n : \E j \in 1..Len(seqs[k]) :
             i = ends[k - 1] + j /\ FlattenSeq(seqs)[i] = seqs[k][j]
  BY <1>2, <1>5 DEF Placed
<1> QED BY <1>6 DEF n, LaidOut
-----------------------------------------------------------------------------
(* SumFunction folds a finite set of indices in an unspecified order.     *)
Pick(s) == CHOOSE x \in s : TRUE

Iterates(I, D, f) ==
  I = [s \in D |-> IF s = {} THEN 0 ELSE f[Pick(s)] + I[s \ {Pick(s)}]]

Sized(S, m) == {s \in SUBSET S : Cardinality(s) <= m}

(* A subset of a finite set is finite, and one smaller without an element *)
(* of it.                                                                 *)
LEMMA SizedSubsets ==
  ASSUME NEW S, IsFiniteSet(S), NEW s \in SUBSET S
  PROVE  /\ IsFiniteSet(s) /\ Cardinality(s) \in Nat /\ (Cardinality(s) = 0 <=> s = {})
         /\ \A x \in s : Cardinality(s \ {x}) = Cardinality(s) - 1
         /\ s # {} => Pick(s) \in s
<1>1. IsFiniteSet(s)
  BY FS_Subset
<1>2. Cardinality(s) \in Nat /\ (Cardinality(s) = 0 <=> s = {})
  BY <1>1, FS_CardinalityType, FS_EmptySet
<1>3. \A x \in s : Cardinality(s \ {x}) = Cardinality(s) - 1
  BY <1>1, FS_RemoveElement
<1>4. s # {} => Pick(s) \in s
  BY DEF Pick
<1> QED BY <1>1, <1>2, <1>3, <1>4

(* The recursion that the fold over a set is made of has a solution on    *)
(* the subsets of a finite set: else take the least size without one.     *)
LEMMA IterateExists ==
  ASSUME NEW S, IsFiniteSet(S), NEW f
  PROVE  \E I : Iterates(I, SUBSET S, f)
<1> DEFINE Solvable(m) == \E I : Iterates(I, Sized(S, m), f)
           Bad == {m \in Nat : ~Solvable(m)}
<1> HIDE DEF Solvable
<1>1. Bad = {}
  <2> SUFFICES ASSUME Bad # {} PROVE FALSE
    OBVIOUS
  <2>1. PICK m \in Bad : \A k \in Bad : m <= k
    <3>1. Bad \subseteq Nat
      OBVIOUS
    <3> QED BY <3>1, NatMin
  <2>2. m \in Nat /\ ~Solvable(m)
    BY <2>1
  <2>3. CASE m = 0
    <3>1. \A s \in Sized(S, 0) : s = {}
      <4> SUFFICES ASSUME NEW s \in Sized(S, 0) PROVE s = {}
        OBVIOUS
      <4>1. s \in SUBSET S /\ Cardinality(s) <= 0
        BY DEF Sized
      <4> QED BY <4>1, SizedSubsets
    <3> DEFINE I == [s \in Sized(S, 0) |-> 0]
    <3>2. Iterates(I, Sized(S, 0), f)
      BY <3>1 DEF Iterates
    <3> QED BY <2>2, <2>3, <3>2 DEF Solvable
  <2>4. CASE m # 0
    <3>1. m - 1 \in Nat /\ ~(m <= m - 1)
      BY <2>2, <2>4
    <3>2. Solvable(m - 1)
      BY <2>1, <3>1
    <3>3. PICK J : Iterates(J, Sized(S, m - 1), f)
      BY <3>2 DEF Solvable
    <3> DEFINE I == [s \in Sized(S, m) |-> IF s \in Sized(S, m - 1) THEN J[s]
                                          ELSE f[Pick(s)] + J[s \ {Pick(s)}]]
    <3>4. \A s \in Sized(S, m) : I[s] = IF s \in Sized(S, m - 1) THEN J[s]
                                        ELSE f[Pick(s)] + J[s \ {Pick(s)}]
      OBVIOUS
    <3>5. I = [s \in Sized(S, m) |-> I[s]]
      OBVIOUS
    <3> HIDE DEF I
    <3>6. ASSUME NEW s \in Sized(S, m)
          PROVE  I[s] = IF s = {} THEN 0 ELSE f[Pick(s)] + I[s \ {Pick(s)}]
      <4>1. s \in SUBSET S /\ Cardinality(s) <= m
        BY DEF Sized
      <4>2. /\ Cardinality(s) \in Nat /\ (Cardinality(s) = 0 <=> s = {})
            /\ s # {} => Pick(s) \in s /\ Cardinality(s \ {Pick(s)}) = Cardinality(s) - 1
        BY <4>1, SizedSubsets
      <4>3. CASE s = {}
        <5>1. s \in Sized(S, m - 1)
          <6>1. Cardinality(s) <= m - 1
            BY <3>1, <4>2, <4>3
          <6> QED BY <4>1, <6>1 DEF Sized
        <5>2. J[s] = 0
          BY <3>3, <4>3, <5>1 DEF Iterates
        <5> QED BY <3>4, <4>3, <5>1, <5>2
      <4>4. CASE s # {}
        <5> DEFINE r == s \ {Pick(s)}
        <5>1. r \in Sized(S, m - 1) /\ r \in Sized(S, m)
          <6>1. Cardinality(r) <= m - 1 /\ Cardinality(r) <= m
            <7>1. \A a, b \in Nat : a <= b => a - 1 <= b - 1 /\ a - 1 <= b
              OBVIOUS
            <7> QED BY <2>2, <4>1, <4>2, <4>4, <7>1
          <6>2. r \in SUBSET S
            BY <4>1
          <6> QED BY <6>1, <6>2 DEF Sized
        <5>2. I[r] = J[r]
          BY <3>4, <5>1
        <5>3. s \in Sized(S, m - 1) => J[s] = f[Pick(s)] + J[r]
          BY <3>3, <4>4 DEF Iterates
        <5> QED BY <3>4, <4>4, <5>2, <5>3
      <4> QED BY <4>3, <4>4
    <3>7. Iterates(I, Sized(S, m), f)
      BY <3>5, <3>6 DEF Iterates
    <3> QED BY <2>2, <3>7 DEF Solvable
  <2> QED BY <2>3, <2>4
<1>2. Cardinality(S) \in Nat /\ Sized(S, Cardinality(S)) = SUBSET S
  <2>1. Cardinality(S) \in Nat
    BY FS_CardinalityType
  <2>2. \A s \in SUBSET S : Cardinality(s) <= Cardinality(S)
    BY FS_Subset
  <2> QED BY <2>1, <2>2 DEF Sized
<1>3. Solvable(Cardinality(S))
  BY <1>1, <1>2
<1> QED BY <1>2, <1>3 DEF Solvable

IteratesOver(I, S, f) == Iterates(I, SUBSET S, f)
Numeric(f, S) == \A x \in S : f[x] \in Int
SameAt(I, J, T) == J[T] = I[T]
AgreeOn(f, g, T) == \A x \in T : g[x] = f[x]
Commutes(I, S, f) ==
  \A s \in SUBSET S : I[s] \in Int /\ \A x \in s : I[s] = f[x] + I[s \ {x}]

(* An iterate takes its elements out in any order.                        *)
LEMMA AnyOrder ==
  ASSUME NEW S, IsFiniteSet(S), NEW f, Numeric(f, S), NEW I, Iterates(I, SUBSET S, f)
  PROVE  Commutes(I, S, f)
<1> DEFINE Good(s) == I[s] \in Int /\ \A x \in s : I[s] = f[x] + I[s \ {x}]
           Bad == {m \in Nat : \E s \in SUBSET S : Cardinality(s) = m /\ ~Good(s)}
<1>0. \A s \in SUBSET S : I[s] = IF s = {} THEN 0 ELSE f[Pick(s)] + I[s \ {Pick(s)}]
  BY DEF Iterates
<1>n. \A x \in S : f[x] \in Int
  BY DEF Numeric
<1> HIDE DEF Good
<1>1. Bad = {}
  <2> SUFFICES ASSUME Bad # {} PROVE FALSE
    OBVIOUS
  <2>1. PICK m \in Bad : \A k \in Bad : m <= k
    <3>1. Bad \subseteq Nat
      OBVIOUS
    <3> QED BY <3>1, NatMin
  <2>2. PICK s \in SUBSET S : Cardinality(s) = m /\ ~Good(s)
    BY <2>1
  <2>3. \A r \in SUBSET S : Cardinality(r) \in Nat /\ Cardinality(r) < m => Good(r)
    <3> SUFFICES ASSUME NEW r \in SUBSET S, Cardinality(r) \in Nat, Cardinality(r) < m, ~Good(r)
                 PROVE  FALSE
      OBVIOUS
    <3>1. Cardinality(r) \in Bad
      OBVIOUS
    <3>2. m \in Nat /\ m <= Cardinality(r)
      BY <2>1, <3>1
    <3> QED BY <3>2
  <2>4. /\ (Cardinality(s) = 0 <=> s = {}) /\ Cardinality(s) \in Nat
        /\ \A x \in s : Cardinality(s \ {x}) = Cardinality(s) - 1
    BY SizedSubsets
  <2>5. s # {} => Pick(s) \in s
    BY SizedSubsets
  <2>6. \A x \in s : Good(s \ {x})
    <3> SUFFICES ASSUME NEW x \in s PROVE Good(s \ {x})
      OBVIOUS
    <3>1. Cardinality(s \ {x}) = Cardinality(s) - 1 /\ Cardinality(s) # 0
      BY <2>4
    <3>2. Cardinality(s \ {x}) \in Nat /\ Cardinality(s \ {x}) < m
      BY <2>2, <2>4, <3>1
    <3>3. s \ {x} \in SUBSET S
      OBVIOUS
    <3> QED BY <2>3, <3>2, <3>3
  <2>7. CASE s = {}
    <3>1. I[s] = 0
      BY <1>0, <2>7
    <3>2. I[s] \in Int
      BY <3>1
    <3> QED BY <2>2, <2>7, <3>2 DEF Good
  <2>8. CASE s # {}
    <3> DEFINE c == Pick(s)
    <3>0. c \in s /\ f[c] \in Int
      BY <1>n, <2>5, <2>8
    <3>1. I[s] = f[c] + I[s \ {c}]
      BY <1>0, <2>8
    <3> HIDE DEF c
    <3>2. I[s \ {c}] \in Int /\ \A x \in s \ {c} : I[s \ {c}] = f[x] + I[(s \ {c}) \ {x}]
      BY <2>6, <3>0 DEF Good
    <3>3. I[s] \in Int
      BY <3>0, <3>1, <3>2
    <3>4. ASSUME NEW x \in s, x # c PROVE I[s] = f[x] + I[s \ {x}]
      <4>1. I[s \ {x}] \in Int /\ I[s \ {x}] = f[c] + I[(s \ {x}) \ {c}]
        <5>1. c \in s \ {x}
          BY <3>0, <3>4
        <5> QED BY <2>6, <5>1 DEF Good
      <4>2. I[s \ {c}] = f[x] + I[(s \ {c}) \ {x}]
        BY <3>2, <3>4
      <4>3. (s \ {x}) \ {c} = (s \ {c}) \ {x}
        OBVIOUS
      <4> DEFINE rest == I[(s \ {c}) \ {x}]
      <4>4. rest \in Int
        <5>1. c \in s \ {x} /\ Good(s \ {x}) /\ Good(s \ {c}) /\ x \in s \ {c}
          BY <2>6, <3>0, <3>4
        <5>2. Cardinality((s \ {c}) \ {x}) \in Nat /\ Cardinality((s \ {c}) \ {x}) < m
          <6>1. Cardinality(s \ {c}) \in Nat /\ Cardinality(s \ {c}) < m
            BY <2>2, <2>4, <2>8, <3>0
          <6>2. Cardinality((s \ {c}) \ {x}) = Cardinality(s \ {c}) - 1
            <7>1. s \ {c} \in SUBSET S /\ x \in s \ {c}
              BY <5>1
            <7> QED BY <7>1, SizedSubsets
          <6>3. Cardinality((s \ {c}) \ {x}) \in Nat
            <7>1. (s \ {c}) \ {x} \in SUBSET S
              OBVIOUS
            <7> QED BY <7>1, SizedSubsets
          <6>4. m \in Nat
            BY <2>1
          <6> QED BY <6>1, <6>2, <6>3, <6>4
        <5>3. Good((s \ {c}) \ {x})
          <6>1. (s \ {c}) \ {x} \in SUBSET S
            OBVIOUS
          <6> QED BY <2>3, <5>2, <6>1
        <5> QED BY <5>3 DEF Good
      <4> HIDE DEF rest
      <4>5. f[x] \in Int
        BY <1>n
      <4>6. I[s] = f[c] + (f[x] + rest) /\ I[s \ {x}] = f[c] + rest
        BY <3>1, <4>1, <4>2, <4>3 DEF rest
      <4>7. \A a, b, d \in Int : a + (b + d) = b + (a + d)
        OBVIOUS
      <4>8. f[c] + (f[x] + rest) = f[x] + (f[c] + rest)
        BY <3>0, <4>4, <4>5, <4>7
      <4> QED BY <4>6, <4>8
    <3>5. \A x \in s : I[s] = f[x] + I[s \ {x}]
      BY <3>1, <3>4
    <3> QED BY <2>2, <3>3, <3>5 DEF Good
  <2> QED BY <2>7, <2>8
<1>2. ASSUME NEW s \in SUBSET S PROVE Good(s)
  <2>1. Cardinality(s) \in Nat
    BY SizedSubsets
  <2> QED BY <1>1, <2>1
<1> QED BY <1>2 DEF Good, Commutes

(* Two functions that agree on a set have the same sums over its parts.   *)
LEMMA SameSums ==
  ASSUME NEW S, IsFiniteSet(S), NEW T, T \subseteq S, NEW f, NEW g, AgreeOn(f, g, T),
         NEW I, IteratesOver(I, S, f), NEW J, IteratesOver(J, T, g)
  PROVE  SameAt(I, J, T)
<1> DEFINE Bad == {m \in Nat : \E s \in SUBSET T : Cardinality(s) = m /\ J[s] # I[s]}
<1>0. \A s \in SUBSET T : /\ J[s] = IF s = {} THEN 0 ELSE g[Pick(s)] + J[s \ {Pick(s)}]
                          /\ I[s] = IF s = {} THEN 0 ELSE f[Pick(s)] + I[s \ {Pick(s)}]
  BY DEF Iterates, IteratesOver
<1>1. Bad = {}
  <2> SUFFICES ASSUME Bad # {} PROVE FALSE
    OBVIOUS
  <2>1. PICK m \in Bad : \A k \in Bad : m <= k
    <3>1. Bad \subseteq Nat
      OBVIOUS
    <3> QED BY <3>1, NatMin
  <2>2. PICK s \in SUBSET T : Cardinality(s) = m /\ J[s] # I[s]
    BY <2>1
  <2>3. /\ (Cardinality(s) = 0 <=> s = {}) /\ Cardinality(s) \in Nat
        /\ s # {} => Pick(s) \in s /\ Cardinality(s \ {Pick(s)}) = Cardinality(s) - 1
    <3>1. s \in SUBSET S
      OBVIOUS
    <3> QED BY <3>1, SizedSubsets
  <2>4. s # {}
    BY <1>0, <2>2
  <2> DEFINE r == s \ {Pick(s)}
  <2>5. J[r] = I[r]
    <3>1. Cardinality(r) \in Nat /\ ~(m <= Cardinality(r))
      BY <2>2, <2>3, <2>4
    <3>2. r \in SUBSET T
      OBVIOUS
    <3> HIDE DEF r
    <3> QED BY <2>1, <3>1, <3>2
  <2>6. g[Pick(s)] = f[Pick(s)]
    BY <2>3, <2>4 DEF AgreeOn
  <2> QED BY <1>0, <2>2, <2>4, <2>5, <2>6
<1>2. T \in SUBSET T /\ Cardinality(T) \in Nat
  BY SizedSubsets
<1> QED BY <1>1, <1>2 DEF SameAt

(* SumFunction is such an iterate.                                        *)
LEMMA SumIsIterate ==
  ASSUME NEW f, IsFiniteSet(DOMAIN f)
  PROVE  \E I : Iterates(I, SUBSET DOMAIN f, f) /\ SumFunction(f) = I[DOMAIN f]
<1> DEFINE I == CHOOSE i : i = [s \in SUBSET DOMAIN f |->
                                  IF s = {} THEN 0
                                  ELSE f[CHOOSE x \in s : TRUE]
                                         + i[s \ {CHOOSE x \in s : TRUE}]]
<1>1. \E i : i = [s \in SUBSET DOMAIN f |->
                    IF s = {} THEN 0
                    ELSE f[CHOOSE x \in s : TRUE] + i[s \ {CHOOSE x \in s : TRUE}]]
  <2>1. PICK i : Iterates(i, SUBSET DOMAIN f, f)
    BY IterateExists
  <2>2. i = [s \in SUBSET DOMAIN f |->
               IF s = {} THEN 0
               ELSE f[CHOOSE x \in s : TRUE] + i[s \ {CHOOSE x \in s : TRUE}]]
    BY <2>1 DEF Iterates, Pick
  <2> QED BY <2>2
<1>2. Iterates(I, SUBSET DOMAIN f, f)
  BY <1>1 DEF Iterates, Pick
<1>3. SumFunction(f) = I[DOMAIN f]
  BY DEF SumFunction, SumFunctionOnSet, FoldFunctionOnSet, MapThenFoldSet
<1> QED BY <1>2, <1>3

(* The sum of a sequence of integers, and of the sequence one longer.     *)
LEMMA SumOfNothing ==
  ASSUME NEW f, DOMAIN f = {}
  PROVE  SumFunction(f) = 0
<1>1. IsFiniteSet(DOMAIN f)
  BY FS_EmptySet
<1>2. PICK I : Iterates(I, SUBSET DOMAIN f, f) /\ SumFunction(f) = I[DOMAIN f]
  BY <1>1, SumIsIterate
<1> QED BY <1>2 DEF Iterates

(* The sum over a set and over the set without an element.                *)
LEMMA SumWithout ==
  ASSUME NEW S, IsFiniteSet(S), NEW x \in S, NEW f, NEW g, DOMAIN f = S, DOMAIN g = S \ {x},
         Numeric(f, S), AgreeOn(f, g, S \ {x})
  PROVE  SumFunction(g) \in Int /\ SumFunction(f) = SumFunction(g) + f[x]
<1> DEFINE T == S \ {x}
<1>1. IsFiniteSet(T) /\ T \in SUBSET S
  <2>1. T \subseteq S
    OBVIOUS
  <2> QED BY <2>1, FS_Subset
<1>a. DOMAIN g = T /\ (\A k \in T : g[k] = f[k]) /\ \A k \in S : f[k] \in Int
  BY DEF Numeric, AgreeOn
<1>2. PICK I : Iterates(I, SUBSET S, f) /\ SumFunction(f) = I[S]
  BY SumIsIterate
<1>3. PICK J : Iterates(J, SUBSET T, g) /\ SumFunction(g) = J[T]
  BY <1>1, <1>a, SumIsIterate
<1>5. I[T] \in Int /\ I[S] = f[x] + I[T]
  <2>1. \A s \in SUBSET S : I[s] \in Int /\ \A k \in s : I[s] = f[k] + I[s \ {k}]
    <3>1. IsFiniteSet(S) /\ Numeric(f, S) /\ Iterates(I, SUBSET S, f)
      BY <1>2
    <3>2. Commutes(I, S, f)
      BY <3>1, AnyOrder, Zenon
    <3> QED BY <3>2 DEF Commutes
  <2>2. S \in SUBSET S
    OBVIOUS
  <2> QED BY <1>1, <2>1, <2>2, Zenon
<1>6. f[x] \in Int
  BY <1>a
<1> HIDE DEF T
<1>4. J[T] = I[T]
  <2>1. /\ IsFiniteSet(S) /\ T \subseteq S /\ AgreeOn(f, g, T)
        /\ IteratesOver(I, S, f) /\ IteratesOver(J, T, g)
    BY <1>1, <1>2, <1>3, <1>a DEF AgreeOn, IteratesOver
  <2>2. SameAt(I, J, T)
    BY <2>1, SameSums, Zenon
  <2> QED BY <2>2 DEF SameAt
<1>7. \A a, b \in Int : a + b = b + a
  OBVIOUS
<1>8. I[S] = I[T] + f[x]
  BY <1>5, <1>6, <1>7
<1> QED BY <1>2, <1>3, <1>4, <1>5, <1>8

(* The sum of a sequence one longer.                                      *)
LEMMA SumOfOneMore ==
  ASSUME NEW n \in Nat, NEW f, NEW g, DOMAIN f = 1..n + 1, DOMAIN g = 1..n,
         \A k \in 1..n + 1 : f[k] \in Int, \A k \in 1..n : g[k] = f[k]
  PROVE  SumFunction(g) \in Int /\ SumFunction(f) = SumFunction(g) + f[n + 1]
<1> DEFINE S == 1..n + 1
           x == n + 1
<1>1. IsFiniteSet(S) /\ x \in S /\ S \ {x} = 1..n
  <2>1. IsFiniteSet(S)
    BY FS_Interval
  <2> QED BY <2>1
<1> HIDE DEF S, x
<1>2. /\ DOMAIN f = S /\ DOMAIN g = S \ {x}
      /\ Numeric(f, S) /\ AgreeOn(f, g, S \ {x})
  BY <1>1 DEF S, Numeric, AgreeOn
<1>3. SumFunction(g) \in Int /\ SumFunction(f) = SumFunction(g) + f[x]
  BY <1>1, <1>2, SumWithout, Zenon
<1> QED BY <1>3 DEF x

(* The sum of a sequence after one of its numbers changed.                *)
LEMMA SumOfOneChanged ==
  ASSUME NEW n \in Nat, NEW x \in 1..n, NEW f, NEW g, DOMAIN f = 1..n, DOMAIN g = 1..n,
         \A k \in 1..n : f[k] \in Int /\ g[k] \in Int, \A k \in 1..n : k # x => g[k] = f[k]
  PROVE  /\ SumFunction(f) \in Int /\ SumFunction(g) \in Int
         /\ SumFunction(g) - g[x] = SumFunction(f) - f[x]
<1> DEFINE S == 1..n
           h == [k \in S \ {x} |-> f[k]]
<1>1. IsFiniteSet(S)
  BY FS_Interval
<1>2. /\ x \in S /\ DOMAIN f = S /\ DOMAIN g = S /\ DOMAIN h = S \ {x}
      /\ Numeric(f, S) /\ Numeric(g, S) /\ AgreeOn(f, h, S \ {x}) /\ AgreeOn(g, h, S \ {x})
  BY DEF Numeric, AgreeOn
<1> HIDE DEF S, h
<1>3. SumFunction(h) \in Int /\ SumFunction(f) = SumFunction(h) + f[x]
  BY <1>1, <1>2, SumWithout, Zenon
<1>4. SumFunction(h) \in Int /\ SumFunction(g) = SumFunction(h) + g[x]
  BY <1>1, <1>2, SumWithout, Zenon
<1>5. f[x] \in Int /\ g[x] \in Int
  BY <1>2 DEF Numeric
<1> QED BY <1>3, <1>4, <1>5

(* The sum of zeros.                                                      *)
LEMMA SumOfZeros ==
  ASSUME NEW n \in Nat, NEW f \in [1..n -> {0}]
  PROVE  SumFunction(f) = 0
<1> DEFINE part(m) == [k \in 1..m |-> 0]
           Bad == {m \in Nat : SumFunction(part(m)) # 0}
<1>1. Bad = {}
  <2> SUFFICES ASSUME Bad # {} PROVE FALSE
    OBVIOUS
  <2>1. PICK m \in Bad : \A k \in Bad : m <= k
    <3>1. Bad \subseteq Nat
      OBVIOUS
    <3> QED BY <3>1, NatMin
  <2>2. m # 0
    <3>1. DOMAIN part(0) = {}
      OBVIOUS
    <3>2. SumFunction(part(0)) = 0
      BY <3>1, SumOfNothing
    <3> QED BY <2>1, <3>2
  <2>3. m - 1 \in Nat /\ ~(m <= m - 1) /\ m = (m - 1) + 1
    BY <2>1, <2>2
  <2>4. SumFunction(part(m - 1)) = 0
    BY <2>1, <2>3
  <2>5. SumFunction(part(m)) = SumFunction(part(m - 1)) + part(m)[m]
    <3> DEFINE u == part(m)
               v == part(m - 1)
    <3>1. /\ DOMAIN u = 1..(m - 1) + 1 /\ DOMAIN v = 1..m - 1
          /\ (\A k \in 1..(m - 1) + 1 : u[k] \in Int) /\ (\A k \in 1..m - 1 : v[k] = u[k])
      BY <2>3
    <3> HIDE DEF u, v
    <3>2. SumFunction(u) = SumFunction(v) + u[(m - 1) + 1]
      BY <2>3, <3>1, SumOfOneMore
    <3>3. (m - 1) + 1 = m
      BY <2>3
    <3> QED BY <3>2, <3>3 DEF u, v
  <2>6. part(m)[m] = 0
    BY <2>1, <2>2
  <2> QED BY <2>1, <2>4, <2>5, <2>6
<1>2. f = part(n)
  OBVIOUS
<1> QED BY <1>1, <1>2

(* The sum of integers is one, and of naturals too.                       *)
LEMMA SumType ==
  ASSUME NEW n \in Nat, NEW f, DOMAIN f = 1..n, \A k \in 1..n : f[k] \in Int
  PROVE  SumFunction(f) \in Int
<1>1. CASE n = 0
  <2>1. DOMAIN f = {}
    BY <1>1
  <2> QED BY <2>1, SumOfNothing
<1>2. CASE n # 0
  <2>1. n \in 1..n
    BY <1>2
  <2> QED BY <2>1, SumOfOneChanged
<1> QED BY <1>1, <1>2

LEMMA SumOfNaturals ==
  ASSUME NEW n \in Nat, NEW f \in [1..n -> Nat]
  PROVE  SumFunction(f) \in Nat
<1> DEFINE part(m) == [k \in 1..m |-> f[k]]
           Bad == {m \in 0..n : SumFunction(part(m)) \notin Nat}
<1>1. Bad = {}
  <2> SUFFICES ASSUME Bad # {} PROVE FALSE
    OBVIOUS
  <2>1. PICK m \in Bad : \A k \in Bad : m <= k
    <3>1. Bad \subseteq Nat
      OBVIOUS
    <3> QED BY <3>1, NatMin
  <2>2. m # 0
    <3>1. DOMAIN part(0) = {}
      OBVIOUS
    <3>2. SumFunction(part(0)) = 0
      BY <3>1, SumOfNothing
    <3> QED BY <2>1, <3>2
  <2>3. m - 1 \in 0..n /\ m - 1 \in Nat /\ ~(m <= m - 1) /\ m = (m - 1) + 1 /\ m \in 1..n
    BY <2>1, <2>2
  <2>4. SumFunction(part(m - 1)) \in Nat
    BY <2>1, <2>3
  <2>5. SumFunction(part(m)) = SumFunction(part(m - 1)) + part(m)[m]
    <3> DEFINE u == part(m)
               v == part(m - 1)
    <3>1. /\ DOMAIN u = 1..(m - 1) + 1 /\ DOMAIN v = 1..m - 1
          /\ (\A k \in 1..(m - 1) + 1 : u[k] \in Int) /\ (\A k \in 1..m - 1 : v[k] = u[k])
      BY <2>3
    <3> HIDE DEF u, v
    <3>2. SumFunction(u) = SumFunction(v) + u[(m - 1) + 1]
      <4>1. m - 1 \in Nat
        BY <2>3
      <4> QED BY <3>1, <4>1, SumOfOneMore
    <3>3. (m - 1) + 1 = m
      BY <2>3
    <3> QED BY <3>2, <3>3 DEF u, v
  <2>6. part(m)[m] \in Nat
    BY <2>3
  <2>7. SumFunction(part(m)) \in Nat
    BY <2>4, <2>5, <2>6
  <2> QED BY <2>1, <2>7
<1>2. f = part(n)
  OBVIOUS
<1>3. n \in 0..n
  OBVIOUS
<1> QED BY <1>1, <1>2, <1>3
-----------------------------------------------------------------------------
(* What holds of 0 and of one more holds up to n: induction over a set.   *)
LEMMA UpTo ==
  ASSUME NEW n \in Nat, NEW T, 0 \in T, \A i \in 0..(n - 1) : i \in T => i + 1 \in T
  PROVE  \A i \in 0..n : i \in T
<1> DEFINE Bad == {i \in 0..n : i \notin T}
<1> SUFFICES ASSUME Bad # {} PROVE FALSE
  OBVIOUS
<1>1. Bad \subseteq Nat
  OBVIOUS
<1>2. PICK m \in Bad : \A k \in Bad : m <= k
  BY <1>1, NatMin
<1>3. m \in 0..n /\ m \notin T /\ m # 0
  BY <1>2
<1>4. m - 1 \in 0..(n - 1) /\ m - 1 \in 0..n /\ ~(m <= m - 1) /\ (m - 1) + 1 = m
  BY <1>3
<1>5. m - 1 \in T
  BY <1>2, <1>4
<1> QED BY <1>3, <1>4, <1>5

(* The recursion over 0..n with a given step has a solution.              *)
Recurs(f, n, base, step) == f = [i \in 0..n |-> IF i = 0 THEN base ELSE step[<<i, f[i - 1]>>]]

LEMMA RecursionExists ==
  ASSUME NEW n \in Nat, NEW V, NEW base \in V, NEW step,
         \A i \in 1..n, v \in V : step[<<i, v>>] \in V
  PROVE  \E f : Recurs(f, n, base, step) /\ f \in [0..n -> V]
<1> DEFINE Solved(m) == \E f : Recurs(f, m, base, step) /\ f \in [0..m -> V]
           T == {m \in 0..n : Solved(m)}
<1> HIDE DEF Solved
<1>1. 0 \in T
  <2> DEFINE f == [i \in 0..0 |-> base]
  <2>1. Recurs(f, 0, base, step) /\ f \in [0..0 -> V]
    BY DEF Recurs
  <2> QED BY <2>1 DEF Solved
<1>2. ASSUME NEW m \in 0..(n - 1), m \in T PROVE m + 1 \in T
  <2>1. PICK g : Recurs(g, m, base, step) /\ g \in [0..m -> V]
    BY <1>2 DEF Solved
  <2> DEFINE f == [i \in 0..(m + 1) |-> IF i = m + 1 THEN step[<<i, g[m]>>] ELSE g[i]]
  <2>2. f \in [0..(m + 1) -> V]
    <3>1. m + 1 \in 1..n /\ g[m] \in V
      BY <2>1
    <3>2. step[<<m + 1, g[m]>>] \in V
      BY <3>1
    <3>3. \A i \in 0..(m + 1) : i # m + 1 => i \in 0..m
      OBVIOUS
    <3> QED BY <2>1, <3>2, <3>3
  <2>3. ASSUME NEW i \in 0..(m + 1)
        PROVE  f[i] = IF i = 0 THEN base ELSE step[<<i, f[i - 1]>>]
    <3>1. CASE i = m + 1
      <4>1. m \in 0..(m + 1) /\ m # m + 1 /\ i - 1 = m /\ i # 0
        BY <3>1
      <4>2. f[m] = g[m]
        BY <4>1
      <4> QED BY <3>1, <4>1, <4>2
    <3>2. CASE i # m + 1
      <4>1. i \in 0..m /\ (i # 0 => i - 1 \in 0..m /\ i - 1 \in 0..(m + 1) /\ i - 1 # m + 1)
        BY <3>2
      <4>2. g[i] = IF i = 0 THEN base ELSE step[<<i, g[i - 1]>>]
        BY <2>1, <4>1 DEF Recurs
      <4>3. f[i] = g[i] /\ (i # 0 => f[i - 1] = g[i - 1])
        BY <3>2, <4>1
      <4> QED BY <4>2, <4>3
    <3> QED BY <3>1, <3>2
  <2>4. f = [i \in 0..(m + 1) |-> f[i]]
    OBVIOUS
  <2> HIDE DEF f
  <2>5. Recurs(f, m + 1, base, step)
    BY <2>3, <2>4 DEF Recurs
  <2> QED BY <2>2, <2>5 DEF Solved
<1>3. n \in T
  <2>1. \A i \in 0..n : i \in T
    <3> HIDE DEF T
    <3> QED BY <1>1, <1>2, UpTo
  <2> QED BY <2>1
<1> QED BY <1>3 DEF Solved
-----------------------------------------------------------------------------
(* The function Picked is made of, and the sublists of all prefixes.      *)
UptoOf(f, s, at) ==
  f = [n \in 0..Len(s) |-> IF n = 0 THEN <<>>
                           ELSE IF n \in at THEN Append(f[n - 1], s[n]) ELSE f[n - 1]]

LEMMA PickedUpto ==
  ASSUME NEW S, NEW s \in Seq(S), NEW at
  PROVE  \E f : UptoOf(f, s, at) /\ f \in [0..Len(s) -> Seq(S)] /\ Picked(s, at) = f[Len(s)]
<1> DEFINE n == Len(s)
           step == [x \in (1..n) \X Seq(S) |-> IF x[1] \in at THEN Append(x[2], s[x[1]]) ELSE x[2]]
           F == CHOOSE f : UptoOf(f, s, at)
<1>1. \A i \in 1..n, v \in Seq(S) : step[<<i, v>>] = IF i \in at THEN Append(v, s[i]) ELSE v
  OBVIOUS
<1>2. \A i \in 1..n, v \in Seq(S) : step[<<i, v>>] \in Seq(S)
  <2>1. \A i \in 1..n : s[i] \in S
    BY ElementOfSeq
  <2>2. \A i \in 1..n, v \in Seq(S) : Append(v, s[i]) \in Seq(S)
    BY <2>1, AppendProperties
  <2> HIDE DEF step
  <2> QED BY <1>1, <2>2
<1> HIDE DEF step
<1>3. n \in Nat /\ <<>> \in Seq(S)
  OBVIOUS
<1>4. PICK g : Recurs(g, n, <<>>, step) /\ g \in [0..n -> Seq(S)]
  BY <1>2, <1>3, RecursionExists
<1>5. UptoOf(g, s, at)
  <2>1. ASSUME NEW i \in 0..n
        PROVE  g[i] = IF i = 0 THEN <<>>
                      ELSE IF i \in at THEN Append(g[i - 1], s[i]) ELSE g[i - 1]
    <3>1. CASE i = 0
      BY <1>4, <3>1 DEF Recurs
    <3>2. CASE i # 0
      <4>1. i \in 1..n /\ i - 1 \in 0..n
        BY <1>3, <3>2
      <4>2. g[i] = step[<<i, g[i - 1]>>] /\ g[i - 1] \in Seq(S)
        BY <1>4, <3>2, <4>1 DEF Recurs
      <4> QED BY <1>1, <3>2, <4>1, <4>2
    <3> QED BY <3>1, <3>2
  <2>2. g = [i \in 0..n |-> g[i]]
    BY <1>4
  <2> QED BY <2>1, <2>2 DEF UptoOf
<1>6. UptoOf(F, s, at) /\ Picked(s, at) = F[n]
  BY <1>5 DEF Picked, UptoOf
<1> HIDE DEF F
<1>7. \A i \in 0..n : F[i] \in Seq(S)
  <2> DEFINE T == {i \in 0..n : F[i] \in Seq(S)}
  <2>1. 0 \in T
    BY <1>3, <1>6 DEF UptoOf
  <2>2. ASSUME NEW i \in 0..(n - 1), i \in T PROVE i + 1 \in T
    <3>1. i + 1 \in 1..n /\ i + 1 \in 0..n /\ i + 1 # 0 /\ (i + 1) - 1 = i
      BY <1>3
    <3>2. F[i + 1] = IF i + 1 \in at THEN Append(F[i], s[i + 1]) ELSE F[i]
      BY <1>6, <3>1 DEF UptoOf
    <3>3. s[i + 1] \in S
      BY <3>1, ElementOfSeq
    <3>4. F[i] \in Seq(S)
      BY <2>2
    <3>5. Append(F[i], s[i + 1]) \in Seq(S)
      BY <3>3, <3>4, AppendProperties
    <3>6. F[i + 1] \in Seq(S)
      BY <3>2, <3>4, <3>5
    <3> QED BY <3>1, <3>6
  <2> HIDE DEF T
  <2>3. \A i \in 0..n : i \in T
    BY <1>3, <2>1, <2>2, UpTo
  <2> QED BY <2>3 DEF T
<1>8. F = [i \in 0..n |-> F[i]]
  BY <1>6 DEF UptoOf
<1>9. F \in [0..n -> Seq(S)]
  <2> QED BY <1>7, <1>8
<1> QED BY <1>6, <1>9

LEMMA PickedType ==
  ASSUME NEW S, NEW s \in Seq(S), NEW at
  PROVE  Picked(s, at) \in Seq(S)
BY PickedUpto

LEMMA PickedOfNothing == ASSUME NEW at PROVE Picked(<<>>, at) = <<>>
<1>1. <<>> \in Seq({}) /\ Len(<<>>) = 0
  OBVIOUS
<1>2. PICK f : UptoOf(f, <<>>, at) /\ Picked(<<>>, at) = f[0]
  BY <1>1, PickedUpto
<1>3. 0 \in 0..Len(<<>>)
  OBVIOUS
<1> QED BY <1>2, <1>3 DEF UptoOf

(* Reading one more element.                                              *)
LEMMA PickedAppend ==
  ASSUME NEW S, NEW s \in Seq(S), NEW x \in S, NEW at
  PROVE  Picked(Append(s, x), at)
           = IF Len(s) + 1 \in at THEN Append(Picked(s, at), x) ELSE Picked(s, at)
<1> DEFINE n == Len(s)
           t == Append(s, x)
<1>1. /\ n \in Nat /\ t \in Seq(S) /\ Len(t) = n + 1 /\ t[n + 1] = x
      /\ \A i \in 1..n : t[i] = s[i]
  BY AppendProperties
<1>2. PICK f : UptoOf(f, s, at) /\ Picked(s, at) = f[n]
  BY PickedUpto
<1>3. PICK g : UptoOf(g, t, at) /\ Picked(t, at) = g[Len(t)]
  BY <1>1, PickedUpto
<1> HIDE DEF n, t
<1> DEFINE T == {i \in 0..n : g[i] = f[i]}
<1>f. \A i \in 0..n : f[i] = IF i = 0 THEN <<>> ELSE IF i \in at THEN Append(f[i - 1], s[i]) ELSE f[i - 1]
  BY <1>2 DEF UptoOf, n
<1>g. \A i \in 0..(n + 1) : g[i] = IF i = 0 THEN <<>> ELSE IF i \in at THEN Append(g[i - 1], t[i]) ELSE g[i - 1]
  BY <1>1, <1>3 DEF UptoOf
<1>4. 0 \in T
  <2>1. 0 \in 0..n /\ 0 \in 0..(n + 1)
    BY <1>1
  <2> QED BY <1>f, <1>g, <2>1
<1>5. ASSUME NEW i \in 0..(n - 1), i \in T PROVE i + 1 \in T
  <2>1. i + 1 \in 1..n /\ i + 1 \in 0..n /\ i + 1 \in 0..(n + 1) /\ i + 1 # 0 /\ (i + 1) - 1 = i
    BY <1>1
  <2> QED BY <1>1, <1>5, <1>f, <1>g, <2>1
<1>6. g[n] = f[n]
  <2> HIDE DEF T
  <2>1. n \in T
    <3>1. \A i \in 0..n : i \in T
      BY <1>1, <1>4, <1>5, UpTo
    <3> QED BY <1>1, <3>1
  <2> QED BY <2>1 DEF T
<1>7. g[n + 1] = IF n + 1 \in at THEN Append(g[n], x) ELSE g[n]
  <2>1. n + 1 \in 0..(n + 1) /\ n + 1 # 0 /\ (n + 1) - 1 = n
    BY <1>1
  <2> QED BY <1>1, <1>g, <2>1
<1> QED BY <1>1, <1>2, <1>3, <1>6, <1>7 DEF n, t

(* Two ways to say which positions.                                       *)
LEMMA PickedSame ==
  ASSUME NEW s, NEW at, NEW others, Len(s) \in Nat, \A i \in 1..Len(s) : i \in at <=> i \in others
  PROVE  Picked(s, at) = Picked(s, others)
<1>1. ASSUME NEW f
      PROVE  [n \in 0..Len(s) |-> IF n = 0 THEN <<>> ELSE IF n \in at THEN Append(f[n - 1], s[n]) ELSE f[n - 1]]
             = [n \in 0..Len(s) |-> IF n = 0 THEN <<>> ELSE IF n \in others THEN Append(f[n - 1], s[n]) ELSE f[n - 1]]
  <2>1. \A n \in 0..Len(s) : n # 0 => n \in 1..Len(s)
    OBVIOUS
  <2> QED BY <2>1
<1>2. \A f : UptoOf(f, s, at) <=> UptoOf(f, s, others)
  BY <1>1 DEF UptoOf
<1>3. (CHOOSE f : UptoOf(f, s, at)) = (CHOOSE f : UptoOf(f, s, others))
  BY <1>2
<1> QED BY <1>3 DEF Picked, UptoOf

(* Where the picked elements come from.                                   *)
ComesFrom(p, s, at, from) ==
  /\ from \in [1..Len(p) -> 1..Len(s)]
  /\ \A j \in 1..Len(p) : from[j] \in at /\ p[j] = s[from[j]]
  /\ \A i, j \in 1..Len(p) : i < j => from[i] < from[j]
  /\ \A n \in 1..Len(s) : n \in at => \E j \in 1..Len(p) : from[j] = n

LEMMA PickedFrom ==
  ASSUME NEW S, NEW s \in Seq(S), NEW at
  PROVE  \E from : ComesFrom(Picked(s, at), s, at, from)
<1> DEFINE N == Len(s)
<1>1. N \in Nat
  OBVIOUS
<1>2. PICK f : UptoOf(f, s, at) /\ f \in [0..N -> Seq(S)] /\ Picked(s, at) = f[N]
  BY PickedUpto
<1> HIDE DEF N
<1> DEFINE Reach(m, from) ==
             /\ from \in [1..Len(f[m]) -> 1..m]
             /\ \A j \in 1..Len(f[m]) : from[j] \in at /\ f[m][j] = s[from[j]]
             /\ \A i, j \in 1..Len(f[m]) : i < j => from[i] < from[j]
             /\ \A n \in 1..m : n \in at => \E j \in 1..Len(f[m]) : from[j] = n
           T == {m \in 0..N : \E from : Reach(m, from)}
<1>f. \A i \in 0..N : f[i] = IF i = 0 THEN <<>> ELSE IF i \in at THEN Append(f[i - 1], s[i]) ELSE f[i - 1]
  BY <1>2 DEF UptoOf, N
<1> HIDE DEF Reach
<1>3. 0 \in T
  <2>1. 0 \in 0..N /\ f[0] = <<>> /\ Len(f[0]) = 0
    BY <1>1, <1>f
  <2> DEFINE from == [j \in 1..0 |-> 0]
  <2>2. Reach(0, from)
    BY <2>1 DEF Reach
  <2> QED BY <2>1, <2>2
<1>4. ASSUME NEW m \in 0..(N - 1), m \in T PROVE m + 1 \in T
  <2>1. m + 1 \in 0..N /\ m + 1 \in 1..N /\ m + 1 # 0 /\ (m + 1) - 1 = m /\ m \in 0..N /\ m \in Nat
    BY <1>1
  <2>2. f[m + 1] = IF m + 1 \in at THEN Append(f[m], s[m + 1]) ELSE f[m]
    BY <1>f, <2>1
  <2>3. f[m] \in Seq(S) /\ s[m + 1] \in S /\ Len(f[m]) \in Nat
    BY <1>2, <2>1, ElementOfSeq DEF N
  <2>4. PICK from : Reach(m, from)
    BY <1>4
  <2>5. CASE m + 1 \notin at
    <3>1. f[m + 1] = f[m]
      BY <2>2, <2>5
    <3>2. \A n \in 1..(m + 1) : n \in at => n \in 1..m
      BY <2>1, <2>5
    <3>3. \A n \in 1..m : n \in 1..(m + 1)
      BY <2>1
    <3>4. from \in [1..Len(f[m]) -> 1..(m + 1)]
      BY <2>4, <3>3 DEF Reach
    <3>5. Reach(m + 1, from)
      BY <2>4, <3>1, <3>2, <3>4 DEF Reach
    <3> QED BY <2>1, <3>5
  <2>6. CASE m + 1 \in at
    <3> DEFINE k == Len(f[m])
               more == [j \in 1..(k + 1) |-> IF j = k + 1 THEN m + 1 ELSE from[j]]
    <3>1. /\ Len(f[m + 1]) = k + 1 /\ f[m + 1][k + 1] = s[m + 1] /\ k \in Nat
          /\ \A j \in 1..k : f[m + 1][j] = f[m][j]
      BY <2>2, <2>3, <2>6, AppendProperties
    <3>2. /\ \A j \in 1..k : from[j] \in 1..m /\ from[j] \in at /\ f[m][j] = s[from[j]]
          /\ \A i, j \in 1..k : i < j => from[i] < from[j]
          /\ \A n \in 1..m : n \in at => \E j \in 1..k : from[j] = n
      BY <2>4 DEF Reach
    <3> HIDE DEF k
    <3>3. more[k + 1] = m + 1 /\ \A j \in 1..k : more[j] = from[j]
      BY <3>1
    <3>4. more \in [1..(k + 1) -> 1..(m + 1)]
      <4>1. \A j \in 1..(k + 1) : j # k + 1 => j \in 1..k
        BY <3>1
      <4>2. \A j \in 1..k : from[j] \in 1..(m + 1)
        BY <2>1, <3>2
      <4>3. m + 1 \in 1..(m + 1)
        BY <2>1
      <4> QED BY <4>1, <4>2, <4>3
    <3> HIDE DEF more
    <3>5. \A j \in 1..(k + 1) : j = k + 1 \/ j \in 1..k
      BY <3>1
    <3>6. \A j \in 1..(k + 1) : more[j] \in at /\ f[m + 1][j] = s[more[j]]
      BY <2>6, <3>1, <3>2, <3>3, <3>5
    <3>7. \A i, j \in 1..(k + 1) : i < j => more[i] < more[j]
      <4> SUFFICES ASSUME NEW i \in 1..(k + 1), NEW j \in 1..(k + 1), i < j PROVE more[i] < more[j]
        OBVIOUS
      <4>1. i \in 1..k /\ more[i] = from[i] /\ from[i] \in 1..m
        BY <3>1, <3>2, <3>3
      <4>2. CASE j = k + 1
        BY <2>1, <3>3, <4>1, <4>2
      <4>3. CASE j \in 1..k
        BY <3>2, <3>3, <4>1, <4>3
      <4> QED BY <3>5, <4>2, <4>3
    <3>8. \A n \in 1..(m + 1) : n \in at => \E j \in 1..(k + 1) : more[j] = n
      <4> SUFFICES ASSUME NEW n \in 1..(m + 1), n \in at PROVE \E j \in 1..(k + 1) : more[j] = n
        OBVIOUS
      <4>1. CASE n = m + 1
        <5>1. k + 1 \in 1..(k + 1)
          BY <3>1
        <5> QED BY <3>3, <4>1, <5>1
      <4>2. CASE n # m + 1
        <5>1. n \in 1..m
          BY <2>1, <4>2
        <5>2. PICK j \in 1..k : from[j] = n
          BY <3>2, <5>1
        <5>3. j \in 1..(k + 1)
          BY <3>1
        <5> QED BY <3>3, <5>2, <5>3
      <4> QED BY <4>1, <4>2
    <3>9. Reach(m + 1, more)
      BY <3>1, <3>4, <3>6, <3>7, <3>8 DEF Reach
    <3> QED BY <2>1, <3>9
  <2> QED BY <2>5, <2>6
<1>5. N \in T
  <2> HIDE DEF T
  <2>1. \A i \in 0..N : i \in T
    BY <1>1, <1>3, <1>4, UpTo
  <2> QED BY <1>1, <2>1
<1>6. PICK from : Reach(N, from)
  BY <1>5
<1> QED BY <1>2, <1>6 DEF Reach, ComesFrom, N

(* The positions of an initial segment pick that segment.                 *)
LEMMA PickedPrefix ==
  ASSUME NEW S, NEW s \in Seq(S), NEW m \in 0..Len(s), NEW at,
         \A i \in 1..Len(s) : i \in at <=> i <= m
  PROVE  Picked(s, at) = SubSeq(s, 1, m)
<1> DEFINE N == Len(s)
<1>1. N \in Nat /\ m \in Nat /\ m <= N
  OBVIOUS
<1>2. PICK f : UptoOf(f, s, at) /\ f \in [0..N -> Seq(S)] /\ Picked(s, at) = f[N]
  BY PickedUpto
<1>f. \A i \in 0..N : f[i] = IF i = 0 THEN <<>> ELSE IF i \in at THEN Append(f[i - 1], s[i]) ELSE f[i - 1]
  BY <1>2 DEF UptoOf
<1>a. \A i \in 1..N : i \in at <=> i <= m
  OBVIOUS
<1> DEFINE Upto(n) == IF n <= m THEN n ELSE m
           T == {n \in 0..N : Len(f[n]) = Upto(n) /\ \A j \in 1..Upto(n) : f[n][j] = s[j]}
<1> HIDE DEF N
<1>3. 0 \in T
  <2>1. 0 \in 0..N /\ f[0] = <<>> /\ Len(f[0]) = 0 /\ Upto(0) = 0
    BY <1>1, <1>f
  <2> QED BY <2>1
<1>4. ASSUME NEW n \in 0..(N - 1), n \in T PROVE n + 1 \in T
  <2>1. n + 1 \in 0..N /\ n + 1 \in 1..N /\ n + 1 # 0 /\ (n + 1) - 1 = n /\ n \in 0..N /\ n \in Nat
    BY <1>1
  <2>2. f[n + 1] = IF n + 1 <= m THEN Append(f[n], s[n + 1]) ELSE f[n]
    BY <1>a, <1>f, <2>1
  <2>3. f[n] \in Seq(S) /\ s[n + 1] \in S
    BY <1>2, <2>1, ElementOfSeq DEF N
  <2>4. Len(f[n]) = Upto(n) /\ \A j \in 1..Upto(n) : f[n][j] = s[j]
    BY <1>4
  <2>5. CASE n + 1 <= m
    <3>1. Upto(n) = n /\ Upto(n + 1) = n + 1
      BY <1>1, <2>1, <2>5
    <3>2. /\ Len(f[n + 1]) = n + 1 /\ f[n + 1][n + 1] = s[n + 1]
          /\ \A j \in 1..n : f[n + 1][j] = f[n][j]
      BY <2>2, <2>3, <2>4, <2>5, <3>1, AppendProperties
    <3>3. \A j \in 1..(n + 1) : j = n + 1 \/ j \in 1..n
      BY <2>1
    <3>4. \A j \in 1..(n + 1) : f[n + 1][j] = s[j]
      BY <2>4, <3>1, <3>2, <3>3
    <3> QED BY <2>1, <3>1, <3>2, <3>4
  <2>6. CASE ~(n + 1 <= m)
    <3>1. Upto(n) = Upto(n + 1)
      BY <1>1, <2>1, <2>6
    <3> QED BY <2>1, <2>2, <2>4, <2>6, <3>1
  <2> QED BY <2>5, <2>6
<1>5. Len(f[N]) = m /\ \A j \in 1..m : f[N][j] = s[j]
  <2> HIDE DEF T
  <2>1. \A i \in 0..N : i \in T
    BY <1>1, <1>3, <1>4, UpTo
  <2>2. N \in T
    BY <1>1, <2>1
  <2>3. Upto(N) = m
    BY <1>1
  <2> QED BY <2>2, <2>3 DEF T
<1>6. SubSeq(s, 1, m) \in Seq(S) /\ Len(SubSeq(s, 1, m)) = m /\ \A j \in 1..m : SubSeq(s, 1, m)[j] = s[j]
  <2>1. \A j \in 1..m : j \in 1..Len(s) /\ 1 + j - 1 = j
    BY <1>1 DEF N
  <2>2. m - 1 + 1 = m /\ 1 <= m + 1 /\ 1 \in Nat
    BY <1>1
  <2> QED BY <1>1, <2>1, <2>2, SubSeqProperties DEF N
<1>7. f[N] \in Seq(S)
  BY <1>1, <1>2
<1> QED BY <1>1, <1>2, <1>5, <1>6, <1>7, SeqEqual

(* The positions of a stretch pick that stretch.                          *)
StretchOf(p, s, a, b) == Len(p) = b - a /\ \A j \in 1..(b - a) : p[j] = s[a + j]

LEMMA PickedStretch ==
  ASSUME NEW S, NEW s \in Seq(S), NEW a \in Nat, NEW b \in Nat, a <= b, b <= Len(s), NEW at,
         \A i \in 1..Len(s) : i \in at <=> a < i /\ i <= b
  PROVE  Picked(s, at) \in Seq(S) /\ StretchOf(Picked(s, at), s, a, b)
<1> DEFINE p == Picked(s, at)
           n == Len(p)
<1>1. p \in Seq(S)
  BY PickedType
<1>2. PICK from : ComesFrom(p, s, at, from)
  BY PickedFrom
<1> HIDE DEF p
<1>3. n \in Nat /\ Len(s) \in Nat
  BY <1>1
<1>4. /\ \A j \in 1..n : from[j] \in Int /\ a < from[j] /\ from[j] <= b /\ p[j] = s[from[j]]
      /\ \A i, j \in 1..n : i < j => from[i] < from[j]
      /\ \A i \in Int : a < i /\ i <= b => \E j \in 1..n : from[j] = i
  <2>1. /\ \A j \in 1..n : from[j] \in 1..Len(s) /\ from[j] \in at /\ p[j] = s[from[j]]
        /\ \A i, j \in 1..n : i < j => from[i] < from[j]
        /\ \A i \in 1..Len(s) : i \in at => \E j \in 1..n : from[j] = i
    BY <1>2 DEF ComesFrom
  <2> HIDE DEF n
  <2>2. \A j \in 1..n : from[j] \in Int /\ a < from[j] /\ from[j] <= b
    BY <1>3, <2>1
  <2>3. \A i \in Int : a < i /\ i <= b => i \in 1..Len(s) /\ i \in at
    BY <1>3
  <2> QED BY <2>1, <2>2, <2>3
<1> HIDE DEF n
<1> DEFINE T == {j \in 0..n : \A i \in 1..n : i <= j => from[i] = a + i}
<1>5. \A j \in 0..n : j \in T
  <2>1. 0 \in T
    BY <1>3
  <2>2. ASSUME NEW j \in 0..(n - 1), j \in T PROVE j + 1 \in T
    <3>1. j + 1 \in 1..n /\ j \in Nat
      BY <1>3
    <3>2. from[j + 1] \in Int /\ a < from[j + 1] /\ from[j + 1] <= b
      BY <1>4, <3>1
    <3>3. a + (j + 1) <= from[j + 1]
      <4>1. CASE j = 0
        BY <3>2, <4>1
      <4>2. CASE j # 0
        <5>1. j \in 1..n /\ from[j] = a + j /\ from[j] < from[j + 1]
          BY <1>4, <2>2, <3>1, <4>2
        <5> QED BY <3>1, <3>2, <5>1
      <4> QED BY <4>1, <4>2
    <3>4. PICK k \in 1..n : from[k] = a + (j + 1)
      BY <1>4, <3>1, <3>2, <3>3
    <3>5. ~(k <= j)
      BY <2>2, <3>1, <3>4
    <3>6. ~(j + 1 < k)
      <4> SUFFICES ASSUME j + 1 < k PROVE FALSE
        OBVIOUS
      <4>1. from[j + 1] < from[k]
        BY <1>4, <3>1
      <4> QED BY <3>1, <3>2, <3>3, <3>4, <4>1
    <3>7. from[j + 1] = a + (j + 1)
      BY <3>1, <3>4, <3>5, <3>6
    <3>8. \A i \in 1..n : i <= j + 1 => i <= j \/ i = j + 1
      BY <3>1
    <3> QED BY <2>2, <3>1, <3>7, <3>8
  <2> HIDE DEF T
  <2> QED BY <1>3, <2>1, <2>2, UpTo
<1>6. \A j \in 1..n : from[j] = a + j
  <2>1. n \in 0..n /\ n \in T
    BY <1>3, <1>5
  <2> QED BY <1>3, <2>1
<1>7. n = b - a
  <2>1. n <= b - a
    <3>1. n = 0 \/ n \in 1..n
      BY <1>3
    <3> QED BY <1>3, <1>4, <1>6, <3>1
  <2>2. ~(n < b - a)
    <3> SUFFICES ASSUME n < b - a PROVE FALSE
      OBVIOUS
    <3>1. PICK j \in 1..n : from[j] = a + (n + 1)
      BY <1>3, <1>4
    <3> QED BY <1>3, <1>6, <3>1
  <2> QED BY <1>3, <2>1, <2>2
<1> QED BY <1>1, <1>4, <1>6, <1>7 DEF n, p, StretchOf
=============================================================================
