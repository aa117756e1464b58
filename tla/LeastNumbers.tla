---------------------------- MODULE LeastNumbers ----------------------------
(***************************************************************************)
(* The least number principle for sets of natural numbers, which is what   *)
(* the proofs use in place of induction, and what follows from it: that    *)
(* definitions by recursion have a solution.                               *)
(***************************************************************************)
EXTENDS Integers, FiniteSetTheorems, WellFoundedInduction, TLAPS

(* A set of natural numbers has a least one, since their order is          *)
(* well-founded.                                                           *)
LEMMA LeastNumber ==
  ASSUME NEW T \in SUBSET Nat, T # {}
  PROVE  \E x \in T : \A y \in T : x <= y
<1>1. PICK x \in T : \A y \in T : ~(<<y, x>> \in OpToRel(<, Nat))
  BY NatLessThanWellFounded, WFMin
<1>2. \A y \in T : ~(y < x)
  BY <1>1 DEF OpToRel
<1> QED
  BY <1>2

(* ... and, when it is bounded, a greatest one. *)
LEMMA GreatestNumber ==
  ASSUME NEW n \in Nat, NEW T \in SUBSET (1..n), T # {}
  PROVE  \E x \in T : \A y \in T : y <= x
<1> DEFINE R == {k \in Nat : n - k \in T}
<1>1. PICK y \in T : TRUE
  OBVIOUS
<1>2. n - y \in R
  BY <1>1
<1>3. PICK r \in R : \A q \in R : r <= q
  <2>1. R \in SUBSET Nat /\ R # {}
    BY <1>2
  <2> HIDE DEF R
  <2> QED
    BY <2>1, LeastNumber
<1>4. n - r \in T
  BY <1>3
<1>5. ASSUME NEW z \in T PROVE z <= n - r
  <2>1. n - z \in R /\ r \in Nat /\ z \in Nat
    OBVIOUS
  <2>2. r <= n - z
    BY <1>3, <2>1
  <2> QED
    BY <2>1, <2>2
<1> QED
  BY <1>4, <1>5

(* Things that are finitely many, each with a number: if for each of them  *)
(* there were another one with a greater number, there are none.           *)
LEMMA NoAscent ==
  ASSUME NEW S, IsFiniteSet(S), NEW f \in [S -> Nat],
         \A s \in S : \E t \in S : f[s] < f[t]
  PROVE  S = {}
<1> SUFFICES ASSUME S # {} PROVE FALSE
  OBVIOUS
<1> DEFINE Above(s) == {t \in S : f[s] < f[t]}
           C == {n \in Nat : \E s \in S : n = Cardinality(Above(s))}
<1>1. \A s \in S : IsFiniteSet(Above(s)) /\ Cardinality(Above(s)) \in Nat
  <2> SUFFICES ASSUME NEW s \in S
               PROVE  IsFiniteSet(Above(s)) /\ Cardinality(Above(s)) \in Nat
    OBVIOUS
  <2>1. Above(s) \in SUBSET S
    OBVIOUS
  <2> HIDE DEF Above
  <2> QED
    BY <2>1, FS_Subset, FS_CardinalityType
<1>2. PICK n \in C : \A m \in C : n <= m
  <2>1. C \in SUBSET Nat /\ C # {}
    BY <1>1
  <2> HIDE DEF C
  <2> QED
    BY <2>1, LeastNumber
<1>3. PICK s \in S : n = Cardinality(Above(s))
  OBVIOUS
<1>4. PICK t \in S : f[s] < f[t]
  OBVIOUS
<1>5. Above(t) \in SUBSET Above(s) /\ t \in Above(s) /\ t \notin Above(t)
  BY <1>4
<1>6. n <= Cardinality(Above(t))
  BY <1>1, <1>2
<1> HIDE DEF Above, C
<1>7. /\ Cardinality(Above(t)) <= Cardinality(Above(s))
      /\ Cardinality(Above(t)) # Cardinality(Above(s))
  BY <1>1, <1>5, FS_Subset
<1> QED
  BY <1>1, <1>3, <1>6, <1>7

(* Induction, for a set. *)
LEMMA SetInduction ==
  ASSUME NEW T, 0 \in T, \A n \in Nat : n \in T => n + 1 \in T
  PROVE  Nat \subseteq T
<1> SUFFICES ASSUME Nat \ T # {} PROVE FALSE
  OBVIOUS
<1>1. PICK x \in Nat \ T : \A y \in Nat \ T : x <= y
  BY LeastNumber
<1>2. x - 1 \in Nat /\ x - 1 \notin T
  <2>1. x # 0
    BY <1>1
  <2>2. x - 1 \in Nat /\ (x - 1) + 1 = x
    BY <2>1
  <2> QED
    BY <2>2
<1> QED
  BY <1>1, <1>2

(* A definition by recursion over the numbers of D: for those in P from    *)
(* the value for a smaller one, for the others directly.                   *)
Founded(D, S, P, prev, base, step) ==
  /\ D \subseteq Nat
  /\ \A n \in D \cap P : prev[n] \in D /\ prev[n] < n
  /\ \A n \in D \ P : base[n] \in S
  /\ \A n \in D \cap P, s \in S : step[n][s] \in S

Solves(g, D, P, prev, base, step) ==
  \A n \in D : g[n] = IF n \in P THEN step[n][g[prev[n]]] ELSE base[n]

(* There is such a function. *)
LEMMA RecursionExists ==
  ASSUME NEW D, NEW S, NEW P, NEW prev, NEW base, NEW step, Founded(D, S, P, prev, base, step)
  PROVE  \E g \in [D -> S] : Solves(g, D, P, prev, base, step)
<1> USE DEF Founded
<1> DEFINE Closed(X) == /\ \A n \in D \ P : <<n, base[n]>> \in X
                        /\ \A n \in D \cap P, s \in S :
                             <<prev[n], s>> \in X => <<n, step[n][s]>> \in X
           R == {x \in D \X S : \A X \in SUBSET (D \X S) : Closed(X) => x \in X}
           Only(n, s) == <<n, s>> \in R /\ \A r \in S : <<n, r>> \in R => r = s
           Good == {n \in D : \E s \in S : Only(n, s)}
<1>1. Closed(R)
  OBVIOUS
<1>2. ASSUME NEW n \in D, NEW s \in S, <<n, s>> \in R,
             n \in P => \A r \in S : <<prev[n], r>> \in R => step[n][r] = s,
             n \notin P => base[n] = s
      PROVE  Only(n, s)
  <2> DEFINE X == {x \in R : x[1] = n => x[2] = s}
  <2>1. Closed(X)
    <3>1. \A m \in D \ P : <<m, base[m]>> \in X
      BY <1>1, <1>2
    <3>2. ASSUME NEW m \in D \cap P, NEW r \in S, <<prev[m], r>> \in X
          PROVE  <<m, step[m][r]>> \in X
      <4>1. <<prev[m], r>> \in R
        BY <3>2
      <4>2. <<m, step[m][r]>> \in R
        BY <1>1, <4>1
      <4>3. m = n => step[m][r] = s
        BY <1>2, <4>1
      <4> HIDE DEF R
      <4> QED
        BY <4>2, <4>3
    <3> QED
      BY <3>1, <3>2
  <2>2. X \in SUBSET (D \X S)
    OBVIOUS
  <2> HIDE DEF Closed
  <2>3. R \subseteq X
    BY <2>1, <2>2
  <2> HIDE DEF R
  <2>4. \A r \in S : <<n, r>> \in R => r = s
    BY <2>3
  <2> QED
    BY <1>2, <2>4
<1> HIDE DEF R
<1>3. D \subseteq Good
  <2> SUFFICES ASSUME D \ Good # {} PROVE FALSE
    OBVIOUS
  <2>1. PICK n \in D \ Good : \A m \in D \ Good : n <= m
    <3> HIDE DEF Good
    <3>1. D \ Good \in SUBSET Nat
      OBVIOUS
    <3> QED
      BY <3>1, LeastNumber
  <2>2. CASE n \notin P
    <3>1. base[n] \in S /\ <<n, base[n]>> \in R
      BY <1>1, <2>2
    <3>2. Only(n, base[n])
      BY <1>2, <2>2, <3>1
    <3> QED
      BY <2>1, <3>1, <3>2
  <2>3. CASE n \in P
    <3>1. prev[n] \in D /\ prev[n] \in Nat /\ n \in Nat /\ prev[n] < n
      BY <2>3
    <3>2. prev[n] \in Good
      <4> HIDE DEF Good
      <4> SUFFICES ASSUME prev[n] \notin Good PROVE FALSE
        OBVIOUS
      <4>1. n <= prev[n]
        BY <2>1, <3>1
      <4> QED
        BY <3>1, <4>1
    <3>3. PICK s \in S : Only(prev[n], s)
      BY <3>2
    <3>4. step[n][s] \in S /\ <<n, step[n][s]>> \in R
      BY <1>1, <2>3, <3>3
    <3>5. Only(n, step[n][s])
      BY <1>2, <2>3, <3>3, <3>4
    <3> QED
      BY <2>1, <3>4, <3>5
  <2> QED
    BY <2>2, <2>3
<1> DEFINE g == [n \in D |-> CHOOSE s \in S : <<n, s>> \in R]
<1>4. ASSUME NEW n \in D PROVE g[n] \in S /\ <<n, g[n]>> \in R
                               /\ \A s \in S : <<n, s>> \in R => s = g[n]
  BY <1>3
<1> HIDE DEF g
<1>5. g \in [D -> S]
  BY <1>4 DEF g
<1>6. ASSUME NEW n \in D PROVE g[n] = IF n \in P THEN step[n][g[prev[n]]] ELSE base[n]
  <2>1. CASE n \notin P
    <3>1. <<n, base[n]>> \in R /\ base[n] \in S
      BY <1>1, <2>1
    <3> QED
      BY <1>4, <2>1, <3>1
  <2>2. CASE n \in P
    <3>1. prev[n] \in D
      BY <2>2
    <3>2. <<prev[n], g[prev[n]]>> \in R /\ g[prev[n]] \in S
      BY <1>4, <3>1
    <3>3. <<n, step[n][g[prev[n]]]>> \in R /\ step[n][g[prev[n]]] \in S
      BY <1>1, <2>2, <3>2
    <3> QED
      BY <1>4, <2>2, <3>3
  <2> QED
    BY <2>1, <2>2
<1> QED
  BY <1>5, <1>6 DEF Solves
=============================================================================
