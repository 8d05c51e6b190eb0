---------------------------- MODULE NaturalLemmas ----------------------------
(***************************************************************************)
(* What the proofs need of the order of the naturals: a set of them that   *)
(* is not empty has a least element.  It stands in for induction, whose    *)
(* theorems take the formula as an operator: a proof by induction takes    *)
(* the least counterexample instead.                                       *)
(***************************************************************************)
EXTENDS Naturals, WellFoundedInduction, TLAPS

Less == {ss \in Nat \X Nat : ss[1] < ss[2]}

LEMMA LessIsWellFounded == IsWellFoundedOn(Less, Nat)
<1>1. IsWellFoundedOn(OpToRel(<, Nat), Nat)
  BY NatLessThanWellFounded
<1>2. IsWellFoundedOn({ss \in Nat \X Nat : ss[1] < ss[2]}, Nat)
  BY <1>1, Zenon DEF OpToRel
<1> QED
  BY <1>2, Zenon DEF Less

LEMMA Least ==
  ASSUME NEW T, T \subseteq Nat, T # {}
  PROVE  \E m \in T : \A n \in T : m <= n
<1>1. PICK m \in T : \A n \in T : ~ (<<n, m>> \in Less)
  BY LessIsWellFounded, WFMin, Zenon
<1>2. ASSUME NEW n \in T PROVE m <= n
  <2>1. m \in Nat /\ n \in Nat
    OBVIOUS
  <2>2. n < m => <<n, m>> \in Less
    BY <2>1 DEF Less
  <2>3. ~ (n < m)
    BY <1>1, <2>2
  <2> QED
    BY <2>1, <2>3
<1> QED
  BY <1>2

(* What holds of 0, and of a number when it holds of the one before.       *)
LEMMA UpTo ==
  ASSUME NEW N \in Nat, NEW T, 0 \in T, \A n \in 1 .. N : n - 1 \in T => n \in T
  PROVE  0 .. N \subseteq T
<1> DEFINE Missed == (0 .. N) \ T
<1>1. SUFFICES ASSUME Missed # {} PROVE FALSE
  OBVIOUS
<1>2. PICK m \in Missed : \A n \in Missed : m <= n
  <2>1. Missed \subseteq Nat
    OBVIOUS
  <2> QED
    BY <1>1, <2>1, Least, Zenon
<1>3. m \in 0 .. N /\ m \notin T /\ m # 0
  OBVIOUS
<1>4. m - 1 \in 0 .. N /\ ~ (m <= m - 1) /\ m \in 1 .. N
  BY <1>3
<1>5. m - 1 \in T
  BY <1>2, <1>4
<1> QED
  BY <1>3, <1>4, <1>5

(* A function that is defined from its value one below exists.             *)
Iterates(f, N, V, base, H) ==
    f \in [0 .. N -> V] /\ f[0] = base /\ \A n \in 1 .. N : f[n] = H[<<f[n - 1], n>>]
Steps(H, N, V) == \A x \in V, n \in 1 .. N : H[<<x, n>>] \in V

LEMMA Recursion ==
  ASSUME NEW N \in Nat, NEW V, NEW base \in V, NEW H, Steps(H, N, V)
  PROVE  \E f : Iterates(f, N, V, base, H)
<1> DEFINE Solves(f, m) == Iterates(f, m, V, base, H)
           T == {m \in 0 .. N : \E f : Solves(f, m)}
<1>1. 0 \in T
  <2>1. Solves([n \in 0 .. 0 |-> base], 0)
    BY DEF Iterates
  <2> HIDE DEF Solves
  <2> QED
    BY <2>1
<1>2. ASSUME NEW m \in 1 .. N, m - 1 \in T PROVE m \in T
  <2>1. PICK f : Solves(f, m - 1)
    BY <1>2
  <2> DEFINE g == [n \in 0 .. m |-> IF n = m THEN H[<<f[m - 1], m>>] ELSE f[n]]
  <2>2. m - 1 \in 0 .. m - 1 /\ m \in Nat
    OBVIOUS
  <2>3. f[m - 1] \in V
    BY <2>1, <2>2 DEF Iterates
  <2>4. H[<<f[m - 1], m>>] \in V
    BY <2>3 DEF Steps
  <2>5. \A n \in 0 .. m : n # m => n \in 0 .. m - 1
    BY <2>2
  <2>6. g \in [0 .. m -> V]
    BY <2>1, <2>4, <2>5 DEF Iterates
  <2>7. g[0] = base
    BY <2>1, <2>2 DEF Iterates
  <2>8. ASSUME NEW n \in 1 .. m PROVE g[n] = H[<<g[n - 1], n>>]
    <3>1. n \in 0 .. m /\ n - 1 \in 0 .. m /\ n - 1 # m
      BY <2>2
    <3>2. g[n - 1] = f[n - 1]
      BY <3>1
    <3>3. CASE n = m
      BY <3>1, <3>2, <3>3
    <3>4. CASE n # m
      <4>1. n \in 1 .. m - 1
        BY <2>2, <3>4
      <4>2. f[n] = H[<<f[n - 1], n>>]
        BY <2>1, <4>1 DEF Iterates
      <4>3. g[n] = f[n]
        BY <3>1, <3>4
      <4> HIDE DEF g
      <4> QED
        BY <3>2, <4>2, <4>3
    <3> QED
      BY <3>3, <3>4
  <2> HIDE DEF g
  <2>9. Solves(g, m) /\ m \in 0 .. N
    BY <2>6, <2>7, <2>8 DEF Iterates
  <2> HIDE DEF Solves
  <2> QED
    BY <2>9
<1>3. N \in T
  <2>1. N \in 0 .. N
    OBVIOUS
  <2> HIDE DEF T
  <2>2. 0 .. N \subseteq T
    BY <1>1, <1>2, UpTo
  <2> QED
    BY <2>1, <2>2
<1> QED
  BY <1>3
=============================================================================
