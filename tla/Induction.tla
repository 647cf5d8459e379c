----------------------------- MODULE Induction -----------------------------
(***************************************************************************)
(* Induction over the natural numbers for a set, not for a predicate: a    *)
(* predicate P is proved of every number through {n \in Nat : P(n)}.       *)
(***************************************************************************)
EXTENDS Integers, WellFoundedInduction, NaturalsInduction, TLAPS

\* Every nonempty set of natural numbers has a least element.
LEMMA LeastElement ==
  ASSUME NEW T, T \subseteq Nat, T # {}
  PROVE  \E x \in T : \A y \in T : x <= y
<1> DEFINE R == OpToRel(<, Nat)
<1>1. IsWellFoundedOn(R, Nat)
  BY NatLessThanWellFounded
<1>2. \A x, y \in Nat : y < x => <<y, x>> \in R
  BY DEF OpToRel
<1> HIDE DEF R
<1>3. PICK x \in T : \A y \in T : ~(<<y, x>> \in R)
  BY <1>1, WFMin
<1>4. \A y \in T : x \in Nat /\ y \in Nat /\ ~(y < x)
  BY <1>2, <1>3
<1> QED BY <1>4

\* A set that has 0, and with every number its successor, has all of them.
LEMMA SetInduction ==
  ASSUME NEW S, 0 \in S, \A n \in Nat : n \in S => n + 1 \in S
  PROVE  \A n \in Nat : n \in S
<1> DEFINE T == Nat \ S
<1> SUFFICES ASSUME T # {} PROVE FALSE
  OBVIOUS
<1>1. T \subseteq Nat
  OBVIOUS
<1> HIDE DEF T
<1>2. PICK x \in T : \A y \in T : x <= y
  BY <1>1, LeastElement
<1> USE DEF T
<1>3. x \in Nat /\ x # 0 /\ x \notin S
  BY <1>2
<1>4. x - 1 \in Nat /\ x - 1 \notin T
  BY <1>2, <1>3
<1>5. (x - 1) + 1 \in S
  BY <1>4
<1> QED BY <1>3, <1>5

-----------------------------------------------------------------------------
(* Recursion on a measure: a rule R for the value of a function f at x,    *)
(* which looks at the values of f at smaller places only, has a solution.  *)

\* The rule looks at smaller places only.
LooksBelow(X, V, mu, R) ==
  \A x \in X : \A f, g \in [X -> V] :
    (\A y \in X : mu[y] < mu[x] => f[y] = g[y]) => R[<<f, x>>] = R[<<g, x>>]

\* f follows the rule at the places below k.
FollowsBelow(X, mu, R, f, k) == \A x \in X : mu[x] < k => f[x] = R[<<f, x>>]

\* f is a function that follows the rule everywhere.
IsSolution(X, V, R, f) == f \in [X -> V] /\ \A x \in X : f[x] = R[<<f, x>>]

\* The functions that follow the rule up to some number agree up to there, and
\* together they follow it everywhere.
LEMMA Recursion ==
  ASSUME NEW X, NEW V, V # {}, NEW mu \in [X -> Nat], NEW R \in [[X -> V] \X X -> V],
         LooksBelow(X, V, mu, R)
  PROVE  \E f : IsSolution(X, V, R, f)
<1> DEFINE F == [X -> V]
           Follows(f, k) == FollowsBelow(X, mu, R, f, k)
           Solvable == {k \in Nat : \E f \in F : Follows(f, k)}
<1>1. ASSUME NEW x \in X, NEW f \in F, NEW g \in F, \A y \in X : mu[y] < mu[x] => f[y] = g[y]
      PROVE  R[<<f, x>>] = R[<<g, x>>]
  BY <1>1 DEF LooksBelow
<1>2. \A x \in X : mu[x] \in Nat
  OBVIOUS
<1>3. \A f \in F : \A x \in X : R[<<f, x>>] \in V
  OBVIOUS
<1>4. 0 \in Solvable
  <2>1. PICK v : v \in V
    OBVIOUS
  <2>2. [x \in X |-> v] \in F
    BY <2>1
  <2>3. Follows([x \in X |-> v], 0)
    BY <1>2 DEF FollowsBelow
  <2> QED BY <2>2, <2>3
<1>5. ASSUME NEW k \in Nat, k \in Solvable PROVE k + 1 \in Solvable
  <2>1. PICK f \in F : Follows(f, k)
    BY <1>5
  <2> DEFINE g == [x \in X |-> IF mu[x] < k THEN f[x] ELSE R[<<f, x>>]]
  <2>2. g \in F
    BY <1>3
  <2>3. \A x \in X : g[x] = IF mu[x] < k THEN f[x] ELSE R[<<f, x>>]
    OBVIOUS
  <2>4. \A x \in X : mu[x] < k => g[x] = f[x]
    OBVIOUS
  <2> HIDE DEF g
  <2>5. ASSUME NEW x \in X, mu[x] < k + 1 PROVE g[x] = R[<<g, x>>]
    <3>1. \A y \in X : mu[y] < mu[x] => g[y] = f[y]
      BY <1>2, <2>4, <2>5
    <3>2. R[<<g, x>>] = R[<<f, x>>]
      BY <1>1, <2>2, <3>1
    <3>3. g[x] = R[<<f, x>>]
      BY <2>1, <2>3 DEF FollowsBelow
    <3> QED BY <3>2, <3>3
  <2>6. Follows(g, k + 1)
    BY <2>5 DEF FollowsBelow
  <2> QED BY <2>2, <2>6
<1>6. \A k \in Nat : \E f \in F : Follows(f, k)
  <2> HIDE DEF Solvable
  <2>1. \A k \in Nat : k \in Solvable
    BY <1>4, <1>5, SetInduction
  <2> QED BY <2>1 DEF Solvable
<1>7. ASSUME NEW k \in Nat, NEW f \in F, NEW g \in F, Follows(f, k), Follows(g, k)
      PROVE  \A x \in X : mu[x] < k => f[x] = g[x]
  <2> DEFINE Agree == {j \in Nat : \A x \in X : mu[x] < j /\ mu[x] < k => f[x] = g[x]}
  <2>1. 0 \in Agree
    BY <1>2
  <2>2. ASSUME NEW j \in Nat, j \in Agree PROVE j + 1 \in Agree
    <3>1. ASSUME NEW x \in X, mu[x] < j + 1, mu[x] < k PROVE f[x] = g[x]
      <4>1. \A y \in X : mu[y] < mu[x] => f[y] = g[y]
        BY <1>2, <2>2, <3>1
      <4>2. R[<<f, x>>] = R[<<g, x>>]
        BY <1>1, <4>1
      <4> QED BY <1>7, <3>1, <4>2 DEF FollowsBelow
    <3> QED BY <3>1
  <2> HIDE DEF Agree
  <2>3. k \in Agree
    BY <2>1, <2>2, SetInduction
  <2> QED BY <2>3 DEF Agree
<1> DEFINE part(k) == CHOOSE f \in F : Follows(f, k)
           whole == [x \in X |-> part(mu[x] + 1)[x]]
<1>8. \A k \in Nat : part(k) \in F /\ Follows(part(k), k)
  BY <1>6
<1> HIDE DEF part
<1>9. whole \in F
  <2>1. ASSUME NEW x \in X PROVE part(mu[x] + 1)[x] \in V
    <3>1. mu[x] + 1 \in Nat
      BY <1>2
    <3>2. part(mu[x] + 1) \in F
      BY <1>8, <3>1
    <3> QED BY <3>2
  <2> QED BY <2>1
<1>10. \A x \in X : whole[x] = part(mu[x] + 1)[x]
  OBVIOUS
<1> HIDE DEF whole
<1>11. ASSUME NEW x \in X PROVE whole[x] = R[<<whole, x>>]
  <2> DEFINE n == mu[x] + 1
             f == part(n)
  <2>1. n \in Nat /\ f \in F /\ Follows(f, n) /\ mu[x] < n
    BY <1>2, <1>8
  <2>2. whole[x] = f[x]
    BY <1>10
  <2> HIDE DEF f
  <2>3. f[x] = R[<<f, x>>]
    BY <2>1 DEF FollowsBelow
  <2>4. ASSUME NEW y \in X, mu[y] < mu[x] PROVE whole[y] = f[y]
    <3> DEFINE m == mu[y] + 1
               g == part(m)
    <3>1. m \in Nat /\ g \in F /\ Follows(g, m) /\ mu[y] < m /\ m < n
      BY <1>2, <1>8, <2>4
    <3>2. whole[y] = g[y]
      BY <1>10
    <3> HIDE DEF g, m, n
    <3>3. Follows(f, m)
      BY <1>2, <2>1, <3>1 DEF FollowsBelow
    <3>4. g[y] = f[y]
      BY <1>7, <2>1, <3>1, <3>3
    <3> QED BY <3>2, <3>4
  <2>5. R[<<whole, x>>] = R[<<f, x>>]
    BY <1>1, <1>9, <2>1, <2>4
  <2> QED BY <2>2, <2>3, <2>5
<1> QED BY <1>9, <1>11 DEF IsSolution
=============================================================================
