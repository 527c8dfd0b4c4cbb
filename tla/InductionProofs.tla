-------------------------- MODULE InductionProofs --------------------------
(***************************************************************************)
(* Induction and recursion in first-order form.  The induction theorems of *)
(* the library quantify over operators, which the provers do not           *)
(* instantiate; here the property is a set, and the least element of the   *)
(* set of its counterexamples is what is refuted.                          *)
(***************************************************************************)
EXTENDS Naturals, TLAPS, WellFoundedInduction

(* Every non-empty set of numbers has a least one.                         *)
LEMMA LeastNumber ==
  ASSUME NEW T, T \subseteq Nat, T # {}
  PROVE  \E n \in T : \A m \in T : n <= m
<1> DEFINE R == {p \in Nat \X Nat : p[1] < p[2]}
<1>1. IsWellFoundedOn(R, Nat)
  BY NatLessThanWellFounded DEF OpToRel
<1>2. PICK n \in T : \A m \in T : <<m, n>> \notin R
  <2> HIDE DEF R
  <2>. QED BY <1>1, WFMin
<1>3. \A m \in T : n <= m
  <2> TAKE m \in T
  <2>1. m \in Nat /\ n \in Nat /\ ~ (m < n)  BY <1>2
  <2>. QED BY <2>1
<1>. QED BY <1>3

(* Induction up to n: a set with 0 that is closed under the successor.     *)
LEMMA InductionTo ==
  ASSUME NEW n \in Nat, NEW T, 0 \in T,
         \A k \in 0 .. n - 1 : k \in T => k + 1 \in T
  PROVE  \A k \in 0 .. n : k \in T
<1> SUFFICES ASSUME NEW j \in 0 .. n, j \notin T  PROVE FALSE
  OBVIOUS
<1> DEFINE Missing == (0 .. n) \ T
<1>1. PICK m \in Missing : \A k \in Missing : m <= k
  <2>1. Missing \subseteq Nat /\ Missing # {}  OBVIOUS
  <2> HIDE DEF Missing
  <2>. QED BY <2>1, LeastNumber
<1>2. m \in 0 .. n /\ m \notin T /\ m # 0  OBVIOUS
<1>3. m - 1 \in 0 .. n - 1 /\ (m - 1) + 1 = m  BY <1>2
<1>4. m - 1 \notin Missing  BY <1>1, <1>2
<1>. QED BY <1>2, <1>3, <1>4

\* F takes step k of a recursion up to n inside S; g is the recursion from c.
StepsIn(F, n, S) == \A k \in 0 .. n - 1, x \in S : F[k][x] \in S
Recursion(g, n, S, c, F) ==
    /\ g \in [0 .. n -> S] /\ g[0] = c
    /\ \A k \in 0 .. n - 1 : g[k + 1] = F[k][g[k]]

(* A recursion up to n has a table.                                        *)
LEMMA RecursionTo ==
  ASSUME NEW n \in Nat, NEW S, NEW c \in S, NEW F, StepsIn(F, n, S)
  PROVE  \E g : Recursion(g, n, S, c, F)
<1> DEFINE Run(m, g) == /\ g \in [0 .. m -> S] /\ g[0] = c
                        /\ \A k \in 0 .. m - 1 : g[k + 1] = F[k][g[k]]
           T == {m \in 0 .. n : \E g : Run(m, g)}
<1>1. 0 \in T
  <2> DEFINE start == [k \in 0 .. 0 |-> c]
  <2>1. Run(0, start)  OBVIOUS
  <2> HIDE DEF Run, start
  <2>2. 0 \in 0 .. n  OBVIOUS
  <2>. QED BY <2>1, <2>2
<1>2. ASSUME NEW m \in 0 .. n - 1, m \in T  PROVE m + 1 \in T
  <2>1. PICK g : Run(m, g)  BY <1>2
  <2> DEFINE h == [k \in 0 .. m + 1 |-> IF k = m + 1 THEN F[m][g[m]] ELSE g[k]]
  <2>2. m + 1 \in 0 .. n /\ m \in 0 .. m /\ g[m] \in S  BY <2>1
  <2>3. F[m][g[m]] \in S  BY <2>2 DEF StepsIn
  <2>4. h \in [0 .. m + 1 -> S] /\ h[0] = c  BY <2>1, <2>3
  <2>5. \A k \in 0 .. m : h[k + 1] = F[k][h[k]]
    <3> TAKE k \in 0 .. m
    <3>1. CASE k = m
      <4>1. h[m] = g[m] /\ h[m + 1] = F[m][g[m]]  OBVIOUS
      <4>. QED BY <3>1, <4>1
    <3>2. CASE k # m
      <4>1. k \in 0 .. m - 1 /\ h[k] = g[k] /\ h[k + 1] = g[k + 1]  BY <3>2
      <4>. QED BY <2>1, <4>1
    <3>. QED BY <3>1, <3>2
  <2>6. Run(m + 1, h)
    <3> HIDE DEF h
    <3>. QED BY <2>4, <2>5
  <2>. QED BY <2>2, <2>6
<1>3. \A k \in 0 .. n : k \in T
  <2> HIDE DEF T
  <2>. QED BY <1>1, <1>2, InductionTo
<1>4. \E g : Run(n, g)
  <2>1. n \in T
    <3> HIDE DEF T
    <3>. QED BY <1>3
  <2>. QED BY <2>1
<1>. QED BY <1>4 DEF Recursion
=============================================================================
