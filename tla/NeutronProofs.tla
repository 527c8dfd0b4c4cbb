--------------------------- MODULE NeutronProofs ---------------------------
(***************************************************************************)
(* Theorems about NeutronNova's folding (ZeroFold) and about its IVC       *)
(* (NeutronIVC), one part each; MCNeutron checks the two side by side.     *)
(***************************************************************************)
EXTENDS ZeroFold, NeutronIVC, RingProofs
----------------------------------------------------------------------------
(***************************************************************************)
(* Theorems about ZeroFold for every field, every structure and every      *)
(* sequence of folds: vectors keep their lengths, the prover, the native   *)
(* verifier and the circuit agree on the running instance, and a fold is   *)
(* complete and, away from the points of its polynomial, sound.            *)
(*                                                                         *)
(* The agreement rests on what a message is worth to a verifier that has   *)
(* not used it: it has the prover's previous instance, the oracle answers  *)
(* its queries as it answered the prover's, the claim T is what the        *)
(* polynomial sums to, and the factor that is divided by is not zero.      *)
(*                                                                         *)
(* Completeness and soundness rest on the degree of the round polynomial:  *)
(* the products are linear on the line between the pairs, so the weighted  *)
(* sum times eq has degree five, the six values determine it, and the      *)
(* value at 1, which is claimed and not computed, enters what the fold     *)
(* claims with the Lagrange basis at 1.                                    *)
(***************************************************************************)

LEMMA LerpType ==
  ASSUME NEW x \in Scalar, NEW y \in Scalar, NEW r \in Scalar
  PROVE  Lerp(x, r, y) \in Scalar
<1>1. y -- x \in Scalar  BY RingClosed
<1>2. r ** (y -- x) \in Scalar  BY <1>1, RingClosed
<1>. QED BY <1>2, RingClosed DEF Lerp

LEMMA LerpVecType ==
  ASSUME NEW S, NEW x \in Vec(S), NEW y \in Vec(S), NEW r \in Scalar
  PROVE  LerpVec(x, r, y) \in Vec(S)
<1>1. DOMAIN x = S /\ \A i \in S : x[i] \in Scalar /\ y[i] \in Scalar
  BY DEF Vec
<1>2. \A i \in S : Lerp(x[i], r, y[i]) \in Scalar  BY <1>1, LerpType
<1>. QED BY <1>1, <1>2 DEF LerpVec, Vec

LEMMA CommLerpType ==
  ASSUME NEW S, NEW c1 \in Commitment(S), NEW c2 \in Commitment(S), NEW r \in Scalar
  PROVE  CommLerp(c1, r, c2) \in Commitment(S)
<1>1. /\ c1.v \in Vec(S) /\ c2.v \in Vec(S)
      /\ c1.r \in Scalar /\ c2.r \in Scalar
  BY DEF Commitment
<1>. QED BY <1>1, LerpType, LerpVecType DEF CommLerp, Commitment

LEMMA CommitType ==
  ASSUME NEW S, NEW v \in Vec(S), NEW r \in Scalar
  PROVE  Commit(v, r) \in Commitment(S)
BY DEF Commit, Commitment

LEMMA ZeroVecType ==
  ASSUME NEW S
  PROVE  ZeroVec(S) \in Vec(S)
BY RingAssumption DEF ZeroVec, Vec

LEMMA ZVecType ==
  ASSUME NEW W \in Vec(Vars), NEW u \in Scalar, NEW X \in Vec(IO)
  PROVE  ZVec(W, u, X) \in Vec(Cols)
BY DEF ZVec, Vec, Cols

(* The points of a round polynomial: Zero, One, One ++ One and so on.      *)
LEMMA PointsOf ==
  /\ \A i \in Points : from[i] \in Scalar
  /\ from[0] = Zero /\ from[1] = One
<1> DEFINE n == 5
           Is(p) == p = [i \in 0 .. n |-> IF i = 0 THEN Zero ELSE p[i - 1] ++ One]
           F == [k \in 0 .. n - 1 |-> [x \in Scalar |-> x ++ One]]
<1>0. n \in Nat /\ 1 \in 0 .. n  OBVIOUS
<1>1. from = CHOOSE q : Is(q)  BY DEF from, Points
<1>2. Points = 0 .. n  BY DEF Points
<1> HIDE DEF n
<1>3. \A k \in 0 .. n - 1 : \A x \in Scalar : F[k][x] = x ++ One  OBVIOUS
<1>4. Zero \in Scalar /\ One \in Scalar  BY RingAssumption
<1>5. PICK p : Recursion(p, n, Scalar, Zero, F)
  <2> HIDE DEF F
  <2>1. \A x \in Scalar : x ++ One \in Scalar  BY <1>4, RingClosed
  <2>2. StepsIn(F, n, Scalar)  BY <1>3, <2>1 DEF StepsIn
  <2>. QED BY <1>0, <1>4, <2>2, RecursionTo
<1>6. p \in [0 .. n -> Scalar] /\ p[0] = Zero  BY <1>5 DEF Recursion
<1>7. \A k \in 0 .. n - 1 : p[k + 1] = p[k] ++ One
  <2> HIDE DEF F
  <2>1. \A k \in 0 .. n - 1 : p[k] \in Scalar /\ p[k + 1] = F[k][p[k]]
    BY <1>0, <1>5 DEF Recursion
  <2>. QED BY <1>3, <2>1
<1>8. Is(p)
  <2>1. \A i \in 0 .. n : i # 0 => i - 1 \in 0 .. n - 1 /\ (i - 1) + 1 = i  BY <1>0
  <2>2. \A i \in 0 .. n : p[i] = IF i = 0 THEN Zero ELSE p[i - 1] ++ One
    BY <1>6, <1>7, <2>1
  <2>. QED BY <1>6, <2>2
<1>9. Is(from)
  <2> HIDE DEF Is
  <2>. QED BY <1>1, <1>8
<1>10. from[0] = Zero /\ from[1] = from[0] ++ One  BY <1>0, <1>9
<1>11. \A i \in 0 .. n : from[i] \in Scalar
  <2> DEFINE T == {i \in 0 .. n : from[i] \in Scalar}
  <2>1. 0 \in T  BY <1>0, <1>4, <1>10
  <2>2. ASSUME NEW k \in 0 .. n - 1, k \in T  PROVE k + 1 \in T
    <3>1. k + 1 \in 0 .. n /\ k + 1 # 0 /\ (k + 1) - 1 = k  BY <1>0
    <3>2. from[k + 1] = from[k] ++ One  BY <1>9, <3>1
    <3>. QED BY <1>4, <2>2, <3>1, <3>2, RingClosed
  <2>3. \A i \in 0 .. n : i \in T
    <3> HIDE DEF T
    <3>. QED BY <1>0, <2>1, <2>2, InductionTo
  <2>. QED BY <2>3
<1>12. Zero ++ One = One
  <2>1. One ++ Zero = One /\ One ++ Zero = Zero ++ One  BY <1>4, RingAssumption
  <2>. QED BY <2>1
<1>. QED BY <1>2, <1>10, <1>11, <1>12

LEMMA PowerType ==
  ASSUME NEW t \in Scalar, NEW n \in Nat
  PROVE  Power(t, n) \in Scalar
<1> DEFINE f == [k \in 0 .. n - 1 |-> t]
<1>1. \A k \in 0 .. n - 1 : f[k] \in Scalar  OBVIOUS
<1> HIDE DEF f
<1>2. Product(n, f) \in Scalar  BY <1>1, ProductType
<1>. QED BY <1>2 DEF Power, f

(* The differences of the points are not zero, nor are their inverses.     *)
LEMMA PointsDiffer ==
  ASSUME NEW i \in Points, NEW j \in Points, i # j
  PROVE  /\ from[i] -- from[j] \in Scalar /\ FieldInv(from[i] -- from[j]) \in Scalar
         /\ (from[i] -- from[j]) ** FieldInv(from[i] -- from[j]) = One
         /\ from[i] -- from[j] # Zero /\ FieldInv(from[i] -- from[j]) # Zero
<1> DEFINE d == from[i] -- from[j]
<1>1. from[i] \in Scalar /\ from[j] \in Scalar /\ from[i] # from[j]
  BY PointsOf, InverseAssumption
<1>2. d \in Scalar /\ d # Zero  BY <1>1, RingClosed, SubZero
<1> HIDE DEF d
<1>3. FieldInv(d) \in Scalar /\ d ** FieldInv(d) = One  BY <1>2, InverseAssumption
<1>4. FieldInv(d) # Zero  BY <1>2, <1>3, MulZero, DomainAssumption
<1>. QED BY <1>2, <1>3, <1>4 DEF d

\* The factors of basis(i, r).
basis_factor(i, r) ==
    [j \in Points |-> IF j = i THEN One
                      ELSE (r -- from[j]) ** FieldInv(from[i] -- from[j])]

LEMMA BasisFactors ==
  ASSUME NEW i \in Points, NEW r \in Scalar
  PROVE  /\ basis(i, r) = Product(6, basis_factor(i, r))
         /\ \A j \in 0 .. 6 - 1 : basis_factor(i, r)[j] \in Scalar
<1>1. 0 .. 6 - 1 = Points  BY DEF Points
<1>2. ASSUME NEW j \in Points  PROVE basis_factor(i, r)[j] \in Scalar
  <2>1. CASE j = i  BY <2>1, RingAssumption DEF basis_factor
  <2>2. CASE j # i
    <3>1. r -- from[j] \in Scalar  BY PointsOf, RingClosed
    <3>2. FieldInv(from[i] -- from[j]) \in Scalar  BY <2>2, PointsDiffer
    <3>3. (r -- from[j]) ** FieldInv(from[i] -- from[j]) \in Scalar
      BY <3>1, <3>2, RingClosed
    <3>. QED BY <2>2, <3>3 DEF basis_factor
  <2>. QED BY <2>1, <2>2
<1>. QED BY <1>1, <1>2 DEF basis, basis_factor

LEMMA BasisType ==
  ASSUME NEW i \in Points, NEW r \in Scalar
  PROVE  basis(i, r) \in Scalar
<1>1. basis(i, r) = Product(6, basis_factor(i, r))  BY BasisFactors
<1>2. \A j \in 0 .. 6 - 1 : basis_factor(i, r)[j] \in Scalar  BY BasisFactors
<1>3. Product(6, basis_factor(i, r)) \in Scalar  BY <1>2, ProductType
<1>. QED BY <1>1, <1>3

(* The halves of the tensor: Left and Right are at least two.              *)
LEMMA TensorIndex ==
  \A k \in Cons : k \div Left \in 0 .. Right - 1 /\ k % Left \in 0 .. Left - 1
<1>0. Left \in Nat \ {0} /\ Right \in Nat \ {0}  BY StructureAssumption
<1> HIDE DEF Left, Right
<1>1. ASSUME NEW k \in Nat, k < Left * Right
      PROVE  k \div Left \in 0 .. Right - 1 /\ k % Left \in 0 .. Left - 1
  <2> DEFINE q == k \div Left
  <2>1. /\ q \in Nat /\ k % Left \in 0 .. Left - 1
        /\ k = Left * q + (k % Left)
    BY <1>0
  <2> HIDE DEF q
  <2>2. Left * q < Left * Right
    BY <1>0, <1>1, <2>1
  <2>3. q < Right
    <3>1. SUFFICES ASSUME q >= Right  PROVE Left * q >= Left * Right
      BY <1>0, <2>1, <2>2
    <3>2. q - Right \in Nat  BY <1>0, <2>1, <3>1
    <3>3. Left * (q - Right) \in Nat  BY <1>0, <3>2
    <3>4. Left * q = Left * (q - Right) + Left * Right  BY <1>0, <2>1
    <3>. QED BY <1>0, <2>1, <3>3, <3>4
  <2>. QED BY <1>0, <2>1, <2>3 DEF q
<1>2. Left * Right \in Nat  BY <1>0
<1>3. \A k \in Cons : k \in Nat /\ k < Left * Right
  <2> DEFINE size == Left * Right
  <2>1. size \in Nat /\ Cons = 0 .. size - 1  BY <1>2 DEF Cons
  <2> HIDE DEF size
  <2>2. \A k \in Cons : k \in Nat /\ k < size  BY <2>1
  <2>. QED BY <2>2 DEF size
<1>4. \A k \in Cons : k \div Left \in 0 .. Right - 1 /\ k % Left \in 0 .. Left - 1
  BY <1>1, <1>3
<1>. QED BY <1>4

LEMMA SizeType == Left * Right \in Nat
<1>0. Left \in Nat \ {0} /\ Right \in Nat \ {0}  BY StructureAssumption
<1> HIDE DEF Left, Right
<1>. QED BY <1>0

LEMMA FullEType ==
  ASSUME NEW E \in Vec(Tensor), NEW k \in Cons
  PROVE  full_E(E, k) \in Scalar
<1>1. Left + (k \div Left) \in Tensor /\ k % Left \in Tensor
  BY TensorIndex, StructureAssumption DEF Tensor
<1>2. E[Left + (k \div Left)] \in Scalar /\ E[k % Left] \in Scalar
  BY <1>1 DEF Vec
<1>. QED BY <1>2, RingClosed DEF full_E

LEMMA SplitEvalsType ==
  ASSUME NEW tau \in Scalar
  PROVE  split_evals(tau) \in Vec(Tensor)
<1>1. ASSUME NEW p \in Tensor
      PROVE  (IF p < Left THEN Power(tau, p) ELSE Power(tau, Left * (p - Left))) \in Scalar
  <2>0. /\ Left \in Nat \ {0} /\ Right \in Nat \ {0}
        /\ p \in 0 .. (Left + Right - 1)
    BY StructureAssumption DEF Tensor
  <2> HIDE DEF Left, Right
  <2>1. CASE p < Left
    <3>1. p \in Nat  BY <2>0
    <3>. QED BY <2>1, <3>1, PowerType
  <2>2. CASE ~ (p < Left)
    <3>1. p - Left \in 0 .. Right - 1  BY <2>0, <2>2
    <3>2. Left * (p - Left) \in Nat  BY <2>0, <3>1
    <3>. QED BY <2>2, <3>2, PowerType
  <2>. QED BY <2>1, <2>2
<1>. QED BY <1>1 DEF split_evals, Vec
----------------------------------------------------------------------------
(* The sumcheck polynomial and what is left of it after the round.         *)

LEMMA WeightedSumType ==
  ASSUME NEW E \in Vec(Tensor), NEW residual \in Vec(Cons)
  PROVE  WeightedSum(E, residual) \in Scalar
<1>1. \A k \in Cons : full_E(E, k) ** residual[k] \in Scalar
  <2> TAKE k \in Cons
  <2>1. full_E(E, k) \in Scalar /\ residual[k] \in Scalar
    BY FullEType DEF Vec
  <2>. QED BY <2>1, RingClosed
<1> DEFINE f == [k \in Cons |-> full_E(E, k) ** residual[k]]
<1>2. f \in Vec(Cons)  BY <1>1 DEF Vec
<1>3. WeightedSum(E, residual) = Sum(Left * Right, f)  BY DEF WeightedSum
<1> HIDE DEF f
<1>4. Left * Right \in Nat /\ \A k \in 0 .. (Left * Right) - 1 : f[k] \in Scalar
  BY <1>2, SizeType DEF Vec, Cons
<1>5. Sum(Left * Right, f) \in Scalar  BY <1>4, SumType
<1>. QED BY <1>3, <1>5

LEMMA EqType ==
  ASSUME NEW a \in Scalar, NEW b \in Scalar
  PROVE  eq(a, b) \in Scalar
<1>0. One \in Scalar  BY RingAssumption
<1>1. One -- a \in Scalar /\ One -- b \in Scalar /\ a ** b \in Scalar
  BY <1>0, RingClosed
<1>2. (One -- a) ** (One -- b) \in Scalar  BY <1>1, RingClosed
<1>. QED BY <1>1, <1>2, RingClosed DEF eq

LEMMA HelperType ==
  ASSUME NEW rho \in Scalar, NEW E1 \in Vec(Tensor), NEW E2 \in Vec(Tensor),
         NEW z1 \in Vec(Cols), NEW z2 \in Vec(Cols), NEW b \in Points
  PROVE  prove_helper(rho, E1, z1, E2, z2, b) \in Scalar
<1> DEFINE r == from[b]
           a(k) == Lerp(RowA(k, z1), r, RowA(k, z2))
           bb(k) == Lerp(RowB(k, z1), r, RowB(k, z2))
           c(k) == Lerp(RowC(k, z1), r, RowC(k, z2))
           residual == [k \in Cons |-> (a(k) ** bb(k)) -- c(k)]
<1>1. r \in Scalar  BY PointsOf
<1>2. ASSUME NEW k \in Cons  PROVE (a(k) ** bb(k)) -- c(k) \in Scalar
  <2>1. /\ RowA(k, z1) \in Scalar /\ RowB(k, z1) \in Scalar /\ RowC(k, z1) \in Scalar
        /\ RowA(k, z2) \in Scalar /\ RowB(k, z2) \in Scalar /\ RowC(k, z2) \in Scalar
    BY LinearAssumption DEF Linear
  <2>2. a(k) \in Scalar /\ bb(k) \in Scalar /\ c(k) \in Scalar
    BY <1>1, <2>1, LerpType
  <2> HIDE DEF a, bb, c
  <2>3. a(k) ** bb(k) \in Scalar  BY <2>2, RingClosed
  <2>. QED BY <2>2, <2>3, RingClosed
<1>3. residual \in Vec(Cons)
  <2> HIDE DEF a, bb, c
  <2>. QED BY <1>2 DEF Vec
<1>4. LerpVec(E1, r, E2) \in Vec(Tensor)  BY <1>1, LerpVecType
<1>5. prove_helper(rho, E1, z1, E2, z2, b)
        = eq(rho, r) ** WeightedSum(LerpVec(E1, r, E2), residual)
  BY DEF prove_helper
<1> HIDE DEF r, residual
<1>6. eq(rho, r) \in Scalar /\ WeightedSum(LerpVec(E1, r, E2), residual) \in Scalar
  BY <1>1, <1>3, <1>4, EqType, WeightedSumType
<1>. QED BY <1>5, <1>6, RingClosed

(* The polynomial sent is six scalars and keeps the claim of the running   *)
(* instance, whether the pairs satisfy anything or not.                    *)
LEMMA RoundPoly ==
  ASSUME NEW rho \in Scalar, NEW U1 \in FoldedInstance, NEW W1 \in FoldedWitness,
         NEW U2 \in [comm_W : Commitment(Vars), X : Vec(IO)],
         NEW W2 \in [W : Vec(Vars), r_W : Scalar], NEW E2 \in Vec(Tensor)
  PROVE  LET poly == round_poly(rho, U1, W1, U2, W2, E2)
         IN  /\ poly \in Vec(Points)
             /\ poly[0] ++ poly[1] = (One -- rho) ** U1.T
<1> DEFINE z1 == ZVec(W1.W, U1.u, U1.X)
           z2 == ZVec(W2.W, One, U2.X)
           T  == (One -- rho) ** U1.T
           h(b) == prove_helper(rho, W1.E, z1, E2, z2, b)
           poly == round_poly(rho, U1, W1, U2, W2, E2)
<1>1. /\ W1.W \in Vec(Vars) /\ U1.u \in Scalar /\ U1.X \in Vec(IO) /\ U1.T \in Scalar
      /\ W1.E \in Vec(Tensor) /\ W2.W \in Vec(Vars) /\ U2.X \in Vec(IO)
  BY DEF FoldedInstance, FoldedWitness
<1>2. z1 \in Vec(Cols) /\ z2 \in Vec(Cols)  BY <1>1, ZVecType, RingAssumption
<1>3. T \in Scalar
  <2>1. One -- rho \in Scalar  BY RingAssumption, RingClosed
  <2>. QED BY <1>1, <2>1, RingClosed
<1>4. \A b \in Points : h(b) \in Scalar
  <2> HIDE DEF z1, z2
  <2>. QED BY <1>1, <1>2, HelperType
<1>5. poly = [b \in Points |-> IF b = 1 THEN T -- h(0) ELSE h(b)]
  BY DEF round_poly
<1> HIDE DEF z1, z2, T, h, poly
<1>6. 0 \in Points /\ 1 \in Points  BY DEF Points
<1>7. T -- h(0) \in Scalar  BY <1>3, <1>4, <1>6, RingClosed
<1>8. poly \in Vec(Points)  BY <1>4, <1>5, <1>7 DEF Vec
<1>9. poly[0] = h(0) /\ poly[1] = T -- h(0)  BY <1>5, <1>6
<1>10. poly[0] ++ poly[1] = T  BY <1>3, <1>4, <1>6, <1>9, Restored
<1>. QED BY <1>8, <1>10 DEF poly, T

LEMMA TAfterType ==
  ASSUME NEW poly \in Vec(Points), NEW rho \in Scalar, NEW r_b \in Scalar,
         eq(rho, r_b) # Zero
  PROVE  T_after(poly, rho, r_b) \in Scalar
<1> DEFINE f == [i \in Points |-> poly[i] ** basis(i, r_b)]
<1>1. \A i \in Points : poly[i] ** basis(i, r_b) \in Scalar
  <2> TAKE i \in Points
  <2>1. poly[i] \in Scalar /\ basis(i, r_b) \in Scalar
    BY BasisType DEF Vec
  <2>. QED BY <2>1, RingClosed
<1>2. 0 .. 6 - 1 = Points /\ \A i \in Points : f[i] \in Scalar  BY <1>1 DEF Points
<1>3. evaluate(poly, r_b) = Sum(6, f)  BY DEF evaluate
<1> HIDE DEF f
<1>4. evaluate(poly, r_b) \in Scalar  BY <1>2, <1>3, SumType
<1>5. FieldInv(eq(rho, r_b)) \in Scalar  BY EqType, InverseAssumption
<1>. QED BY <1>4, <1>5, RingClosed DEF T_after
----------------------------------------------------------------------------
(* The folds.                                                              *)

LEMMA FoldInstanceType ==
  ASSUME NEW U1 \in FoldedInstance, NEW U2 \in [comm_W : Commitment(Vars), X : Vec(IO)],
         NEW comm_E \in Commitment(Tensor), NEW r_b \in Scalar, NEW T \in Scalar
  PROVE  fold_instance(U1, U2, comm_E, r_b, T) \in FoldedInstance
<1>1. /\ U1.comm_W \in Commitment(Vars) /\ U1.comm_E \in Commitment(Tensor)
      /\ U1.u \in Scalar /\ U1.X \in Vec(IO)
      /\ U2.comm_W \in Commitment(Vars) /\ U2.X \in Vec(IO) /\ One \in Scalar
  BY RingAssumption DEF FoldedInstance
<1>2. /\ CommLerp(U1.comm_W, r_b, U2.comm_W) \in Commitment(Vars)
      /\ CommLerp(U1.comm_E, r_b, comm_E) \in Commitment(Tensor)
  BY <1>1, CommLerpType
<1>3. Lerp(U1.u, r_b, One) \in Scalar /\ LerpVec(U1.X, r_b, U2.X) \in Vec(IO)
  BY <1>1, LerpType, LerpVecType
<1>. QED BY <1>2, <1>3 DEF fold_instance, FoldedInstance

LEMMA FoldWitnessType ==
  ASSUME NEW W1 \in FoldedWitness, NEW W2 \in [W : Vec(Vars), r_W : Scalar],
         NEW E2 \in Vec(Tensor), NEW r_E2 \in Scalar, NEW r_b \in Scalar
  PROVE  fold_witness(W1, W2, E2, r_E2, r_b) \in FoldedWitness
<1>1. /\ W1.W \in Vec(Vars) /\ W1.r_W \in Scalar /\ W1.E \in Vec(Tensor)
      /\ W1.r_E \in Scalar /\ W2.W \in Vec(Vars) /\ W2.r_W \in Scalar
  BY DEF FoldedWitness
<1>2. /\ LerpVec(W1.W, r_b, W2.W) \in Vec(Vars) /\ LerpVec(W1.E, r_b, E2) \in Vec(Tensor)
      /\ Lerp(W1.r_W, r_b, W2.r_W) \in Scalar /\ Lerp(W1.r_E, r_b, r_E2) \in Scalar
  BY <1>1, LerpType, LerpVecType
<1>. QED BY <1>2 DEF fold_witness, FoldedWitness

LEMMA DefaultsType == default_instance \in FoldedInstance /\ default_witness \in FoldedWitness
<1>1. Zero \in Scalar  BY RingAssumption
<1>2. /\ Commit(ZeroVec(Vars), Zero) \in Commitment(Vars)
      /\ Commit(ZeroVec(Tensor), Zero) \in Commitment(Tensor)
  BY <1>1, ZeroVecType, CommitType
<1>3. ZeroVec(Vars) \in Vec(Vars) /\ ZeroVec(Tensor) \in Vec(Tensor) /\ ZeroVec(IO) \in Vec(IO)
  BY ZeroVecType
<1>. QED BY <1>1, <1>2, <1>3
         DEF default_instance, default_witness, FoldedInstance, FoldedWitness
----------------------------------------------------------------------------
(* What a pending message m is worth to a verifier that holds U: under the *)
(* answers r of the oracle its checks pass and its fold is the prover's V. *)
Turns(U, V, m, r) ==
    \E tau, rho, r_b \in Scalar :
      /\ r = {<<TauQuery(m.U2), tau>>, <<RhoQuery(m.U2, m.comm_E), rho>>,
              <<RbQuery(m.U2, m.comm_E, m.poly), r_b>>}
      /\ eq(rho, r_b) # Zero
      /\ m.poly[0] ++ m.poly[1] = (One -- rho) ** U.T
      /\ V = fold_instance(U, m.U2, m.comm_E, r_b, T_after(m.poly, rho, r_b))

MessageOf(m) ==
    m = [to |-> m.to, U2 |-> m.U2, comm_E |-> m.comm_E, poly |-> m.poly,
         comm_W_fold |-> m.comm_W_fold, comm_E_fold |-> m.comm_E_fold]

Pending ==
    /\ msg.to # {} => /\ MessageOf(msg)
                      /\ msg.comm_W_fold = pU.comm_W /\ msg.comm_E_fold = pU.comm_E
    /\ IF "native"  \in msg.to THEN Turns(vU, pU, msg, ro) ELSE vU = pU
    /\ IF "circuit" \in msg.to THEN Turns(cU, pU, msg, ro) ELSE cU = pU

FoldInv == FoldTypeOK /\ Pending /\ status \in {"running", "panicked"}

(* A verifier's queries get the answers that the prover's got.             *)
LEMMA SameAnswers ==
  ASSUME NEW tau, NEW rho, NEW r_b,
         ro = {<<TauQuery(msg.U2), tau>>, <<RhoQuery(msg.U2, msg.comm_E), rho>>,
               <<RbQuery(msg.U2, msg.comm_E, msg.poly), r_b>>}
  PROVE  VerifierChallenges = {<<rho, r_b>>}
<1> DEFINE q1 == TauQuery(msg.U2)
           q2 == RhoQuery(msg.U2, msg.comm_E)
           q3 == RbQuery(msg.U2, msg.comm_E, msg.poly)
<1>1. q1 # q2 /\ q1 # q3 /\ q2 # q3
  BY DEF TauQuery, RhoQuery, RbQuery
<1> HIDE DEF q1, q2, q3
<1>2. ro = {<<q1, tau>>, <<q2, rho>>, <<q3, r_b>>}  BY DEF q1, q2, q3
<1>3. {x \in ro : x[1] = q2} = {<<q2, rho>>} /\ {x \in ro : x[1] = q3} = {<<q3, r_b>>}
  BY <1>1, <1>2
<1>4. \A S : Answers(q2, S) = {rho} /\ Answers(q3, S) = {r_b}
  <2>1. <<q2, rho>> \in ro /\ <<q3, r_b>> \in ro  BY <1>2
  <2>2. /\ {a[2] : a \in {x \in ro : x[1] = q2}} = {rho}
        /\ {a[2] : a \in {x \in ro : x[1] = q3}} = {r_b}
    <3>1. \A u, v : {a[2] : a \in {<<u, v>>}} = {v}  OBVIOUS
    <3>. QED BY <1>3, <3>1
  <2>3. (\E a \in ro : a[1] = q2) /\ (\E a \in ro : a[1] = q3)
    BY <2>1
  <2>. QED BY <2>2, <2>3 DEF Answers
<1>5. VerifierChallenges = {rho} \X {r_b}
  BY <1>4 DEF VerifierChallenges, q2, q3
<1>. QED BY <1>5

LEMMA InitFoldInv == NifsInit => FoldInv
<1> SUFFICES ASSUME NifsInit  PROVE FoldInv
  OBVIOUS
<1>1. FoldTypeOK
  BY DefaultsType, CallAssumption DEF NifsInit, FoldTypeOK, NoMsg
<1>2. Pending  BY DEF NifsInit, Pending, NoMsg
<1>. QED BY <1>1, <1>2 DEF NifsInit, FoldInv

LEMMA ProveFoldIInv ==
  ASSUME FoldInv, NEW p \in Incoming, ProveFold(p[1], p[2])
  PROVE  FoldInv'
<1> DEFINE U2 == p[1]
           W2 == p[2]
<1>1. /\ U2 \in [comm_W : Commitment(Vars), X : Vec(IO)]
      /\ W2 \in [W : Vec(Vars), r_W : Scalar]
  BY CallAssumption
<1> HIDE DEF U2, W2
<1>2. /\ pU \in FoldedInstance /\ pW \in FoldedWitness
      /\ vU = pU /\ cU = pU /\ vU' = vU /\ cU' = cU
      /\ status = "running" /\ msg.to = {} /\ folds \in 0 .. MaxFolds /\ folds < MaxFolds
  BY DEF FoldInv, FoldTypeOK, Pending, ProveFold
<1>3. PICK tau \in Taus, r_E \in Blind, rho \in Rhos, r_b \in Rbs :
        LET E      == split_evals(tau)
            comm_E == Commit(E, r_E)
            poly   == round_poly(rho, pU, pW, U2, W2, E)
            T_out  == T_after(poly, rho, r_b)
        IN  IF eq(rho, r_b) = Zero
            THEN /\ status' = "panicked"
                 /\ UNCHANGED <<pU, pW, msg, ro, good, clean, folds>>
            ELSE /\ pU' = fold_instance(pU, U2, comm_E, r_b, T_out)
                 /\ pW' = fold_witness(pW, W2, E, r_E, r_b)
                 /\ msg' = [to |-> {"native", "circuit"}, U2 |-> U2,
                            comm_E |-> comm_E, poly |-> poly,
                            comm_W_fold |-> pU'.comm_W, comm_E_fold |-> pU'.comm_E]
                 /\ ro' = {<<TauQuery(U2), tau>>, <<RhoQuery(U2, comm_E), rho>>,
                           <<RbQuery(U2, comm_E, poly), r_b>>}
                 /\ folds' = folds + 1
                 /\ UNCHANGED status
  BY DEF ProveFold, U2, W2
<1> DEFINE E      == split_evals(tau)
           comm_E == Commit(E, r_E)
           poly   == round_poly(rho, pU, pW, U2, W2, E)
           T_out  == T_after(poly, rho, r_b)
<1>4. tau \in Scalar /\ r_E \in Scalar /\ rho \in Scalar /\ r_b \in Scalar
  BY CallAssumption
<1>5. CASE eq(rho, r_b) = Zero
  <2>1. status' = "panicked" /\ UNCHANGED <<pU, pW, vU, cU, msg, ro, folds>>
    BY <1>2, <1>3, <1>5
  <2>. QED BY <2>1 DEF FoldInv, FoldTypeOK, Pending
<1>6. CASE eq(rho, r_b) # Zero
  <2>1. /\ pU' = fold_instance(pU, U2, comm_E, r_b, T_out)
        /\ pW' = fold_witness(pW, W2, E, r_E, r_b)
        /\ msg' = [to |-> {"native", "circuit"}, U2 |-> U2,
                   comm_E |-> comm_E, poly |-> poly,
                   comm_W_fold |-> pU'.comm_W, comm_E_fold |-> pU'.comm_E]
        /\ ro' = {<<TauQuery(U2), tau>>, <<RhoQuery(U2, comm_E), rho>>,
                  <<RbQuery(U2, comm_E, poly), r_b>>}
        /\ folds' = folds + 1
        /\ status' = status
    BY <1>3, <1>6
  <2>2. E \in Vec(Tensor)  BY <1>4, SplitEvalsType
  <2> HIDE DEF E
  <2>3. comm_E \in Commitment(Tensor)  BY <1>4, <2>2, CommitType
  <2>4. poly \in Vec(Points) /\ poly[0] ++ poly[1] = (One -- rho) ** pU.T
    BY <1>1, <1>2, <1>4, <2>2, RoundPoly
  <2> HIDE DEF comm_E, poly
  <2>5. T_out \in Scalar  BY <1>4, <1>6, <2>4, TAfterType
  <2>6. FoldTypeOK'
    <3> HIDE DEF T_out
    <3>1. pU' \in FoldedInstance  BY <1>1, <1>2, <1>4, <2>1, <2>3, <2>5, FoldInstanceType
    <3>2. pW' \in FoldedWitness   BY <1>1, <1>2, <1>4, <2>1, <2>2, FoldWitnessType
    <3>3. folds' \in 0 .. MaxFolds  BY <1>2, <2>1, CallAssumption
    <3>. QED BY <1>2, <2>1, <3>1, <3>2, <3>3 DEF FoldTypeOK
  <2>7. Turns(pU, pU', msg', ro')
    <3>1. /\ msg'.U2 = U2 /\ msg'.comm_E = comm_E /\ msg'.poly = poly
      BY <2>1
    <3>. QED BY <1>4, <1>6, <2>1, <2>4, <3>1 DEF Turns
  <2>8. Pending'
    <3>1. /\ MessageOf(msg') /\ msg'.to = {"native", "circuit"}
          /\ msg'.comm_W_fold = pU'.comm_W /\ msg'.comm_E_fold = pU'.comm_E
      BY <2>1 DEF MessageOf
    <3>2. Turns(vU', pU', msg', ro') /\ Turns(cU', pU', msg', ro')
      BY <1>2, <2>7
    <3>. QED BY <3>1, <3>2 DEF Pending
  <2>. QED BY <1>2, <2>1, <2>6, <2>8 DEF FoldInv
<1>. QED BY <1>5, <1>6

(* A verifier that has the prover's previous instance accepts and ends     *)
(* with the prover's instance.                                             *)
LEMMA Accepts ==
  ASSUME NEW U, NEW V, Turns(U, V, msg, ro), NEW c \in VerifierChallenges
  PROVE  /\ verdict(U, c[1], c[2]) = "running"
         /\ V = fold_instance(U, msg.U2, msg.comm_E, c[2], T_after(msg.poly, c[1], c[2]))
<1>1. PICK tau, rho, r_b \in Scalar :
      /\ ro = {<<TauQuery(msg.U2), tau>>, <<RhoQuery(msg.U2, msg.comm_E), rho>>,
               <<RbQuery(msg.U2, msg.comm_E, msg.poly), r_b>>}
      /\ eq(rho, r_b) # Zero
      /\ msg.poly[0] ++ msg.poly[1] = (One -- rho) ** U.T
      /\ V = fold_instance(U, msg.U2, msg.comm_E, r_b, T_after(msg.poly, rho, r_b))
  BY DEF Turns
<1>2. c = <<rho, r_b>>
  <2>1. VerifierChallenges = {<<rho, r_b>>}
    <3>1. ro = {<<TauQuery(msg.U2), tau>>, <<RhoQuery(msg.U2, msg.comm_E), rho>>,
                <<RbQuery(msg.U2, msg.comm_E, msg.poly), r_b>>}
      BY <1>1
    <3>. QED BY <3>1, SameAnswers
  <2>. QED BY <2>1
<1>. QED BY <1>1, <1>2 DEF verdict

(* Once a verifier used the message, the other one's is as it was.         *)
LEMMA UseKeeps ==
  ASSUME FoldInv, NEW w \in {"native", "circuit"}, w \in msg.to, Use(w)
  PROVE  /\ msg'.to = msg.to \ {w}
         /\ msg'.to # {} => /\ MessageOf(msg') /\ ro' = ro
                            /\ msg'.comm_W_fold = msg.comm_W_fold
                            /\ msg'.comm_E_fold = msg.comm_E_fold
         /\ \A U, V : msg'.to # {} /\ Turns(U, V, msg, ro) => Turns(U, V, msg', ro')
<1>1. CASE msg.to = {w}
  BY <1>1 DEF Use, NoMsg
<1>2. CASE msg.to # {w}
  <2>1. msg' = [msg EXCEPT !.to = @ \ {w}] /\ ro' = ro
    BY <1>2 DEF Use
  <2>2. msg = [to |-> msg.to, U2 |-> msg.U2, comm_E |-> msg.comm_E, poly |-> msg.poly,
               comm_W_fold |-> msg.comm_W_fold, comm_E_fold |-> msg.comm_E_fold]
    BY DEF FoldInv, Pending, MessageOf
  <2>3. msg' = [to |-> msg.to \ {w}, U2 |-> msg.U2, comm_E |-> msg.comm_E,
                poly |-> msg.poly, comm_W_fold |-> msg.comm_W_fold,
                comm_E_fold |-> msg.comm_E_fold]
    BY <2>1, <2>2
  <2>4. /\ msg'.to = msg.to \ {w} /\ msg'.U2 = msg.U2 /\ msg'.comm_E = msg.comm_E
        /\ msg'.poly = msg.poly /\ msg'.comm_W_fold = msg.comm_W_fold
        /\ msg'.comm_E_fold = msg.comm_E_fold
    BY <2>3
  <2>5. MessageOf(msg')  BY <2>3, <2>4 DEF MessageOf
  <2>6. \A U, V : Turns(U, V, msg, ro) => Turns(U, V, msg', ro')
    BY <2>1, <2>4 DEF Turns
  <2>. QED BY <2>1, <2>4, <2>5, <2>6
<1>. QED BY <1>1, <1>2

LEMMA VerifyIInv ==
  ASSUME FoldInv, Verify
  PROVE  FoldInv'
<1>0. "native" \in msg.to /\ Use("native") /\ UNCHANGED <<pU, pW, cU, folds>>
      /\ msg.to \subseteq {"native", "circuit"} /\ pU \in FoldedInstance
  BY DEF Verify, FoldInv, FoldTypeOK
<1>1. Turns(vU, pU, msg, ro)  BY <1>0 DEF FoldInv, Pending
<1>2. status' = "running" /\ vU' = pU
  <2>1. PICK c \in VerifierChallenges :
          /\ status' = verdict(vU, c[1], c[2])
          /\ vU' = IF status' = "running"
                   THEN fold_instance(vU, msg.U2, msg.comm_E, c[2],
                                      T_after(msg.poly, c[1], c[2]))
                   ELSE vU
    BY DEF Verify
  <2>. QED BY <1>1, <2>1, Accepts
<1>3. /\ msg'.to = msg.to \ {"native"}
      /\ msg'.to # {} => /\ MessageOf(msg') /\ ro' = ro
                         /\ msg'.comm_W_fold = msg.comm_W_fold
                         /\ msg'.comm_E_fold = msg.comm_E_fold
      /\ \A U, V : msg'.to # {} /\ Turns(U, V, msg, ro) => Turns(U, V, msg', ro')
  BY <1>0, UseKeeps
<1>4. Pending'
  <2>1. IF "circuit" \in msg'.to THEN Turns(cU', pU', msg', ro') ELSE cU' = pU'
    BY <1>0, <1>3 DEF FoldInv, Pending
  <2>. QED BY <1>0, <1>2, <1>3, <2>1 DEF FoldInv, Pending
<1>5. FoldTypeOK'  BY <1>0, <1>2, <1>3 DEF FoldInv, FoldTypeOK
<1>. QED BY <1>2, <1>4, <1>5 DEF FoldInv

LEMMA VerifyCircuitIInv ==
  ASSUME FoldInv, VerifyCircuit
  PROVE  FoldInv'
<1>0. "circuit" \in msg.to /\ Use("circuit") /\ UNCHANGED <<pU, pW, vU, folds>>
      /\ msg.to \subseteq {"native", "circuit"} /\ pU \in FoldedInstance
  BY DEF VerifyCircuit, FoldInv, FoldTypeOK
<1>1. /\ Turns(cU, pU, msg, ro)
      /\ msg.comm_W_fold = pU.comm_W /\ msg.comm_E_fold = pU.comm_E
  BY <1>0 DEF FoldInv, Pending
<1>2. status' = "running" /\ cU' = pU
  <2>1. PICK c \in VerifierChallenges :
          /\ status' = verdict(cU, c[1], c[2])
          /\ cU' = IF status' = "running"
                   THEN fold_circuit(cU, msg.U2, c[2], T_after(msg.poly, c[1], c[2]),
                                     msg.comm_W_fold, msg.comm_E_fold)
                   ELSE cU
    BY DEF VerifyCircuit
  <2>2. /\ status' = "running"
        /\ pU = fold_instance(cU, msg.U2, msg.comm_E, c[2], T_after(msg.poly, c[1], c[2]))
    BY <1>1, <2>1, Accepts
  <2>. QED BY <1>1, <2>1, <2>2 DEF fold_instance, fold_circuit
<1>3. /\ msg'.to = msg.to \ {"circuit"}
      /\ msg'.to # {} => /\ MessageOf(msg') /\ ro' = ro
                         /\ msg'.comm_W_fold = msg.comm_W_fold
                         /\ msg'.comm_E_fold = msg.comm_E_fold
      /\ \A U, V : msg'.to # {} /\ Turns(U, V, msg, ro) => Turns(U, V, msg', ro')
  BY <1>0, UseKeeps
<1>4. Pending'
  <2>1. IF "native" \in msg'.to THEN Turns(vU', pU', msg', ro') ELSE vU' = pU'
    BY <1>0, <1>3 DEF FoldInv, Pending
  <2>. QED BY <1>0, <1>1, <1>2, <1>3, <2>1 DEF FoldInv, Pending
<1>5. FoldTypeOK'  BY <1>0, <1>2, <1>3 DEF FoldInv, FoldTypeOK
<1>. QED BY <1>2, <1>4, <1>5 DEF FoldInv

LEMMA NextFoldInv == FoldInv /\ [NifsNext]_nifs_vars => FoldInv'
<1> SUFFICES ASSUME FoldInv, [NifsNext]_nifs_vars  PROVE FoldInv'
  OBVIOUS
<1>1. ASSUME NEW p \in Incoming, ProveFold(p[1], p[2])  PROVE FoldInv'
  BY <1>1, ProveFoldIInv
<1>2. CASE Verify  BY <1>2, VerifyIInv
<1>3. CASE VerifyCircuit  BY <1>3, VerifyCircuitIInv
<1>4. CASE UNCHANGED nifs_vars
  BY <1>4 DEF nifs_vars, FoldInv, FoldTypeOK, Pending
<1>. QED BY <1>1, <1>2, <1>3, <1>4 DEF NifsNext

LEMMA Inductive == NifsSpec => []FoldInv
BY InitFoldInv, NextFoldInv, PTL DEF NifsSpec

(* Instances and witnesses keep the lengths of the structure (the fold     *)
(* functions of neutron/relation.rs zip vectors of equal lengths).         *)
THEOREM SpecFoldTypeOK == NifsSpec => []FoldTypeOK
<1>1. FoldInv => FoldTypeOK  BY DEF FoldInv
<1>. QED BY <1>1, Inductive, PTL

(* No verifier rejects or panics on what NIFS::prove returned, for a good  *)
(* pair or a bad one, and each ends with the prover's instance, the        *)
(* circuit through its hints.                                              *)
THEOREM SpecZeroFoldAgree == NifsSpec => []ZeroFoldAgree
<1>1. FoldInv => ZeroFoldAgree  BY DEF FoldInv, Pending, ZeroFoldAgree
<1>. QED BY <1>1, Inductive, PTL
----------------------------------------------------------------------------
(* The Lagrange basis and what it interpolates.                            *)

(* Each basis function is a polynomial of degree five: the five factors    *)
(* that are not One raise the degree.                                      *)
LEMMA BasisPoly ==
  ASSUME NEW i \in Points
  PROVE  [r \in Scalar |-> basis(i, r)] \in Poly[MaxDegree]
<1> DEFINE f(r) == basis_factor(i, r)
           p(r) == CHOOSE t : Products(6, f(r), t)
           part(m) == [r \in Scalar |-> p(r)[m]]
           level(m) == IF i < m THEN m - 1 ELSE m
           T == {m \in 0 .. 6 : part(m) \in Poly[level(m)]}
<1>0. i \in 0 .. 5 /\ MaxDegree = 5 /\ One \in Scalar
  BY RingAssumption DEF Points, MaxDegree
<1>1. ASSUME NEW r \in Scalar  PROVE Products(6, f(r), p(r))
  <2>1. \A k \in 0 .. 6 - 1 : f(r)[k] \in Scalar  BY BasisFactors
  <2> HIDE DEF f
  <2>. QED BY <2>1, ProductTable
<1> HIDE DEF p
<1>2. ASSUME NEW r \in Scalar, NEW m \in 0 .. 5
      PROVE  p(r)[m] \in Scalar /\ p(r)[m + 1] = p(r)[m] ** f(r)[m]
  <2>1. Products(6, f(r), p(r))  BY <1>1
  <2> HIDE DEF f
  <2>. QED BY <2>1 DEF Products
<1>3. \A r \in Scalar : p(r)[0] = One /\ p(r)[6] = Product(6, f(r))
  <2> TAKE r \in Scalar
  <2>1. Products(6, f(r), p(r))  BY <1>1
  <2> HIDE DEF f
  <2>. QED BY <2>1 DEF Products
<1>4. 0 \in T
  <2>1. part(0) = Const(One)  BY <1>3 DEF Const
  <2>2. Const(One) \in Poly[0]  BY <1>0, PolySteps DEF Constants
  <2>3. level(0) = 0  BY <1>0
  <2>. QED BY <2>1, <2>2, <2>3
<1>5. ASSUME NEW m \in 0 .. 6 - 1, m \in T  PROVE m + 1 \in T
  <2>1. part(m) \in Poly[level(m)] /\ m \in 0 .. 5 /\ m \in Points  BY <1>5 DEF Points
  <2>2. CASE m = i
    <3>1. level(m + 1) = level(m)  BY <1>0, <2>1, <2>2
    <3>2. ASSUME NEW r \in Scalar  PROVE p(r)[m + 1] = p(r)[m]
      <4>1. f(r)[m] = One  BY <2>1, <2>2 DEF basis_factor
      <4>2. p(r)[m] \in Scalar /\ p(r)[m + 1] = p(r)[m] ** One
        <5> HIDE DEF f
        <5>. QED BY <1>2, <2>1, <4>1
      <4>3. p(r)[m] ** One = One ** p(r)[m] /\ One ** p(r)[m] = p(r)[m]
        BY <1>0, <4>2, RingAssumption
      <4>. QED BY <4>2, <4>3
    <3>3. part(m + 1) = part(m)  BY <3>2
    <3>. QED BY <2>1, <3>1, <3>3
  <2>3. CASE m # i
    <3> DEFINE b == FieldInv(from[i] -- from[m])
               a == FieldNeg(from[m]) ** b
    <3>1. level(m) \in 0 .. MaxDegree - 1 /\ level(m + 1) = level(m) + 1
          /\ level(m) \in 0 .. MaxDegree
      BY <1>0, <2>1, <2>3
    <3> HIDE DEF level
    <3>2. b \in Scalar  BY <2>1, <2>3, PointsDiffer
    <3>3. FieldNeg(from[m]) \in Scalar /\ from[m] \in Scalar  BY <2>1, PointsOf, RingClosed
    <3>4. a \in Scalar  BY <3>2, <3>3, RingClosed
    <3>5. ASSUME NEW r \in Scalar  PROVE p(r)[m + 1] = (a ++ (r ** b)) ** part(m)[r]
      <4>1. f(r)[m] = (r -- from[m]) ** b  BY <2>1, <2>3 DEF basis_factor
      <4>2. p(r)[m] \in Scalar /\ p(r)[m + 1] = p(r)[m] ** ((r -- from[m]) ** b)
        <5> HIDE DEF f, b
        <5>. QED BY <1>2, <2>1, <4>1
      <4> DEFINE c == FieldNeg(from[m])
      <4> HIDE DEF b
      <4>3. (r ++ c) ** b = (c ** b) ++ (r ** b)
        <5> HIDE DEF c
        <5>0. c \in Scalar  BY <3>3 DEF c
        <5>1. b ** (c ++ r) = (b ** c) ++ (b ** r)  BY <3>2, <5>0, RingAssumption
        <5>2. c ++ r = r ++ c /\ r ++ c \in Scalar  BY <5>0, RingAssumption
        <5>3. b ** c = c ** b /\ b ** r = r ** b /\ b ** (r ++ c) = (r ++ c) ** b
          BY <3>2, <5>0, <5>2, RingAssumption
        <5>. QED BY <5>1, <5>2, <5>3
      <4>4. (r -- from[m]) ** b = a ++ (r ** b)  BY <4>3 DEF --
      <4>5. a ++ (r ** b) \in Scalar
        <5> HIDE DEF a
        <5>1. r ** b \in Scalar  BY <3>2, RingClosed
        <5>. QED BY <3>4, <5>1, RingClosed
      <4>6. p(r)[m] ** (a ++ (r ** b)) = (a ++ (r ** b)) ** p(r)[m]
        <5> DEFINE d == a ++ (r ** b)
        <5> HIDE DEF d
        <5>. QED BY <4>2, <4>5, RingAssumption DEF d
      <4>7. part(m)[r] = p(r)[m]  OBVIOUS
      <4>. QED BY <4>2, <4>4, <4>6, <4>7
    <3>6. Space(Poly[level(m)]) /\ Poly[level(m) + 1] = Raised(Poly[level(m)])
      BY <3>1, PolySpaces, PolySteps
    <3>7. part(m + 1) = [r \in Scalar |-> (a ++ (r ** b)) ** part(m)[r]]
      <4>1. part(m + 1) = [r \in Scalar |-> p(r)[m + 1]]  OBVIOUS
      <4> HIDE DEF part, a, b
      <4>. QED BY <3>5, <4>1
    <3>8. [r \in Scalar |-> (a ++ (r ** b)) ** part(m)[r]] \in Raised(Poly[level(m)])
      <4> HIDE DEF part, a, b
      <4>. QED BY <2>1, <3>2, <3>4, <3>6, LinearFactor
    <3>. QED BY <2>1, <3>1, <3>6, <3>7, <3>8
  <2>. QED BY <2>2, <2>3
<1>6. 6 \in T
  <2> HIDE DEF T
  <2>. QED BY <1>4, <1>5, InductionTo
<1>7. level(6) = MaxDegree  BY <1>0
<1>8. part(6) = [r \in Scalar |-> basis(i, r)]
  <2>1. ASSUME NEW r \in Scalar  PROVE p(r)[6] = basis(i, r)
    <3>1. p(r)[6] = Product(6, f(r))  BY <1>3
    <3>. QED BY <3>1, BasisFactors
  <2>. QED BY <2>1
<1>. QED BY <1>6, <1>7, <1>8

(* It is 1 at its own point and 0 at the others...                         *)
LEMMA BasisAt ==
  ASSUME NEW i \in Points, NEW j \in Points
  PROVE  basis(i, from[j]) = IF i = j THEN One ELSE Zero
<1> DEFINE f == basis_factor(i, from[j])
<1>0. from[j] \in Scalar /\ Points = 0 .. 6 - 1  BY PointsOf DEF Points
<1>1. basis(i, from[j]) = Product(6, f) /\ \A k \in 0 .. 6 - 1 : f[k] \in Scalar
  BY <1>0, BasisFactors
<1>2. CASE i = j
  <2>1. \A k \in 0 .. 6 - 1 : f[k] = One
    <3> TAKE k \in 0 .. 6 - 1
    <3>1. CASE k = i  BY <1>0, <3>1 DEF basis_factor
    <3>2. CASE k # i  BY <1>0, <1>2, <3>2, PointsDiffer DEF basis_factor
    <3>. QED BY <3>1, <3>2
  <2> HIDE DEF f
  <2>. QED BY <1>1, <1>2, <2>1, ProductOnes
<1>3. CASE i # j
  <2>1. f[j] = Zero
    <3>1. FieldInv(from[i] -- from[j]) \in Scalar  BY <1>3, PointsDiffer
    <3>2. from[j] -- from[j] = Zero  BY <1>0, SubZero
    <3>3. f[j] = (from[j] -- from[j]) ** FieldInv(from[i] -- from[j])
      BY <1>3 DEF basis_factor
    <3>. QED BY <3>1, <3>2, <3>3, MulZero
  <2> HIDE DEF f
  <2>2. \E k \in 0 .. 6 - 1 : f[k] = Zero  BY <1>0, <2>1
  <2>3. Product(6, f) = Zero  BY <1>1, <2>2, ProductZero
  <2>. QED BY <1>1, <1>3, <2>3
<1>. QED BY <1>2, <1>3

(* ... and not 0 anywhere else.                                            *)
LEMMA BasisNonZero ==
  ASSUME NEW i \in Points, NEW r \in Scalar, \A j \in Points : r # from[j]
  PROVE  basis(i, r) # Zero
<1> DEFINE f == basis_factor(i, r)
<1>1. basis(i, r) = Product(6, f) /\ \A k \in 0 .. 6 - 1 : f[k] \in Scalar
  BY BasisFactors
<1>2. ASSUME NEW k \in 0 .. 6 - 1  PROVE f[k] # Zero
  <2>0. k \in Points  BY DEF Points
  <2>1. CASE k = i  BY <2>0, <2>1, DomainAssumption DEF basis_factor
  <2>2. CASE k # i
    <3>1. /\ r -- from[k] \in Scalar /\ r -- from[k] # Zero
      BY <2>0, PointsOf, RingClosed, SubZero
    <3>2. /\ FieldInv(from[i] -- from[k]) \in Scalar /\ FieldInv(from[i] -- from[k]) # Zero
      BY <2>0, <2>2, PointsDiffer
    <3>3. f[k] = (r -- from[k]) ** FieldInv(from[i] -- from[k])
      BY <2>0, <2>2 DEF basis_factor
    <3>. QED BY <3>1, <3>2, <3>3, DomainAssumption
  <2>. QED BY <2>1, <2>2
<1> HIDE DEF f
<1>. QED BY <1>1, <1>2, ProductZero

(* from_evals and evaluate: a polynomial of degree five is determined by   *)
(* its values at the six points.                                           *)
LEMMA Interpolation ==
  ASSUME NEW f \in Poly[MaxDegree], NEW p, \A i \in Points : p[i] = f[from[i]],
         NEW r \in Scalar
  PROVE  evaluate(p, r) = f[r]
<1> DEFINE b(i) == [x \in Scalar |-> basis(i, x)]
           F == [i \in 0 .. 6 - 1 |-> Scale(p[i], b(i))]
           g == [x \in Scalar |-> Sum(6, [i \in 0 .. 6 - 1 |-> F[i][x]])]
<1>0. /\ Points = 0 .. 6 - 1 /\ Points = 0 .. MaxDegree
      /\ MaxDegree \in 0 .. MaxDegree
  BY DEF Points, MaxDegree
<1>1. Space(Poly[MaxDegree])  BY <1>0, PolySpaces
<1>2. \A i \in Points : p[i] \in Scalar
  BY <1>1, PointsOf DEF Space, Fun
<1>3. \A i \in 0 .. 6 - 1 : F[i] \in Poly[MaxDegree]
  <2> TAKE i \in 0 .. 6 - 1
  <2>1. b(i) \in Poly[MaxDegree]  BY <1>0, BasisPoly
  <2>2. p[i] \in Scalar  BY <1>0, <1>2
  <2> HIDE DEF b
  <2>3. Scale(p[i], b(i)) \in Poly[MaxDegree]  BY <1>1, <2>1, <2>2 DEF Space
  <2>. QED BY <2>3
<1>4. g \in Poly[MaxDegree]
  <2> DEFINE P == Poly[MaxDegree]
             n == 6
  <2>1. n \in Nat /\ Space(P) /\ \A i \in 0 .. n - 1 : F[i] \in P  BY <1>1, <1>3
  <2>2. g = [x \in Scalar |-> Sum(n, [i \in 0 .. n - 1 |-> F[i][x]])]  OBVIOUS
  <2> HIDE DEF F, P, n, g
  <2>3. [x \in Scalar |-> Sum(n, [i \in 0 .. n - 1 |-> F[i][x]])] \in P
    BY <2>1, SumOfPolys
  <2>. QED BY <2>2, <2>3 DEF P
<1>5. ASSUME NEW x \in Scalar  PROVE g[x] = evaluate(p, x)
  <2>1. \A i \in Points : F[i][x] = p[i] ** basis(i, x)  BY <1>0 DEF Scale
  <2> HIDE DEF F
  <2>2. [i \in 0 .. 6 - 1 |-> F[i][x]] = [i \in Points |-> p[i] ** basis(i, x)]
    BY <1>0, <2>1
  <2>. QED BY <2>2 DEF evaluate
<1>6. ASSUME NEW j \in 0 .. MaxDegree  PROVE f[from[j]] = g[from[j]]
  <2>0. j \in Points /\ from[j] \in Scalar  BY <1>0, PointsOf
  <2> DEFINE t == [i \in Points |-> p[i] ** basis(i, from[j])]
  <2>1. t[j] = p[j] /\ p[j] \in Scalar
    <3>1. t[j] = p[j] ** One  BY <2>0, BasisAt
    <3>2. p[j] ** One = One ** p[j] /\ One ** p[j] = p[j]
      BY <1>2, <2>0, RingAssumption
    <3>. QED BY <1>2, <2>0, <3>1, <3>2
  <2>2. \A i \in 0 .. 6 - 1 : i # j => t[i] = Zero
    <3> TAKE i \in 0 .. 6 - 1
    <3> HAVE i # j
    <3>1. t[i] = p[i] ** Zero  BY <1>0, <2>0, BasisAt
    <3>. QED BY <1>0, <1>2, <3>1, MulZero
  <2>3. evaluate(p, from[j]) = Sum(6, t)  BY DEF evaluate
  <2> HIDE DEF t
  <2>4. Sum(6, t) = t[j]
    <3>1. 6 \in Nat /\ j \in 0 .. 6 - 1 /\ t[j] \in Scalar  BY <1>0, <2>0, <2>1
    <3>. QED BY <2>2, <3>1, SumSingle
  <2>5. g[from[j]] = evaluate(p, from[j])
    <3> HIDE DEF g
    <3>. QED BY <1>5, <2>0
  <2>. QED BY <2>0, <2>1, <2>3, <2>4, <2>5
<1> HIDE DEF g
<1>7. f[r] = g[r]
  <2>1. /\ \A i \in 0 .. MaxDegree : from[i] \in Scalar
        /\ \A i, j \in 0 .. MaxDegree : from[i] = from[j] => i = j
    BY <1>0, PointsOf, InverseAssumption
  <2>. QED BY <1>4, <1>6, <2>1, Agree
<1>. QED BY <1>5, <1>7

(* An error in one of the values enters with the basis at its point.       *)
LEMMA EvaluateShift ==
  ASSUME NEW p \in Vec(Points), NEW q \in Vec(Points), NEW j \in Points, NEW d \in Scalar,
         q[j] = p[j] ++ d, \A i \in Points : i # j => q[i] = p[i], NEW r \in Scalar
  PROVE  evaluate(q, r) = evaluate(p, r) ++ (d ** basis(j, r))
<1> DEFINE e == [i \in Points |-> IF i = j THEN d ** basis(j, r) ELSE Zero]
           f == [i \in Points |-> p[i] ** basis(i, r)]
           h == [i \in Points |-> q[i] ** basis(i, r)]
<1>0. /\ Points = 0 .. 6 - 1 /\ Zero \in Scalar /\ 6 \in Nat
      /\ \A i \in Points : basis(i, r) \in Scalar /\ p[i] \in Scalar /\ q[i] \in Scalar
  <2>1. Zero \in Scalar  BY RingAssumption
  <2>2. \A i \in Points : basis(i, r) \in Scalar  BY BasisType
  <2>3. \A i \in Points : p[i] \in Scalar /\ q[i] \in Scalar  BY DEF Vec
  <2>. QED BY <2>1, <2>2, <2>3 DEF Points
<1>1. d ** basis(j, r) \in Scalar  BY <1>0, RingClosed
<1>2. ASSUME NEW i \in Points
      PROVE  f[i] \in Scalar /\ e[i] \in Scalar /\ h[i] = f[i] ++ e[i]
  <2> DEFINE b == basis(i, r)
  <2>1. b \in Scalar /\ f[i] = p[i] ** b /\ h[i] = q[i] ** b  BY <1>0
  <2>2. f[i] \in Scalar  BY <1>0, RingClosed
  <2>3. CASE i = j
    <3>1. e[i] = d ** b  BY <2>3
    <3>2. h[i] = (p[i] ++ d) ** b  BY <2>1, <2>3
    <3> HIDE DEF b
    <3>3. (p[i] ++ d) ** b = (p[i] ** b) ++ (d ** b)
      <4>1. \A x \in Scalar : (x ++ d) ** b = (x ** b) ++ (d ** b)
        <5> TAKE x \in Scalar
        <5>0. x ++ d \in Scalar /\ b \in Scalar  BY <2>1, RingClosed
        <5>1. b ** (x ++ d) = (b ** x) ++ (b ** d)  BY <5>0, RingAssumption
        <5>2. b ** x = x ** b /\ b ** d = d ** b /\ b ** (x ++ d) = (x ++ d) ** b
          BY <5>0, RingAssumption
        <5>. QED BY <5>1, <5>2
      <4>. QED BY <1>0, <4>1
    <3>. QED BY <1>1, <2>1, <2>2, <2>3, <3>1, <3>2, <3>3
  <2>4. CASE i # j
    <3>1. e[i] = Zero /\ q[i] = p[i]  BY <2>4
    <3>2. f[i] ++ Zero = f[i]  BY <2>2, RingAssumption
    <3>. QED BY <1>0, <2>1, <2>2, <3>1, <3>2
  <2>. QED BY <2>3, <2>4
<1>3. evaluate(p, r) = Sum(6, f) /\ evaluate(q, r) = Sum(6, h)  BY DEF evaluate
<1>4. e[j] = d ** basis(j, r) /\ \A i \in 0 .. 6 - 1 : i # j => e[i] = Zero
  BY <1>0
<1> HIDE DEF e, f, h
<1>5. Sum(6, e) = e[j]
  <2>1. j \in 0 .. 6 - 1 /\ e[j] \in Scalar  BY <1>0, <1>1, <1>4
  <2>. QED BY <1>0, <1>4, <2>1, SumSingle
<1>6. Sum(6, h) = Sum(6, f) ++ Sum(6, e)
  <2>1. \A i \in 0 .. 6 - 1 : f[i] \in Scalar /\ e[i] \in Scalar /\ h[i] = f[i] ++ e[i]
    BY <1>0, <1>2
  <2>. QED BY <1>0, <2>1, SumAdds
<1>. QED BY <1>3, <1>4, <1>5, <1>6
----------------------------------------------------------------------------
(* Points of a line, and folds of commitments and of rows.                 *)

(* The point r of a line: the ends with the weights 1 - r and r.           *)
LEMMA LerpForm ==
  ASSUME NEW x \in Scalar, NEW r \in Scalar, NEW y \in Scalar
  PROVE  Lerp(x, r, y) = ((One -- r) ** x) ++ (r ** y)
<1> DEFINE n == FieldNeg(r ** x)
<1>0. /\ One \in Scalar /\ FieldNeg(r) \in Scalar /\ FieldNeg(x) \in Scalar
      /\ r ** x \in Scalar /\ r ** y \in Scalar /\ n \in Scalar /\ One -- r \in Scalar
  <2>1. One \in Scalar /\ r ** x \in Scalar  BY RingAssumption
  <2>. QED BY <2>1, RingClosed
<1>1. r ** (y -- x) = (r ** y) ++ n
  <2>1. (r ** y) -- (r ** x) = r ** (y -- x)  BY MulOfSub
  <2>. QED BY <2>1 DEF --
<1>2. (One -- r) ** x = x ++ n
  <2>1. x ** (One -- r) = (x ** One) -- (x ** r)  BY <1>0, MulOfSub
  <2>2. x ** One = One ** x /\ One ** x = x /\ x ** r = r ** x /\ x ** (One -- r) = (One -- r) ** x
    BY <1>0, RingAssumption
  <2>. QED BY <2>1, <2>2 DEF --
<1> HIDE DEF n
<1>3. x ++ ((r ** y) ++ n) = (x ++ n) ++ (r ** y)
  <2> DEFINE z == r ** y
  <2> HIDE DEF z
  <2>0. z \in Scalar  BY <1>0 DEF z
  <2>1. z ++ n = n ++ z  BY <1>0, <2>0, RingAssumption
  <2>2. x ++ (n ++ z) = (x ++ n) ++ z  BY <1>0, <2>0, RingAssumption
  <2>. QED BY <2>1, <2>2 DEF z
<1>. QED BY <1>1, <1>2, <1>3 DEF Lerp

LEMMA LerpEnds ==
  ASSUME NEW x \in Scalar, NEW y \in Scalar
  PROVE  Lerp(x, Zero, y) = x /\ Lerp(x, One, y) = y
<1>0. One \in Scalar /\ Zero \in Scalar /\ y -- x \in Scalar  BY RingAssumption, RingClosed
<1>1. Zero ** (y -- x) = Zero  BY <1>0, MulZero
<1>2. One ** (y -- x) = y -- x  BY <1>0, RingAssumption
<1>3. x ++ Zero = x  BY RingAssumption
<1>4. x ++ (y -- x) = y  BY Restored
<1>. QED BY <1>1, <1>2, <1>3, <1>4 DEF Lerp

(* A fold at a point other than an end hides neither end.                  *)
LEMMA LerpCancel ==
  ASSUME NEW x1 \in Scalar, NEW x2 \in Scalar, NEW y1 \in Scalar, NEW y2 \in Scalar,
         NEW r \in Scalar, Lerp(x1, r, y1) = Lerp(x2, r, y2)
  PROVE  /\ y1 = y2 /\ r # One => x1 = x2
         /\ x1 = x2 /\ r # Zero => y1 = y2
<1> DEFINE m == One -- r
<1>0. One \in Scalar /\ m \in Scalar /\ (r # One => m # Zero)
  <2>1. One \in Scalar  BY RingAssumption
  <2>. QED BY <2>1, RingClosed, SubZero
<1>1. /\ Lerp(x1, r, y1) = (m ** x1) ++ (r ** y1)
      /\ Lerp(x2, r, y2) = (m ** x2) ++ (r ** y2)
  BY LerpForm
<1> HIDE DEF m
<1> DEFINE u1 == m ** x1
           u2 == m ** x2
           v1 == r ** y1
           v2 == r ** y2
<1>2. /\ u1 \in Scalar /\ u2 \in Scalar /\ v1 \in Scalar /\ v2 \in Scalar
  BY <1>0, RingClosed
<1>3. u1 ++ v1 = u2 ++ v2  BY <1>1
<1>4. y1 = y2 /\ r # One => x1 = x2
  <2> SUFFICES ASSUME y1 = y2, r # One  PROVE x1 = x2
    OBVIOUS
  <2>1. v1 ++ (m ** x1) = v2 ++ (m ** x2)
    <3> HIDE DEF v1, v2
    <3>1. v1 ++ u1 = u1 ++ v1 /\ v2 ++ u2 = u2 ++ v2
      <4> HIDE DEF u1, u2
      <4>. QED BY <1>2, RingAssumption
    <3>. QED BY <1>3, <3>1
  <2>2. v1 = v2  OBVIOUS
  <2> HIDE DEF v1, v2
  <2>. QED BY <1>0, <1>2, <2>1, <2>2, AxpyCancel
<1>5. x1 = x2 /\ r # Zero => y1 = y2
  <2>1. x1 = x2 => u1 = u2  OBVIOUS
  <2> HIDE DEF u1, u2
  <2>. QED BY <1>2, <1>3, <2>1, AxpyCancel
<1>. QED BY <1>4, <1>5

(* A commitment opens to the folded vector if the parts do, and away from  *)
(* the ends only then.                                                     *)
LEMMA CommFold ==
  ASSUME NEW S, NEW c1 \in Commitment(S), NEW c2 \in Commitment(S),
         NEW v1 \in Vec(S), NEW v2 \in Vec(S), NEW r1 \in Scalar, NEW r2 \in Scalar,
         NEW r \in Scalar
  PROVE  LET right == CommLerp(c1, r, c2) = Commit(LerpVec(v1, r, v2), Lerp(r1, r, r2))
         IN  /\ c1 = Commit(v1, r1) /\ c2 = Commit(v2, r2) => right
             /\ right /\ c2 = Commit(v2, r2) /\ r # One  => c1 = Commit(v1, r1)
             /\ right /\ c1 = Commit(v1, r1) /\ r # Zero => c2 = Commit(v2, r2)
<1> DEFINE right == CommLerp(c1, r, c2) = Commit(LerpVec(v1, r, v2), Lerp(r1, r, r2))
<1>1. c1 = Commit(v1, r1) /\ c2 = Commit(v2, r2) => right
  BY DEF CommLerp, Commit
<1>2. /\ c1.v \in Vec(S) /\ c2.v \in Vec(S) /\ c1.r \in Scalar /\ c2.r \in Scalar
      /\ c1 = [v |-> c1.v, r |-> c1.r] /\ c2 = [v |-> c2.v, r |-> c2.r]
  BY DEF Commitment
<1>3. /\ right => \A i \in S : Lerp(c1.v[i], r, c2.v[i]) = Lerp(v1[i], r, v2[i])
      /\ right => Lerp(c1.r, r, c2.r) = Lerp(r1, r, r2)
  <2> SUFFICES ASSUME right
               PROVE  /\ LerpVec(c1.v, r, c2.v) = LerpVec(v1, r, v2)
                      /\ Lerp(c1.r, r, c2.r) = Lerp(r1, r, r2)
    BY <1>2 DEF LerpVec, Vec
  <2>. QED BY DEF CommLerp, Commit
<1>4. right /\ c2 = Commit(v2, r2) /\ r # One  => c1 = Commit(v1, r1)
  <2> SUFFICES ASSUME right, c2 = Commit(v2, r2), r # One
               PROVE  c1.v = v1 /\ c1.r = r1
    BY <1>2 DEF Commit
  <2>1. c2.v = v2 /\ c2.r = r2  BY DEF Commit
  <2>2. \A i \in S : c1.v[i] = v1[i]
    <3> TAKE i \in S
    <3>1. c1.v[i] \in Scalar /\ v1[i] \in Scalar /\ v2[i] \in Scalar  BY <1>2 DEF Vec
    <3>2. Lerp(c1.v[i], r, v2[i]) = Lerp(v1[i], r, v2[i])  BY <1>3, <2>1
    <3>. QED BY <3>1, <3>2, LerpCancel
  <2>3. c1.r = r1
    <3>1. Lerp(c1.r, r, r2) = Lerp(r1, r, r2)  BY <1>3, <2>1
    <3>. QED BY <1>2, <3>1, LerpCancel
  <2>. QED BY <1>2, <2>2, <2>3 DEF Vec
<1>5. right /\ c1 = Commit(v1, r1) /\ r # Zero => c2 = Commit(v2, r2)
  <2> SUFFICES ASSUME right, c1 = Commit(v1, r1), r # Zero
               PROVE  c2.v = v2 /\ c2.r = r2
    BY <1>2 DEF Commit
  <2>1. c1.v = v1 /\ c1.r = r1  BY DEF Commit
  <2>2. \A i \in S : c2.v[i] = v2[i]
    <3> TAKE i \in S
    <3>1. c2.v[i] \in Scalar /\ v1[i] \in Scalar /\ v2[i] \in Scalar  BY <1>2 DEF Vec
    <3>2. Lerp(v1[i], r, c2.v[i]) = Lerp(v1[i], r, v2[i])  BY <1>3, <2>1
    <3>. QED BY <3>1, <3>2, LerpCancel
  <2>3. c2.r = r2
    <3>1. Lerp(r1, r, c2.r) = Lerp(r1, r, r2)  BY <1>3, <2>1
    <3>. QED BY <1>2, <3>1, LerpCancel
  <2>. QED BY <1>2, <2>2, <2>3 DEF Vec
<1>. QED BY <1>1, <1>4, <1>5
\* A row of a matrix as a map on vectors.
LinearMap(g) ==
    /\ g \in [Vec(Cols) -> Scalar]
    /\ \A r \in Scalar, x \in Vec(Cols) : g[[c \in Cols |-> r ** x[c]]] = r ** g[x]
    /\ \A x, y \in Vec(Cols) : g[[c \in Cols |-> x[c] ++ y[c]]] = g[x] ++ g[y]

LEMMA LinearLerp ==
  ASSUME NEW g, LinearMap(g), NEW x \in Vec(Cols), NEW y \in Vec(Cols), NEW r \in Scalar
  PROVE  g[LerpVec(x, r, y)] = Lerp(g[x], r, g[y])
<1> DEFINE m == One -- r
           mx == [c \in Cols |-> m ** x[c]]
           ry == [c \in Cols |-> r ** y[c]]
<1>0. One \in Scalar /\ m \in Scalar
  <2>1. One \in Scalar  BY RingAssumption
  <2>. QED BY <2>1, RingClosed
<1>1. LerpVec(x, r, y) = [c \in Cols |-> (m ** x[c]) ++ (r ** y[c])]
  <2>1. \A c \in Cols : Lerp(x[c], r, y[c]) = (m ** x[c]) ++ (r ** y[c])
    <3> TAKE c \in Cols
    <3>1. x[c] \in Scalar /\ y[c] \in Scalar  BY DEF Vec
    <3>. QED BY <3>1, LerpForm
  <2>2. DOMAIN x = Cols  BY DEF Vec
  <2>. QED BY <2>1, <2>2 DEF LerpVec
<1> HIDE DEF m
<1>2. mx \in Vec(Cols) /\ ry \in Vec(Cols)
  <2>1. ASSUME NEW c \in Cols  PROVE m ** x[c] \in Scalar /\ r ** y[c] \in Scalar
    <3>1. x[c] \in Scalar /\ y[c] \in Scalar  BY DEF Vec
    <3>. QED BY <1>0, <3>1, RingClosed
  <2>. QED BY <2>1 DEF Vec
<1>3. g[mx] = m ** g[x] /\ g[ry] = r ** g[y]  BY <1>0 DEF LinearMap
<1>4. [c \in Cols |-> mx[c] ++ ry[c]] = LerpVec(x, r, y)  BY <1>1
<1>5. g[[c \in Cols |-> mx[c] ++ ry[c]]] = g[mx] ++ g[ry]
  <2> HIDE DEF mx, ry
  <2>. QED BY <1>2 DEF LinearMap
<1>6. Lerp(g[x], r, g[y]) = (m ** g[x]) ++ (r ** g[y])
  <2>1. g[x] \in Scalar /\ g[y] \in Scalar  BY DEF LinearMap
  <2>. QED BY <2>1, LerpForm DEF m
<1> HIDE DEF mx, ry
<1>. QED BY <1>3, <1>4, <1>5, <1>6

(* The products of a row with the folded vector.                           *)
LEMMA RowsLerp ==
  ASSUME NEW k \in Cons, NEW x \in Vec(Cols), NEW y \in Vec(Cols), NEW r \in Scalar
  PROVE  /\ RowA(k, LerpVec(x, r, y)) = Lerp(RowA(k, x), r, RowA(k, y))
         /\ RowB(k, LerpVec(x, r, y)) = Lerp(RowB(k, x), r, RowB(k, y))
         /\ RowC(k, LerpVec(x, r, y)) = Lerp(RowC(k, x), r, RowC(k, y))
         /\ RowA(k, x) \in Scalar /\ RowB(k, x) \in Scalar /\ RowC(k, x) \in Scalar
<1> DEFINE a == [v \in Vec(Cols) |-> RowA(k, v)]
           b == [v \in Vec(Cols) |-> RowB(k, v)]
           c == [v \in Vec(Cols) |-> RowC(k, v)]
           z == LerpVec(x, r, y)
<1>0. z \in Vec(Cols)  BY LerpVecType
<1>1. \A s \in Scalar, v, w \in Vec(Cols) :
        /\ [i \in Cols |-> s ** v[i]] \in Vec(Cols)
        /\ [i \in Cols |-> v[i] ++ w[i]] \in Vec(Cols)
  <2> TAKE s \in Scalar, v, w \in Vec(Cols)
  <2>1. ASSUME NEW i \in Cols  PROVE s ** v[i] \in Scalar /\ v[i] ++ w[i] \in Scalar
    <3>1. v[i] \in Scalar /\ w[i] \in Scalar  BY DEF Vec
    <3>. QED BY <3>1, RingClosed
  <2>. QED BY <2>1 DEF Vec
<1>2. LinearMap(a)
  <2>1. Linear(RowA)  BY LinearAssumption
  <2>. QED BY <1>1, <2>1 DEF LinearMap, Linear
<1>3. LinearMap(b)
  <2>1. Linear(RowB)  BY LinearAssumption
  <2>. QED BY <1>1, <2>1 DEF LinearMap, Linear
<1>4. LinearMap(c)
  <2>1. Linear(RowC)  BY LinearAssumption
  <2>. QED BY <1>1, <2>1 DEF LinearMap, Linear
<1>5. /\ a[z] = RowA(k, z) /\ a[x] = RowA(k, x) /\ a[y] = RowA(k, y)
      /\ b[z] = RowB(k, z) /\ b[x] = RowB(k, x) /\ b[y] = RowB(k, y)
      /\ c[z] = RowC(k, z) /\ c[x] = RowC(k, x) /\ c[y] = RowC(k, y)
  BY <1>0
<1>6. RowA(k, x) \in Scalar /\ RowB(k, x) \in Scalar /\ RowC(k, x) \in Scalar
  BY LinearAssumption DEF Linear
<1> HIDE DEF a, b, c
<1>7. /\ a[z] = Lerp(a[x], r, a[y]) /\ b[z] = Lerp(b[x], r, b[y])
      /\ c[z] = Lerp(c[x], r, c[y])
  BY <1>2, <1>3, <1>4, LinearLerp
<1>. QED BY <1>5, <1>6, <1>7

LEMMA ZVecFolds ==
  ASSUME NEW W1 \in Vec(Vars), NEW W2 \in Vec(Vars), NEW u1 \in Scalar, NEW u2 \in Scalar,
         NEW X1 \in Vec(IO), NEW X2 \in Vec(IO), NEW r \in Scalar
  PROVE  ZVec(LerpVec(W1, r, W2), Lerp(u1, r, u2), LerpVec(X1, r, X2))
           = LerpVec(ZVec(W1, u1, X1), r, ZVec(W2, u2, X2))
BY DEF ZVec, LerpVec, Vec, Cols
----------------------------------------------------------------------------
(* The round polynomial has degree five.                                   *)

\* The weighted sum of the pair at the point r of the line.
LineSum(E1, z1, E2, z2, r) ==
    WeightedSum(LerpVec(E1, r, E2), Residual(LerpVec(z1, r, z2)))

LEMMA ResidualType ==
  ASSUME NEW z \in Vec(Cols)
  PROVE  Residual(z) \in Vec(Cons)
<1>1. ASSUME NEW k \in Cons  PROVE (RowA(k, z) ** RowB(k, z)) -- RowC(k, z) \in Scalar
  <2>1. RowA(k, z) \in Scalar /\ RowB(k, z) \in Scalar /\ RowC(k, z) \in Scalar
    BY LinearAssumption DEF Linear
  <2>2. RowA(k, z) ** RowB(k, z) \in Scalar  BY <2>1, RingClosed
  <2>. QED BY <2>1, <2>2, RingClosed
<1>. QED BY <1>1 DEF Residual, Vec

LEMMA LineSumType ==
  ASSUME NEW E1 \in Vec(Tensor), NEW E2 \in Vec(Tensor),
         NEW z1 \in Vec(Cols), NEW z2 \in Vec(Cols), NEW r \in Scalar
  PROVE  LineSum(E1, z1, E2, z2, r) \in Scalar
<1>1. LerpVec(E1, r, E2) \in Vec(Tensor)  BY LerpVecType
<1>2. LerpVec(z1, r, z2) \in Vec(Cols)  BY LerpVecType
<1>3. Residual(LerpVec(z1, r, z2)) \in Vec(Cons)  BY <1>2, ResidualType
<1>. QED BY <1>1, <1>3, WeightedSumType DEF LineSum

(* The products are linear, so extending them along the line is the        *)
(* product with the folded vector.                                         *)
LEMMA HelperIs ==
  ASSUME NEW rho \in Scalar, NEW E1 \in Vec(Tensor), NEW E2 \in Vec(Tensor),
         NEW z1 \in Vec(Cols), NEW z2 \in Vec(Cols), NEW b \in Points
  PROVE  prove_helper(rho, E1, z1, E2, z2, b)
           = eq(rho, from[b]) ** LineSum(E1, z1, E2, z2, from[b])
<1> DEFINE r == from[b]
           res == [k \in Cons |->
                     (Lerp(RowA(k, z1), r, RowA(k, z2)) ** Lerp(RowB(k, z1), r, RowB(k, z2)))
                       -- Lerp(RowC(k, z1), r, RowC(k, z2))]
<1>1. r \in Scalar  BY PointsOf
<1>2. prove_helper(rho, E1, z1, E2, z2, b) = eq(rho, r) ** WeightedSum(LerpVec(E1, r, E2), res)
  BY DEF prove_helper
<1> HIDE DEF r
<1>3. Residual(LerpVec(z1, r, z2)) = res
  <2>1. \A k \in Cons :
          /\ RowA(k, LerpVec(z1, r, z2)) = Lerp(RowA(k, z1), r, RowA(k, z2))
          /\ RowB(k, LerpVec(z1, r, z2)) = Lerp(RowB(k, z1), r, RowB(k, z2))
          /\ RowC(k, LerpVec(z1, r, z2)) = Lerp(RowC(k, z1), r, RowC(k, z2))
    BY <1>1, RowsLerp
  <2>. QED BY <2>1 DEF Residual
<1>. QED BY <1>2, <1>3 DEF LineSum, r

LEMMA EqIsLerp ==
  ASSUME NEW rho \in Scalar, NEW r \in Scalar
  PROVE  eq(rho, r) = Lerp(One -- rho, r, rho)
<1>0. One \in Scalar /\ One -- rho \in Scalar /\ One -- r \in Scalar
  <2>1. One \in Scalar  BY RingAssumption
  <2>. QED BY <2>1, RingClosed
<1>1. Lerp(One -- rho, r, rho) = ((One -- r) ** (One -- rho)) ++ (r ** rho)
  BY <1>0, LerpForm
<1>2. (One -- r) ** (One -- rho) = (One -- rho) ** (One -- r) /\ r ** rho = rho ** r
  BY <1>0, RingAssumption
<1>. QED BY <1>1, <1>2 DEF eq

LEMMA LinePoly ==
  ASSUME NEW a \in Scalar, NEW b \in Scalar
  PROVE  [r \in Scalar |-> Lerp(a, r, b)] \in Poly[1]
<1>0. 0 \in 0 .. MaxDegree - 1 /\ 0 + 1 = 1  BY DEF MaxDegree
<1>1. Poly[1] = Raised(Poly[0]) /\ Poly[0] = Constants  BY <1>0, PolySteps
<1>2. Const(b -- a) \in Constants  BY RingClosed DEF Constants
<1>3. [r \in Scalar |-> Lerp(a, r, b)] = Horner(a, Const(b -- a))
  BY DEF Lerp, Horner, Const
<1>. QED BY <1>1, <1>2, <1>3 DEF Raised

(* A linear factor more.                                                   *)
LEMMA LineTimes ==
  ASSUME NEW d \in 0 .. MaxDegree - 1, NEW f \in Poly[d],
         NEW a \in Scalar, NEW b \in Scalar
  PROVE  [r \in Scalar |-> Lerp(a, r, b) ** f[r]] \in Poly[d + 1]
<1>0. d \in 0 .. MaxDegree  BY DEF MaxDegree
<1>1. Poly[d + 1] = Raised(Poly[d]) /\ Space(Poly[d])  BY <1>0, PolySteps, PolySpaces
<1>2. b -- a \in Scalar  BY RingClosed
<1> DEFINE c == b -- a
           P == Poly[d]
<1> HIDE DEF c, P
<1>3. [r \in Scalar |-> (a ++ (r ** c)) ** f[r]] \in Raised(P)
  BY <1>1, <1>2, LinearFactor DEF c, P
<1>. QED BY <1>1, <1>3 DEF Lerp, c, P

(* The degree of a term of the sum: two for the product of A and B, one    *)
(* for each half of E.                                                     *)
LEMMA ResidualDegree ==
  ASSUME NEW k \in Cons, NEW z1 \in Vec(Cols), NEW z2 \in Vec(Cols)
  PROVE  [r \in Scalar |-> Residual(LerpVec(z1, r, z2))[k]] \in Poly[2]
<1> DEFINE a1 == RowA(k, z1)
           a2 == RowA(k, z2)
           b1 == RowB(k, z1)
           b2 == RowB(k, z2)
           c1 == RowC(k, z1)
           c2 == RowC(k, z2)
           m == FieldNeg(One)
           fb == [r \in Scalar |-> Lerp(b1, r, b2)]
           fc == [r \in Scalar |-> Lerp(c1, r, c2)]
           ab == [r \in Scalar |-> Lerp(a1, r, a2) ** fb[r]]
           h == Plus(ab, Scale(m, fc))
<1>0. /\ a1 \in Scalar /\ a2 \in Scalar /\ b1 \in Scalar /\ b2 \in Scalar
      /\ c1 \in Scalar /\ c2 \in Scalar
  BY LinearAssumption DEF Linear
<1>1. m \in Scalar /\ One \in Scalar  BY RingAssumption
<1>2. \A r \in Scalar : Residual(LerpVec(z1, r, z2))[k]
                          = (Lerp(a1, r, a2) ** Lerp(b1, r, b2)) -- Lerp(c1, r, c2)
  BY RowsLerp DEF Residual
<1> HIDE DEF a1, a2, b1, b2, c1, c2, m
<1>3. fb \in Poly[1] /\ fc \in Poly[1]  BY <1>0, LinePoly
<1>4. 1 \in 0 .. MaxDegree - 1 /\ 1 + 1 = 2 /\ 2 \in 0 .. MaxDegree /\ 1 \in 0 .. MaxDegree
  BY DEF MaxDegree
<1>5. /\ Poly[2] = Raised(Poly[1]) /\ Space(Poly[1]) /\ Space(Poly[2])
  BY <1>4, PolySteps, PolySpaces
<1>6. ab \in Poly[2]
  <2> HIDE DEF fb
  <2>1. ab \in Poly[1 + 1]  BY <1>0, <1>3, <1>4, LineTimes
  <2>. QED BY <1>4, <2>1
<1>7. h \in Poly[2]
  <2> HIDE DEF ab, fc
  <2>1. fc \in Poly[2]  BY <1>3, <1>5 DEF Space
  <2>2. Scale(m, fc) \in Poly[2]  BY <1>1, <1>5, <2>1 DEF Space
  <2>. QED BY <1>5, <1>6, <2>2 DEF Space
<1>8. \A r \in Scalar : h[r] = (Lerp(a1, r, a2) ** Lerp(b1, r, b2)) -- Lerp(c1, r, c2)
  <2> TAKE r \in Scalar
  <2>1. h[r] = (Lerp(a1, r, a2) ** Lerp(b1, r, b2)) ++ (m ** Lerp(c1, r, c2))
    BY DEF Plus, Scale
  <2>2. \A y \in Scalar : m ** y = FieldNeg(y)
    <3> TAKE y \in Scalar
    <3>1. y ** m = FieldNeg(y ** One)  BY <1>1, MulNeg DEF m
    <3>2. y ** m = m ** y /\ y ** One = One ** y /\ One ** y = y  BY <1>1, RingAssumption
    <3>. QED BY <3>1, <3>2
  <2>3. Lerp(c1, r, c2) \in Scalar  BY <1>0, LerpType
  <2>. QED BY <2>1, <2>2, <2>3 DEF --
<1>9. h = [r \in Scalar |-> h[r]]  BY DEF Plus
<1> HIDE DEF h
<1>10. h = [r \in Scalar |-> Residual(LerpVec(z1, r, z2))[k]]
  BY <1>2, <1>8, <1>9
<1>. QED BY <1>7, <1>10

LEMMA TermDegree ==
  ASSUME NEW k \in Cons, NEW E1 \in Vec(Tensor), NEW E2 \in Vec(Tensor),
         NEW z1 \in Vec(Cols), NEW z2 \in Vec(Cols)
  PROVE  [r \in Scalar |-> full_E(LerpVec(E1, r, E2), k) ** Residual(LerpVec(z1, r, z2))[k]]
           \in Poly[4]
<1> DEFINE i == Left + (k \div Left)
           j == k % Left
           f == [r \in Scalar |-> Residual(LerpVec(z1, r, z2))[k]]
           g == [r \in Scalar |-> Lerp(E1[j], r, E2[j]) ** f[r]]
           h == [r \in Scalar |-> Lerp(E1[i], r, E2[i]) ** g[r]]
<1>0. i \in Tensor /\ j \in Tensor
  BY TensorIndex, StructureAssumption DEF Tensor
<1>1. \A r \in Scalar : full_E(LerpVec(E1, r, E2), k)
                          = Lerp(E1[i], r, E2[i]) ** Lerp(E1[j], r, E2[j])
  BY <1>0 DEF full_E, LerpVec, Vec
<1>2. /\ E1[i] \in Scalar /\ E2[i] \in Scalar /\ E1[j] \in Scalar /\ E2[j] \in Scalar
  BY <1>0 DEF Vec
<1>3. f \in Poly[2]  BY ResidualDegree
<1>4. 2 \in 0 .. MaxDegree - 1 /\ 2 + 1 = 3 /\ 3 \in 0 .. MaxDegree - 1 /\ 3 + 1 = 4
      /\ 2 \in 0 .. MaxDegree
  BY DEF MaxDegree
<1> HIDE DEF i, j
<1>5. g \in Poly[3]
  <2> HIDE DEF f
  <2>1. g \in Poly[2 + 1]  BY <1>2, <1>3, <1>4, LineTimes
  <2>. QED BY <1>4, <2>1
<1>6. h \in Poly[4]
  <2> HIDE DEF g
  <2>1. h \in Poly[3 + 1]  BY <1>2, <1>4, <1>5, LineTimes
  <2>. QED BY <1>4, <2>1
<1>7. \A r \in Scalar : f[r] \in Scalar
  <2> HIDE DEF f
  <2>. QED BY <1>3, <1>4, PolySpaces DEF Space, Fun
<1>8. \A r \in Scalar : h[r] = full_E(LerpVec(E1, r, E2), k) ** f[r]
  <2> TAKE r \in Scalar
  <2>1. Lerp(E1[i], r, E2[i]) \in Scalar /\ Lerp(E1[j], r, E2[j]) \in Scalar
    BY <1>2, LerpType
  <2>2. h[r] = Lerp(E1[i], r, E2[i]) ** (Lerp(E1[j], r, E2[j]) ** f[r])
    <3> HIDE DEF f
    <3>. QED OBVIOUS
  <2> HIDE DEF f, h
  <2>3. \A u, v, w \in Scalar : u ** (v ** w) = (u ** v) ** w  BY RingAssumption
  <2>. QED BY <1>1, <1>7, <2>1, <2>2, <2>3
<1>9. h = [r \in Scalar |-> full_E(LerpVec(E1, r, E2), k) ** f[r]]
  <2> HIDE DEF f
  <2>1. h = [r \in Scalar |-> h[r]]  OBVIOUS
  <2> HIDE DEF h
  <2>. QED BY <1>8, <2>1
<1>. QED BY <1>6, <1>9

\* The polynomial of a round, as a function.
RoundOf(rho, E1, z1, E2, z2) ==
    [r \in Scalar |-> eq(rho, r) ** LineSum(E1, z1, E2, z2, r)]

(* It has the degree that six points determine.                            *)
LEMMA RoundDegree ==
  ASSUME NEW rho \in Scalar, NEW E1 \in Vec(Tensor), NEW E2 \in Vec(Tensor),
         NEW z1 \in Vec(Cols), NEW z2 \in Vec(Cols)
  PROVE  RoundOf(rho, E1, z1, E2, z2) \in Poly[MaxDegree]
<1> DEFINE n == Left * Right
           t(k, r) == full_E(LerpVec(E1, r, E2), k) ** Residual(LerpVec(z1, r, z2))[k]
           F == [k \in 0 .. n - 1 |-> [r \in Scalar |-> t(k, r)]]
           P == Poly[4]
           s == [r \in Scalar |-> LineSum(E1, z1, E2, z2, r)]
<1>0. n \in Nat /\ Cons = 0 .. n - 1  BY SizeType DEF Cons
<1>1. 4 \in 0 .. MaxDegree - 1 /\ 4 + 1 = MaxDegree /\ 4 \in 0 .. MaxDegree
  BY DEF MaxDegree
<1>2. Space(P)  BY <1>1, PolySpaces
<1>3. \A k \in 0 .. n - 1 : [r \in Scalar |-> t(k, r)] \in P
  BY <1>0, TermDegree
<1>4. \A r \in Scalar : LineSum(E1, z1, E2, z2, r) = Sum(n, [k \in 0 .. n - 1 |-> t(k, r)])
  BY <1>0 DEF LineSum, WeightedSum
<1> HIDE DEF t, n, P
<1>5. \A k \in 0 .. n - 1 : F[k] \in P  BY <1>3
<1>6. \A k \in 0 .. n - 1, r \in Scalar : F[k][r] = t(k, r)  OBVIOUS
<1> HIDE DEF F
<1>7. [r \in Scalar |-> Sum(n, [k \in 0 .. n - 1 |-> F[k][r]])] \in P
  BY <1>0, <1>2, <1>5, SumOfPolys
<1>8. \A r \in Scalar : [k \in 0 .. n - 1 |-> F[k][r]] = [k \in 0 .. n - 1 |-> t(k, r)]
  BY <1>6
<1>9. s \in P  BY <1>4, <1>7, <1>8
<1>10. One -- rho \in Scalar  BY RingAssumption, RingClosed
<1>11. [r \in Scalar |-> Lerp(One -- rho, r, rho) ** s[r]] \in Poly[4 + 1]
  <2> HIDE DEF s
  <2>. QED BY <1>1, <1>9, <1>10, LineTimes DEF P
<1>12. [r \in Scalar |-> Lerp(One -- rho, r, rho) ** s[r]]
         = RoundOf(rho, E1, z1, E2, z2)
  BY EqIsLerp DEF RoundOf
<1>. QED BY <1>1, <1>11, <1>12
----------------------------------------------------------------------------
(* What a fold leaves of the sums.                                         *)

LEMMA LerpVecEnds ==
  ASSUME NEW S, NEW x \in Vec(S), NEW y \in Vec(S)
  PROVE  LerpVec(x, Zero, y) = x /\ LerpVec(x, One, y) = y
<1>1. \A i \in S : x[i] \in Scalar /\ y[i] \in Scalar  BY DEF Vec
<1>2. \A i \in S : Lerp(x[i], Zero, y[i]) = x[i] /\ Lerp(x[i], One, y[i]) = y[i]
  BY <1>1, LerpEnds
<1>. QED BY <1>2 DEF LerpVec, Vec

\* How far the claim T and the sums at the two ends are from a fold that is
\* right: the error of the value at 1.
Error(rho, T, ws1, ws2) == ((One -- rho) ** (T -- ws1)) -- (rho ** ws2)

(* What the fold claims: the sum of the folded pair, off by the error      *)
(* times the basis at 1.                                                   *)
LEMMA FoldSum ==
  ASSUME NEW rho \in Scalar, NEW r_b \in Scalar, eq(rho, r_b) # Zero,
         NEW U1 \in FoldedInstance, NEW W1 \in FoldedWitness,
         NEW U2 \in [comm_W : Commitment(Vars), X : Vec(IO)],
         NEW W2 \in [W : Vec(Vars), r_W : Scalar], NEW E2 \in Vec(Tensor)
  PROVE  LET z1  == ZVec(W1.W, U1.u, U1.X)
             z2  == ZVec(W2.W, One, U2.X)
             d   == Error(rho, U1.T, WeightedSum(W1.E, Residual(z1)),
                          WeightedSum(E2, Residual(z2)))
         IN  T_after(round_poly(rho, U1, W1, U2, W2, E2), rho, r_b)
               = LineSum(W1.E, z1, E2, z2, r_b)
                   ++ ((d ** basis(1, r_b)) ** FieldInv(eq(rho, r_b)))
<1> DEFINE z1 == ZVec(W1.W, U1.u, U1.X)
           z2 == ZVec(W2.W, One, U2.X)
           E1 == W1.E
           LS(r) == LineSum(E1, z1, E2, z2, r)
           H == [r \in Scalar |-> eq(rho, r) ** LS(r)]
           ws1 == WeightedSum(E1, Residual(z1))
           ws2 == WeightedSum(E2, Residual(z2))
           m  == One -- rho
           T  == m ** U1.T
           d  == Error(rho, U1.T, ws1, ws2)
           q  == round_poly(rho, U1, W1, U2, W2, E2)
           p  == [b \in Points |-> H[from[b]]]
           e  == eq(rho, r_b)
           B  == basis(1, r_b)
<1>1. /\ W1.W \in Vec(Vars) /\ U1.u \in Scalar /\ U1.X \in Vec(IO) /\ U1.T \in Scalar
      /\ E1 \in Vec(Tensor) /\ W2.W \in Vec(Vars) /\ U2.X \in Vec(IO) /\ One \in Scalar
      /\ Zero \in Scalar
  BY RingAssumption DEF FoldedInstance, FoldedWitness
<1>2. z1 \in Vec(Cols) /\ z2 \in Vec(Cols)  BY <1>1, ZVecType
<1>3. q = [b \in Points |-> IF b = 1 THEN T -- prove_helper(rho, E1, z1, E2, z2, 0)
                            ELSE prove_helper(rho, E1, z1, E2, z2, b)]
  BY DEF round_poly
<1>4. 0 \in Points /\ 1 \in Points /\ from[0] = Zero /\ from[1] = One
      /\ \A b \in Points : from[b] \in Scalar
  BY PointsOf DEF Points
<1>5. ws1 \in Scalar /\ ws2 \in Scalar
  BY <1>1, <1>2, ResidualType, WeightedSumType
<1>6. LS(Zero) = ws1 /\ LS(One) = ws2
  <2> HIDE DEF z1, z2, E1
  <2>1. /\ LerpVec(E1, Zero, E2) = E1 /\ LerpVec(E1, One, E2) = E2
        /\ LerpVec(z1, Zero, z2) = z1 /\ LerpVec(z1, One, z2) = z2
    BY <1>1, <1>2, LerpVecEnds
  <2>. QED BY <2>1 DEF LineSum
<1> HIDE DEF z1, z2, E1, ws1, ws2
<1>7. \A r \in Scalar : LS(r) \in Scalar /\ eq(rho, r) \in Scalar
  BY <1>1, <1>2, LineSumType, EqType
<1>8. H \in Poly[MaxDegree]
  <2>1. RoundOf(rho, E1, z1, E2, z2) \in Poly[MaxDegree]
    BY <1>1, <1>2, RoundDegree
  <2>. QED BY <2>1 DEF RoundOf
<1>9. \A b \in Points : prove_helper(rho, E1, z1, E2, z2, b) = H[from[b]]
  <2> TAKE b \in Points
  <2>1. prove_helper(rho, E1, z1, E2, z2, b) = eq(rho, from[b]) ** LS(from[b])
    BY <1>1, <1>2, HelperIs
  <2>. QED BY <1>4, <2>1
<1>10. q = [b \in Points |-> IF b = 1 THEN T -- H[Zero] ELSE H[from[b]]]
  <2> HIDE DEF H, T, q
  <2>. QED BY <1>3, <1>4, <1>9
<1>11. m \in Scalar /\ T \in Scalar /\ rho ** ws2 \in Scalar /\ m ** ws1 \in Scalar
  <2>1. m \in Scalar  BY <1>1, RingClosed
  <2>. QED BY <1>1, <1>5, <2>1, RingClosed
<1>12. H[Zero] = m ** ws1 /\ H[One] = rho ** ws2
  <2>1. eq(rho, Zero) = m /\ eq(rho, One) = rho
    <3> HIDE DEF m
    <3>1. Lerp(m, Zero, rho) = m /\ Lerp(m, One, rho) = rho  BY <1>11, LerpEnds
    <3>2. eq(rho, Zero) = Lerp(m, Zero, rho) /\ eq(rho, One) = Lerp(m, One, rho)
      BY <1>1, EqIsLerp DEF m
    <3>. QED BY <3>1, <3>2
  <2> HIDE DEF LS, m
  <2>2. H[Zero] = eq(rho, Zero) ** LS(Zero) /\ H[One] = eq(rho, One) ** LS(One)
    BY <1>1
  <2>. QED BY <1>6, <2>1, <2>2
<1>13. d \in Scalar /\ T -- H[Zero] = H[One] ++ d
  <2> DEFINE x == m ** (U1.T -- ws1)
             y == rho ** ws2
  <2>1. x = T -- (m ** ws1)
    <3> HIDE DEF m
    <3>. QED BY <1>1, <1>5, <1>11, MulOfSub
  <2>2. x \in Scalar  BY <1>11, <2>1, RingClosed
  <2>3. d = x -- y  BY DEF Error
  <2>4. y \in Scalar  BY <1>11
  <2> HIDE DEF x, y, d
  <2>5. d \in Scalar /\ y ++ d = x  BY <2>2, <2>3, <2>4, RingClosed, Restored
  <2>. QED BY <1>12, <2>1, <2>5 DEF y
<1> HIDE DEF H, T, d, q, LS, e, m, B
<1>14. /\ p \in Vec(Points) /\ q \in Vec(Points)
  <2>1. \A r \in Scalar : H[r] \in Scalar
    <3>1. MaxDegree \in 0 .. MaxDegree  BY DEF MaxDegree
    <3>. QED BY <1>8, <3>1, PolySpaces DEF Space, Fun
  <2>2. T -- H[Zero] \in Scalar  BY <1>1, <1>11, <2>1, RingClosed
  <2>. QED BY <1>4, <1>10, <2>1, <2>2 DEF Vec
<1>15. q[1] = p[1] ++ d /\ \A b \in Points : 1 # b => q[b] = p[b]
  BY <1>4, <1>10, <1>13
<1>16. evaluate(p, r_b) = H[r_b]
  <2>1. \A b \in Points : p[b] = H[from[b]]  OBVIOUS
  <2> HIDE DEF p
  <2>. QED BY <1>8, <2>1, Interpolation
<1>17. evaluate(q, r_b) = H[r_b] ++ (d ** B)
  <2> HIDE DEF p
  <2>1. evaluate(q, r_b) = evaluate(p, r_b) ++ (d ** basis(1, r_b))
    BY <1>4, <1>13, <1>14, <1>15, EvaluateShift
  <2>. QED BY <1>16, <2>1 DEF B
<1> DEFINE inv == FieldInv(e)
           l == LS(r_b)
<1>18. e \in Scalar /\ inv \in Scalar /\ e ** inv = One /\ l \in Scalar
       /\ B \in Scalar /\ d ** B \in Scalar
  <2>1. e \in Scalar /\ e # Zero  BY <1>7 DEF e
  <2>2. B \in Scalar  BY <1>4, BasisType DEF B
  <2>. QED BY <1>7, <1>13, <2>1, <2>2, InverseAssumption, RingClosed
<1>19. H[r_b] = e ** l  BY DEF H, e
<1> HIDE DEF inv, l
<1>20. ((e ** l) ++ (d ** B)) ** inv = l ++ ((d ** B) ** inv)
  <2> DEFINE x == d ** B
             y == e ** l
  <2>0. x \in Scalar /\ y \in Scalar /\ y ++ x \in Scalar
    <3>1. x \in Scalar /\ y \in Scalar  BY <1>18, RingClosed
    <3>. QED BY <3>1, RingClosed
  <2>1. y ** inv = l
    <3>1. (l ** e) ** inv = l ** (e ** inv)  BY <1>18, RingAssumption
    <3>2. l ** e = e ** l /\ l ** One = One ** l /\ One ** l = l
      BY <1>1, <1>18, RingAssumption
    <3>. QED BY <1>18, <3>1, <3>2
  <2> HIDE DEF x, y
  <2>2. inv ** (y ++ x) = (inv ** y) ++ (inv ** x)  BY <1>18, <2>0, RingAssumption
  <2>3. inv ** (y ++ x) = (y ++ x) ** inv /\ inv ** y = y ** inv /\ inv ** x = x ** inv
    BY <1>18, <2>0, RingAssumption
  <2>4. (y ++ x) ** inv = l ++ (x ** inv)  BY <2>1, <2>2, <2>3
  <2>. QED BY <2>4 DEF x, y
<1>21. T_after(q, rho, r_b) = evaluate(q, r_b) ** inv  BY DEF T_after, inv, e
<1>22. T_after(q, rho, r_b) = l ++ ((d ** B) ** inv)
  BY <1>17, <1>19, <1>20, <1>21
<1>. QED BY <1>22 DEF q, l, LS, d, B, inv, e, E1, z1, z2, ws1, ws2

(* The folded pair is satisfying exactly if the error vanishes where it    *)
(* enters and the folded commitments open to the folded vectors.           *)
LEMMA FoldSat ==
  ASSUME NEW rho \in Scalar, NEW r_b \in Scalar, eq(rho, r_b) # Zero,
         NEW U1 \in FoldedInstance, NEW W1 \in FoldedWitness,
         NEW U2 \in [comm_W : Commitment(Vars), X : Vec(IO)],
         NEW W2 \in [W : Vec(Vars), r_W : Scalar], NEW E2 \in Vec(Tensor),
         NEW r_E \in Scalar
  PROVE  LET ws1 == WeightedSum(W1.E, Residual(ZVec(W1.W, U1.u, U1.X)))
             ws2 == WeightedSum(E2, Residual(ZVec(W2.W, One, U2.X)))
             T_out == T_after(round_poly(rho, U1, W1, U2, W2, E2), rho, r_b)
         IN  is_sat(fold_instance(U1, U2, Commit(E2, r_E), r_b, T_out),
                    fold_witness(W1, W2, E2, r_E, r_b))
               <=> /\ Error(rho, U1.T, ws1, ws2) ** basis(1, r_b) = Zero
                   /\ CommLerp(U1.comm_W, r_b, U2.comm_W)
                        = Commit(LerpVec(W1.W, r_b, W2.W), Lerp(W1.r_W, r_b, W2.r_W))
                   /\ CommLerp(U1.comm_E, r_b, Commit(E2, r_E))
                        = Commit(LerpVec(W1.E, r_b, E2), Lerp(W1.r_E, r_b, r_E))
<1> DEFINE z1 == ZVec(W1.W, U1.u, U1.X)
           z2 == ZVec(W2.W, One, U2.X)
           ws1 == WeightedSum(W1.E, Residual(z1))
           ws2 == WeightedSum(E2, Residual(z2))
           T_out == T_after(round_poly(rho, U1, W1, U2, W2, E2), rho, r_b)
           d == Error(rho, U1.T, ws1, ws2)
           x == d ** basis(1, r_b)
           inv == FieldInv(eq(rho, r_b))
           l == LineSum(W1.E, z1, E2, z2, r_b)
           U == fold_instance(U1, U2, Commit(E2, r_E), r_b, T_out)
           W == fold_witness(W1, W2, E2, r_E, r_b)
<1>1. /\ W1.W \in Vec(Vars) /\ U1.u \in Scalar /\ U1.X \in Vec(IO) /\ U1.T \in Scalar
      /\ W1.E \in Vec(Tensor) /\ W2.W \in Vec(Vars) /\ U2.X \in Vec(IO) /\ One \in Scalar
      /\ Zero \in Scalar
  BY RingAssumption DEF FoldedInstance, FoldedWitness
<1>2. z1 \in Vec(Cols) /\ z2 \in Vec(Cols)  BY <1>1, ZVecType
<1>3. ZVec(W.W, U.u, U.X) = LerpVec(z1, r_b, z2)
  BY <1>1, ZVecFolds DEF fold_instance, fold_witness
<1>4. WeightedSum(W.E, Residual(ZVec(W.W, U.u, U.X))) = l
  <2>1. W.E = LerpVec(W1.E, r_b, E2)  BY DEF fold_witness
  <2> HIDE DEF z1, z2, U, W
  <2>. QED BY <1>3, <2>1 DEF LineSum
<1>5. T_out = l ++ (x ** inv)  BY FoldSum
<1>6. ws1 \in Scalar /\ ws2 \in Scalar  BY <1>1, <1>2, ResidualType, WeightedSumType
<1>7. l \in Scalar  BY <1>1, <1>2, LineSumType
<1> HIDE DEF z1, z2, ws1, ws2, l, T_out
<1>8. d \in Scalar
  <2>1. One -- rho \in Scalar /\ U1.T -- ws1 \in Scalar /\ rho ** ws2 \in Scalar
    BY <1>1, <1>6, RingClosed
  <2>2. (One -- rho) ** (U1.T -- ws1) \in Scalar  BY <2>1, RingClosed
  <2>. QED BY <2>1, <2>2, RingClosed DEF Error
<1> HIDE DEF d
<1>9. x \in Scalar
  <2>1. basis(1, r_b) \in Scalar  BY BasisType DEF Points
  <2>. QED BY <1>8, <2>1, RingClosed
<1>10. inv \in Scalar /\ inv # Zero
  <2>1. eq(rho, r_b) \in Scalar  BY EqType
  <2>2. inv \in Scalar /\ eq(rho, r_b) ** inv = One  BY <2>1, InverseAssumption
  <2>. QED BY <2>1, <2>2, MulZero, DomainAssumption
<1> HIDE DEF x, inv
<1>11. l = T_out <=> x = Zero
  <2>1. x ** inv \in Scalar  BY <1>9, <1>10, RingClosed
  <2>2. x = Zero => l ++ (x ** inv) = l
    <3>1. Zero ** inv = Zero /\ l ++ Zero = l  BY <1>7, <1>10, MulZero, RingAssumption
    <3>. QED BY <3>1
  <2>3. l = l ++ (x ** inv) => x = Zero
    <3> SUFFICES ASSUME l = l ++ (x ** inv)  PROVE x = Zero
      OBVIOUS
    <3>1. l ++ (One ** (x ** inv)) = l ++ (One ** Zero)
      <4>1. One ** (x ** inv) = x ** inv /\ One ** Zero = Zero /\ l ++ Zero = l
        BY <1>1, <1>7, <2>1, RingAssumption
      <4>. QED BY <4>1
    <3>2. x ** inv = Zero
      <4> DEFINE y == x ** inv
      <4> HIDE DEF y
      <4>1. y \in Scalar /\ l ++ (One ** y) = l ++ (One ** Zero)  BY <2>1, <3>1 DEF y
      <4>2. y = Zero  BY <1>1, <1>7, <4>1, AxpyCancel, DomainAssumption
      <4>. QED BY <4>2 DEF y
    <3>. QED BY <1>9, <1>10, <3>2, DomainAssumption
  <2>. QED BY <1>5, <2>2, <2>3
<1>12. /\ U.T = T_out
       /\ U.comm_W = CommLerp(U1.comm_W, r_b, U2.comm_W)
       /\ U.comm_E = CommLerp(U1.comm_E, r_b, Commit(E2, r_E))
       /\ W.W = LerpVec(W1.W, r_b, W2.W) /\ W.r_W = Lerp(W1.r_W, r_b, W2.r_W)
       /\ W.E = LerpVec(W1.E, r_b, E2)   /\ W.r_E = Lerp(W1.r_E, r_b, r_E)
  BY DEF fold_instance, fold_witness
<1> HIDE DEF U, W
<1>13. is_sat(U, W) <=> /\ x = Zero
                        /\ U.comm_W = Commit(W.W, W.r_W) /\ U.comm_E = Commit(W.E, W.r_E)
  BY <1>4, <1>11, <1>12 DEF is_sat
<1>14. is_sat(U, W) <=> 
         /\ x = Zero
         /\ CommLerp(U1.comm_W, r_b, U2.comm_W)
              = Commit(LerpVec(W1.W, r_b, W2.W), Lerp(W1.r_W, r_b, W2.r_W))
         /\ CommLerp(U1.comm_E, r_b, Commit(E2, r_E))
              = Commit(LerpVec(W1.E, r_b, E2), Lerp(W1.r_E, r_b, r_E))
  BY <1>12, <1>13
<1>. QED BY <1>14 DEF U, W, x, d, ws1, ws2, z1, z2, T_out

LEMMA SumsType ==
  ASSUME NEW U1 \in FoldedInstance, NEW W1 \in FoldedWitness,
         NEW U2 \in [comm_W : Commitment(Vars), X : Vec(IO)],
         NEW W2 \in [W : Vec(Vars), r_W : Scalar], NEW E2 \in Vec(Tensor)
  PROVE  /\ U1.T \in Scalar
         /\ WeightedSum(W1.E, Residual(ZVec(W1.W, U1.u, U1.X))) \in Scalar
         /\ WeightedSum(E2, Residual(ZVec(W2.W, One, U2.X))) \in Scalar
<1>1. /\ W1.W \in Vec(Vars) /\ U1.u \in Scalar /\ U1.X \in Vec(IO) /\ U1.T \in Scalar
      /\ W1.E \in Vec(Tensor) /\ W2.W \in Vec(Vars) /\ U2.X \in Vec(IO) /\ One \in Scalar
  BY RingAssumption DEF FoldedInstance, FoldedWitness
<1> DEFINE z1 == ZVec(W1.W, U1.u, U1.X)
           z2 == ZVec(W2.W, One, U2.X)
<1>2. z1 \in Vec(Cols) /\ z2 \in Vec(Cols)  BY <1>1, ZVecType
<1> HIDE DEF z1, z2
<1>3. Residual(z1) \in Vec(Cons) /\ Residual(z2) \in Vec(Cons)  BY <1>2, ResidualType
<1>. QED BY <1>1, <1>3, WeightedSumType DEF z1, z2

(* When one of the two pairs has nothing left, the error is what the other *)
(* one is off by.                                                          *)
LEMMA ErrorOf ==
  ASSUME NEW rho \in Scalar, NEW T \in Scalar, NEW ws1 \in Scalar, NEW ws2 \in Scalar
  PROVE  /\ Error(rho, T, ws1, ws2) \in Scalar
         /\ T = ws1 /\ ws2 = Zero => Error(rho, T, ws1, ws2) = Zero
         /\ T = ws1 /\ rho # Zero /\ Error(rho, T, ws1, ws2) = Zero => ws2 = Zero
         /\ ws2 = Zero /\ rho # One /\ Error(rho, T, ws1, ws2) = Zero => T = ws1
<1> DEFINE m == One -- rho
           t == T -- ws1
           x == m ** t
           y == rho ** ws2
<1>0. One \in Scalar /\ Zero \in Scalar  BY RingAssumption
<1>1. m \in Scalar /\ t \in Scalar /\ (m = Zero <=> One = rho) /\ (t = Zero <=> T = ws1)
  BY <1>0, RingClosed, SubZero
<1>2. Error(rho, T, ws1, ws2) = x -- y  BY DEF Error
<1> HIDE DEF m, t
<1>3. /\ x \in Scalar /\ y \in Scalar
      /\ (x = Zero <=> One = rho \/ T = ws1) /\ (y = Zero <=> rho = Zero \/ ws2 = Zero)
  BY <1>0, <1>1, RingClosed, MulZero, DomainAssumption
<1> HIDE DEF x, y
<1>4. x -- y \in Scalar /\ (x -- y = Zero <=> x = y)  BY <1>3, RingClosed, SubZero
<1>. QED BY <1>2, <1>3, <1>4

(* Completeness of a fold.                                                 *)
LEMMA FoldKeeps ==
  ASSUME NEW rho \in Scalar, NEW r_b \in Scalar, eq(rho, r_b) # Zero,
         NEW U1 \in FoldedInstance, NEW W1 \in FoldedWitness,
         NEW U2 \in [comm_W : Commitment(Vars), X : Vec(IO)],
         NEW W2 \in [W : Vec(Vars), r_W : Scalar], NEW E2 \in Vec(Tensor),
         NEW r_E \in Scalar, is_sat(U1, W1), U2.comm_W = Commit(W2.W, W2.r_W),
         WeightedSum(E2, Residual(ZVec(W2.W, One, U2.X))) = Zero
  PROVE  is_sat(fold_instance(U1, U2, Commit(E2, r_E), r_b,
                              T_after(round_poly(rho, U1, W1, U2, W2, E2), rho, r_b)),
                fold_witness(W1, W2, E2, r_E, r_b))
<1> DEFINE ws1 == WeightedSum(W1.E, Residual(ZVec(W1.W, U1.u, U1.X)))
           ws2 == WeightedSum(E2, Residual(ZVec(W2.W, One, U2.X)))
<1>1. U1.T = ws1 /\ ws2 = Zero /\ U1.T \in Scalar /\ ws1 \in Scalar /\ ws2 \in Scalar
  BY SumsType DEF is_sat
<1>2. Error(rho, U1.T, ws1, ws2) ** basis(1, r_b) = Zero
  <2> HIDE DEF ws1, ws2
  <2>1. Error(rho, U1.T, ws1, ws2) = Zero  BY <1>1, ErrorOf
  <2>2. basis(1, r_b) \in Scalar  BY BasisType DEF Points
  <2>. QED BY <2>1, <2>2, MulZero
<1>3. /\ U1.comm_W \in Commitment(Vars) /\ U1.comm_E \in Commitment(Tensor)
      /\ U2.comm_W \in Commitment(Vars) /\ Commit(E2, r_E) \in Commitment(Tensor)
      /\ W1.W \in Vec(Vars) /\ W1.r_W \in Scalar /\ W1.E \in Vec(Tensor) /\ W1.r_E \in Scalar
      /\ W2.W \in Vec(Vars) /\ W2.r_W \in Scalar
      /\ U1.comm_W = Commit(W1.W, W1.r_W) /\ U1.comm_E = Commit(W1.E, W1.r_E)
  BY CommitType DEF FoldedInstance, FoldedWitness, is_sat
<1>4. CommLerp(U1.comm_W, r_b, U2.comm_W)
        = Commit(LerpVec(W1.W, r_b, W2.W), Lerp(W1.r_W, r_b, W2.r_W))
  BY <1>3, CommFold
<1>5. CommLerp(U1.comm_E, r_b, Commit(E2, r_E))
        = Commit(LerpVec(W1.E, r_b, E2), Lerp(W1.r_E, r_b, r_E))
  BY <1>3, CommFold
<1>. QED BY <1>2, <1>4, <1>5, FoldSat

(* Soundness of a fold: away from the points of the polynomial and with    *)
(* both weights of rho, an error on one side shows in the result.          *)
LEMMA FoldShows ==
  ASSUME NEW rho \in Scalar, NEW r_b \in Scalar, eq(rho, r_b) # Zero,
         NEW U1 \in FoldedInstance, NEW W1 \in FoldedWitness,
         NEW U2 \in [comm_W : Commitment(Vars), X : Vec(IO)],
         NEW W2 \in [W : Vec(Vars), r_W : Scalar], NEW E2 \in Vec(Tensor),
         NEW r_E \in Scalar,
         \A b \in Points : r_b # from[b], rho # Zero, rho # One,
         NEW right \in BOOLEAN,
         right <=> /\ U2.comm_W = Commit(W2.W, W2.r_W)
                   /\ WeightedSum(E2, Residual(ZVec(W2.W, One, U2.X))) = Zero,
         is_sat(U1, W1) \/ right,
         is_sat(fold_instance(U1, U2, Commit(E2, r_E), r_b,
                              T_after(round_poly(rho, U1, W1, U2, W2, E2), rho, r_b)),
                fold_witness(W1, W2, E2, r_E, r_b))
  PROVE  is_sat(U1, W1) /\ right
<1> DEFINE ws1 == WeightedSum(W1.E, Residual(ZVec(W1.W, U1.u, U1.X)))
           ws2 == WeightedSum(E2, Residual(ZVec(W2.W, One, U2.X)))
           d == Error(rho, U1.T, ws1, ws2)
           okW == CommLerp(U1.comm_W, r_b, U2.comm_W)
                    = Commit(LerpVec(W1.W, r_b, W2.W), Lerp(W1.r_W, r_b, W2.r_W))
           okE == CommLerp(U1.comm_E, r_b, Commit(E2, r_E))
                    = Commit(LerpVec(W1.E, r_b, E2), Lerp(W1.r_E, r_b, r_E))
<1>1. U1.T \in Scalar /\ ws1 \in Scalar /\ ws2 \in Scalar
  BY SumsType
<1>2. /\ U1.comm_W \in Commitment(Vars) /\ U1.comm_E \in Commitment(Tensor)
      /\ U2.comm_W \in Commitment(Vars) /\ Commit(E2, r_E) \in Commitment(Tensor)
      /\ W1.W \in Vec(Vars) /\ W1.r_W \in Scalar /\ W1.E \in Vec(Tensor) /\ W1.r_E \in Scalar
      /\ W2.W \in Vec(Vars) /\ W2.r_W \in Scalar
  BY CommitType DEF FoldedInstance, FoldedWitness
<1>3. d ** basis(1, r_b) = Zero /\ okW /\ okE  BY FoldSat
<1>4. r_b # Zero /\ r_b # One
  BY PointsOf DEF Points
<1>5. is_sat(U1, W1) <=> /\ ws1 = U1.T /\ U1.comm_W = Commit(W1.W, W1.r_W)
                         /\ U1.comm_E = Commit(W1.E, W1.r_E)
  BY DEF is_sat
<1>6. right <=> U2.comm_W = Commit(W2.W, W2.r_W) /\ ws2 = Zero
  OBVIOUS
<1> HIDE DEF ws1, ws2
<1>7. d = Zero
  <2>1. basis(1, r_b) # Zero /\ basis(1, r_b) \in Scalar
    BY BasisNonZero, BasisType DEF Points
  <2>2. d \in Scalar  BY <1>1, ErrorOf
  <2> HIDE DEF d
  <2>. QED BY <1>3, <2>1, <2>2, DomainAssumption
<1>8. CASE is_sat(U1, W1)
  <2>1. ws2 = Zero  BY <1>1, <1>5, <1>7, <1>8, ErrorOf
  <2>2. U2.comm_W = Commit(W2.W, W2.r_W)
    BY <1>2, <1>3, <1>4, <1>5, <1>8, CommFold
  <2>. QED BY <1>6, <1>8, <2>1, <2>2
<1>9. CASE right
  <2>1. U1.T = ws1  BY <1>1, <1>6, <1>7, <1>9, ErrorOf
  <2>2. U1.comm_W = Commit(W1.W, W1.r_W)
    BY <1>2, <1>3, <1>4, <1>6, <1>9, CommFold
  <2>3. U1.comm_E = Commit(W1.E, W1.r_E)
    BY <1>2, <1>3, <1>4, CommFold
  <2>. QED BY <1>5, <1>9, <2>1, <2>2, <2>3
<1>. QED BY <1>8, <1>9
----------------------------------------------------------------------------
(* Completeness and soundness.                                             *)

\* The effect of NIFS::prove when it returns.
Folded(U2, W2, tau, r_E, rho, r_b) ==
    LET E      == split_evals(tau)
        comm_E == Commit(E, r_E)
        poly   == round_poly(rho, pU, pW, U2, W2, E)
    IN  /\ eq(rho, r_b) # Zero
        /\ pU' = fold_instance(pU, U2, comm_E, r_b, T_after(poly, rho, r_b))
        /\ pW' = fold_witness(pW, W2, E, r_E, r_b)
        /\ ro' = {<<TauQuery(U2), tau>>, <<RhoQuery(U2, comm_E), rho>>,
                  <<RbQuery(U2, comm_E, poly), r_b>>}
        /\ good' = (/\ U2.comm_W = Commit(W2.W, W2.r_W)
                    /\ WeightedSum(E, Residual(ZVec(W2.W, One, U2.X))) = Zero)
        /\ clean' = (clean /\ is_sat_r1cs(U2, W2))

LEMMA ProveFoldStep ==
  ASSUME NEW p \in Incoming, ProveFold(p[1], p[2])
  PROVE  \/ UNCHANGED <<pU, pW, msg, good, clean>>
         \/ \E tau, r_E, rho, r_b \in Scalar : Folded(p[1], p[2], tau, r_E, rho, r_b)
<1>1. \E tau \in Taus, r_E \in Blind, rho \in Rhos, r_b \in Rbs :
        \/ UNCHANGED <<pU, pW, msg, good, clean>>
        \/ Folded(p[1], p[2], tau, r_E, rho, r_b)
  <2>1. PICK tau \in Taus, r_E \in Blind, rho \in Rhos, r_b \in Rbs :
          LET U2     == p[1]
              W2     == p[2]
              E      == split_evals(tau)
              comm_E == Commit(E, r_E)
              poly   == round_poly(rho, pU, pW, U2, W2, E)
          IN  IF eq(rho, r_b) = Zero
              THEN UNCHANGED <<pU, pW, msg, good, clean>>
              ELSE /\ pU' = fold_instance(pU, U2, comm_E, r_b, T_after(poly, rho, r_b))
                   /\ pW' = fold_witness(pW, W2, E, r_E, r_b)
                   /\ ro' = {<<TauQuery(U2), tau>>, <<RhoQuery(U2, comm_E), rho>>,
                             <<RbQuery(U2, comm_E, poly), r_b>>}
                   /\ good' = (U2.comm_W = Commit(W2.W, W2.r_W)
                                 /\ WeightedSum(E, Residual(ZVec(W2.W, One, U2.X))) = Zero)
                   /\ clean' = (clean /\ is_sat_r1cs(U2, W2))
    BY DEF ProveFold
  <2>. QED BY <2>1, Zenon DEF Folded
<1>. QED BY <1>1, CallAssumption

IncomingTyped(p) ==
    /\ p[1] \in [comm_W : Commitment(Vars), X : Vec(IO)]
    /\ p[2] \in [W : Vec(Vars), r_W : Scalar]

(* A satisfying R1CS pair has no residual to weigh.                        *)
LEMMA SatisfyingAddsNothing ==
  ASSUME NEW U2, NEW W2, is_sat_r1cs(U2, W2), NEW E \in Vec(Tensor)
  PROVE  WeightedSum(E, Residual(ZVec(W2.W, One, U2.X))) = Zero
<1>1. Residual(ZVec(W2.W, One, U2.X)) = ZeroVec(Cons)  BY DEF is_sat_r1cs
<1> DEFINE f == [k \in Cons |-> full_E(E, k) ** ZeroVec(Cons)[k]]
<1>2. WeightedSum(E, ZeroVec(Cons)) = Sum(Left * Right, f)  BY DEF WeightedSum
<1>3. \A k \in 0 .. (Left * Right) - 1 : f[k] = Zero
  <2> TAKE k \in 0 .. (Left * Right) - 1
  <2>1. k \in Cons  BY DEF Cons
  <2>2. full_E(E, k) \in Scalar  BY <2>1, FullEType
  <2>3. f[k] = full_E(E, k) ** Zero  BY <2>1 DEF ZeroVec
  <2>. QED BY <2>2, <2>3, MulZero
<1> HIDE DEF f
<1>. QED BY <1>1, <1>2, <1>3, SizeType, SumZeros

(* NIFS::prove keeps the running pair satisfying.                          *)
LEMMA DefaultsSat == is_sat(default_instance, default_witness)
<1> DEFINE z == ZVec(ZeroVec(Vars), Zero, ZeroVec(IO))
           f == [k \in Cons |-> full_E(ZeroVec(Tensor), k) ** Residual(z)[k]]
<1>0. Zero \in Scalar  BY RingAssumption
<1>1. z \in Vec(Cols)  BY <1>0, ZVecType, ZeroVecType
<1> HIDE DEF z
<1>2. WeightedSum(ZeroVec(Tensor), Residual(z)) = Sum(Left * Right, f)
  BY DEF WeightedSum
<1>3. \A k \in 0 .. (Left * Right) - 1 : f[k] = Zero
  <2> TAKE k \in 0 .. (Left * Right) - 1
  <2>1. k \in Cons  BY DEF Cons
  <2>2. Residual(z)[k] \in Scalar  BY <1>1, <2>1, ResidualType DEF Vec
  <2>3. Left + (k \div Left) \in Tensor /\ k % Left \in Tensor
    BY <2>1, TensorIndex, StructureAssumption DEF Tensor
  <2>4. full_E(ZeroVec(Tensor), k) = Zero ** Zero  BY <2>3 DEF full_E, ZeroVec
  <2>5. Zero ** Zero = Zero  BY <1>0, MulZero
  <2>. QED BY <2>1, <2>2, <2>4, <2>5, MulZero
<1> HIDE DEF f
<1>4. WeightedSum(ZeroVec(Tensor), Residual(z)) = Zero
  BY <1>2, <1>3, SizeType, SumZeros
<1>. QED BY <1>4 DEF z, is_sat, default_instance, default_witness

(* Completeness of NIFS::prove and Structure::is_sat: whatever the field,  *)
(* the matrices, the challenges and the number of folds, folding           *)
(* satisfying pairs leaves a satisfying running pair.                      *)
THEOREM SpecZeroFoldComplete == NifsSpec => []ZeroFoldComplete
<1>1. NifsInit => ZeroFoldComplete
  BY DefaultsSat DEF NifsInit, ZeroFoldComplete
<1>2. FoldInv /\ ZeroFoldComplete /\ [NifsNext]_nifs_vars => ZeroFoldComplete'
  <2> SUFFICES ASSUME FoldInv, ZeroFoldComplete, [NifsNext]_nifs_vars, clean'
               PROVE  is_sat(pU', pW')
    BY DEF ZeroFoldComplete, is_sat
  <2>0. pU \in FoldedInstance /\ pW \in FoldedWitness  BY DEF FoldInv, FoldTypeOK
  <2>1. ASSUME NEW p \in Incoming, ProveFold(p[1], p[2])  PROVE is_sat(pU', pW')
    <3>0. IncomingTyped(p)  BY CallAssumption DEF IncomingTyped
    <3>1. CASE UNCHANGED <<pU, pW, clean>>
      BY <3>1 DEF ZeroFoldComplete
    <3>2. ASSUME NEW tau \in Scalar, NEW r_E \in Scalar, NEW rho \in Scalar,
                 NEW r_b \in Scalar, Folded(p[1], p[2], tau, r_E, rho, r_b)
          PROVE  is_sat(pU', pW')
      <4> DEFINE U2 == p[1]
                 W2 == p[2]
                 E  == split_evals(tau)
      <4>0. E \in Vec(Tensor)  BY SplitEvalsType
      <4>1. /\ eq(rho, r_b) # Zero
            /\ pU' = fold_instance(pU, U2, Commit(E, r_E), r_b,
                                   T_after(round_poly(rho, pU, pW, U2, W2, E), rho, r_b))
            /\ pW' = fold_witness(pW, W2, E, r_E, r_b)
            /\ clean /\ is_sat_r1cs(U2, W2)
        BY <3>2 DEF Folded
      <4>2. /\ U2 \in [comm_W : Commitment(Vars), X : Vec(IO)]
            /\ W2 \in [W : Vec(Vars), r_W : Scalar]
        BY <3>0 DEF IncomingTyped
      <4> HIDE DEF U2, W2, E
      <4>3. is_sat(pU, pW)  BY <4>1 DEF ZeroFoldComplete
      <4>4. WeightedSum(E, Residual(ZVec(W2.W, One, U2.X))) = Zero
        BY <4>0, <4>1, SatisfyingAddsNothing
      <4>5. U2.comm_W = Commit(W2.W, W2.r_W)  BY <4>1 DEF is_sat_r1cs
      <4>. QED BY <2>0, <4>0, <4>1, <4>2, <4>3, <4>4, <4>5, FoldKeeps
    <3>. QED BY <2>1, <3>1, <3>2, ProveFoldStep
  <2>2. CASE Verify  BY <2>2 DEF Verify, ZeroFoldComplete
  <2>3. CASE VerifyCircuit  BY <2>3 DEF VerifyCircuit, ZeroFoldComplete
  <2>4. CASE UNCHANGED nifs_vars  BY <2>4 DEF nifs_vars, ZeroFoldComplete
  <2>. QED BY <2>1, <2>2, <2>3, <2>4 DEF NifsNext
<1>. QED BY <1>1, <1>2, Inductive, PTL DEF NifsSpec

(* Soundness of a fold (the "if and only if" of NIFS::prove's doc          *)
(* comment): if one side of the fold holds, the result is satisfying       *)
(* exactly when the other one holds too, for every challenge r_b that is   *)
(* not a point of the round polynomial and every rho but 0 and 1.          *)
THEOREM SpecZeroFoldSound == NifsSpec => ZeroFoldSound
<1> DEFINE Asked == /\ FoldStep /\ AnswersOf("r_b", ro') \cap {from[b] : b \in Points} = {}
                    /\ AnswersOf("rho", ro') \cap {Zero, One} = {}
                    /\ Satisfied \/ good'
           Sound == Asked => (Satisfied' <=> Satisfied /\ good')
<1>1. FoldInv /\ [NifsNext]_nifs_vars => [Sound]_nifs_vars
  <2> SUFFICES ASSUME FoldInv, NifsNext, FoldStep, Satisfied \/ good',
                      AnswersOf("r_b", ro') \cap {from[b] : b \in Points} = {},
                      AnswersOf("rho", ro') \cap {Zero, One} = {}
               PROVE  is_sat(pU', pW') <=> is_sat(pU, pW) /\ good'
    BY DEF Satisfied, is_sat
  <2>0. pU \in FoldedInstance /\ pW \in FoldedWitness  BY DEF FoldInv, FoldTypeOK
  <2>1. PICK p \in Incoming : ProveFold(p[1], p[2])
    BY DEF NifsNext, FoldStep, Verify, VerifyCircuit
  <2>2. PICK tau \in Scalar, r_E \in Scalar, rho \in Scalar, r_b \in Scalar :
          Folded(p[1], p[2], tau, r_E, rho, r_b)
    BY <2>1, ProveFoldStep DEF FoldStep
  <2> DEFINE U2 == p[1]
             W2 == p[2]
             E  == split_evals(tau)
             poly == round_poly(rho, pU, pW, U2, W2, E)
             right == /\ U2.comm_W = Commit(W2.W, W2.r_W)
                      /\ WeightedSum(E, Residual(ZVec(W2.W, One, U2.X))) = Zero
  <2>3. /\ eq(rho, r_b) # Zero /\ E \in Vec(Tensor)
        /\ pU' = fold_instance(pU, U2, Commit(E, r_E), r_b, T_after(poly, rho, r_b))
        /\ pW' = fold_witness(pW, W2, E, r_E, r_b)
        /\ good' = right
        /\ ro' = {<<TauQuery(U2), tau>>, <<RhoQuery(U2, Commit(E, r_E)), rho>>,
                  <<RbQuery(U2, Commit(E, r_E), poly), r_b>>}
    BY <2>2, SplitEvalsType DEF Folded
  <2>4. /\ U2 \in [comm_W : Commitment(Vars), X : Vec(IO)]
        /\ W2 \in [W : Vec(Vars), r_W : Scalar]
    BY CallAssumption
  <2> DEFINE q2 == RhoQuery(U2, Commit(E, r_E))
             q3 == RbQuery(U2, Commit(E, r_E), poly)
  <2>5. q2[1] = "rho" /\ q3[1] = "r_b" /\ <<q2, rho>> \in ro' /\ <<q3, r_b>> \in ro'
    BY <2>3 DEF RhoQuery, RbQuery
  <2> HIDE DEF U2, W2, E, q2, q3, poly
  <2>6. rho \in AnswersOf("rho", ro') /\ r_b \in AnswersOf("r_b", ro')
    <3>1. <<q2, rho>>[1] = q2 /\ <<q2, rho>>[2] = rho /\ <<q3, r_b>>[1] = q3 /\ <<q3, r_b>>[2] = r_b
      OBVIOUS
    <3>. QED BY <2>5, <3>1 DEF AnswersOf
  <2>7. rho # Zero /\ rho # One /\ \A b \in Points : r_b # from[b]
    BY <2>6
  <2>8. is_sat(pU, pW) /\ right => is_sat(pU', pW')
    BY <2>0, <2>3, <2>4, FoldKeeps DEF poly
  <2>9. is_sat(pU', pW') => is_sat(pU, pW) /\ right
    <3> SUFFICES ASSUME is_sat(pU', pW')  PROVE is_sat(pU, pW) /\ right
      OBVIOUS
    <3>1. right \in BOOLEAN  OBVIOUS
    <3>2. is_sat(pU, pW) \/ right  BY <2>3 DEF Satisfied
    <3>. QED BY <2>0, <2>3, <2>4, <2>7, <3>1, <3>2, FoldShows DEF poly
  <2>. QED BY <2>3, <2>8, <2>9
<1>. QED BY <1>1, Inductive, PTL DEF NifsSpec, ZeroFoldSound
----------------------------------------------------------------------------
(***************************************************************************)
(* What NeutronNova's verify accepts is what was executed, for any number  *)
(* of slots, parameters, states and steps.                                 *)
(*                                                                         *)
(* As for Nova (see IVCProofs), soundness is not inductive: a step extends *)
(* a snark whether or not it would verify.  The invariant relates every    *)
(* snark to its log, good or bad.  With one chain it has one hash: that of *)
(* the last instance, over the running instance it will be folded into.    *)
(***************************************************************************)

Step == [pp : PP, zin : State, zout : State, ok : BOOLEAN]

Clean(L)   == \A k \in 1 .. Len(L) : L[k].ok /\ L[k].pp = L[1].pp
Chained(L) == \A k \in 2 .. Len(L) : L[k].zin = L[k - 1].zout
Log(L)     == L \in Seq(Step) /\ Len(L) # 0 /\ Chained(L)

AllSat(S) == S.r_U.sat /\ S.l_u.sat

Linked(S, L) ==
    /\ Log(L)
    /\ S.i = Len(L) \/ (S.i = 0 /\ Len(L) = 1)
    /\ S.z0 = L[1].zin /\ S.zi = L[Len(L)].zout
    /\ S.l_u.X = Hash(L[Len(L)].pp, Len(L), S.z0, S.zi, S.r_U, S.ri)
    /\ AllSat(S) <=> Clean(L)

IInv ==
    /\ DOMAIN snark = Slot /\ DOMAIN log = Slot
    /\ \A s \in Slot :
          /\ log[s] \in Seq(Step)
          /\ snark[s] # None => Linked(snark[s], log[s])
----------------------------------------------------------------------------
(* A log in which nothing went wrong is an execution, and only that. *)
LEMMA CleanExecutes ==
    ASSUME NEW L, Log(L)
    PROVE  /\ Clean(L) => Executes(L, L[Len(L)].pp, Len(L), L[1].zin, L[Len(L)].zout)
           /\ \A pp, n, z0, zn : Executes(L, pp, n, z0, zn)
                 => /\ Clean(L) /\ pp = L[Len(L)].pp /\ n = Len(L)
                    /\ z0 = L[1].zin /\ zn = L[Len(L)].zout
<1>1. Len(L) \in Nat \ {0}  BY DEF Log
<1>2. \A k \in 1 .. Len(L) : L[k] \in Step  BY DEF Log
<1>3. Clean(L) => Executes(L, L[Len(L)].pp, Len(L), L[1].zin, L[Len(L)].zout)
  BY <1>1, <1>2 DEF Clean, Executes, Log, Chained
<1>4. ASSUME NEW pp, NEW n, NEW z0, NEW zn, Executes(L, pp, n, z0, zn)
      PROVE  /\ Clean(L) /\ pp = L[Len(L)].pp /\ n = Len(L)
             /\ z0 = L[1].zin /\ zn = L[Len(L)].zout
  BY <1>1, <1>4 DEF Clean, Executes
<1>. QED BY <1>3, <1>4

(* A clean log stays clean exactly with a good step under its parameters. *)
LEMMA CleanAppend ==
    ASSUME NEW L \in Seq(Step), Len(L) # 0, NEW e \in Step
    PROVE  Clean(Append(L, e)) <=> Clean(L) /\ e.ok /\ e.pp = L[Len(L)].pp
<1> DEFINE M == Append(L, e)
           m == Len(L)
<1>1. /\ m \in Nat \ {0} /\ Len(M) = m + 1 /\ M[m + 1] = e
      /\ \A k \in 1 .. m : M[k] = L[k]
  OBVIOUS
<1>2. ASSUME Clean(M)  PROVE Clean(L) /\ e.ok /\ e.pp = L[m].pp
  <2>1. \A k \in 1 .. m + 1 : M[k].ok /\ M[k].pp = M[1].pp
    BY <1>1, <1>2 DEF Clean
  <2>2. \A k \in 1 .. m : L[k].ok /\ L[k].pp = L[1].pp
    BY <1>1, <2>1
  <2>3. e.ok /\ e.pp = L[1].pp
    BY <1>1, <2>1
  <2>. QED BY <1>1, <2>2, <2>3 DEF Clean
<1>3. ASSUME Clean(L), e.ok, e.pp = L[m].pp  PROVE Clean(M)
  <2>1. ASSUME NEW k \in 1 .. m + 1  PROVE M[k].ok /\ M[k].pp = M[1].pp
    <3>1. CASE k = m + 1
      BY <1>1, <1>3, <3>1 DEF Clean
    <3>2. CASE k # m + 1
      <4>1. k \in 1 .. m /\ 1 \in 1 .. m  BY <1>1, <3>2
      <4>2. L[k].ok /\ L[k].pp = L[1].pp  BY <1>3, <4>1 DEF Clean
      <4>. QED BY <1>1, <4>1, <4>2
    <3>. QED BY <3>1, <3>2
  <2>. QED BY <1>1, <2>1 DEF Clean
<1>. QED BY <1>2, <1>3

(* RecursiveSNARK::new. *)
LEMMA NewLinked ==
    ASSUME NEW pp \in PP, NEW z0 \in State, NEW z \in State, NEW ok \in BOOLEAN, NEW n
    PROVE  Linked(new_snark(pp, z0, z, ok, n), <<Executed(pp, z0, z, ok)>>)
<1> DEFINE S == new_snark(pp, z0, z, ok, n)
           L == <<Executed(pp, z0, z, ok)>>
<1>1. L \in Seq(Step) /\ Len(L) = 1 /\ L[1] = Executed(pp, z0, z, ok)
  BY DEF Step, Executed
<1>2. Log(L)
  BY <1>1 DEF Log, Chained
<1>3. /\ S.i = 0 /\ S.z0 = z0 /\ S.zi = z /\ S.r_U = default /\ S.ri = n
      /\ S.l_u.X = Hash(pp, 1, z0, z, default, n) /\ (S.l_u.sat <=> ok)
  BY DEF new_snark, synthesize, Instance
<1>4. AllSat(S) <=> Clean(L)
  BY <1>1, <1>3 DEF AllSat, Clean, Executed, default
<1>. QED BY <1>1, <1>2, <1>3, <1>4 DEF Linked, Executed

(* The first call of prove_step. *)
LEMMA CountLinked ==
    ASSUME NEW S, NEW L, Linked(S, L), S.i = 0
    PROVE  Linked(counted(S), L)
<1>1. Len(L) = 1  BY DEF Linked, Log
<1>2. AllSat(counted(S)) <=> AllSat(S)  BY DEF AllSat, counted
<1>. QED BY <1>1, <1>2 DEF Linked, counted

(* Every other call of prove_step: the circuit's check of its input hash   *)
(* passes exactly if the step uses the parameters of the one before.       *)
LEMMA StepLinked ==
    ASSUME NEW S, NEW L, Linked(S, L), S.i # 0,
           NEW pp \in PP, NEW z \in State, NEW ok \in BOOLEAN, NEW n
    PROVE  Linked(next_snark(S, pp, z, ok, n), Append(L, Executed(pp, S.zi, z, ok)))
<1> DEFINE e == Executed(pp, S.zi, z, ok)
           M == Append(L, e)
           N == next_snark(S, pp, z, ok, n)
           m == Len(L)
<1>1. L \in Seq(Step) /\ m \in Nat \ {0} /\ S.i = m
  BY DEF Linked, Log
<1>2. S.zi \in State
  <2>1. L[m] \in Step  BY <1>1
  <2>. QED BY <2>1 DEF Linked, Step
<1>3. e \in Step /\ e.ok = ok /\ e.pp = pp /\ e.zin = S.zi /\ e.zout = z
  BY <1>2 DEF Step, Executed
<1>4. M \in Seq(Step) /\ Len(M) = m + 1 /\ M[m + 1] = e
      /\ \A k \in 1 .. m : M[k] = L[k]
  BY <1>1, <1>3
<1>5. Log(M)
  <2>1. ASSUME NEW k \in 2 .. m + 1  PROVE M[k].zin = M[k - 1].zout
    <3>1. CASE k = m + 1
      BY <1>1, <1>3, <1>4, <3>1 DEF Linked
    <3>2. CASE k # m + 1
      <4>1. k \in 2 .. m /\ k - 1 \in 1 .. m /\ k \in 1 .. m
        BY <1>1, <3>2
      <4>. QED BY <1>4, <4>1 DEF Linked, Log, Chained
    <3>. QED BY <3>1, <3>2
  <2>. QED BY <1>1, <1>4, <2>1 DEF Log, Chained
<1>6. /\ N.i = m + 1 /\ N.z0 = S.z0 /\ N.zi = z /\ N.ri = n
      /\ N.r_U = fold(pp, S.r_U, S.l_u, n)
  BY <1>1 DEF next_snark
<1>7. N.l_u.X = Hash(pp, m + 1, S.z0, z, N.r_U, n)
  BY <1>1, <1>6 DEF next_snark, synthesize, Instance
<1>8. (S.l_u.X = Hash(pp, S.i, S.z0, S.zi, S.r_U, S.ri)) <=> pp = L[m].pp
  BY <1>1 DEF Linked, Hash
<1>9. N.l_u.sat <=> ok /\ pp = L[m].pp
  BY <1>1, <1>8 DEF next_snark, synthesize, Instance
<1>10. N.r_U.sat <=> S.r_U.sat /\ S.l_u.sat
  BY DEF next_snark, fold
<1>11. AllSat(N) <=> Clean(M)
  <2>1. Clean(M) <=> Clean(L) /\ ok /\ pp = L[m].pp
    BY <1>1, <1>3, CleanAppend
  <2>. QED BY <1>9, <1>10, <2>1 DEF Linked, AllSat
<1>12. N.z0 = M[1].zin
  BY <1>1, <1>4, <1>6 DEF Linked
<1>. QED BY <1>3, <1>4, <1>5, <1>6, <1>7, <1>11, <1>12 DEF Linked
----------------------------------------------------------------------------
LEMMA InitIInv == Init => IInv
BY DEF Init, IInv, None

(* Changing one slot, for a snark and a log that are linked. *)
LEMMA SlotChanged ==
    ASSUME NEW s \in Slot, NEW S, NEW L, Linked(S, L), IInv,
           snark' = [snark EXCEPT ![s] = S], log' = [log EXCEPT ![s] = L]
    PROVE  IInv'
<1>1. DOMAIN snark' = Slot /\ DOMAIN log' = Slot
  BY DEF IInv
<1>2. \A t \in Slot : /\ snark'[t] = IF t = s THEN S ELSE snark[t]
                      /\ log'[t] = IF t = s THEN L ELSE log[t]
  BY DEF IInv
<1>3. L \in Seq(Step)
  BY DEF Linked, Log
<1>. QED BY <1>1, <1>2, <1>3 DEF IInv

LEMMA NextIInv == IInv /\ [Next]_vars => IInv'
<1> SUFFICES ASSUME IInv, [Next]_vars  PROVE IInv'
  OBVIOUS
<1>1. ASSUME NEW s \in Slot, NEW pp \in PP, NEW z0 \in State, NEW z \in State,
             NEW ok \in BOOLEAN, New(s, pp, z0, z, ok)
      PROVE  IInv'
  <2>1. Linked(new_snark(pp, z0, z, ok, draws), <<Executed(pp, z0, z, ok)>>)
    BY NewLinked
  <2>3. /\ snark' = [snark EXCEPT ![s] = new_snark(pp, z0, z, ok, draws)]
        /\ log' = [log EXCEPT ![s] = <<Executed(pp, z0, z, ok)>>]
    BY <1>1 DEF New, z_input
  <2>. QED BY <2>1, <2>3, SlotChanged
<1>2. ASSUME NEW s \in Slot, ProveFirstStep(s)
      PROVE  IInv'
  <2>1. Linked(counted(snark[s]), log[s])
    BY <1>2, CountLinked DEF ProveFirstStep, IInv
  <2>2. \A t \in Slot : snark'[t] = IF t = s THEN counted(snark[s]) ELSE snark[t]
    BY <1>2 DEF ProveFirstStep, IInv
  <2>. QED BY <1>2, <2>1, <2>2 DEF ProveFirstStep, IInv
<1>3. ASSUME NEW s \in Slot, NEW pp \in PP, NEW z \in State, NEW ok \in BOOLEAN,
             ProveStep(s, pp, z, ok)
      PROVE  IInv'
  <2> DEFINE S == snark[s]
             M == Append(log[s], Executed(pp, S.zi, z, ok))
  <2>1. Linked(next_snark(S, pp, z, ok, draws), M)
    BY <1>3, StepLinked DEF ProveStep, IInv
  <2>3. log' = [log EXCEPT ![s] = M]
    BY <1>3 DEF ProveStep, z_input
  <2>4. snark' = [snark EXCEPT ![s] = next_snark(S, pp, z, ok, draws)]
    BY <1>3 DEF ProveStep
  <2>. QED BY <2>1, <2>3, <2>4, SlotChanged
<1>4. ASSUME NEW s \in Slot, NEW t \in Slot, Copy(s, t)
      PROVE  IInv'
  <2>1. Linked(snark[s], log[s])
    BY <1>4 DEF Copy, IInv
  <2>. QED BY <1>4, <2>1, SlotChanged DEF Copy
<1>5. CASE UNCHANGED vars
  BY <1>5 DEF vars, IInv
<1>. QED BY <1>1, <1>2, <1>3, <1>4, <1>5 DEF Next

(* The invariant holds of every behaviour. *)
LEMMA SpecIInv == Spec => []IInv
<1>. QED BY InitIInv, NextIInv, PTL DEF Spec
----------------------------------------------------------------------------
(* Slots and logs keep their types, and the counter of a snark is never    *)
(* beyond the steps that were executed for it.                             *)
THEOREM SpecTypeOK == BoundAssumption => (Spec => []TypeOK)
<1> SUFFICES ASSUME BoundAssumption  PROVE Spec => []TypeOK
  OBVIOUS
<1>1. Init => draws \in 0 .. MaxDraws
  BY DEF Init, BoundAssumption
<1>2. draws \in 0 .. MaxDraws /\ [Next]_vars => (draws \in 0 .. MaxDraws)'
  BY DEF Next, New, ProveFirstStep, ProveStep, Copy, vars, BoundAssumption
<1>3. IInv /\ draws \in 0 .. MaxDraws => TypeOK
  <2> SUFFICES ASSUME IInv, draws \in 0 .. MaxDraws  PROVE TypeOK
    OBVIOUS
  <2>1. \A s \in Slot : log[s] \in Seq(Step)  BY DEF IInv
  <2>2. ASSUME NEW s \in Slot, snark[s] # None
        PROVE  /\ snark[s].i \in 0 .. Len(log[s])
               /\ snark[s].z0 \in State /\ snark[s].zi \in State
    <3>1. Linked(snark[s], log[s])  BY <2>2 DEF IInv
    <3>2. /\ log[s] \in Seq(Step) /\ Len(log[s]) \in Nat \ {0}
          /\ log[s][1] \in Step /\ log[s][Len(log[s])] \in Step
      BY <3>1 DEF Linked, Log
    <3>. QED BY <3>1, <3>2 DEF Linked, Step
  <2>. QED BY <2>1, <2>2 DEF TypeOK, Step
<1>. QED BY <1>1, <1>2, <1>3, SpecIInv, PTL DEF Spec

(* NeutronNova's RecursiveSNARK::verify accepts only a statement that is   *)
(* true of all the step circuits that were executed.                       *)
THEOREM SpecNeutronSound == Spec => []NeutronSound
<1>1. IInv => NeutronSound
  <2> SUFFICES ASSUME IInv, NEW s \in Slot, snark[s] # None, NEW c \in Statement,
                      verify(snark[s], c[1], c[2], c[3])
               PROVE  Executes(log[s], c[1], c[2], c[3], snark[s].zi)
    BY DEF NeutronSound
  <2>1. Linked(snark[s], log[s])  BY DEF IInv
  <2>2. c[1] = log[s][Len(log[s])].pp /\ c[2] = Len(log[s]) /\ c[3] = log[s][1].zin
    BY <2>1 DEF verify, Linked, Hash
  <2>3. Clean(log[s])
    BY <2>1 DEF verify, Linked, AllSat
  <2>. QED BY <2>1, <2>2, <2>3, CleanExecutes DEF Linked
<1>. QED BY <1>1, SpecIInv, PTL

(* NeutronNova's RecursiveSNARK::verify accepts every statement that is    *)
(* true of what was executed, once the first step was counted.             *)
THEOREM SpecNeutronComplete == Spec => []NeutronComplete
<1>1. IInv => NeutronComplete
  <2> SUFFICES ASSUME IInv, NEW s \in Slot, snark[s] # None, snark[s].i # 0,
                      NEW c \in Statement,
                      Executes(log[s], c[1], c[2], c[3], snark[s].zi)
               PROVE  verify(snark[s], c[1], c[2], c[3])
    BY DEF NeutronComplete
  <2>1. Linked(snark[s], log[s])  BY DEF IInv
  <2>2. /\ Clean(log[s]) /\ c[1] = log[s][Len(log[s])].pp
        /\ c[2] = Len(log[s]) /\ c[3] = log[s][1].zin
    BY <2>1, CleanExecutes DEF Linked
  <2>3. snark[s].i = c[2] /\ c[2] # 0 /\ snark[s].z0 = c[3] /\ AllSat(snark[s])
    BY <2>1, <2>2 DEF Linked, Log
  <2>4. snark[s].l_u.X = Hash(c[1], c[2], c[3], snark[s].zi, snark[s].r_U, snark[s].ri)
    BY <2>1, <2>2 DEF Linked
  <2>. QED BY <2>3, <2>4 DEF verify, AllSat
<1>. QED BY <1>1, SpecIInv, PTL
----------------------------------------------------------------------------
(* The refinement.  What a snark claims is a function of its log, so the   *)
(* claims follow from Linked; Record says which fields a snark has.        *)

Record(S) ==
    S = [kind |-> "snark", z0 |-> S.z0, zi |-> S.zi, i |-> S.i, r_U |-> S.r_U,
         ri |-> S.ri, l_u |-> S.l_u]

Records == \A s \in Slot : snark[s] # None => Record(snark[s])

claimBy(S, L) ==
    IF Clean(L) THEN Claims!Claim(L[Len(L)].pp, S.z0, Len(L), S.zi, S.i # 0)
    ELSE Claims!Void

claims == [s \in Slot |-> IF snark[s] = None THEN None ELSE claimOf(snark[s])]

(* A clean log is the only one a claim is made for, and it says which.     *)
LEMMA ClaimOfLinked ==
    ASSUME NEW S, NEW L, Linked(S, L), Record(S)
    PROVE  claimOf(S) = claimBy(S, L)
<1> DEFINE n   == IF S.i = 0 THEN 1 ELSE S.i
           m   == Len(L)
           T   == [S EXCEPT !.i = n]
           pps == {pp \in PP : verify(T, pp, n, S.z0)}
<1>1. n = m /\ m \in Nat \ {0}
  BY DEF Linked, Log
<1>2. L[m].pp \in PP
  <2>1. L[m] \in Step  BY <1>1 DEF Linked, Log
  <2>. QED BY <2>1 DEF Step
<1>3. /\ T.i = n /\ T.z0 = S.z0 /\ T.zi = S.zi /\ T.r_U = S.r_U /\ T.ri = S.ri
      /\ T.l_u = S.l_u
  <2>1. T = [kind |-> "snark", z0 |-> S.z0, zi |-> S.zi, i |-> n, r_U |-> S.r_U,
             ri |-> S.ri, l_u |-> S.l_u]
    <3> HIDE DEF n
    <3>. QED BY DEF Record
  <2>. QED BY <2>1
<1>4. \A pp : verify(T, pp, n, S.z0) <=> pp = L[m].pp /\ Clean(L)
  <2> HIDE DEF T, n
  <2>. QED BY <1>1, <1>3 DEF verify, Linked, AllSat, Hash
<1>5. pps = IF Clean(L) THEN {L[m].pp} ELSE {}
  BY <1>2, <1>4
<1>6. claimOf(S) = IF pps = {} THEN [kind |-> "void"]
                   ELSE [kind |-> "claim", pp |-> CHOOSE pp \in pps : TRUE, z0 |-> S.z0,
                         n |-> n, z |-> S.zi, counted |-> S.i # 0]
  BY DEF claimOf
<1>7. CASE Clean(L)
  <2>1. pps # {} /\ (CHOOSE pp \in pps : TRUE) = L[m].pp
    <3> HIDE DEF pps, m
    <3>. QED BY <1>5, <1>7
  <2>. QED BY <1>1, <1>6, <1>7, <2>1 DEF claimBy, Claims!Claim
<1>8. CASE ~ Clean(L)
  BY <1>5, <1>6, <1>8 DEF claimBy, Claims!Void
<1>. QED BY <1>7, <1>8

(* A call that leaves a linked snark in a slot changes the claim there.    *)
LEMMA SlotClaim ==
    ASSUME NEW s \in Slot, NEW S, NEW L, Linked(S, L), Record(S),
           DOMAIN snark = Slot, snark' = [snark EXCEPT ![s] = S]
    PROVE  claims' = [claims EXCEPT ![s] = claimBy(S, L)]
<1>1. claimOf(S) = claimBy(S, L)  BY ClaimOfLinked
<1>2. S # None  BY DEF Record, None
<1>3. \A t \in Slot : snark'[t] = IF t = s THEN S ELSE snark[t]
  OBVIOUS
<1>4. claims' = [t \in Slot |-> IF snark'[t] = None THEN None ELSE claimOf(snark'[t])]
  BY DEF claims
<1>5. \A t \in Slot : claims'[t] = IF t = s THEN claimBy(S, L) ELSE claims[t]
  BY <1>1, <1>2, <1>3, <1>4 DEF claims
<1>. QED BY <1>4, <1>5 DEF claims

LEMMA NextRecords == IInv /\ Records /\ [Next]_vars => Records'
<1> SUFFICES ASSUME IInv, Records, [Next]_vars  PROVE Records'
  OBVIOUS
<1>1. ASSUME NEW s \in Slot, NEW S, Record(S), snark' = [snark EXCEPT ![s] = S]
      PROVE  Records'
  <2>1. \A t \in Slot : snark'[t] = IF t = s THEN S ELSE snark[t]
    BY <1>1 DEF IInv
  <2>. QED BY <1>1, <2>1 DEF Records
<1>2. ASSUME NEW s \in Slot, NEW pp \in PP, NEW z0 \in State, NEW z \in State,
             NEW ok \in BOOLEAN, New(s, pp, z0, z, ok)
      PROVE  Records'
  <2>1. Record(new_snark(pp, z0, z, ok, draws))  BY DEF Record, new_snark
  <2>. QED BY <1>1, <1>2, <2>1 DEF New
<1>3. ASSUME NEW s \in Slot, ProveFirstStep(s)  PROVE Records'
  <2>1. Record(counted(snark[s]))  BY DEF Record, counted
  <2>. QED BY <1>1, <1>3, <2>1 DEF ProveFirstStep
<1>4. ASSUME NEW s \in Slot, NEW pp \in PP, NEW z \in State, NEW ok \in BOOLEAN,
             ProveStep(s, pp, z, ok)
      PROVE  Records'
  <2>1. Record(next_snark(snark[s], pp, z, ok, draws))  BY DEF Record, next_snark
  <2>. QED BY <1>1, <1>4, <2>1 DEF ProveStep
<1>5. ASSUME NEW s \in Slot, NEW t \in Slot, Copy(s, t)  PROVE Records'
  <2>1. Record(snark[s])  BY <1>5 DEF Copy, Records
  <2>. QED BY <1>1, <1>5, <2>1 DEF Copy
<1>6. CASE UNCHANGED vars
  BY <1>6 DEF vars, Records
<1>. QED BY <1>2, <1>3, <1>4, <1>5, <1>6 DEF Next

(* Every call is a step of the abstract claims, or none: new starts one,   *)
(* the first prove_step counts it, a good step extends it, any other makes *)
(* it void, and what is void stays so.                                     *)
LEMMA StepRefines ==
    ASSUME IInv, Records, [Next]_vars
    PROVE  [Claims!Next]_<<claims, None>>
<1>0. DOMAIN snark = Slot
  BY DEF IInv
<1>1. \A s \in Slot : snark[s] # None =>
            /\ Linked(snark[s], log[s]) /\ Record(snark[s])
            /\ claims[s] = claimBy(snark[s], log[s])
  BY ClaimOfLinked DEF IInv, Records, claims
<1>2. ASSUME NEW s \in Slot, NEW pp \in PP, NEW z0 \in State, NEW z \in State,
             NEW ok \in BOOLEAN, New(s, pp, z0, z, ok)
      PROVE  Claims!Start(s)
  <2> DEFINE S == new_snark(pp, z0, z, ok, draws)
             L == <<Executed(pp, z0, z, ok)>>
  <2>1. Linked(S, L)  BY NewLinked
  <2>2. Record(S)  BY DEF Record, new_snark
  <2>3. snark' = [snark EXCEPT ![s] = S]  BY <1>2 DEF New
  <2>4. claims' = [claims EXCEPT ![s] = claimBy(S, L)]
    <3> HIDE DEF S, L
    <3>. QED BY <1>0, <2>1, <2>2, <2>3, SlotClaim
  <2>5. S.z0 = z0 /\ S.zi = z /\ S.i = 0 /\ Len(L) = 1 /\ L[1].pp = pp
    BY DEF new_snark, Executed
  <2>6. claimBy(S, L) = Claims!Void \/ claimBy(S, L) = Claims!Claim(pp, z0, 1, z, FALSE)
    <3> HIDE DEF S, L
    <3>. QED BY <2>5 DEF claimBy
  <2>. QED BY <2>4, <2>6 DEF Claims!Start, Claims!Set, claims
<1>3. ASSUME NEW s \in Slot, ProveFirstStep(s)
      PROVE  Claims!Count(s) \/ claims' = claims
  <2> DEFINE S == snark[s]
             L == log[s]
  <2>1. Linked(S, L) /\ S.i = 0 /\ claims[s] = claimBy(S, L)
    BY <1>1, <1>3 DEF ProveFirstStep
  <2>2. Linked(counted(S), L) /\ Record(counted(S))
    BY <2>1, CountLinked DEF Record, counted
  <2>3. claims' = [claims EXCEPT ![s] = claimBy(counted(S), L)]
    BY <1>0, <1>3, <2>2, SlotClaim DEF ProveFirstStep
  <2>4. Len(L) = 1  BY <2>1 DEF Linked, Log
  <2>5. CASE Clean(L)
    <3>1. claims[s] = Claims!Claim(L[1].pp, S.z0, 1, S.zi, FALSE)
      BY <2>1, <2>4, <2>5 DEF claimBy
    <3>2. claimBy(counted(S), L) = Claims!Claim(L[1].pp, S.z0, 1, S.zi, TRUE)
      <4>1. counted(S).z0 = S.z0 /\ counted(S).zi = S.zi /\ counted(S).i # 0
        BY DEF counted
      <4>. QED BY <2>4, <2>5, <4>1 DEF claimBy
    <3>3. /\ claims[s].kind = "claim" /\ ~claims[s].counted
          /\ claimBy(counted(S), L)
             = Claims!Claim(claims[s].pp, claims[s].z0, 1, claims[s].z, TRUE)
      BY <3>1, <3>2 DEF Claims!Claim
    <3>. QED BY <2>3, <3>3 DEF Claims!Count, Claims!Set, claims
  <2>6. CASE ~ Clean(L)
    <3>1. claimBy(counted(S), L) = claims[s]
      BY <2>1, <2>6 DEF claimBy
    <3>. QED BY <2>3, <3>1 DEF claims
  <2>. QED BY <2>5, <2>6
<1>4. ASSUME NEW s \in Slot, NEW pp \in PP, NEW z \in State, NEW ok \in BOOLEAN,
             ProveStep(s, pp, z, ok)
      PROVE  Claims!Extend(s) \/ claims' = claims
  <2> DEFINE S == snark[s]
             L == log[s]
             e == Executed(pp, S.zi, z, ok)
             M == Append(L, e)
             N == next_snark(S, pp, z, ok, draws)
             m == Len(L)
  <2>1. Linked(S, L) /\ S.i # 0 /\ claims[s] = claimBy(S, L)
    BY <1>1, <1>4 DEF ProveStep
  <2>2. Linked(N, M)  BY <2>1, StepLinked
  <2>3. Record(N)  BY DEF Record, next_snark
  <2>4. snark' = [snark EXCEPT ![s] = N]  BY <1>4 DEF ProveStep
  <2>5. claims' = [claims EXCEPT ![s] = claimBy(N, M)]
    <3> HIDE DEF N, M
    <3>. QED BY <1>0, <2>2, <2>3, <2>4, SlotClaim
  <2>6. L \in Seq(Step) /\ m \in Nat \ {0} /\ S.i = m /\ S.zi \in State
    <3>1. L \in Seq(Step) /\ m \in Nat \ {0} /\ S.i = m
      BY <2>1 DEF Linked, Log
    <3>2. L[m] \in Step  BY <3>1
    <3>. QED BY <2>1, <3>1, <3>2 DEF Linked, Step
  <2>7. e \in Step /\ e.ok = ok /\ e.pp = pp
    BY <2>6 DEF Step, Executed
  <2>8. Clean(M) <=> Clean(L) /\ ok /\ pp = L[m].pp
    BY <2>6, <2>7, CleanAppend
  <2>9. Len(M) = m + 1 /\ M[m + 1].pp = pp
    BY <2>6, <2>7
  <2>10. N.z0 = S.z0 /\ N.zi = z /\ N.i # 0
    BY <2>6 DEF next_snark
  <2>11. CASE Clean(M)
    <3>1. claims[s] = Claims!Claim(pp, S.z0, m, S.zi, TRUE)
      BY <2>1, <2>8, <2>11 DEF claimBy
    <3>2. claimBy(N, M) = Claims!Claim(pp, S.z0, m + 1, z, TRUE)
      <4> HIDE DEF N, M
      <4>. QED BY <2>9, <2>10, <2>11 DEF claimBy
    <3>3. /\ claims[s].kind = "claim" /\ claims[s].counted
          /\ claimBy(N, M)
             = Claims!Claim(claims[s].pp, claims[s].z0, claims[s].n + 1, z, TRUE)
      BY <3>1, <3>2 DEF Claims!Claim
    <3> HIDE DEF N, M
    <3>. QED BY <2>5, <3>3 DEF Claims!Extend, Claims!Set, claims
  <2>12. CASE ~ Clean(M)
    <3>1. claimBy(N, M) = Claims!Void
      BY <2>12 DEF claimBy
    <3>2. CASE Clean(L)
      <4>1. claims[s] = Claims!Claim(L[m].pp, S.z0, m, S.zi, TRUE)
        BY <2>1, <3>2 DEF claimBy
      <4>2. claims[s].kind = "claim" /\ claims[s].counted
        BY <4>1 DEF Claims!Claim
      <4> HIDE DEF N, M
      <4>. QED BY <2>5, <3>1, <4>2 DEF Claims!Extend, Claims!Set, claims
    <3>3. CASE ~ Clean(L)
      <4>1. claims[s] = Claims!Void
        BY <2>1, <3>3 DEF claimBy
      <4> HIDE DEF N, M
      <4>. QED BY <2>5, <3>1, <4>1 DEF claims
    <3>. QED BY <3>2, <3>3
  <2>. QED BY <2>11, <2>12
<1>5. ASSUME NEW s \in Slot, NEW t \in Slot, Copy(s, t)
      PROVE  Claims!Copy(s, t)
  <2>1. Linked(snark[s], log[s]) /\ Record(snark[s]) /\ claims[s] = claimBy(snark[s], log[s])
    BY <1>1, <1>5 DEF Copy
  <2>2. claims' = [claims EXCEPT ![t] = claimBy(snark[s], log[s])]
    <3>1. snark' = [snark EXCEPT ![t] = snark[s]]  BY <1>5 DEF Copy
    <3>2. \A S, L : Linked(S, L) /\ Record(S) /\ snark' = [snark EXCEPT ![t] = S]
                     => claims' = [claims EXCEPT ![t] = claimBy(S, L)]
      BY <1>0, SlotClaim
    <3>. QED BY <2>1, <3>1, <3>2
  <2>3. claims[s] # Claims!NoClaim
    BY <2>1 DEF claimBy, Claims!Claim, Claims!Void, Claims!NoClaim
  <2>. QED BY <2>1, <2>2, <2>3 DEF Claims!Copy, Claims!Set, claims
<1>6. CASE UNCHANGED vars
  BY <1>6 DEF vars, claims
<1>7. CASE Next
  BY <1>2, <1>3, <1>4, <1>5, <1>7 DEF Next, Claims!Next
<1>. QED BY <1>6, <1>7

(* NeutronNova's RecursiveSNARK implements the abstract claims.            *)
THEOREM SpecNeutronIsIncremental == Spec => NeutronIsIncremental
<1>1. Init => Claims!Init
  BY DEF Init, Claims!Init, Claims!NoClaim, None
<1>2. Init => Records
  BY DEF Init, Records
<1>3. Spec => []Records
  BY <1>2, NextRecords, SpecIInv, PTL DEF Spec
<1>4. IInv /\ Records /\ [Next]_vars => [Claims!Next]_<<claims, None>>
  BY StepRefines
<1>. QED BY <1>1, <1>3, <1>4, SpecIInv, PTL DEF Spec, NeutronIsIncremental, Claims!Spec, claims
============================================================================
