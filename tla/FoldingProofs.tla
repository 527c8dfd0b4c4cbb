--------------------------- MODULE FoldingProofs ---------------------------
(* Every scalar field, every R1CS shape: the theorems of module Folding.   *)
EXTENDS Folding, RingProofs

(* By how much row k of the relaxed relation misses.                       *)
Residual(k, U, W) ==
    LET z == ZVec(W.W, U.u, U.X)
    IN  ((RowA(k, z) ** RowB(k, z)) -- (U.u ** RowC(k, z))) -- W.E[k]

RowsHold(U, W) == \A k \in Cons : Residual(k, U, W) = Zero
Opens(U, W) == U.comm_W = Commit(W.W, W.r_W) /\ U.comm_E = Commit(W.E, W.r_E)
----------------------------------------------------------------------------
(* Vectors and commitments.                                                *)

LEMMA ZVecType ==
  ASSUME NEW W \in Vec(Vars), NEW u \in Scalar, NEW X \in Vec(IO)
  PROVE  ZVec(W, u, X) \in Vec(Cols)
BY DEF ZVec, Vec, Cols

LEMMA AxpyType ==
  ASSUME NEW S, NEW x \in Vec(S), NEW y \in Vec(S), NEW r \in Scalar
  PROVE  /\ Axpy(x, r, y) \in Vec(S)
         /\ \A i \in S : Axpy(x, r, y)[i] = x[i] ++ (r ** y[i])
<1>1. DOMAIN x = S BY DEF Vec
<1>2. \A i \in S : x[i] \in Scalar /\ y[i] \in Scalar BY DEF Vec
<1>3. \A i \in S : x[i] ++ (r ** y[i]) \in Scalar BY <1>2, RingClosed
<1>. QED BY <1>1, <1>3 DEF Axpy, Vec

LEMMA ZerosType ==
  ASSUME NEW S
  PROVE  Zeros(S) \in Vec(S)
BY RingAssumption DEF Zeros, Vec

LEMMA CommitType ==
  ASSUME NEW S, NEW v \in Vec(S), NEW r \in Scalar
  PROVE  Commit(v, r) \in Commitment(S)
BY DEF Commit, Commitment

(* Commitments are homomorphic (the + and * of CE::Commitment).            *)
LEMMA CommAxpyType ==
  ASSUME NEW S, NEW c1 \in Commitment(S), NEW c2 \in Commitment(S), NEW r \in Scalar
  PROVE  /\ CommAxpy(c1, r, c2) \in Commitment(S)
         /\ CommAxpy(c1, r, c2).v = Axpy(c1.v, r, c2.v)
         /\ CommAxpy(c1, r, c2).r = c1.r ++ (r ** c2.r)
<1>1. /\ c1.v \in Vec(S) /\ c2.v \in Vec(S)
      /\ c1.r \in Scalar /\ c2.r \in Scalar
  BY DEF Commitment
<1>2. c1.r ++ (r ** c2.r) \in Scalar BY <1>1, RingClosed
<1>. QED BY <1>1, <1>2, AxpyType DEF CommAxpy, Commitment

(* z of a folded pair is the folded z.                                     *)
LEMMA ZVecFold ==
  ASSUME NEW W1 \in Vec(Vars), NEW W2 \in Vec(Vars), NEW X1 \in Vec(IO),
         NEW X2 \in Vec(IO), NEW u1 \in Scalar, NEW u2 \in Scalar, NEW r \in Scalar
  PROVE  ZVec(Axpy(W1, r, W2), u1 ++ (r ** u2), Axpy(X1, r, X2))
           = Axpy(ZVec(W1, u1, X1), r, ZVec(W2, u2, X2))
<1>1. DOMAIN ZVec(W1, u1, X1) = Cols BY DEF ZVec
<1>2. \A i \in Vars : Axpy(W1, r, W2)[i] = W1[i] ++ (r ** W2[i]) BY AxpyType
<1>3. \A i \in IO : Axpy(X1, r, X2)[i] = X1[i] ++ (r ** X2[i]) BY AxpyType
<1> DEFINE W == Axpy(W1, r, W2)
           X == Axpy(X1, r, X2)
<1>4. ZVec(W, u1 ++ (r ** u2), X)
        = [c \in Cols |-> ZVec(W1, u1, X1)[c] ++ (r ** ZVec(W2, u2, X2)[c])]
  <2> HIDE DEF W, X
  <2>1. /\ \A i \in Vars : W[i] = W1[i] ++ (r ** W2[i])
        /\ \A i \in IO : X[i] = X1[i] ++ (r ** X2[i])
    BY <1>2, <1>3 DEF W, X
  <2>. QED BY <2>1 DEF ZVec, Cols
<1>. QED BY <1>1, <1>4 DEF Axpy

LEMMA RowsType ==
  ASSUME NEW k \in Cons, NEW z \in Vec(Cols)
  PROVE  RowA(k, z) \in Scalar /\ RowB(k, z) \in Scalar /\ RowC(k, z) \in Scalar
BY LinearAssumption

LEMMA RowsLinear ==
  ASSUME NEW k \in Cons, NEW x \in Vec(Cols), NEW y \in Vec(Cols), NEW r \in Scalar
  PROVE  /\ RowA(k, Axpy(x, r, y)) = RowA(k, x) ++ (r ** RowA(k, y))
         /\ RowB(k, Axpy(x, r, y)) = RowB(k, x) ++ (r ** RowB(k, y))
         /\ RowC(k, Axpy(x, r, y)) = RowC(k, x) ++ (r ** RowC(k, y))
BY LinearAssumption

LEMMA ExcessType ==
  ASSUME NEW u \in Scalar, NEW z \in Vec(Cols)
  PROVE  Excess(u, z) \in Vec(Cons)
<1>1. \A k \in Cons : (RowA(k, z) ** RowB(k, z)) -- (u ** RowC(k, z)) \in Scalar
  <2> TAKE k \in Cons
  <2>1. RowA(k, z) ** RowB(k, z) \in Scalar /\ u ** RowC(k, z) \in Scalar
    BY RowsType, RingClosed
  <2>. QED BY <2>1, RingClosed
<1>. QED BY <1>1 DEF Excess, Vec

(* The check of is_sat_relaxed is: no residual, and both openings right.   *)
LEMMA SatByResidual ==
  ASSUME NEW U \in RelaxedR1CSInstance, NEW W \in RelaxedR1CSWitness
  PROVE  is_sat_relaxed(U, W) <=> RowsHold(U, W) /\ Opens(U, W)
<1> DEFINE z == ZVec(W.W, U.u, U.X)
<1>1. W.W \in Vec(Vars) /\ U.u \in Scalar /\ U.X \in Vec(IO) /\ W.E \in Vec(Cons)
  BY DEF RelaxedR1CSInstance, RelaxedR1CSWitness
<1>2. z \in Vec(Cols) BY <1>1, ZVecType
<1>3. ASSUME NEW k \in Cons
      PROVE  RowA(k, z) ** RowB(k, z) = (U.u ** RowC(k, z)) ++ W.E[k]
               <=> Residual(k, U, W) = Zero
  <2> DEFINE p == RowA(k, z) ** RowB(k, z)
             q == U.u ** RowC(k, z)
             e == W.E[k]
  <2>1. p \in Scalar /\ q \in Scalar BY <1>1, <1>2, RowsType, RingClosed
  <2>2. e \in Scalar BY <1>1 DEF Vec
  <2>3. Residual(k, U, W) = (p -- q) -- e BY DEF Residual
  <2> HIDE DEF p, q, e
  <2>4. (p -- q) -- e = p -- (q ++ e)
    <3>1. FieldNeg(q) \in Scalar /\ FieldNeg(e) \in Scalar BY <2>1, <2>2, RingClosed
    <3>2. (p ++ FieldNeg(q)) ++ FieldNeg(e) = p ++ (FieldNeg(q) ++ FieldNeg(e))
      BY <2>1, <3>1, RingAssumption
    <3>. QED BY <2>1, <2>2, <3>2, NegOfSum DEF --
  <2>5. q ++ e \in Scalar BY <2>1, <2>2, RingClosed
  <2>6. p -- (q ++ e) = Zero <=> p = q ++ e BY <2>1, <2>5, SubZero
  <2>. QED BY <2>3, <2>4, <2>6 DEF p, q, e
<1>. QED BY <1>3 DEF is_sat_relaxed, RowsHold, Opens
----------------------------------------------------------------------------
(* The relaxed fold.                                                       *)

LEMMA FoldRelaxedType ==
  ASSUME NEW U1 \in RelaxedR1CSInstance, NEW W1 \in RelaxedR1CSWitness,
         NEW U2 \in RelaxedR1CSInstance, NEW W2 \in RelaxedR1CSWitness,
         NEW r \in Scalar, NEW r_T \in Scalar
  PROVE  /\ commit_T_relaxed(U1, W1, U2, W2) \in Vec(Cons)
         /\ \A T \in Vec(Cons) :
               fold_witness_relaxed(W1, W2, T, r_T, r) \in RelaxedR1CSWitness
         /\ \A comm_T \in Commitment(Cons) :
               fold_instance_relaxed(U1, U2, comm_T, r) \in RelaxedR1CSInstance
<1>1. /\ W1.W \in Vec(Vars) /\ W2.W \in Vec(Vars) /\ W1.E \in Vec(Cons) /\ W2.E \in Vec(Cons)
      /\ W1.r_W \in Scalar /\ W2.r_W \in Scalar /\ W1.r_E \in Scalar /\ W2.r_E \in Scalar
  BY DEF RelaxedR1CSWitness
<1>2. /\ U1.comm_W \in Commitment(Vars) /\ U2.comm_W \in Commitment(Vars)
      /\ U1.comm_E \in Commitment(Cons) /\ U2.comm_E \in Commitment(Cons)
      /\ U1.u \in Scalar /\ U2.u \in Scalar /\ U1.X \in Vec(IO) /\ U2.X \in Vec(IO)
  BY DEF RelaxedR1CSInstance
<1>3. r ** r \in Scalar BY RingClosed
<1>4. commit_T_relaxed(U1, W1, U2, W2) \in Vec(Cons)
  <2> DEFINE z1 == ZVec(W1.W, U1.u, U1.X)
             z2 == ZVec(W2.W, U2.u, U2.X)
             z  == Axpy(z1, One, z2)
             p  == Excess(U1.u ++ U2.u, z)
  <2>1. z1 \in Vec(Cols) /\ z2 \in Vec(Cols) BY <1>1, <1>2, ZVecType
  <2>2. z \in Vec(Cols) BY <2>1, AxpyType, RingAssumption
  <2>3. U1.u ++ U2.u \in Scalar BY <1>2, RingClosed
  <2>4. p \in Vec(Cons) BY <2>2, <2>3, ExcessType
  <2>5. commit_T_relaxed(U1, W1, U2, W2) = [k \in Cons |-> (p[k] -- W1.E[k]) -- W2.E[k]]
    BY DEF commit_T_relaxed
  <2> HIDE DEF p
  <2>6. \A k \in Cons : p[k] \in Scalar /\ W1.E[k] \in Scalar /\ W2.E[k] \in Scalar
    BY <1>1, <2>4 DEF Vec
  <2>7. \A k \in Cons : p[k] -- W1.E[k] \in Scalar BY <2>6, RingClosed
  <2>8. \A k \in Cons : (p[k] -- W1.E[k]) -- W2.E[k] \in Scalar BY <2>6, <2>7, RingClosed
  <2>. QED BY <2>5, <2>8 DEF Vec
<1>5. ASSUME NEW T \in Vec(Cons)
      PROVE  fold_witness_relaxed(W1, W2, T, r_T, r) \in RelaxedR1CSWitness
  <2>1. Axpy(W1.W, r, W2.W) \in Vec(Vars) BY <1>1, AxpyType
  <2>2. Axpy(W1.E, r, T) \in Vec(Cons) BY <1>1, AxpyType
  <2>3. Axpy(Axpy(W1.E, r, T), r ** r, W2.E) \in Vec(Cons) BY <1>1, <1>3, <2>2, AxpyType
  <2>4. /\ r ** W2.r_W \in Scalar /\ r ** r_T \in Scalar /\ (r ** r) ** W2.r_E \in Scalar
    BY <1>1, <1>3, RingClosed
  <2>5. W1.r_W ++ (r ** W2.r_W) \in Scalar /\ W1.r_E ++ (r ** r_T) \in Scalar
    BY <1>1, <2>4, RingClosed
  <2>6. (W1.r_E ++ (r ** r_T)) ++ ((r ** r) ** W2.r_E) \in Scalar
    BY <2>4, <2>5, RingClosed
  <2>. QED BY <2>1, <2>3, <2>5, <2>6 DEF fold_witness_relaxed, RelaxedR1CSWitness
<1>6. ASSUME NEW comm_T \in Commitment(Cons)
      PROVE  fold_instance_relaxed(U1, U2, comm_T, r) \in RelaxedR1CSInstance
  <2>1. CommAxpy(U1.comm_W, r, U2.comm_W) \in Commitment(Vars) BY <1>2, CommAxpyType
  <2>2. CommAxpy(U1.comm_E, r, comm_T) \in Commitment(Cons) BY <1>2, CommAxpyType
  <2>3. CommAxpy(CommAxpy(U1.comm_E, r, comm_T), r ** r, U2.comm_E) \in Commitment(Cons)
    BY <1>2, <1>3, <2>2, CommAxpyType
  <2>4. Axpy(U1.X, r, U2.X) \in Vec(IO) BY <1>2, AxpyType
  <2>5. U1.u ++ (r ** U2.u) \in Scalar
    <3>1. r ** U2.u \in Scalar BY <1>2, RingClosed
    <3>. QED BY <1>2, <3>1, RingClosed
  <2>. QED BY <2>1, <2>3, <2>4, <2>5 DEF fold_instance_relaxed, RelaxedR1CSInstance
<1>. QED BY <1>4, <1>5, <1>6

(* What the fold does to the residual of a row: with the one-product cross *)
(* term it is (1 - r) * (d1 - r * d2).                                     *)
LEMMA FoldedResidual ==
  ASSUME NEW U1 \in RelaxedR1CSInstance, NEW W1 \in RelaxedR1CSWitness,
         NEW U2 \in RelaxedR1CSInstance, NEW W2 \in RelaxedR1CSWitness,
         NEW r \in Scalar, NEW r_T \in Scalar, NEW comm_T, NEW k \in Cons
  PROVE  LET T  == commit_T_relaxed(U1, W1, U2, W2)
             d1 == Residual(k, U1, W1)
             d2 == Residual(k, U2, W2)
         IN  /\ Residual(k, fold_instance_relaxed(U1, U2, comm_T, r),
                            fold_witness_relaxed(W1, W2, T, r_T, r))
                  = (d1 ++ (r ** FieldNeg(d1 ++ d2))) ++ ((r ** r) ** d2)
             /\ d1 \in Scalar /\ d2 \in Scalar
<1> DEFINE T  == commit_T_relaxed(U1, W1, U2, W2)
           U  == fold_instance_relaxed(U1, U2, comm_T, r)
           W  == fold_witness_relaxed(W1, W2, T, r_T, r)
           z1 == ZVec(W1.W, U1.u, U1.X)
           z2 == ZVec(W2.W, U2.u, U2.X)
           a1 == RowA(k, z1)    a2 == RowA(k, z2)
           b1 == RowB(k, z1)    b2 == RowB(k, z2)
           c1 == RowC(k, z1)    c2 == RowC(k, z2)
           u1 == U1.u           u2 == U2.u
           e1 == W1.E[k]        e2 == W2.E[k]
           t  == T[k]
           m1 == (a1 ** b1) -- (u1 ** c1)
           m2 == (a2 ** b2) -- (u2 ** c2)
           mc == ((a1 ** b2) ++ (a2 ** b1)) -- ((u1 ** c2) ++ (u2 ** c1))
<1>1. /\ W1.W \in Vec(Vars) /\ W2.W \in Vec(Vars) /\ W1.E \in Vec(Cons) /\ W2.E \in Vec(Cons)
      /\ u1 \in Scalar /\ u2 \in Scalar /\ U1.X \in Vec(IO) /\ U2.X \in Vec(IO)
  BY DEF RelaxedR1CSWitness, RelaxedR1CSInstance
<1>2. z1 \in Vec(Cols) /\ z2 \in Vec(Cols) BY <1>1, ZVecType
<1>3. /\ a1 \in Scalar /\ b1 \in Scalar /\ c1 \in Scalar
      /\ a2 \in Scalar /\ b2 \in Scalar /\ c2 \in Scalar
  BY <1>2, RowsType
<1>4. T \in Vec(Cons) BY FoldRelaxedType
<1>5. e1 \in Scalar /\ e2 \in Scalar /\ t \in Scalar BY <1>1, <1>4 DEF Vec
<1>6. One \in Scalar BY RingAssumption
<1>7. Residual(k, U1, W1) = m1 -- e1 /\ Residual(k, U2, W2) = m2 -- e2
  BY DEF Residual
<1>8. /\ U.u = u1 ++ (r ** u2) /\ U.X = Axpy(U1.X, r, U2.X)
      /\ W.W = Axpy(W1.W, r, W2.W) /\ W.E = Axpy(Axpy(W1.E, r, T), r ** r, W2.E)
  BY DEF fold_instance_relaxed, fold_witness_relaxed
<1>9. W.E[k] = (e1 ++ (r ** t)) ++ ((r ** r) ** e2)
  <2> DEFINE E1 == W1.E
             E2 == W2.E
             s  == r ** r
             V  == Axpy(E1, r, T)
             V2 == Axpy(V, s, E2)
  <2>1. E1 \in Vec(Cons) /\ E2 \in Vec(Cons) BY <1>1
  <2>2. e1 = E1[k] /\ e2 = E2[k] /\ t = T[k] /\ W.E = V2 BY <1>8
  <2>3. s \in Scalar BY RingClosed
  <2> HIDE DEF E1, E2, T, W, e1, e2, t, s
  <2>4. V \in Vec(Cons) /\ \A i \in Cons : V[i] = E1[i] ++ (r ** T[i])
    BY <1>4, <2>1, AxpyType
  <2> HIDE DEF V
  <2>5. \A i \in Cons : V2[i] = V[i] ++ (s ** E2[i])
    BY <2>1, <2>3, <2>4, AxpyType
  <2>. QED BY <2>2, <2>4, <2>5 DEF s
<1>10. ZVec(W.W, U.u, U.X) = Axpy(z1, r, z2) BY <1>1, <1>8, ZVecFold
<1>11. Residual(k, U, W)
         = (((a1 ++ (r ** a2)) ** (b1 ++ (r ** b2)))
              -- ((u1 ++ (r ** u2)) ** (c1 ++ (r ** c2)))) -- W.E[k]
  BY <1>2, <1>8, <1>10, RowsLinear DEF Residual
<1>12. t = (((m1 ++ mc) ++ m2) -- e1) -- e2
  <2> DEFINE z == Axpy(z1, One, z2)
  <2>1. t = (((RowA(k, z) ** RowB(k, z)) -- ((u1 ++ u2) ** RowC(k, z))) -- e1) -- e2
    BY DEF commit_T_relaxed, Excess
  <2>2. /\ RowA(k, z) = a1 ++ (One ** a2) /\ RowB(k, z) = b1 ++ (One ** b2)
        /\ RowC(k, z) = c1 ++ (One ** c2)
    BY <1>2, <1>6, RowsLinear
  <2>3. One ** u2 = u2 BY <1>1, RingAssumption
  <2> HIDE DEF z, t, m1, m2, mc, a1, a2, b1, b2, c1, c2, u1, u2, e1, e2
  <2>4. t = ((((a1 ++ (One ** a2)) ** (b1 ++ (One ** b2)))
                -- ((u1 ++ (One ** u2)) ** (c1 ++ (One ** c2)))) -- e1) -- e2
    BY <2>1, <2>2, <2>3
  <2>5. ((a1 ++ (One ** a2)) ** (b1 ++ (One ** b2)))
            -- ((u1 ++ (One ** u2)) ** (c1 ++ (One ** c2)))
          = (m1 ++ (One ** mc)) ++ ((One ** One) ** m2)
    <3>1. u1 \in Scalar /\ u2 \in Scalar BY <1>1
    <3>2. DifferenceFolds(a1, a2, b1, b2, c1, c2, u1, u2, One)
      BY <1>3, <1>6, <3>1, FoldedDifference
    <3>. QED BY <3>2 DEF DifferenceFolds, m1, m2, mc
  <2>6. m2 \in Scalar /\ mc \in Scalar
    <3>1. /\ a2 ** b2 \in Scalar /\ u2 ** c2 \in Scalar /\ a1 ** b2 \in Scalar
          /\ a2 ** b1 \in Scalar /\ u1 ** c2 \in Scalar /\ u2 ** c1 \in Scalar
      BY <1>1, <1>3, RingClosed
    <3>2. /\ (a1 ** b2) ++ (a2 ** b1) \in Scalar /\ (u1 ** c2) ++ (u2 ** c1) \in Scalar
      BY <3>1, RingClosed
    <3>. QED BY <3>1, <3>2, RingClosed DEF m2, mc
  <2>7. One ** mc = mc /\ One ** One = One /\ One ** m2 = m2
    BY <1>6, <2>6, RingAssumption
  <2>. QED BY <2>4, <2>5, <2>7
<1> HIDE DEF T, U, W, z1, z2, a1, a2, b1, b2, c1, c2, u1, u2, e1, e2, t
<1>13. m1 \in Scalar /\ m2 \in Scalar /\ mc \in Scalar
  <2>1. /\ a1 ** b1 \in Scalar /\ u1 ** c1 \in Scalar /\ a2 ** b2 \in Scalar
        /\ u2 ** c2 \in Scalar /\ a1 ** b2 \in Scalar /\ a2 ** b1 \in Scalar
        /\ u1 ** c2 \in Scalar /\ u2 ** c1 \in Scalar
    BY <1>1, <1>3, RingClosed
  <2>2. /\ (a1 ** b2) ++ (a2 ** b1) \in Scalar /\ (u1 ** c2) ++ (u2 ** c1) \in Scalar
    BY <2>1, RingClosed
  <2>. QED BY <2>1, <2>2, RingClosed
<1>14. Residual(k, U, W) = ((m1 ++ (r ** mc)) ++ ((r ** r) ** m2)) -- W.E[k]
  <2>1. u1 \in Scalar /\ u2 \in Scalar BY <1>1
  <2>2. ((a1 ++ (r ** a2)) ** (b1 ++ (r ** b2)))
            -- ((u1 ++ (r ** u2)) ** (c1 ++ (r ** c2)))
          = (m1 ++ (r ** mc)) ++ ((r ** r) ** m2)
    <3>1. DifferenceFolds(a1, a2, b1, b2, c1, c2, u1, u2, r)
      BY <1>3, <2>1, FoldedDifference
    <3>. QED BY <3>1 DEF DifferenceFolds
  <2>. QED BY <1>11, <2>2
<1> HIDE DEF m1, m2, mc
<1>15. Residual(k, U, W)
         = ((m1 -- e1) ++ (r ** FieldNeg((m1 -- e1) ++ (m2 -- e2))))
             ++ ((r ** r) ** (m2 -- e2))
  BY <1>5, <1>9, <1>12, <1>13, <1>14, CrossTerm
<1>16. m1 -- e1 \in Scalar /\ m2 -- e2 \in Scalar BY <1>5, <1>13, RingClosed
<1>. QED BY <1>7, <1>15, <1>16 DEF T, U, W

(* Commitments bind: a folded commitment that opens to the folded vector   *)
(* pins the one that was not known to open.                                *)
LEMMA CommCancel ==
  ASSUME NEW S, NEW c1 \in Commitment(S), NEW c2 \in Commitment(S),
         NEW d1 \in Commitment(S), NEW d2 \in Commitment(S), NEW r \in Scalar,
         CommAxpy(c1, r, c2) = CommAxpy(d1, r, d2)
  PROVE  /\ c2 = d2 => c1 = d1
         /\ c1 = d1 /\ r # Zero => c2 = d2
<1> DEFINE x1 == c1.v  x2 == c2.v  y1 == d1.v  y2 == d2.v
           p1 == c1.r  p2 == c2.r  q1 == d1.r  q2 == d2.r
<1>1. /\ x1 \in Vec(S) /\ x2 \in Vec(S) /\ y1 \in Vec(S) /\ y2 \in Vec(S)
      /\ p1 \in Scalar /\ p2 \in Scalar /\ q1 \in Scalar /\ q2 \in Scalar
  BY DEF Commitment
<1> DEFINE c == CommAxpy(c1, r, c2)
           d == CommAxpy(d1, r, d2)
<1>a. c = d OBVIOUS
<1>b. /\ c.v = Axpy(x1, r, x2) /\ c.r = p1 ++ (r ** p2)
      /\ d.v = Axpy(y1, r, y2) /\ d.r = q1 ++ (r ** q2)
  BY DEF CommAxpy
<1>2. Axpy(x1, r, x2) = Axpy(y1, r, y2)
  <2> HIDE DEF c, d
  <2>. QED BY <1>a, <1>b
<1>3. p1 ++ (r ** p2) = q1 ++ (r ** q2)
  <2> HIDE DEF c, d
  <2>. QED BY <1>a, <1>b
<1>4. /\ c1 = [v |-> x1, r |-> p1] /\ c2 = [v |-> x2, r |-> p2]
      /\ d1 = [v |-> y1, r |-> q1] /\ d2 = [v |-> y2, r |-> q2]
  BY DEF Commitment
<1>5. /\ c1 = d1 <=> x1 = y1 /\ p1 = q1
      /\ c2 = d2 <=> x2 = y2 /\ p2 = q2
  BY <1>4
<1> HIDE DEF x1, x2, y1, y2, p1, p2, q1, q2
<1>6. /\ p2 = q2 => p1 = q1
      /\ p1 = q1 /\ r # Zero => p2 = q2
  BY <1>1, <1>3, AxpyCancel
<1>7. ASSUME NEW i \in S
      PROVE  /\ x2[i] = y2[i] => x1[i] = y1[i]
             /\ x1[i] = y1[i] /\ r # Zero => x2[i] = y2[i]
  <2>1. /\ x1[i] \in Scalar /\ x2[i] \in Scalar /\ y1[i] \in Scalar /\ y2[i] \in Scalar
    BY <1>1 DEF Vec
  <2>2. x1[i] ++ (r ** x2[i]) = y1[i] ++ (r ** y2[i])
    <3>1. Axpy(x1, r, x2)[i] = x1[i] ++ (r ** x2[i]) BY <1>1, AxpyType
    <3>2. Axpy(y1, r, y2)[i] = y1[i] ++ (r ** y2[i]) BY <1>1, AxpyType
    <3>. QED BY <1>2, <3>1, <3>2
  <2>. QED BY <2>1, <2>2, AxpyCancel
<1>8. /\ x2 = y2 => x1 = y1
      /\ x1 = y1 /\ r # Zero => x2 = y2
  BY <1>1, <1>7 DEF Vec
<1>. QED BY <1>5, <1>6, <1>8

LEMMA FoldedOpening ==
  ASSUME NEW U1 \in RelaxedR1CSInstance, NEW W1 \in RelaxedR1CSWitness,
         NEW U2 \in RelaxedR1CSInstance, NEW W2 \in RelaxedR1CSWitness,
         NEW r \in Scalar, NEW r_T \in Scalar, NEW T \in Vec(Cons)
  PROVE  LET U == fold_instance_relaxed(U1, U2, Commit(T, r_T), r)
             W == fold_witness_relaxed(W1, W2, T, r_T, r)
         IN  /\ Opens(U1, W1) /\ Opens(U2, W2) => Opens(U, W)
             /\ Opens(U, W) /\ r # Zero /\ (Opens(U1, W1) \/ Opens(U2, W2))
                  => Opens(U1, W1) /\ Opens(U2, W2)
<1> DEFINE cT == Commit(T, r_T)
           U  == fold_instance_relaxed(U1, U2, cT, r)
           W  == fold_witness_relaxed(W1, W2, T, r_T, r)
           s  == r ** r
           cW1 == U1.comm_W    cW2 == U2.comm_W
           cE1 == U1.comm_E    cE2 == U2.comm_E
           kW1 == Commit(W1.W, W1.r_W)    kW2 == Commit(W2.W, W2.r_W)
           kE1 == Commit(W1.E, W1.r_E)    kE2 == Commit(W2.E, W2.r_E)
<1>1. /\ cW1 \in Commitment(Vars) /\ cW2 \in Commitment(Vars)
      /\ cE1 \in Commitment(Cons) /\ cE2 \in Commitment(Cons)
  BY DEF RelaxedR1CSInstance
<1>2. /\ kW1 \in Commitment(Vars) /\ kW2 \in Commitment(Vars)
      /\ kE1 \in Commitment(Cons) /\ kE2 \in Commitment(Cons)
      /\ cT \in Commitment(Cons)
  BY CommitType DEF RelaxedR1CSWitness
<1>3. s \in Scalar /\ (r # Zero => s # Zero) BY RingClosed, DomainAssumption
<1>4. /\ U.comm_W = CommAxpy(cW1, r, cW2)
      /\ U.comm_E = CommAxpy(CommAxpy(cE1, r, cT), s, cE2)
  BY DEF fold_instance_relaxed
<1>5. /\ Commit(W.W, W.r_W) = CommAxpy(kW1, r, kW2)
      /\ Commit(W.E, W.r_E) = CommAxpy(CommAxpy(kE1, r, cT), s, kE2)
  BY DEF fold_witness_relaxed, Commit, CommAxpy
<1>6. /\ Opens(U1, W1) <=> cW1 = kW1 /\ cE1 = kE1
      /\ Opens(U2, W2) <=> cW2 = kW2 /\ cE2 = kE2
      /\ Opens(U, W) <=> U.comm_W = Commit(W.W, W.r_W) /\ U.comm_E = Commit(W.E, W.r_E)
  BY DEF Opens
<1> DEFINE i1 == CommAxpy(cE1, r, cT)
           i2 == CommAxpy(kE1, r, cT)
<1>7. i1 \in Commitment(Cons) /\ i2 \in Commitment(Cons) BY <1>1, <1>2, CommAxpyType
<1> HIDE DEF U, W, cT, s, cW1, cW2, cE1, cE2, kW1, kW2, kE1, kE2
<1>8. Opens(U1, W1) /\ Opens(U2, W2) => Opens(U, W) BY <1>4, <1>5, <1>6
<1>9. ASSUME Opens(U, W), r # Zero, Opens(U1, W1) \/ Opens(U2, W2)
      PROVE  Opens(U1, W1) /\ Opens(U2, W2)
  <2>1. CommAxpy(cW1, r, cW2) = CommAxpy(kW1, r, kW2) BY <1>4, <1>5, <1>6, <1>9
  <2>2. CommAxpy(i1, s, cE2) = CommAxpy(i2, s, kE2) BY <1>4, <1>5, <1>6, <1>9
  <2>3. /\ cW2 = kW2 => cW1 = kW1
        /\ cW1 = kW1 => cW2 = kW2
    BY <1>1, <1>2, <1>9, <2>1, CommCancel
  <2>4. cE1 = kE1 => cE2 = kE2
    <3>1. cE1 = kE1 => i1 = i2 OBVIOUS
    <3> HIDE DEF i1, i2
    <3>. QED BY <1>1, <1>2, <1>3, <1>7, <1>9, <2>2, <3>1, CommCancel
  <2>5. cE2 = kE2 => cE1 = kE1
    <3>1. cE2 = kE2 => i1 = i2
      <4> HIDE DEF i1, i2
      <4>. QED BY <1>1, <1>2, <1>3, <1>7, <2>2, CommCancel
    <3>2. i1 = i2 => cE1 = kE1 BY <1>1, <1>2, CommCancel
    <3>. QED BY <3>1, <3>2
  <2>. QED BY <1>6, <1>9, <2>3, <2>4, <2>5
<1>. QED BY <1>8, <1>9 DEF U, W, cT

(* The guarantee NIFS::prove documents, for a relaxed fold.                *)
LEMMA FoldRelaxedSat ==
  ASSUME NEW U1 \in RelaxedR1CSInstance, NEW W1 \in RelaxedR1CSWitness,
         NEW U2 \in RelaxedR1CSInstance, NEW W2 \in RelaxedR1CSWitness,
         NEW r \in Scalar, NEW r_T \in Scalar
  PROVE  LET T == commit_T_relaxed(U1, W1, U2, W2)
             U == fold_instance_relaxed(U1, U2, Commit(T, r_T), r)
             W == fold_witness_relaxed(W1, W2, T, r_T, r)
         IN  /\ is_sat_relaxed(U1, W1) /\ is_sat_relaxed(U2, W2) => is_sat_relaxed(U, W)
             /\ /\ is_sat_relaxed(U, W) /\ r \notin {Zero, One}
                /\ is_sat_relaxed(U1, W1) \/ is_sat_relaxed(U2, W2)
                => is_sat_relaxed(U1, W1) /\ is_sat_relaxed(U2, W2)
<1> DEFINE T == commit_T_relaxed(U1, W1, U2, W2)
           cT == Commit(T, r_T)
           U == fold_instance_relaxed(U1, U2, cT, r)
           W == fold_witness_relaxed(W1, W2, T, r_T, r)
<1>1. T \in Vec(Cons) BY FoldRelaxedType
<1>2. cT \in Commitment(Cons) BY <1>1, CommitType
<1>3. U \in RelaxedR1CSInstance BY <1>2, FoldRelaxedType
<1>4. W \in RelaxedR1CSWitness BY <1>1, FoldRelaxedType
<1>5. /\ is_sat_relaxed(U1, W1) <=> RowsHold(U1, W1) /\ Opens(U1, W1)
      /\ is_sat_relaxed(U2, W2) <=> RowsHold(U2, W2) /\ Opens(U2, W2)
      /\ is_sat_relaxed(U, W) <=> RowsHold(U, W) /\ Opens(U, W)
  BY <1>3, <1>4, SatByResidual
<1>6. /\ Opens(U1, W1) /\ Opens(U2, W2) => Opens(U, W)
      /\ Opens(U, W) /\ r # Zero /\ (Opens(U1, W1) \/ Opens(U2, W2))
           => Opens(U1, W1) /\ Opens(U2, W2)
  BY <1>1, FoldedOpening
<1> DEFINE d(k)  == Residual(k, U, W)
           d1(k) == Residual(k, U1, W1)
           d2(k) == Residual(k, U2, W2)
<1>7. ASSUME NEW k \in Cons
      PROVE  /\ d(k) = (d1(k) ++ (r ** FieldNeg(d1(k) ++ d2(k)))) ++ ((r ** r) ** d2(k))
             /\ d1(k) \in Scalar /\ d2(k) \in Scalar
  BY FoldedResidual
<1> HIDE DEF T, cT, U, W
<1>8. ASSUME RowsHold(U1, W1), RowsHold(U2, W2) PROVE RowsHold(U, W)
  <2>1. ASSUME NEW k \in Cons PROVE Residual(k, U, W) = Zero
    <3>1. d1(k) = Zero /\ d2(k) = Zero BY <1>8 DEF RowsHold
    <3> HIDE DEF d, d1, d2
    <3>2. d(k) = Zero BY <1>7, <3>1, ResidualBothHold
    <3>. QED BY <3>2 DEF d
  <2>. QED BY <2>1 DEF RowsHold
<1>9. ASSUME RowsHold(U, W), r \notin {Zero, One}, RowsHold(U1, W1) \/ RowsHold(U2, W2)
      PROVE  RowsHold(U1, W1) /\ RowsHold(U2, W2)
  <2>1. ASSUME NEW k \in Cons PROVE d1(k) = Zero <=> d2(k) = Zero
    <3>1. d(k) = Zero BY <1>9 DEF RowsHold
    <3> HIDE DEF d, d1, d2
    <3>2. d1(k) = Zero => d2(k) = Zero BY <1>7, <1>9, <3>1, ResidualFirstHolds
    <3>3. d2(k) = Zero => d1(k) = Zero BY <1>7, <1>9, <3>1, ResidualSecondHolds
    <3>. QED BY <3>2, <3>3
  <2>. QED BY <1>9, <2>1 DEF RowsHold
<1>10. /\ is_sat_relaxed(U1, W1) /\ is_sat_relaxed(U2, W2) => is_sat_relaxed(U, W)
       /\ /\ is_sat_relaxed(U, W) /\ r \notin {Zero, One}
          /\ is_sat_relaxed(U1, W1) \/ is_sat_relaxed(U2, W2)
          => is_sat_relaxed(U1, W1) /\ is_sat_relaxed(U2, W2)
  BY <1>5, <1>6, <1>8, <1>9
<1>. QED BY <1>10 DEF T, cT, U, W
----------------------------------------------------------------------------
(* A plain fold is the relaxed fold of the converted pair.                 *)

LEMMA AxpyZeros ==
  ASSUME NEW S, NEW x \in Vec(S), NEW r \in Scalar
  PROVE  Axpy(x, r, Zeros(S)) = x
<1>1. \A i \in S : x[i] \in Scalar /\ Zeros(S)[i] = Zero BY DEF Vec, Zeros
<1>2. r ** Zero = Zero BY MulZero
<1>3. \A i \in S : x[i] ++ (r ** Zeros(S)[i]) = x[i] BY <1>1, <1>2, RingAssumption
<1>. QED BY <1>3 DEF Axpy, Vec

LEMMA ConvertedType ==
  /\ default_instance \in RelaxedR1CSInstance
  /\ default_witness \in RelaxedR1CSWitness
  /\ \A U \in R1CSInstance :
        /\ from_r1cs_instance(U) = [comm_W |-> U.comm_W, comm_E |-> Commit(Zeros(Cons), Zero),
                                    u |-> One, X |-> U.X]
        /\ from_r1cs_instance(U) \in RelaxedR1CSInstance
  /\ \A W \in R1CSWitness : from_r1cs_witness(W) \in RelaxedR1CSWitness
<1>1. /\ Zeros(Vars) \in Vec(Vars) /\ Zeros(Cons) \in Vec(Cons) /\ Zeros(IO) \in Vec(IO)
      /\ Zero \in Scalar /\ One \in Scalar
  BY ZerosType, RingAssumption
<1>2. /\ Commit(Zeros(Vars), Zero) \in Commitment(Vars)
      /\ Commit(Zeros(Cons), Zero) \in Commitment(Cons)
  BY <1>1, CommitType
<1>3. default_instance \in RelaxedR1CSInstance
  BY <1>1, <1>2 DEF default_instance, RelaxedR1CSInstance
<1>4. default_witness \in RelaxedR1CSWitness
  BY <1>1 DEF default_witness, RelaxedR1CSWitness
<1>5. ASSUME NEW U \in R1CSInstance
      PROVE  /\ from_r1cs_instance(U) = [comm_W |-> U.comm_W, comm_E |-> Commit(Zeros(Cons), Zero),
                                         u |-> One, X |-> U.X]
             /\ from_r1cs_instance(U) \in RelaxedR1CSInstance
  <2>1. U.comm_W \in Commitment(Vars) /\ U.X \in Vec(IO) BY DEF R1CSInstance
  <2>2. from_r1cs_instance(U) = [comm_W |-> U.comm_W, comm_E |-> Commit(Zeros(Cons), Zero),
                                 u |-> One, X |-> U.X]
    BY DEF from_r1cs_instance, default_instance
  <2>. QED BY <1>1, <1>2, <2>1, <2>2 DEF RelaxedR1CSInstance
<1>6. ASSUME NEW W \in R1CSWitness PROVE from_r1cs_witness(W) \in RelaxedR1CSWitness
  BY <1>1 DEF from_r1cs_witness, RelaxedR1CSWitness, R1CSWitness
<1>. QED BY <1>3, <1>4, <1>5, <1>6

(* is_sat is is_sat_relaxed with u = One and no error.                     *)
LEMMA SatConverted ==
  ASSUME NEW U \in R1CSInstance, NEW W \in R1CSWitness
  PROVE  is_sat(U, W) <=> is_sat_relaxed(from_r1cs_instance(U), from_r1cs_witness(W))
<1> DEFINE z == ZVec(W.W, One, U.X)
           RU == from_r1cs_instance(U)
           RW == from_r1cs_witness(W)
<1>1. /\ RU.u = One /\ RU.X = U.X /\ RU.comm_W = U.comm_W
      /\ RU.comm_E = Commit(Zeros(Cons), Zero)
  BY ConvertedType
<1>2. /\ RW.W = W.W /\ RW.r_W = W.r_W /\ RW.E = Zeros(Cons) /\ RW.r_E = Zero
  BY DEF from_r1cs_witness
<1>3. z \in Vec(Cols)
  BY ZVecType, RingAssumption DEF R1CSInstance, R1CSWitness
<1>4. ASSUME NEW k \in Cons
      PROVE  (One ** RowC(k, z)) ++ Zeros(Cons)[k] = RowC(k, z)
  <2>1. RowC(k, z) \in Scalar BY <1>3, RowsType
  <2>2. Zeros(Cons)[k] = Zero BY DEF Zeros
  <2> HIDE DEF z
  <2>. QED BY <2>1, <2>2, RingAssumption
<1> HIDE DEF RU, RW
<1>5. is_sat_relaxed(RU, RW) <=>
        /\ \A k \in Cons : RowA(k, z) ** RowB(k, z) = (One ** RowC(k, z)) ++ Zeros(Cons)[k]
        /\ U.comm_W = Commit(W.W, W.r_W)
  BY <1>1, <1>2 DEF is_sat_relaxed
<1>. QED BY <1>4, <1>5 DEF is_sat, RU, RW

(* The three operations of a plain fold, one by one.                       *)
LEMMA PlainIsRelaxed ==
  ASSUME NEW U1 \in RelaxedR1CSInstance, NEW W1 \in RelaxedR1CSWitness,
         NEW U2 \in R1CSInstance, NEW W2 \in R1CSWitness,
         NEW r \in Scalar, NEW r_T \in Scalar
  PROVE  LET RU == from_r1cs_instance(U2)
             RW == from_r1cs_witness(W2)
         IN  /\ commit_T(U1, W1, U2, W2) = commit_T_relaxed(U1, W1, RU, RW)
             /\ \A T \in Vec(Cons) :
                   fold_witness(W1, W2, T, r_T, r) = fold_witness_relaxed(W1, RW, T, r_T, r)
             /\ \A comm_T \in Commitment(Cons) :
                   fold_instance(U1, U2, comm_T, r) = fold_instance_relaxed(U1, RU, comm_T, r)
<1> DEFINE RU == from_r1cs_instance(U2)
           RW == from_r1cs_witness(W2)
           s  == r ** r
<1>1. /\ RU.u = One /\ RU.X = U2.X /\ RU.comm_W = U2.comm_W
      /\ RU.comm_E = Commit(Zeros(Cons), Zero) /\ RU \in RelaxedR1CSInstance
  BY ConvertedType
<1>2. /\ RW.W = W2.W /\ RW.r_W = W2.r_W /\ RW.E = Zeros(Cons) /\ RW.r_E = Zero
      /\ RW \in RelaxedR1CSWitness
  BY ConvertedType DEF from_r1cs_witness
<1>3. s \in Scalar /\ One \in Scalar /\ Zero \in Scalar BY RingAssumption
<1>4. commit_T(U1, W1, U2, W2) = commit_T_relaxed(U1, W1, RU, RW)
  <2> DEFINE z == Axpy(ZVec(W1.W, U1.u, U1.X), One, ZVec(W2.W, One, U2.X))
             p == Excess(U1.u ++ One, z)
  <2>1. /\ W1.W \in Vec(Vars) /\ W2.W \in Vec(Vars) /\ U1.X \in Vec(IO) /\ U2.X \in Vec(IO)
        /\ U1.u \in Scalar /\ W1.E \in Vec(Cons)
    BY DEF RelaxedR1CSInstance, RelaxedR1CSWitness, R1CSInstance, R1CSWitness
  <2>2. z \in Vec(Cols)
    <3>1. ZVec(W1.W, U1.u, U1.X) \in Vec(Cols) /\ ZVec(W2.W, One, U2.X) \in Vec(Cols)
      BY <1>3, <2>1, ZVecType
    <3>. QED BY <1>3, <3>1, AxpyType
  <2>3. p \in Vec(Cons)
    <3>1. U1.u ++ One \in Scalar BY <1>3, <2>1, RingClosed
    <3>. QED BY <2>2, <3>1, ExcessType
  <2>4. commit_T(U1, W1, U2, W2) = [k \in Cons |-> p[k] -- W1.E[k]]
    BY DEF commit_T
  <2>5. commit_T_relaxed(U1, W1, RU, RW) = [k \in Cons |-> (p[k] -- W1.E[k]) -- Zeros(Cons)[k]]
    <3> HIDE DEF RU, RW
    <3>. QED BY <1>1, <1>2 DEF commit_T_relaxed
  <2> HIDE DEF p
  <2>6. \A k \in Cons : p[k] \in Scalar /\ W1.E[k] \in Scalar BY <2>1, <2>3 DEF Vec
  <2>7. \A k \in Cons : p[k] -- W1.E[k] \in Scalar BY <2>6, RingClosed
  <2>8. \A k \in Cons : (p[k] -- W1.E[k]) -- Zero = p[k] -- W1.E[k] BY <2>7, SubZero
  <2>9. \A k \in Cons : Zeros(Cons)[k] = Zero BY DEF Zeros
  <2>. QED BY <2>4, <2>5, <2>8, <2>9
<1>5. ASSUME NEW T \in Vec(Cons)
      PROVE  fold_witness(W1, W2, T, r_T, r) = fold_witness_relaxed(W1, RW, T, r_T, r)
  <2> DEFINE e == Axpy(W1.E, r, T)
             x == W1.r_E ++ (r ** r_T)
  <2>1. e \in Vec(Cons) BY AxpyType DEF RelaxedR1CSWitness
  <2>2. Axpy(e, s, Zeros(Cons)) = e BY <1>3, <2>1, AxpyZeros
  <2>3. x \in Scalar
    <3>1. W1.r_E \in Scalar /\ r ** r_T \in Scalar BY RingClosed DEF RelaxedR1CSWitness
    <3>. QED BY <3>1, RingClosed
  <2>4. x ++ (s ** Zero) = x
    <3> HIDE DEF x, s
    <3>1. s ** Zero = Zero BY <1>3, MulZero
    <3>. QED BY <2>3, <3>1, RingAssumption
  <2> HIDE DEF RW
  <2>. QED BY <1>2, <2>2, <2>4 DEF fold_witness, fold_witness_relaxed
<1>6. ASSUME NEW comm_T \in Commitment(Cons)
      PROVE  fold_instance(U1, U2, comm_T, r) = fold_instance_relaxed(U1, RU, comm_T, r)
  <2> DEFINE c == CommAxpy(U1.comm_E, r, comm_T)
             c0 == Commit(Zeros(Cons), Zero)
  <2>1. c \in Commitment(Cons) BY CommAxpyType DEF RelaxedR1CSInstance
  <2>2. c0.v = Zeros(Cons) /\ c0.r = Zero BY DEF Commit
  <2>3. CommAxpy(c, s, c0) = c
    <3> HIDE DEF c, c0, s
    <3>1. c.v \in Vec(Cons) /\ c.r \in Scalar /\ c = [v |-> c.v, r |-> c.r]
      BY <2>1 DEF Commitment
    <3>2. Axpy(c.v, s, Zeros(Cons)) = c.v BY <1>3, <3>1, AxpyZeros
    <3>3. c.r ++ (s ** Zero) = c.r
      <4>1. s ** Zero = Zero BY <1>3, MulZero
      <4>. QED BY <3>1, <4>1, RingAssumption
    <3>. QED BY <2>2, <3>1, <3>2, <3>3 DEF CommAxpy
  <2>4. r ** One = r BY <1>3, RingAssumption
  <2> HIDE DEF RU
  <2>. QED BY <1>1, <2>3, <2>4 DEF fold_instance, fold_instance_relaxed
<1>. QED BY <1>4, <1>5, <1>6

(* The same guarantee for a plain fold, with its types.                    *)
LEMMA FoldPlainSat ==
  ASSUME NEW U1 \in RelaxedR1CSInstance, NEW W1 \in RelaxedR1CSWitness,
         NEW U2 \in R1CSInstance, NEW W2 \in R1CSWitness,
         NEW r \in Scalar, NEW r_T \in Scalar
  PROVE  LET T == commit_T(U1, W1, U2, W2)
             U == fold_instance(U1, U2, Commit(T, r_T), r)
             W == fold_witness(W1, W2, T, r_T, r)
         IN  /\ Commit(T, r_T) \in Commitment(Cons)
             /\ U \in RelaxedR1CSInstance /\ W \in RelaxedR1CSWitness
             /\ is_sat_relaxed(U1, W1) /\ is_sat(U2, W2) => is_sat_relaxed(U, W)
             /\ /\ is_sat_relaxed(U, W) /\ r \notin {Zero, One}
                /\ is_sat_relaxed(U1, W1) \/ is_sat(U2, W2)
                => is_sat_relaxed(U1, W1) /\ is_sat(U2, W2)
<1> DEFINE RU == from_r1cs_instance(U2)
           RW == from_r1cs_witness(W2)
           T == commit_T(U1, W1, U2, W2)
           TR == commit_T_relaxed(U1, W1, RU, RW)
           U == fold_instance(U1, U2, Commit(T, r_T), r)
           UR == fold_instance_relaxed(U1, RU, Commit(TR, r_T), r)
           W == fold_witness(W1, W2, T, r_T, r)
           WR == fold_witness_relaxed(W1, RW, TR, r_T, r)
<1>1. RU \in RelaxedR1CSInstance /\ RW \in RelaxedR1CSWitness BY ConvertedType
<1>2. T = TR BY PlainIsRelaxed
<1> HIDE DEF RU, RW
<1>3. TR \in Vec(Cons) BY <1>1, FoldRelaxedType
<1>4. Commit(TR, r_T) \in Commitment(Cons) BY <1>3, CommitType
<1> HIDE DEF T, TR
<1>5. U = UR BY <1>2, <1>4, PlainIsRelaxed DEF RU
<1>6. W = WR BY <1>2, <1>3, PlainIsRelaxed DEF RW
<1>7. UR \in RelaxedR1CSInstance BY <1>1, <1>4, FoldRelaxedType
<1>8. WR \in RelaxedR1CSWitness BY <1>1, <1>3, FoldRelaxedType
<1>9. is_sat(U2, W2) <=> is_sat_relaxed(RU, RW) BY SatConverted DEF RU, RW
<1>10. /\ is_sat_relaxed(U1, W1) /\ is_sat_relaxed(RU, RW) => is_sat_relaxed(UR, WR)
       /\ /\ is_sat_relaxed(UR, WR) /\ r \notin {Zero, One}
          /\ is_sat_relaxed(U1, W1) \/ is_sat_relaxed(RU, RW)
          => is_sat_relaxed(U1, W1) /\ is_sat_relaxed(RU, RW)
  BY <1>1, FoldRelaxedSat DEF TR
<1> HIDE DEF U, UR, W, WR
<1>. QED BY <1>2, <1>4, <1>5, <1>6, <1>7, <1>8, <1>9, <1>10 DEF U, W, T
----------------------------------------------------------------------------
(* The other operations.                                                   *)

LEMMA ZeroRows ==
  ASSUME NEW k \in Cons
  PROVE  RowA(k, ZVec(Zeros(Vars), Zero, Zeros(IO))) = Zero
<1> DEFINE z == ZVec(Zeros(Vars), Zero, Zeros(IO))
           a == RowA(k, z)
<1>1. Zero \in Scalar /\ One \in Scalar /\ Zeros(Vars) \in Vec(Vars) /\ Zeros(IO) \in Vec(IO)
  BY ZerosType, RingAssumption
<1>2. z \in Vec(Cols) BY <1>1, ZVecType
<1>3. Axpy(z, One, z) = z
  <2>1. \A c \in Cols : z[c] = Zero BY DEF ZVec, Zeros, Cols
  <2>2. Zero ++ (One ** Zero) = Zero BY <1>1, RingAssumption
  <2>3. DOMAIN z = Cols BY DEF ZVec
  <2>4. z = [c \in Cols |-> z[c]] BY DEF ZVec
  <2> HIDE DEF z
  <2>. QED BY <2>1, <2>2, <2>3, <2>4 DEF Axpy
<1>4. a \in Scalar BY <1>2, RowsType
<1>5. a = a ++ (One ** a)
  <2> HIDE DEF z
  <2>1. RowA(k, Axpy(z, One, z)) = RowA(k, z) ++ (One ** RowA(k, z))
    BY <1>1, <1>2, RowsLinear
  <2>. QED BY <1>3, <2>1
<1> HIDE DEF a
<1>6. One ** a = a BY <1>4, RingAssumption
<1>7. a ++ (One ** a) = Zero ++ (One ** a) => a = Zero
  BY <1>1, <1>4, AxpyCancel
<1>8. Zero ++ (One ** a) = a BY <1>1, <1>4, <1>6, RingAssumption
<1>. QED BY <1>5, <1>7, <1>8 DEF a

(* The base case of the secondary circuit: the default pair satisfies.     *)
LEMMA DefaultSat == is_sat_relaxed(default_instance, default_witness)
<1> DEFINE z == ZVec(Zeros(Vars), Zero, Zeros(IO))
<1>1. Zero \in Scalar /\ Zeros(Vars) \in Vec(Vars) /\ Zeros(IO) \in Vec(IO)
  BY ZerosType, RingAssumption
<1>2. z \in Vec(Cols) BY <1>1, ZVecType
<1>3. ASSUME NEW k \in Cons
      PROVE  RowA(k, z) ** RowB(k, z) = (Zero ** RowC(k, z)) ++ Zeros(Cons)[k]
  <2>1. RowA(k, z) = Zero BY ZeroRows
  <2>2. RowB(k, z) \in Scalar /\ RowC(k, z) \in Scalar BY <1>2, RowsType
  <2>3. Zeros(Cons)[k] = Zero BY DEF Zeros
  <2> HIDE DEF z
  <2>4. Zero ** RowB(k, z) = Zero /\ Zero ** RowC(k, z) = Zero BY <2>2, MulZero
  <2>5. Zero ++ Zero = Zero BY <1>1, RingAssumption
  <2>. QED BY <2>1, <2>3, <2>4, <2>5
<1>. QED BY <1>3 DEF is_sat_relaxed, default_instance, default_witness

(* sample_random_instance_witness solves E from the rest, so it satisfies. *)
LEMMA SampleSat ==
  ASSUME NEW W \in Vec(Vars), NEW u \in Scalar, NEW X \in Vec(IO),
         NEW r_W \in Scalar, NEW r_E \in Scalar
  PROVE  LET p == sample_random_instance_witness(W, u, X, r_W, r_E)
         IN  /\ p[1] \in RelaxedR1CSInstance /\ p[2] \in RelaxedR1CSWitness
             /\ is_sat_relaxed(p[1], p[2])
<1> DEFINE z == ZVec(W, u, X)
           E == Excess(u, z)
           U2 == [comm_W |-> Commit(W, r_W), comm_E |-> Commit(E, r_E), u |-> u, X |-> X]
           W2 == [W |-> W, r_W |-> r_W, E |-> E, r_E |-> r_E]
<1>1. sample_random_instance_witness(W, u, X, r_W, r_E) = <<U2, W2>>
  BY DEF sample_random_instance_witness
<1>2. z \in Vec(Cols) BY ZVecType
<1>3. E \in Vec(Cons) BY <1>2, ExcessType
<1>4. Commit(W, r_W) \in Commitment(Vars) /\ Commit(E, r_E) \in Commitment(Cons)
  <2> HIDE DEF E
  <2>. QED BY <1>3, CommitType
<1>5. U2 \in RelaxedR1CSInstance /\ W2 \in RelaxedR1CSWitness
  <2> HIDE DEF E
  <2>. QED BY <1>3, <1>4 DEF RelaxedR1CSInstance, RelaxedR1CSWitness
<1>6. RowsHold(U2, W2)
  <2>1. ASSUME NEW k \in Cons PROVE Residual(k, U2, W2) = Zero
    <3>1. Residual(k, U2, W2) = ((RowA(k, z) ** RowB(k, z)) -- (u ** RowC(k, z))) -- E[k]
      BY DEF Residual
    <3>2. E[k] = (RowA(k, z) ** RowB(k, z)) -- (u ** RowC(k, z)) BY DEF Excess
    <3>3. E[k] \in Scalar BY <1>3 DEF Vec
    <3>4. E[k] -- E[k] = Zero BY <3>3, SubZero
    <3>. QED BY <3>1, <3>2, <3>4
  <2>. QED BY <2>1 DEF RowsHold
<1>7. Opens(U2, W2) BY DEF Opens
<1>8. is_sat_relaxed(U2, W2) BY <1>5, <1>6, <1>7, SatByResidual
<1> HIDE DEF U2, W2
<1>. QED BY <1>1, <1>5, <1>8

(* Derandomizing with the witness's own blinds.                            *)
LEMMA DerandomizeSat ==
  ASSUME NEW U \in RelaxedR1CSInstance, NEW W \in RelaxedR1CSWitness
  PROVE  LET DU == derandomize_instance(U, W.r_W, W.r_E)
             DW == derandomize_witness(W)
         IN  /\ DU \in RelaxedR1CSInstance /\ DW \in RelaxedR1CSWitness
             /\ DW.r_W = Zero /\ DW.r_E = Zero
             /\ is_sat_relaxed(DU, DW) <=> is_sat_relaxed(U, W)
<1> DEFINE DU == derandomize_instance(U, W.r_W, W.r_E)
           DW == derandomize_witness(W)
<1>1. /\ U.comm_W \in Commitment(Vars) /\ U.comm_E \in Commitment(Cons)
      /\ U.u \in Scalar /\ U.X \in Vec(IO)
      /\ W.W \in Vec(Vars) /\ W.E \in Vec(Cons) /\ W.r_W \in Scalar /\ W.r_E \in Scalar
  BY DEF RelaxedR1CSInstance, RelaxedR1CSWitness
<1>2. /\ U.comm_W.v \in Vec(Vars) /\ U.comm_W.r \in Scalar
      /\ U.comm_E.v \in Vec(Cons) /\ U.comm_E.r \in Scalar
      /\ U.comm_W = [v |-> U.comm_W.v, r |-> U.comm_W.r]
      /\ U.comm_E = [v |-> U.comm_E.v, r |-> U.comm_E.r]
  BY <1>1 DEF Commitment
<1>3. /\ U.comm_W.r -- W.r_W \in Scalar /\ U.comm_E.r -- W.r_E \in Scalar /\ Zero \in Scalar
  BY <1>1, <1>2, RingClosed, RingAssumption
<1>4. DU = [comm_W |-> [v |-> U.comm_W.v, r |-> U.comm_W.r -- W.r_W],
            comm_E |-> [v |-> U.comm_E.v, r |-> U.comm_E.r -- W.r_E],
            u |-> U.u, X |-> U.X]
  BY DEF derandomize_instance, derandomize
<1>5. DW = [W |-> W.W, r_W |-> Zero, E |-> W.E, r_E |-> Zero]
  BY DEF derandomize_witness
<1>6. DU \in RelaxedR1CSInstance /\ DW \in RelaxedR1CSWitness
  <2> HIDE DEF DU, DW
  <2>. QED BY <1>1, <1>2, <1>3, <1>4, <1>5
           DEF RelaxedR1CSInstance, RelaxedR1CSWitness, Commitment
<1>7. DU.u = U.u /\ DU.X = U.X /\ DW.W = W.W /\ DW.E = W.E
  <2> HIDE DEF DU, DW
  <2>. QED BY <1>4, <1>5
<1>8. /\ DU.comm_W = Commit(DW.W, DW.r_W) <=> U.comm_W = Commit(W.W, W.r_W)
      /\ DU.comm_E = Commit(DW.E, DW.r_E) <=> U.comm_E = Commit(W.E, W.r_E)
  <2>1. /\ U.comm_W.r -- W.r_W = Zero <=> U.comm_W.r = W.r_W
        /\ U.comm_E.r -- W.r_E = Zero <=> U.comm_E.r = W.r_E
    BY <1>1, <1>2, SubZero
  <2> HIDE DEF DU, DW
  <2>2. /\ DU.comm_W = [v |-> U.comm_W.v, r |-> U.comm_W.r -- W.r_W]
        /\ DU.comm_E = [v |-> U.comm_E.v, r |-> U.comm_E.r -- W.r_E]
        /\ DW.r_W = Zero /\ DW.r_E = Zero
    BY <1>4, <1>5
  <2>. QED BY <1>2, <1>7, <2>1, <2>2 DEF Commit
<1>9. is_sat_relaxed(DU, DW) <=> is_sat_relaxed(U, W)
  <2> HIDE DEF DU, DW
  <2>. QED BY <1>7, <1>8 DEF is_sat_relaxed
<1>10. DW.r_W = Zero /\ DW.r_E = Zero
  <2> HIDE DEF DU, DW
  <2>. QED BY <1>5
<1>. QED BY <1>6, <1>9, <1>10
----------------------------------------------------------------------------
(* The protocol.  Completeness is inductive with the facts it needs of the *)
(* derandomized stage.                                                     *)

Unblinded == stage = "derandomized" => pW.r_W = Zero /\ pW.r_E = Zero

IInv == TypeOK /\ Completeness /\ Agreement /\ Unblinded

LEMMA InitIInv == Init => IInv
<1> SUFFICES ASSUME Init PROVE IInv
  OBVIOUS
<1> USE DEF Init
<1>1. /\ pU \in RelaxedR1CSInstance /\ pW \in RelaxedR1CSWitness
      /\ good \in BOOLEAN /\ clean = good /\ (clean => is_sat_relaxed(pU, pW))
  <2>1. CASE pU = default_instance /\ pW = default_witness /\ good = TRUE
    BY <2>1, ConvertedType, DefaultSat
  <2>2. CASE \E p \in Incoming :
                /\ pU = from_r1cs_instance(p[1]) /\ pW = from_r1cs_witness(p[2])
                /\ good = is_sat(p[1], p[2])
    <3>1. PICK p \in Incoming :
                /\ pU = from_r1cs_instance(p[1]) /\ pW = from_r1cs_witness(p[2])
                /\ good = is_sat(p[1], p[2])
      BY <2>2
    <3>2. p[1] \in R1CSInstance /\ p[2] \in R1CSWitness BY SamplingAssumption
    <3>3. is_sat(p[1], p[2]) <=> is_sat_relaxed(pU, pW) BY <3>1, <3>2, SatConverted
    <3>4. good \in BOOLEAN BY <3>1 DEF is_sat
    <3>. QED BY <3>1, <3>2, <3>3, <3>4, ConvertedType
  <2>. QED BY <2>1, <2>2
<1>2. vU \in RelaxedR1CSInstance /\ msg = NoMsg /\ msg.kind = "none"
  BY <1>1 DEF NoMsg
<1>3. ro.answer \in Scalar BY RingAssumption DEF NoQuery
<1>. QED BY <1>1, <1>2, <1>3 DEF IInv, TypeOK, Completeness, Agreement, Unblinded

LEMMA AnswersType ==
  ASSUME TypeOK, NEW q
  PROVE  Answers(q) \subseteq Scalar
BY SamplingAssumption DEF TypeOK, Answers

(* One folding step of the prover: what it does to the pair, and that it   *)
(* is sound.                                                               *)
LEMMA ProveFoldStep ==
  ASSUME IInv, NEW p \in Incoming, ProveFold(p[1], p[2])
  PROVE  /\ IInv'
         /\ ro'.answer \notin {Zero, One} /\ (Satisfied \/ good')
              => (Satisfied' <=> Satisfied /\ good')
<1> DEFINE U2 == p[1]
           W2 == p[2]
<1>1. U2 \in R1CSInstance /\ W2 \in R1CSWitness BY SamplingAssumption
<1> HIDE DEF U2, W2
<1>2. ProveFold(U2, W2) BY DEF U2, W2
<1>3. pU \in RelaxedR1CSInstance /\ pW \in RelaxedR1CSWitness BY DEF IInv, TypeOK
<1> DEFINE T == commit_T(pU, pW, U2, W2)
<1>4. PICK r_T \in Blind : \E r \in Answers(Query(U2, Commit(T, r_T))) :
                 /\ pU' = fold_instance(pU, U2, Commit(T, r_T), r)
                 /\ pW' = fold_witness(pW, W2, T, r_T, r)
                 /\ msg' = [kind |-> "fold", U2 |-> U2, comm_T |-> Commit(T, r_T)]
                 /\ ro' = [query |-> Query(U2, Commit(T, r_T)), answer |-> r]
  BY <1>2 DEF ProveFold
<1> DEFINE cT == Commit(T, r_T)
<1>5. PICK r \in Answers(Query(U2, cT)) :
                 /\ pU' = fold_instance(pU, U2, cT, r)
                 /\ pW' = fold_witness(pW, W2, T, r_T, r)
                 /\ msg' = [kind |-> "fold", U2 |-> U2, comm_T |-> cT]
                 /\ ro' = [query |-> Query(U2, cT), answer |-> r]
  BY <1>4
<1>6. r \in Scalar /\ r_T \in Scalar BY AnswersType, SamplingAssumption DEF IInv
<1>7. /\ cT \in Commitment(Cons)
      /\ pU' \in RelaxedR1CSInstance /\ pW' \in RelaxedR1CSWitness
      /\ is_sat_relaxed(pU, pW) /\ is_sat(U2, W2) => is_sat_relaxed(pU', pW')
      /\ /\ is_sat_relaxed(pU', pW') /\ r \notin {Zero, One}
         /\ is_sat_relaxed(pU, pW) \/ is_sat(U2, W2)
         => is_sat_relaxed(pU, pW) /\ is_sat(U2, W2)
  BY <1>1, <1>3, <1>5, <1>6, FoldPlainSat
<1>8. /\ good' = is_sat(U2, W2) /\ clean' = (clean /\ good')
      /\ vU' = vU /\ stage' = stage /\ stage = "folding" /\ msg.kind = "none"
  BY <1>2 DEF ProveFold
<1>9. good' \in BOOLEAN /\ clean' \in BOOLEAN BY <1>8 DEF is_sat
<1> HIDE DEF T, cT
<1>10. msg'.kind = "fold" /\ msg'.U2 = U2 /\ msg'.comm_T = cT BY <1>5
<1>11. ro'.query = Query(U2, cT) /\ ro'.answer = r BY <1>5
<1>12. TypeOK'
  <2>1. msg' \in [kind : {"fold"}, U2 : R1CSInstance, comm_T : Commitment(Cons)]
    BY <1>1, <1>5, <1>7
  <2>. QED BY <1>6, <1>7, <1>8, <1>9, <1>11, <2>1 DEF IInv, TypeOK
<1>13. Completeness' BY <1>7, <1>8 DEF IInv, Completeness
<1>14. Agreement'
  <2>1. vU' = pU BY <1>8 DEF IInv, Agreement
  <2>. QED BY <1>5, <1>10, <1>11, <2>1 DEF Agreement
<1>15. Unblinded' BY <1>8 DEF Unblinded
<1>. QED BY <1>7, <1>8, <1>11, <1>12, <1>13, <1>14, <1>15 DEF IInv, Satisfied

LEMMA ProveFoldRandomStep ==
  ASSUME IInv, NEW z \in Sampled, NEW r_W \in Blind, NEW r_E \in Blind,
         ProveFoldRandom(z[1], z[2], z[3], r_W, r_E)
  PROVE  /\ IInv'
         /\ ro'.answer \notin {Zero, One} /\ (Satisfied \/ good')
              => (Satisfied' <=> Satisfied /\ good')
<1> DEFINE p  == sample_random_instance_witness(z[1], z[2], z[3], r_W, r_E)
           U2 == p[1]
           W2 == p[2]
           T  == commit_T_relaxed(pU, pW, U2, W2)
<1>1. /\ z[1] \in Vec(Vars) /\ z[2] \in Scalar /\ z[3] \in Vec(IO)
      /\ r_W \in Scalar /\ r_E \in Scalar
  BY SamplingAssumption
<1>2. /\ U2 \in RelaxedR1CSInstance /\ W2 \in RelaxedR1CSWitness
      /\ is_sat_relaxed(U2, W2)
  BY <1>1, SampleSat
<1>3. pU \in RelaxedR1CSInstance /\ pW \in RelaxedR1CSWitness BY DEF IInv, TypeOK
<1>4. PICK r_T \in Blind : \E r \in Answers(QueryRelaxed(pU, U2, Commit(T, r_T))) :
                 /\ pU' = fold_instance_relaxed(pU, U2, Commit(T, r_T), r)
                 /\ pW' = fold_witness_relaxed(pW, W2, T, r_T, r)
                 /\ msg' = [kind |-> "relaxed", U2 |-> U2, comm_T |-> Commit(T, r_T)]
                 /\ ro' = [query |-> QueryRelaxed(pU, U2, Commit(T, r_T)), answer |-> r]
                 /\ good' = is_sat_relaxed(U2, W2)
  BY DEF ProveFoldRandom
<1> DEFINE cT == Commit(T, r_T)
<1>5. PICK r \in Answers(QueryRelaxed(pU, U2, cT)) :
                 /\ pU' = fold_instance_relaxed(pU, U2, cT, r)
                 /\ pW' = fold_witness_relaxed(pW, W2, T, r_T, r)
                 /\ msg' = [kind |-> "relaxed", U2 |-> U2, comm_T |-> cT]
                 /\ ro' = [query |-> QueryRelaxed(pU, U2, cT), answer |-> r]
                 /\ good' = is_sat_relaxed(U2, W2)
  BY <1>4
<1>6. r \in Scalar /\ r_T \in Scalar BY AnswersType, SamplingAssumption DEF IInv
<1>7. /\ clean' = (clean /\ good') /\ vU' = vU /\ stage' = stage
      /\ stage = "folding" /\ msg.kind = "none"
  BY DEF ProveFoldRandom
<1> HIDE DEF U2, W2
<1>8. T \in Vec(Cons) BY <1>2, <1>3, <1>6, FoldRelaxedType
<1>9. /\ is_sat_relaxed(pU, pW) /\ is_sat_relaxed(U2, W2) => is_sat_relaxed(pU', pW')
      /\ /\ is_sat_relaxed(pU', pW') /\ r \notin {Zero, One}
         /\ is_sat_relaxed(pU, pW) \/ is_sat_relaxed(U2, W2)
         => is_sat_relaxed(pU, pW) /\ is_sat_relaxed(U2, W2)
  BY <1>2, <1>3, <1>5, <1>6, FoldRelaxedSat
<1> HIDE DEF T
<1>10. cT \in Commitment(Cons) BY <1>6, <1>8, CommitType
<1>11. pW' \in RelaxedR1CSWitness BY <1>2, <1>3, <1>5, <1>6, <1>8, FoldRelaxedType
<1> HIDE DEF cT
<1>12. pU' \in RelaxedR1CSInstance BY <1>2, <1>3, <1>5, <1>6, <1>10, FoldRelaxedType
<1>13. good' = TRUE
  <2>1. good' \in BOOLEAN BY <1>5 DEF is_sat_relaxed
  <2>. QED BY <1>2, <1>5, <2>1
<1>14. msg'.kind = "relaxed" /\ msg'.U2 = U2 /\ msg'.comm_T = cT BY <1>5
<1>15. ro'.query = QueryRelaxed(pU, U2, cT) /\ ro'.answer = r BY <1>5
<1>16. TypeOK'
  <2>1. msg' \in [kind : {"relaxed"}, U2 : RelaxedR1CSInstance, comm_T : Commitment(Cons)]
    BY <1>2, <1>5, <1>10
  <2>2. clean' \in BOOLEAN BY <1>7, <1>13
  <2>. QED BY <1>6, <1>7, <1>11, <1>12, <1>13, <1>15, <2>1, <2>2 DEF IInv, TypeOK
<1>17. Completeness' BY <1>2, <1>7, <1>9 DEF IInv, Completeness
<1>18. Agreement'
  <2>1. vU' = pU BY <1>7 DEF IInv, Agreement
  <2>. QED BY <1>5, <1>14, <1>15, <2>1 DEF Agreement
<1>19. Unblinded' BY <1>7 DEF Unblinded
<1>. QED BY <1>2, <1>9, <1>13, <1>15, <1>16, <1>17, <1>18, <1>19 DEF IInv, Satisfied

(* The verifier asks the very query the prover asked, so it gets the same  *)
(* challenge and ends with the prover's instance.                          *)
LEMMA VerifyStep ==
  ASSUME IInv, VerifyFold \/ VerifyFoldRandom \/ VerifyDerandomize
  PROVE  IInv'
<1>1. vU' = pU
  <2>1. CASE VerifyFold
    <3>1. PICK r \in Answers(Query(msg.U2, msg.comm_T)) :
             vU' = fold_instance(vU, msg.U2, msg.comm_T, r)
      BY <2>1 DEF VerifyFold
    <3>2. msg.kind = "fold" BY <2>1 DEF VerifyFold
    <3>3. /\ ro.query = Query(msg.U2, msg.comm_T)
          /\ pU = fold_instance(vU, msg.U2, msg.comm_T, ro.answer)
      BY <3>2 DEF IInv, Agreement
    <3>4. r = ro.answer BY <3>3 DEF Answers
    <3>. QED BY <3>1, <3>3, <3>4
  <2>2. CASE VerifyFoldRandom
    <3>1. PICK r \in Answers(QueryRelaxed(vU, msg.U2, msg.comm_T)) :
             vU' = fold_instance_relaxed(vU, msg.U2, msg.comm_T, r)
      BY <2>2 DEF VerifyFoldRandom
    <3>2. msg.kind = "relaxed" BY <2>2 DEF VerifyFoldRandom
    <3>3. /\ ro.query = QueryRelaxed(vU, msg.U2, msg.comm_T)
          /\ pU = fold_instance_relaxed(vU, msg.U2, msg.comm_T, ro.answer)
      BY <3>2 DEF IInv, Agreement
    <3>4. r = ro.answer BY <3>3 DEF Answers
    <3>. QED BY <3>1, <3>3, <3>4
  <2>3. CASE VerifyDerandomize
    BY <2>3 DEF VerifyDerandomize, IInv, Agreement
  <2>. QED BY <2>1, <2>2, <2>3
<1>2. /\ msg' = NoMsg /\ (ro' = NoQuery \/ ro' = ro)
      /\ UNCHANGED <<pU, pW, stage, good, clean>>
  BY DEF VerifyFold, VerifyFoldRandom, VerifyDerandomize
<1>3. msg'.kind = "none" BY <1>2 DEF NoMsg
<1>4. ro'.answer \in Scalar
  <2>1. NoQuery.answer \in Scalar BY RingAssumption DEF NoQuery
  <2>2. ro.answer \in Scalar BY DEF IInv, TypeOK
  <2>. QED BY <1>2, <2>1, <2>2
<1>5. TypeOK' BY <1>1, <1>2, <1>4 DEF IInv, TypeOK
<1>6. Completeness' BY <1>2 DEF IInv, Completeness
<1>7. Agreement' BY <1>1, <1>2, <1>3 DEF Agreement
<1>8. Unblinded' BY <1>2 DEF IInv, Unblinded
<1>. QED BY <1>5, <1>6, <1>7, <1>8 DEF IInv

LEMMA ProveDerandomizeStep ==
  ASSUME IInv, ProveDerandomize
  PROVE  IInv' /\ (Satisfied' <=> Satisfied)
<1>1. pU \in RelaxedR1CSInstance /\ pW \in RelaxedR1CSWitness BY DEF IInv, TypeOK
<1>2. /\ pU' = derandomize_instance(pU, pW.r_W, pW.r_E)
      /\ pW' = derandomize_witness(pW)
      /\ msg' = [kind |-> "blinds", r_W |-> pW.r_W, r_E |-> pW.r_E]
      /\ stage' = "derandomized" /\ msg.kind = "none"
      /\ UNCHANGED <<vU, ro, good, clean>>
  BY DEF ProveDerandomize
<1>3. /\ pU' \in RelaxedR1CSInstance /\ pW' \in RelaxedR1CSWitness
      /\ pW'.r_W = Zero /\ pW'.r_E = Zero
      /\ is_sat_relaxed(pU', pW') <=> is_sat_relaxed(pU, pW)
  BY <1>1, <1>2, DerandomizeSat
<1>4. msg'.kind = "blinds" /\ msg'.r_W = pW.r_W /\ msg'.r_E = pW.r_E BY <1>2
<1>5. TypeOK'
  <2>1. pW.r_W \in Scalar /\ pW.r_E \in Scalar BY <1>1 DEF RelaxedR1CSWitness
  <2>2. msg' \in [kind : {"blinds"}, r_W : Scalar, r_E : Scalar] BY <1>2, <2>1
  <2>. QED BY <1>2, <1>3, <2>2 DEF IInv, TypeOK
<1>6. Completeness' BY <1>2, <1>3 DEF IInv, Completeness
<1>7. Agreement'
  <2>1. vU' = pU BY <1>2 DEF IInv, Agreement
  <2>. QED BY <1>2, <1>4, <2>1 DEF Agreement
<1>8. Unblinded' BY <1>3 DEF Unblinded
<1>. QED BY <1>3, <1>5, <1>6, <1>7, <1>8 DEF IInv, Satisfied

LEMMA NextIInv == IInv /\ [Next]_vars => IInv'
<1> SUFFICES ASSUME IInv, [Next]_vars PROVE IInv'
  OBVIOUS
<1>1. CASE \E p \in Incoming : ProveFold(p[1], p[2])
  BY <1>1, ProveFoldStep
<1>2. CASE \E z \in Sampled, r_W, r_E \in Blind :
              ProveFoldRandom(z[1], z[2], z[3], r_W, r_E)
  BY <1>2, ProveFoldRandomStep
<1>3. CASE VerifyFold \/ VerifyFoldRandom \/ VerifyDerandomize
  BY <1>3, VerifyStep
<1>4. CASE ProveDerandomize
  BY <1>4, ProveDerandomizeStep
<1>5. CASE UNCHANGED vars
  BY <1>5 DEF vars, IInv, TypeOK, Completeness, Agreement, Unblinded
<1>. QED BY <1>1, <1>2, <1>3, <1>4, <1>5 DEF Next

LEMMA Inductive == Spec => []IInv
BY InitIInv, NextIInv, PTL DEF Spec

(* Vector lengths, scalars and message shapes are kept by every operation. *)
THEOREM SpecTypeOK == Spec => []TypeOK
<1>1. IInv => TypeOK BY DEF IInv
<1>. QED BY <1>1, Inductive, PTL

(* NIFS::prove and NIFSRelaxed::prove are complete: over any field, shape  *)
(* and challenge set, folding only satisfying pairs keeps the running pair *)
(* satisfying.                                                             *)
THEOREM SpecCompleteness == Spec => []Completeness
<1>1. IInv => Completeness BY DEF IInv
<1>. QED BY <1>1, Inductive, PTL

(* NIFS::verify recomputes the prover's instance from the message alone.   *)
THEOREM SpecAgreement == Spec => []Agreement
<1>1. IInv => Agreement BY DEF IInv
<1>. QED BY <1>1, Inductive, PTL

(* The derandomized commitments open without a blind.                      *)
THEOREM SpecOpensUnblinded == Spec => []OpensUnblinded
<1>1. IInv => OpensUnblinded
  BY DEF IInv, Completeness, Agreement, Unblinded, OpensUnblinded, is_sat_relaxed
<1>. QED BY <1>1, Inductive, PTL

(* Folding is sound: with a challenge other than Zero and One, the folded  *)
(* pair satisfies exactly when both pairs did, if one of them did.         *)
THEOREM SpecFoldSound == Spec => FoldSound
<1> DEFINE A == FoldStep /\ ro'.answer \notin {Zero, One} /\ (Satisfied \/ good')
                  => (Satisfied' <=> Satisfied /\ good')
<1>1. IInv /\ [Next]_vars => [A]_vars
  <2> SUFFICES ASSUME IInv, [Next]_vars PROVE [A]_vars
    OBVIOUS
  <2>1. CASE \E p \in Incoming : ProveFold(p[1], p[2])
    BY <2>1, ProveFoldStep
  <2>2. CASE \E z \in Sampled, r_W, r_E \in Blind :
                ProveFoldRandom(z[1], z[2], z[3], r_W, r_E)
    BY <2>2, ProveFoldRandomStep
  <2>3. CASE VerifyFold \/ VerifyFoldRandom \/ VerifyDerandomize \/ ProveDerandomize
    <3>1. msg'.kind \in {"none", "blinds"}
      BY <2>3 DEF VerifyFold, VerifyFoldRandom, VerifyDerandomize, ProveDerandomize, NoMsg
    <3>. QED BY <3>1 DEF FoldStep
  <2>4. CASE UNCHANGED vars
    BY <2>4
  <2>. QED BY <2>1, <2>2, <2>3, <2>4 DEF Next
<1>. QED BY <1>1, Inductive, PTL DEF Spec, FoldSound

(* Derandomizing changes no verdict.                                       *)
THEOREM SpecDerandomizeExact == Spec => DerandomizeExact
<1> DEFINE A == stage # stage' => (Satisfied' <=> Satisfied)
<1>1. IInv /\ [Next]_vars => [A]_vars
  <2> SUFFICES ASSUME IInv, [Next]_vars PROVE [A]_vars
    OBVIOUS
  <2>1. CASE ProveDerandomize
    BY <2>1, ProveDerandomizeStep
  <2>2. CASE ~ProveDerandomize
    <3>1. stage' = stage
      BY <2>2 DEF Next, vars, ProveFold, ProveFoldRandom, VerifyFold, VerifyFoldRandom,
                  VerifyDerandomize
    <3>. QED BY <3>1
  <2>. QED BY <2>1, <2>2
<1>. QED BY <1>1, Inductive, PTL DEF Spec, DerandomizeExact
============================================================================
