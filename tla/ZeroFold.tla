------------------------------ MODULE ZeroFold ------------------------------
(***************************************************************************)
(* NeutronNova's folding scheme: NIFS (src/neutron/nifs.rs) over the       *)
(* zero-fold relation of src/neutron/relation.rs, and its verifier as a    *)
(* circuit (src/neutron/circuit/nifs.rs, relation.rs).                     *)
(*                                                                         *)
(* A prover keeps a running instance and witness.  Every incoming R1CS     *)
(* pair, which need not satisfy anything, is folded in by one round of a   *)
(* sumcheck: its polynomial says how the sum of all residuals, weighted by *)
(* the powers of a challenge tau, changes on the line between the two      *)
(* pairs.  Two verifiers fold the instances from the message: NIFS::verify *)
(* and the circuit, which takes the folded commitments as hints.           *)
(*                                                                         *)
(* Commitments and the oracle are ideal, as in Folding.  A polynomial is   *)
(* its six evaluations, from which from_evals computes the coefficients.   *)
(* NifsInit and NifsNext are named so that MCNeutron can run the scheme    *)
(* beside NeutronIVC.                                                      *)
(***************************************************************************)
EXTENDS ScalarField

CONSTANTS
    FieldInv(_),            \* the inverse of a non-zero scalar
    Ell,                    \* Structure::ell: log of the number of constraints
    Vars, IO, UCol,         \* columns of z: witness, public values, u
    RowA(_, _), RowB(_, _), RowC(_, _),   \* row k of A, B, C times z
    Incoming,               \* the pairs <<U2, W2>> a caller may fold in
    Blind,                  \* the blinds that are sampled
    Taus, Rhos, Rbs,        \* what the oracle may answer to each query
    MaxFolds                \* how many pairs are folded in (bound of the model)

VARIABLES
    pU, pW,     \* the prover's running instance and witness
    vU, cU,     \* the running instance of NIFS::verify and of the circuit
    msg,        \* the NIFS, with the verifiers that have not used it yet
    ro,         \* the oracle: <<query, answer>> of the NIFS under way
    status,     \* "running", or how a call ended that did not return Ok
    good,       \* history: what the last fold checked held of the pair
    clean,      \* history: every pair folded in so far was satisfying
    folds

nifs_vars == <<pU, pW, vU, cU, msg, ro, status, good, clean, folds>>
----------------------------------------------------------------------------
(* Scalars and polynomials.                                                *)

Points == 0 .. 5

\* Scalar::from, for the points of a round polynomial.
from[n \in Points] == IF n = 0 THEN Zero ELSE from[n - 1] ++ One

\* Evaluations at different points determine the polynomial.
ASSUME InverseAssumption ==
    /\ \A a \in Scalar \ {Zero} : FieldInv(a) \in Scalar /\ a ** FieldInv(a) = One
    /\ \A i, j \in Points : from[i] = from[j] => i = j

Power(t, n) == Product(n, [k \in 0 .. n - 1 |-> t])

\* The polynomial that is 1 at i and 0 at the other points.
basis(i, r) == Product(6, [j \in Points |->
        IF j = i THEN One ELSE (r -- from[j]) ** FieldInv(from[i] -- from[j])])

\* UniPoly::evaluate of the polynomial with the evaluations p.
evaluate(p, r) == Sum(6, [i \in Points |-> p[i] ** basis(i, r)])

eq(rho, r) == ((One -- rho) ** (One -- r)) ++ (rho ** r)

\* The point r on the line through x (at 0) and y (at 1).
Lerp(x, r, y)    == x ++ (r ** (y -- x))
LerpVec(x, r, y) == [i \in DOMAIN x |-> Lerp(x[i], r, y[i])]
----------------------------------------------------------------------------
(* The relation of neutron/relation.rs.                                    *)

\* Structure::new.  With fewer than four rows PowPolynomial::split_evals
\* would index past the end of its right half; a circuit has thousands.
Left  == 2 ^ ((Ell + 1) \div 2)
Right == 2 ^ (Ell \div 2)
Cons  == 0 .. (Left * Right - 1)
Tensor == 0 .. (Left + Right - 1)
ASSUME StructureAssumption ==
    /\ Ell \in Nat /\ Ell >= 2
    /\ Left \in Nat \ {0} /\ Right \in Nat \ {0}

Vec(S)   == [S -> Scalar]
ZeroVec(S) == [i \in S |-> Zero]
Commit(v, r)  == [v |-> v, r |-> r]
Commitment(S) == [v : Vec(S), r : Scalar]
CommLerp(c1, r, c2) == [v |-> LerpVec(c1.v, r, c2.v), r |-> Lerp(c1.r, r, c2.r)]

FoldedInstance ==
    [comm_W : Commitment(Vars), comm_E : Commitment(Tensor),
     T : Scalar, u : Scalar, X : Vec(IO)]
FoldedWitness ==
    [W : Vec(Vars), r_W : Scalar, E : Vec(Tensor), r_E : Scalar]

\* What is folded in has the lengths of the shape: R1CSInstance::new and
\* R1CSWitness::new check them.
ASSUME CallAssumption ==
    /\ Incoming \subseteq [comm_W : Commitment(Vars), X : Vec(IO)]
                          \X [W : Vec(Vars), r_W : Scalar]
    /\ Blind \subseteq Scalar /\ Taus \subseteq Scalar
    /\ Rhos \subseteq Scalar /\ Rbs \subseteq Scalar
    /\ MaxFolds \in Nat

Cols == Vars \cup {UCol} \cup IO
ZVec(W, u, X) ==
    [c \in Cols |-> IF c \in Vars THEN W[c] ELSE IF c = UCol THEN u ELSE X[c]]

\* Entry k of the outer product of the two halves of E.
full_E(E, k) == E[Left + (k \div Left)] ** E[k % Left]

WeightedSum(E, residual) ==
    Sum(Left * Right, [k \in Cons |-> full_E(E, k) ** residual[k]])

Residual(z) == [k \in Cons |-> (RowA(k, z) ** RowB(k, z)) -- RowC(k, z)]

Linear(row(_, _)) ==
    \A k \in Cons, x \in Vec(Cols) :
        /\ row(k, x) \in Scalar
        /\ \A r \in Scalar : row(k, [c \in Cols |-> r ** x[c]]) = r ** row(k, x)
        /\ \A y \in Vec(Cols) :
              row(k, [c \in Cols |-> x[c] ++ y[c]]) = row(k, x) ++ row(k, y)

\* multiply_vec is linear in z: all that folding asks of the matrices.
ASSUME LinearAssumption == Linear(RowA) /\ Linear(RowB) /\ Linear(RowC)

\* Mutant: the commitment of the witness is not checked.
is_sat_mut(U, W) ==
    /\ WeightedSum(W.E, Residual(ZVec(W.W, U.u, U.X))) = U.T
    /\ U.comm_E = Commit(W.E, W.r_E)
\* Structure::is_sat.
is_sat(U, W) ==
    /\ WeightedSum(W.E, Residual(ZVec(W.W, U.u, U.X))) = U.T
    /\ U.comm_W = Commit(W.W, W.r_W)
    /\ U.comm_E = Commit(W.E, W.r_E)

\* R1CSShape::is_sat of a pair that is folded in.
is_sat_r1cs(U, W) ==
    /\ Residual(ZVec(W.W, One, U.X)) = ZeroVec(Cons)
    /\ U.comm_W = Commit(W.W, W.r_W)

default_instance ==
    [comm_W |-> Commit(ZeroVec(Vars), Zero), comm_E |-> Commit(ZeroVec(Tensor), Zero),
     T |-> Zero, u |-> Zero, X |-> ZeroVec(IO)]
default_witness ==
    [W |-> ZeroVec(Vars), r_W |-> Zero, E |-> ZeroVec(Tensor), r_E |-> Zero]

\* Mutant: the blind of E keeps the weight of the running witness only.
fold_witness_mut(W1, W2, E2, r_E2, r_b) ==
    [W |-> LerpVec(W1.W, r_b, W2.W), r_W |-> Lerp(W1.r_W, r_b, W2.r_W),
     E |-> LerpVec(W1.E, r_b, E2),   r_E |-> W1.r_E ++ (r_b ** r_E2)]
fold_witness(W1, W2, E2, r_E2, r_b) ==
    [W |-> LerpVec(W1.W, r_b, W2.W), r_W |-> Lerp(W1.r_W, r_b, W2.r_W),
     E |-> LerpVec(W1.E, r_b, E2),   r_E |-> Lerp(W1.r_E, r_b, r_E2)]

fold_instance(U1, U2, comm_E, r_b, T_out) ==
    [comm_W |-> CommLerp(U1.comm_W, r_b, U2.comm_W),
     comm_E |-> CommLerp(U1.comm_E, r_b, comm_E),
     T |-> T_out, u |-> Lerp(U1.u, r_b, One), X |-> LerpVec(U1.X, r_b, U2.X)]

\* AllocatedFoldedInstance::fold: the commitments are hints.
fold_circuit(U1, U2, r_b, T_out, comm_W_fold, comm_E_fold) ==
    [comm_W |-> comm_W_fold, comm_E |-> comm_E_fold,
     T |-> T_out, u |-> Lerp(U1.u, r_b, One), X |-> LerpVec(U1.X, r_b, U2.X)]

\* PowPolynomial: full_E of the result is 1, tau, tau^2, ...
split_evals(tau) ==
    [p \in Tensor |-> IF p < Left THEN Power(tau, p)
                                  ELSE Power(tau, Left * (p - Left))]
----------------------------------------------------------------------------
(* The protocol of neutron/nifs.rs.                                        *)

\* What has been absorbed before each squeeze: U1 is not absorbed, U2 holds
\* its hash.
TauQuery(U2)             == <<"tau", U2>>
RhoQuery(U2, comm_E)     == <<"rho", U2, comm_E>>
RbQuery(U2, comm_E, poly) == <<"r_b", U2, comm_E, poly>>

\* A query asked again gets the answer it got; a new one gets any of S.
Answers(q, S) == IF \E a \in ro : a[1] = q THEN {a[2] : a \in {x \in ro : x[1] = q}}
                                           ELSE S

\* The sumcheck polynomial at b, for the pairs (E1, z1) at 0 and (E2, z2)
\* at 1: products are linear in z, so they are extended along the line.
prove_helper(rho, E1, z1, E2, z2, b) ==
    LET r == from[b]
        residual == [k \in Cons |->
            (Lerp(RowA(k, z1), r, RowA(k, z2)) ** Lerp(RowB(k, z1), r, RowB(k, z2)))
              -- Lerp(RowC(k, z1), r, RowC(k, z2))]
    IN  eq(rho, r) ** WeightedSum(LerpVec(E1, r, E2), residual)

\* Mutant: the value at 1 is computed like the others.
round_poly_mut(rho, U1, W1, U2, W2, E2) ==
    LET z1 == ZVec(W1.W, U1.u, U1.X)
        z2 == ZVec(W2.W, One, U2.X)
    IN  [b \in Points |-> prove_helper(rho, W1.E, z1, E2, z2, b)]
\* The polynomial sent: the value at 1 is what the claim T leaves for it.
round_poly(rho, U1, W1, U2, W2, E2) ==
    LET z1 == ZVec(W1.W, U1.u, U1.X)
        z2 == ZVec(W2.W, One, U2.X)
        T  == (One -- rho) ** U1.T
        at0 == prove_helper(rho, W1.E, z1, E2, z2, 0)
    IN  [b \in Points |-> IF b = 1 THEN T -- at0
                          ELSE prove_helper(rho, W1.E, z1, E2, z2, b)]

\* The sum that is left after the round, without the factor eq.
T_after(poly, rho, r_b) == evaluate(poly, r_b) ** FieldInv(eq(rho, r_b))

NoMsg == [to |-> {}]

NifsInit ==
    /\ pU = default_instance /\ pW = default_witness
    /\ vU = pU /\ cU = pU
    /\ msg = NoMsg /\ ro = {}
    /\ status = "running"
    /\ good = TRUE /\ clean = TRUE
    /\ folds = 0

\* NIFS::prove.  The inverse of eq(rho, r_b) is unwrapped: if it is zero
\* the call panics before it returns anything.
ProveFold(U2, W2) ==
    /\ status = "running" /\ msg.to = {} /\ folds < MaxFolds
    /\ \E tau \in Taus, r_E \in Blind, rho \in Rhos, r_b \in Rbs :
          LET E      == split_evals(tau)
              comm_E == Commit(E, r_E)
              poly   == round_poly(rho, pU, pW, U2, W2, E)
              T_out  == T_after(poly, rho, r_b)
          IN  IF eq(rho, r_b) = Zero
              THEN /\ status' = "panicked"
                   /\ UNCHANGED <<pU, pW, msg, ro, good, clean, folds>>
              ELSE /\ pU' = fold_instance(pU, U2, comm_E, r_b, T_out)
                   /\ pW' = fold_witness(pW, W2, E, r_E, r_b)
                   /\ msg' = [to |-> {"native", "circuit"}, U2 |-> U2,
                              comm_E |-> comm_E, poly |-> poly,
                              comm_W_fold |-> pU'.comm_W, comm_E_fold |-> pU'.comm_E]
                   /\ ro' = {<<TauQuery(U2), tau>>, <<RhoQuery(U2, comm_E), rho>>,
                             <<RbQuery(U2, comm_E, poly), r_b>>}
                   /\ good' = (U2.comm_W = Commit(W2.W, W2.r_W)
                                 /\ WeightedSum(E, Residual(ZVec(W2.W, One, U2.X))) = Zero)
                   /\ clean' = (clean /\ is_sat_r1cs(U2, W2))
                   /\ folds' = folds + 1
                   /\ UNCHANGED status
    /\ UNCHANGED <<vU, cU>>

\* How a verifier that holds U1 ends on the message.
verdict(U1, rho, r_b) ==
    IF msg.poly[0] ++ msg.poly[1] # (One -- rho) ** U1.T THEN "rejected"
    ELSE IF eq(rho, r_b) = Zero THEN "verifier panicked" ELSE "running"

\* The challenges a verifier gets: it absorbs what the message says.
VerifierChallenges ==
    Answers(RhoQuery(msg.U2, msg.comm_E), Rhos)
      \X Answers(RbQuery(msg.U2, msg.comm_E, msg.poly), Rbs)

Use(verifier) ==
    IF msg.to = {verifier} THEN msg' = NoMsg /\ ro' = {}
    ELSE msg' = [msg EXCEPT !.to = @ \ {verifier}] /\ UNCHANGED ro

Verify ==
    /\ status = "running" /\ "native" \in msg.to
    /\ \E c \in VerifierChallenges :
          /\ status' = verdict(vU, c[1], c[2])
          /\ vU' = IF status' = "running"
                   THEN fold_instance(vU, msg.U2, msg.comm_E, c[2],
                                      T_after(msg.poly, c[1], c[2]))
                   ELSE vU
    /\ Use("native")
    /\ UNCHANGED <<pU, pW, cU, good, clean, folds>>

\* AllocatedNIFS::verify: "rejected" is a circuit that is not satisfied.
VerifyCircuit ==
    /\ status = "running" /\ "circuit" \in msg.to
    /\ \E c \in VerifierChallenges :
          /\ status' = verdict(cU, c[1], c[2])
          /\ cU' = IF status' = "running"
                   THEN fold_circuit(cU, msg.U2, c[2], T_after(msg.poly, c[1], c[2]),
                                     msg.comm_W_fold, msg.comm_E_fold)
                   ELSE cU
    /\ Use("circuit")
    /\ UNCHANGED <<pU, pW, vU, good, clean, folds>>

NifsNext ==
    \/ \E p \in Incoming : ProveFold(p[1], p[2])
    \/ Verify
    \/ VerifyCircuit

NifsSpec == NifsInit /\ [][NifsNext]_nifs_vars
----------------------------------------------------------------------------
(* Vectors keep the lengths of the structure through any fold.             *)
FoldTypeOK ==
    /\ pU \in FoldedInstance /\ pW \in FoldedWitness
    /\ vU \in FoldedInstance /\ cU \in FoldedInstance
    /\ msg.to \subseteq {"native", "circuit"}
    /\ folds \in 0 .. MaxFolds

(* Completeness (NIFS::prove, Structure::is_sat, the asserts of the nifs   *)
(* tests): as long as every pair folded in was satisfying, the running     *)
(* witness satisfies the running instance, whatever the challenges were,   *)
(* the evaluation points of the round polynomial and 0 included.           *)
ZeroFoldComplete == clean => is_sat(pU, pW)

(* Agreement (NIFS::verify, AllocatedNIFS::verify): a verifier never       *)
(* rejects what NIFS::prove returned, never panics on it, even for a pair  *)
(* that satisfies nothing, and ends with the prover's instance; the        *)
(* circuit's hints are what the native verifier computes.                  *)
ZeroFoldAgree ==
    /\ status \notin {"rejected", "verifier panicked"}
    /\ "native"  \notin msg.to => vU = pU
    /\ "circuit" \notin msg.to => cU = pU

FoldStep == msg.to = {} /\ msg'.to # {}
AnswersOf(name, r) == {a[2] : a \in {x \in r : x[1][1] = name}}
Satisfied == is_sat(pU, pW)

(* Soundness of a fold, the "if and only if" of NIFS::prove's doc comment: *)
(* if the running pair was satisfying or the weighted residuals of the     *)
(* incoming pair are zero and its commitment is right, the result is       *)
(* satisfying exactly when both held.  The value at 1 is not computed but  *)
(* claimed, so the error enters the polynomial only as a multiple of the   *)
(* Lagrange basis at 1: the other evaluation points hide it, and 1 hides   *)
(* the running pair.  Both weights of rho must be there.                   *)
ZeroFoldSound ==
    [][FoldStep /\ AnswersOf("r_b", ro') \cap {from[b] : b \in Points} = {}
                /\ AnswersOf("rho", ro') \cap {Zero, One} = {}
                /\ (Satisfied \/ good')
         => (Satisfied' <=> Satisfied /\ good')]_nifs_vars
=============================================================================
