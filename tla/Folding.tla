------------------------------ MODULE Folding ------------------------------
(***************************************************************************)
(* Nova's non-interactive folding scheme: NIFS and NIFSRelaxed             *)
(* (src/nova/nifs.rs) over the relaxed R1CS of src/r1cs/mod.rs.            *)
(*                                                                         *)
(* A prover keeps a running instance and its witness, a verifier (the      *)
(* augmented circuit, or CompressedSNARK::verify) keeps only the running   *)
(* instance.  Both fold every incoming pair in, the verifier from the      *)
(* message comm_T alone, and both take the challenge from a random oracle. *)
(* The prover never checks what it folds, so an incoming pair need not be  *)
(* satisfying.  The end of a run is the derandomization of                 *)
(* CompressedSNARK::prove.                                                 *)
(*                                                                         *)
(* A commitment is ideal: it is the vector and the blind it commits to,    *)
(* which keeps the two facts the code relies on, that it is binding and    *)
(* that it is homomorphic.  A matrix is the linear map multiply_vec        *)
(* computes with it.                                                       *)
(***************************************************************************)
EXTENDS ScalarField

CONSTANTS
    Vars, IO, Cons,         \* indices of witness, public values, constraints
    UCol,                   \* the column between them, where z holds u
    RowA(_, _), RowB(_, _), RowC(_, _),   \* row k of A, B, C times z
    Incoming,               \* the pairs <<U2, W2>> a caller may fold in
    Sampled,                \* the <<W, u, X>> a random pair may be made of
    Blind,                  \* the blinds that are sampled (Scalar::random)
    Challenge               \* what the oracle may answer

VARIABLES
    pU, pW,     \* the prover's running instance and witness
    vU,         \* the verifier's running instance
    msg,        \* what the prover sent and the verifier has not used yet
    ro,         \* the oracle: the query the message answers, while it is needed
    stage,      \* "folding", then "derandomized"
    good,       \* history: the last pair folded in satisfied its check
    clean       \* history: every pair folded in so far did

vars == <<pU, pW, vU, msg, ro, stage, good, clean>>
----------------------------------------------------------------------------
(* Data of r1cs/mod.rs.                                                    *)

Vec(S)  == [S -> Scalar]
Zeros(S) == [i \in S |-> Zero]

Commitment(S) == [v : Vec(S), r : Scalar]
Commit(v, r)  == [v |-> v, r |-> r]
CommAxpy(c1, r, c2) == [v |-> Axpy(c1.v, r, c2.v), r |-> c1.r ++ (r ** c2.r)]

R1CSInstance == [comm_W : Commitment(Vars), X : Vec(IO)]
R1CSWitness  == [W : Vec(Vars), r_W : Scalar]
RelaxedR1CSInstance ==
    [comm_W : Commitment(Vars), comm_E : Commitment(Cons), u : Scalar, X : Vec(IO)]
RelaxedR1CSWitness ==
    [W : Vec(Vars), r_W : Scalar, E : Vec(Cons), r_E : Scalar]

Cols == Vars \cup {UCol} \cup IO
ZVec(W, u, X) ==
    [c \in Cols |-> IF c \in Vars THEN W[c] ELSE IF c = UCol THEN u ELSE X[c]]

\* multiply_vec is linear in z: all that folding asks of the matrices.
ASSUME LinearAssumption ==
    /\ Vars \cap IO = {} /\ UCol \notin Vars \cup IO
    /\ \A k \in Cons, z \in Vec(Cols) :
          RowA(k, z) \in Scalar /\ RowB(k, z) \in Scalar /\ RowC(k, z) \in Scalar
    /\ \A k \in Cons, r \in Scalar : \A x, y \in Vec(Cols) :
          /\ RowA(k, Axpy(x, r, y)) = RowA(k, x) ++ (r ** RowA(k, y))
          /\ RowB(k, Axpy(x, r, y)) = RowB(k, x) ++ (r ** RowB(k, y))
          /\ RowC(k, Axpy(x, r, y)) = RowC(k, x) ++ (r ** RowC(k, y))

ASSUME SamplingAssumption ==
    /\ Incoming \subseteq R1CSInstance \X R1CSWitness
    /\ Sampled \subseteq Vec(Vars) \X Scalar \X Vec(IO) /\ Blind \subseteq Scalar
    /\ Challenge \subseteq Scalar /\ Challenge # {}

\* Az o Bz - u * Cz, row by row.
Excess(u, z) ==
    [k \in Cons |-> (RowA(k, z) ** RowB(k, z)) -- (u ** RowC(k, z))]

is_sat_relaxed(U, W) ==
    LET z == ZVec(W.W, U.u, U.X)
    IN  /\ \A k \in Cons :
              RowA(k, z) ** RowB(k, z) = (U.u ** RowC(k, z)) ++ W.E[k]
        /\ U.comm_W = Commit(W.W, W.r_W)
        /\ U.comm_E = Commit(W.E, W.r_E)

is_sat(U, W) ==
    LET z == ZVec(W.W, One, U.X)
    IN  /\ \A k \in Cons : RowA(k, z) ** RowB(k, z) = RowC(k, z)
        /\ U.comm_W = Commit(W.W, W.r_W)

default_instance ==
    [comm_W |-> Commit(Zeros(Vars), Zero), comm_E |-> Commit(Zeros(Cons), Zero),
     u |-> Zero, X |-> Zeros(IO)]
default_witness ==
    [W |-> Zeros(Vars), r_W |-> Zero, E |-> Zeros(Cons), r_E |-> Zero]

from_r1cs_instance(U) ==
    [comm_W |-> U.comm_W, comm_E |-> default_instance.comm_E, u |-> One, X |-> U.X]
\* Mutant: the error vector sized by the witness.
from_r1cs_witness_mut(W) ==
    [W |-> W.W, r_W |-> W.r_W, E |-> Zeros(Vars), r_E |-> Zero]
from_r1cs_witness(W) ==
    [W |-> W.W, r_W |-> W.r_W, E |-> Zeros(Cons), r_E |-> Zero]

\* Mutant: the u of the non-relaxed instance, which is One, is not added.
commit_T_mut(U1, W1, U2, W2) ==
    LET p == Excess(U1.u, Axpy(ZVec(W1.W, U1.u, U1.X), One, ZVec(W2.W, One, U2.X)))
    IN  [k \in Cons |-> p[k] -- W1.E[k]]
\* The cross term in the one-product form of Mova (section 5.2).
commit_T(U1, W1, U2, W2) ==
    LET z == Axpy(ZVec(W1.W, U1.u, U1.X), One, ZVec(W2.W, One, U2.X))
        p == Excess(U1.u ++ One, z)
    IN  [k \in Cons |-> p[k] -- W1.E[k]]
commit_T_relaxed(U1, W1, U2, W2) ==
    LET z == Axpy(ZVec(W1.W, U1.u, U1.X), One, ZVec(W2.W, U2.u, U2.X))
        p == Excess(U1.u ++ U2.u, z)
    IN  [k \in Cons |-> (p[k] -- W1.E[k]) -- W2.E[k]]

\* Mutant: the cross term is not folded into the error vector.
fold_witness_mut(W1, W2, T, r_T, r) ==
    [W |-> Axpy(W1.W, r, W2.W), r_W |-> W1.r_W ++ (r ** W2.r_W),
     E |-> W1.E,                r_E |-> W1.r_E ++ (r ** r_T)]
fold_witness(W1, W2, T, r_T, r) ==
    [W |-> Axpy(W1.W, r, W2.W), r_W |-> W1.r_W ++ (r ** W2.r_W),
     E |-> Axpy(W1.E, r, T),    r_E |-> W1.r_E ++ (r ** r_T)]
fold_witness_relaxed(W1, W2, T, r_T, r) ==
    [W |-> Axpy(W1.W, r, W2.W), r_W |-> W1.r_W ++ (r ** W2.r_W),
     E |-> Axpy(Axpy(W1.E, r, T), r ** r, W2.E),
     r_E |-> (W1.r_E ++ (r ** r_T)) ++ ((r ** r) ** W2.r_E)]

fold_instance(U1, U2, comm_T, r) ==
    [comm_W |-> CommAxpy(U1.comm_W, r, U2.comm_W),
     comm_E |-> CommAxpy(U1.comm_E, r, comm_T),
     u |-> U1.u ++ r,           X |-> Axpy(U1.X, r, U2.X)]
fold_instance_relaxed(U1, U2, comm_T, r) ==
    [comm_W |-> CommAxpy(U1.comm_W, r, U2.comm_W),
     comm_E |-> CommAxpy(CommAxpy(U1.comm_E, r, comm_T), r ** r, U2.comm_E),
     u |-> U1.u ++ (r ** U2.u), X |-> Axpy(U1.X, r, U2.X)]

\* A random satisfying pair: the error vector is solved from the rest.
sample_random_instance_witness(W, u, X, r_W, r_E) ==
    LET E == Excess(u, ZVec(W, u, X))
    IN  <<[comm_W |-> Commit(W, r_W), comm_E |-> Commit(E, r_E), u |-> u, X |-> X],
          [W |-> W, r_W |-> r_W, E |-> E, r_E |-> r_E]>>

\* The verifier strips the blinds it was told from the commitments.
derandomize(c, r) == [v |-> c.v, r |-> c.r -- r]
\* Mutant: the two blinds swapped.
derandomize_instance_mut(U, r_W, r_E) ==
    [comm_W |-> derandomize(U.comm_W, r_E), comm_E |-> derandomize(U.comm_E, r_W),
     u |-> U.u, X |-> U.X]
derandomize_instance(U, r_W, r_E) ==
    [comm_W |-> derandomize(U.comm_W, r_W), comm_E |-> derandomize(U.comm_E, r_E),
     u |-> U.u, X |-> U.X]
\* Mutant: the blind of the error vector is kept.
derandomize_witness_mut(W) == [W |-> W.W, r_W |-> Zero, E |-> W.E, r_E |-> W.r_E]
derandomize_witness(W) == [W |-> W.W, r_W |-> Zero, E |-> W.E, r_E |-> Zero]
----------------------------------------------------------------------------
(* The protocol of nova/nifs.rs.                                           *)

NoMsg   == [kind |-> "none"]
NoQuery == [query |-> <<"none">>, answer |-> Zero]

\* What NIFS absorbs before it squeezes: U1 is not absorbed.
Query(U2, comm_T) == <<"NIFS", U2, comm_T>>
\* What NIFSRelaxed absorbs: both instances.
QueryRelaxed(U1, U2, comm_T) == <<"NIFSRelaxed", U1, U2, comm_T>>

\* A query asked again gets the answer it got; a new one gets any answer.
Answers(q) == IF ro.query = q THEN {ro.answer} ELSE Challenge

Init ==
    /\ \/ /\ pU = default_instance /\ pW = default_witness /\ good = TRUE
       \/ \E p \in Incoming :
             /\ pU = from_r1cs_instance(p[1]) /\ pW = from_r1cs_witness(p[2])
             /\ good = is_sat(p[1], p[2])
    /\ clean = good
    /\ vU = pU
    /\ msg = NoMsg
    /\ ro = NoQuery
    /\ stage = "folding"

ProveFold(U2, W2) ==
    /\ stage = "folding" /\ msg.kind = "none"
    /\ \E r_T \in Blind :
          LET T      == commit_T(pU, pW, U2, W2)
              comm_T == Commit(T, r_T)
              q      == Query(U2, comm_T)
          IN  \E r \in Answers(q) :
                 /\ pU' = fold_instance(pU, U2, comm_T, r)
                 /\ pW' = fold_witness(pW, W2, T, r_T, r)
                 /\ msg' = [kind |-> "fold", U2 |-> U2, comm_T |-> comm_T]
                 /\ ro' = [query |-> q, answer |-> r]
    /\ good' = is_sat(U2, W2)
    /\ clean' = (clean /\ good')
    /\ UNCHANGED <<vU, stage>>

VerifyFold ==
    /\ msg.kind = "fold"
    /\ LET q == Query(msg.U2, msg.comm_T)
       IN  \E r \in Answers(q) : vU' = fold_instance(vU, msg.U2, msg.comm_T, r)
    /\ msg' = NoMsg /\ ro' = NoQuery
    /\ UNCHANGED <<pU, pW, stage, good, clean>>

ProveFoldRandom(W, u, X, r_W, r_E) ==
    /\ stage = "folding" /\ msg.kind = "none"
    /\ \E r_T \in Blind :
          LET p      == sample_random_instance_witness(W, u, X, r_W, r_E)
              T      == commit_T_relaxed(pU, pW, p[1], p[2])
              comm_T == Commit(T, r_T)
              q      == QueryRelaxed(pU, p[1], comm_T)
          IN  \E r \in Answers(q) :
                 /\ pU' = fold_instance_relaxed(pU, p[1], comm_T, r)
                 /\ pW' = fold_witness_relaxed(pW, p[2], T, r_T, r)
                 /\ msg' = [kind |-> "relaxed", U2 |-> p[1], comm_T |-> comm_T]
                 /\ ro' = [query |-> q, answer |-> r]
                 /\ good' = is_sat_relaxed(p[1], p[2])
    /\ clean' = (clean /\ good')
    /\ UNCHANGED <<vU, stage>>

\* Mutant: the verifier absorbs the two instances in the other order.
VerifyFoldRandom_mut ==
    /\ msg.kind = "relaxed"
    /\ LET q == QueryRelaxed(msg.U2, vU, msg.comm_T)
       IN  \E r \in Answers(q) :
              vU' = fold_instance_relaxed(vU, msg.U2, msg.comm_T, r)
    /\ msg' = NoMsg /\ ro' = NoQuery
    /\ UNCHANGED <<pU, pW, stage, good, clean>>

VerifyFoldRandom ==
    /\ msg.kind = "relaxed"
    /\ LET q == QueryRelaxed(vU, msg.U2, msg.comm_T)
       IN  \E r \in Answers(q) :
              vU' = fold_instance_relaxed(vU, msg.U2, msg.comm_T, r)
    /\ msg' = NoMsg /\ ro' = NoQuery
    /\ UNCHANGED <<pU, pW, stage, good, clean>>

ProveDerandomize ==
    /\ stage = "folding" /\ msg.kind = "none"
    /\ pU' = derandomize_instance(pU, pW.r_W, pW.r_E)
    /\ pW' = derandomize_witness(pW)
    /\ msg' = [kind |-> "blinds", r_W |-> pW.r_W, r_E |-> pW.r_E]
    /\ stage' = "derandomized"
    /\ UNCHANGED <<vU, ro, good, clean>>

VerifyDerandomize ==
    /\ msg.kind = "blinds"
    /\ vU' = derandomize_instance(vU, msg.r_W, msg.r_E)
    /\ msg' = NoMsg
    /\ UNCHANGED <<pU, pW, ro, stage, good, clean>>

Next ==
    \/ \E p \in Incoming : ProveFold(p[1], p[2])
    \/ VerifyFold
    \/ \E z \in Sampled, r_W, r_E \in Blind :
          ProveFoldRandom(z[1], z[2], z[3], r_W, r_E)
    \/ VerifyFoldRandom
    \/ ProveDerandomize
    \/ VerifyDerandomize

Spec == Init /\ [][Next]_vars
----------------------------------------------------------------------------
(* Every variable keeps its shape: vector lengths never change.            *)
TypeOK ==
    /\ pU \in RelaxedR1CSInstance /\ vU \in RelaxedR1CSInstance
    /\ pW \in RelaxedR1CSWitness
    /\ msg \in {NoMsg}
         \cup [kind : {"fold"}, U2 : R1CSInstance, comm_T : Commitment(Cons)]
         \cup [kind : {"relaxed"}, U2 : RelaxedR1CSInstance, comm_T : Commitment(Cons)]
         \cup [kind : {"blinds"}, r_W : Scalar, r_E : Scalar]
    /\ ro.answer \in Scalar
    /\ stage \in {"folding", "derandomized"} /\ good \in BOOLEAN /\ clean \in BOOLEAN

(* Completeness (NIFS::prove, is_sat_relaxed): as long as every pair that  *)
(* was folded in satisfied its check, the running witness satisfies the    *)
(* running instance, through plain folds, random folds and the             *)
(* derandomization, whatever the challenges were.                          *)
Completeness == clean => is_sat_relaxed(pU, pW)

(* Agreement (NIFS::verify, the assert_eq of the nifs tests): a message on *)
(* its way is exactly what turns the verifier's instance into the          *)
(* prover's, so a verifier that has used every message holds the prover's  *)
(* instance, for incoming pairs that satisfy nothing as well.              *)
Agreement ==
    /\ msg.kind = "none" => vU = pU
    /\ msg.kind = "fold" =>
          /\ ro.query = Query(msg.U2, msg.comm_T)
          /\ pU = fold_instance(vU, msg.U2, msg.comm_T, ro.answer)
    /\ msg.kind = "relaxed" =>
          /\ ro.query = QueryRelaxed(vU, msg.U2, msg.comm_T)
          /\ pU = fold_instance_relaxed(vU, msg.U2, msg.comm_T, ro.answer)
    /\ msg.kind = "blinds" =>
          pU = derandomize_instance(vU, msg.r_W, msg.r_E)

(* The end of a clean run (derandomize, CompressedSNARK::verify): the      *)
(* commitments the verifier is left with are the unblinded ones of the     *)
(* prover's witness, which the final SNARK opens.                          *)
OpensUnblinded ==
    clean /\ stage = "derandomized" /\ msg.kind = "none"
        => /\ vU.comm_W = Commit(pW.W, Zero)
           /\ vU.comm_E = Commit(pW.E, Zero)

Satisfied == is_sat_relaxed(pU, pW)

FoldStep == msg.kind = "none" /\ msg'.kind \in {"fold", "relaxed"}

(* Soundness of a fold, the "if and only if" of NIFS::prove's doc comment: *)
(* the folded pair satisfies the folded instance exactly when both pairs   *)
(* did, if one of the two did.  The challenge Zero drops the second pair   *)
(* and the challenge One hides the first one's error, since the            *)
(* one-product cross term carries the errors of both pairs; two bad pairs  *)
(* may cancel for one challenge.                                           *)
FoldSound ==
    [][FoldStep /\ ro'.answer \notin {Zero, One} /\ (Satisfied \/ good')
         => (Satisfied' <=> Satisfied /\ good')]_vars

(* Stripping the blinds (derandomize) never turns a bad pair into a good   *)
(* one or a good one into a bad one.                                       *)
DerandomizeExact ==
    [][stage # stage' => (Satisfied' <=> Satisfied)]_vars
============================================================================
