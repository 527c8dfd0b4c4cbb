----------------------------- MODULE Evaluation -----------------------------
(***************************************************************************)
(* The evaluation engines of src/provider behind EvaluationEngineTrait: a  *)
(* prover sends an argument that the polynomial under a commitment takes   *)
(* a value at a point, a proof may be altered on its way, and the verifier *)
(* checks it.  The squeezes are a random oracle: the verifier's challenge  *)
(* is the prover's when it has absorbed the same, and another otherwise.   *)
(***************************************************************************)
EXTENDS Mercury, InnerProduct

CONSTANTS
    Engines,      \* of "hyperkzg", "mercury" and "ipa"
    Claims,       \* pairs of a polynomial and a point
    Oracles       \* pairs of the prover's challenges and others

VARIABLES
    engine, poly, point,
    dev,          \* what the prover does wrong, "none" for an honest one
    claim,        \* the value the verifier is told
    oracle, phase,
    sent,         \* the prover's argument and log
    proof,        \* what the verifier receives
    altered,      \* whether that or the claim differs from what was sent
    accepted, log

vars == <<engine, poly, point, dev, claim, oracle, phase, sent, proof, altered, accepted, log>>

Deviations == [hyperkzg |-> {"none", "claim", "fold"}, mercury |-> {"none", "claim", "h", "g"},
               ipa |-> {"none", "claim", "vector"}]
C == commit(poly)

Init ==
    /\ engine \in Engines
    /\ \E cl \in Claims : poly = cl[1] /\ point = cl[2]
    /\ dev \in Deviations[engine] /\ (dev = "fold" => Len(point) > 1)
    /\ claim = (evaluate_with(poly, point) + (IF dev = "claim" THEN 1 ELSE 0)) % P
    /\ oracle \in Oracles
    /\ phase = "claimed" /\ altered = FALSE /\ accepted = FALSE
    /\ sent = <<>> /\ proof = <<>> /\ log = <<>>

Prove ==
    /\ phase = "claimed"
    /\ sent' = CASE engine = "hyperkzg" -> hyperkzg_prove(poly, point, oracle[1], dev)
                 [] engine = "mercury"  -> mercury_prove(C, poly, point, claim, oracle[1], dev)
                 [] engine = "ipa"      -> ipa_prove(C, poly, point, claim, oracle[1], dev)
    /\ IF sent'.panics THEN phase' = "panicked" /\ UNCHANGED proof
       ELSE phase' = "sent" /\ proof' = sent'.proof
    /\ UNCHANGED <<engine, poly, point, dev, claim, oracle, altered, accepted, log>>

\* One element of the proof is another, or is missing, or the claim is another.
AlterProof == \E f \in DOMAIN proof :
    /\ phase = "sent" /\ ~ altered
    /\ \/ \E k \in DOMAIN proof[f] : proof' = [proof EXCEPT ![f][k] = (@ + 1) % P]
       \/ f \in {"com", "v", "L_vec", "R_vec"} /\ proof[f] # <<>> /\ proof' = [proof EXCEPT ![f] = Front(@)]
    /\ altered' = TRUE
    /\ UNCHANGED <<engine, poly, point, dev, claim, oracle, phase, sent, accepted, log>>

AlterClaim ==
    /\ phase = "sent" /\ ~ altered
    /\ claim' = (claim + 1) % P
    /\ altered' = TRUE
    /\ UNCHANGED <<engine, poly, point, dev, oracle, phase, sent, proof, accepted, log>>

\* The verifier's log has a squeeze at these positions.
squeezes(l) == SelectSeq([i \in DOMAIN l |-> i], LAMBDA i : l[i][1] = "squeeze")
challenges(l) ==
    Tuple([k \in DOMAIN squeezes(l) |->
        oracle[IF IsPrefix(SubSeq(l, 1, squeezes(l)[k]), sent.log) THEN 1 ELSE 2][k]])

Verify ==
    /\ phase = "sent"
    /\ log' = CASE engine = "hyperkzg" -> hyperkzg_verifier_log(point, proof)
                [] engine = "mercury"  -> mercury_verifier_log(C, point, claim, proof)
                [] engine = "ipa"      -> ipa_verifier_log(C, point, claim, proof)
    /\ \E c \in {challenges(log')} :
          accepted' = CASE engine = "hyperkzg" -> hyperkzg_verify(C, point, claim, proof, c)
                        [] engine = "mercury"  -> mercury_verify(C, point, claim, proof, c)
                        [] engine = "ipa"      -> ipa_verify(C, point, claim, proof, c)
    /\ phase' = "verified"
    /\ UNCHANGED <<engine, poly, point, dev, claim, oracle, sent, proof, altered>>

Next == Prove \/ AlterProof \/ AlterClaim \/ Verify

Spec == Init /\ [][Next]_vars
----------------------------------------------------------------------------
(* The verifier absorbs and squeezes what the prover did and accepts an    *)
(* honest argument for the value of the polynomial; it refuses one with    *)
(* any element altered or missing, a value that is not the polynomial's,   *)
(* and an argument about other intermediate polynomials.  The prover ends  *)
(* in a panic only for a polynomial without variables (HyperKZG), for less *)
(* than two, for the zero polynomial and at a Boolean point (Mercury).     *)
EvaluationExact ==
    /\ phase = "verified" =>
          /\ accepted <=> dev = "none" /\ ~ altered
          /\ altered \/ log = sent.log
    /\ phase = "panicked" =>
          \/ engine = "hyperkzg" /\ Len(point) = 0
          \/ engine = "mercury" /\ (Len(point) < 2 \/ Range(poly) = {0} \/ Range(point) \subseteq {0, 1})
=============================================================================
