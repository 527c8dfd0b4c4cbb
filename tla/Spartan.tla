------------------------------ MODULE Spartan ------------------------------
(***************************************************************************)
(* RelaxedR1CSSNARK of src/spartan/snark.rs: the outer and the inner       *)
(* sum-check, the reduction of the two claims about W and E to one, and    *)
(* the verifier; with the operators of src/spartan/mod.rs on batches.      *)
(*                                                                         *)
(* A commitment is the vector itself and the evaluation argument is ideal: *)
(* it is accepted exactly when the claimed value is the polynomial's.  The *)
(* challenges are any values of a set, and the prover may be one that      *)
(* makes a false claim and goes on honestly.                               *)
(***************************************************************************)
EXTENDS Polynomials

CONSTANTS
    Shapes,       \* regular shapes, their matrices as sequences of <<row, col, value>>
    Assignments,  \* [shape -> pairs of an instance [u, X] and a witness [W, E]]
    Challenges,   \* the challenges, neither 0 nor 1
    Threads       \* rayon's current_num_threads, for the chunks of a batch

VARIABLES
    S, U, W,      \* shape, instance and witness
    dev,          \* the false claim of the prover, "none" for an honest one
    phase,
    ch,           \* the challenges so far
    prover,       \* the prover's tables and its current claim
    proof,
    log           \* what the prover absorbed and squeezed, in order

vars == <<S, U, W, dev, phase, ch, prover, proof, log>>

absorb(label, x) == <<"absorb", label, x>>
squeeze(label)   == <<"squeeze", label>>
----------------------------------------------------------------------------
(* src/spartan/mod.rs                                                      *)

compute_eval_table_sparse(M, rx, num_vars) ==
    Tuple([j \in 1 .. 2 * num_vars |->
        FoldLeft(LAMBDA v, e : IF e[2] = j - 1 THEN (v + rx[e[1] + 1] * e[3]) % P ELSE v, 0, M)])

next_power_of_two(n) == 2 ^ log_2(n)
\* PolyEvalWitness::batch_diff_size works on one chunk for each thread when
\* there are enough entries; a polynomial that ends before a chunk begins
\* cannot be sliced there.
chunk_size(ps) == MaxLen(ps) \div next_power_of_two(Threads)
slices_defined(ps) ==
    chunk_size(ps) > 0 =>
        \A p \in Range(ps), k \in 0 .. next_power_of_two(Threads) - 1 : k * chunk_size(ps) <= Len(p)

\* PolyEvalInstance::batch_diff_size: a small polynomial is padded with zeros.
instance_batch_diff_size(es, num_vars, x, s) ==
    Sum(1, Len(es), LAMBDA i :
        ((es[i] * Prod(1, Len(x) - num_vars[i], LAMBDA k : (1 - x[k]) % P)) % P)
        * powers(s, Len(es))[i])
----------------------------------------------------------------------------
num_rounds_x == log_2(S.num_cons)
num_rounds_y == log_2(S.num_vars) + 1
num_rounds   == <<num_rounds_y - 1, num_rounds_x>>
num_rounds_batch == IF num_rounds_x > num_rounds_y - 1 THEN num_rounds_x ELSE num_rounds_y - 1

z == W.W \o <<U.u>> \o U.X
Az == multiply_vec(S.A, z, S.num_cons)
Bz == multiply_vec(S.B, z, S.num_cons)
Cz == multiply_vec(S.C, z, S.num_cons)
uCz_E == Tuple([i \in 1 .. S.num_cons |-> (U.u * Cz[i] + W.E[i]) % P])

Deviations == {"none", "Az", "Cz and E", "W", "batch"}
off(d, v) == IF dev = d THEN (v + 1) % P ELSE v

Init ==
    /\ S \in Shapes
    /\ \E a \in Assignments[S] : U = a[1] /\ W = a[2]
    /\ dev \in Deviations
    /\ phase = "tau"
    /\ ch = [rx |-> <<>>, ry |-> <<>>, rb |-> <<>>]
    /\ prover = <<>>
    /\ proof = [outer |-> <<>>, inner |-> <<>>, batch |-> <<>>]
    /\ log = <<absorb("vk", S), absorb("U", <<U, W>>)>>

ProverTau == \E tau \in [1 .. num_rounds_x -> Challenges] :
    /\ phase = "tau"
    /\ ch' = [tau |-> tau] @@ ch
    /\ prover' = [e |-> 0, eq |-> EqInstance(tau), polys |-> <<Az, Bz, uCz_E>>]
    /\ log' = log \o [k \in 1 .. num_rounds_x |-> squeeze("t")]
    /\ phase' = "outer"
    /\ UNCHANGED <<S, U, W, dev, proof>>

\* A round: the message is absorbed, a challenge drawn and the tables bound.
bind_all(polys, r) == Tuple([k \in DOMAIN polys |-> bind_poly_var_top(polys[k], r)])
round_log(poly) == log \o <<absorb("p", compress(poly)), squeeze("c")>>

ProverOuter == \E r \in Challenges :
    /\ phase = "outer" /\ Len(ch.rx) < num_rounds_x
    /\ LET poly == cubic_poly(prover.e, evaluation_points_cubic_with_three_inputs(prover.eq, prover.polys))
       IN  /\ proof' = [proof EXCEPT !.outer = Append(@, compress(poly))]
           /\ log' = round_log(poly)
           /\ prover' = [e |-> evaluate(poly, r), eq |-> eq_bound(prover.eq, r),
                         polys |-> bind_all(prover.polys, r)]
    /\ ch' = [ch EXCEPT !.rx = Append(@, r)]
    /\ UNCHANGED <<S, U, W, dev, phase>>

ProverClaims == \E r \in Challenges :
    /\ phase = "outer" /\ Len(ch.rx) = num_rounds_x
    /\ LET false    == dev = "Cz and E"
           claim_Az == off("Az", prover.polys[1][1])
           claim_Bz == prover.polys[2][1]
           claim_Cz == off("Cz and E", evaluate_with(Cz, ch.rx))
           eval_E   == (evaluate_with(W.E, ch.rx) - (IF false THEN U.u ELSE 0)) % P
           evals_rx == evals_from_points(ch.rx)
           table(M) == compute_eval_table_sparse(M, evals_rx, S.num_vars)
           joint(a, b, c) == (a + r * b + ((r * r) % P) * c) % P
       IN  /\ proof' = [claims_outer |-> <<claim_Az, claim_Bz, claim_Cz>>, eval_E |-> eval_E] @@ proof
           /\ log' = log \o <<absorb("claims_outer", <<claim_Az, claim_Bz, claim_Cz, eval_E>>),
                              squeeze("r")>>
           /\ prover' = [e |-> joint(claim_Az, claim_Bz, claim_Cz),
                         polys |-> <<Tuple([j \in 1 .. 2 * S.num_vars |->
                                        joint(table(S.A)[j], table(S.B)[j], table(S.C)[j])]),
                                     padded(z, 2 * S.num_vars, 0)>>]
    /\ ch' = [r |-> r] @@ ch
    /\ phase' = "inner"
    /\ UNCHANGED <<S, U, W, dev>>

ProverInner == \E r \in Challenges :
    /\ phase = "inner" /\ Len(ch.ry) < num_rounds_y
    /\ LET poly == quad_poly(prover.e, compute_eval_points_quad_prod(prover.polys))
       IN  /\ proof' = [proof EXCEPT !.inner = Append(@, compress(poly))]
           /\ log' = round_log(poly)
           /\ prover' = [e |-> evaluate(poly, r), polys |-> bind_all(prover.polys, r)]
    /\ ch' = [ch EXCEPT !.ry = Append(@, r)]
    /\ UNCHANGED <<S, U, W, dev, phase>>

\* batch_eval_reduce.
ProverBatch == \E rho \in Challenges :
    /\ phase = "inner" /\ Len(ch.ry) = num_rounds_y
    /\ LET eval_W == off("W", evaluate_with(W.W, Tail(ch.ry)))
           claims == <<eval_W, proof.eval_E>>
       IN  /\ proof' = [eval_W |-> eval_W] @@ proof
           /\ prover' = [e |-> scaled_claim(claims, num_rounds, powers(rho, 2)), claims |-> claims,
                         As |-> <<W.W, W.E>>,
                         Bs |-> <<evals_from_points(Tail(ch.ry)), evals_from_points(ch.rx)>>]
    /\ log' = log \o <<squeeze("r")>>
    /\ ch' = [rho |-> rho] @@ ch
    /\ phase' = "batch"
    /\ UNCHANGED <<S, U, W, dev>>

ProverBatchRound == \E r \in Challenges :
    /\ phase = "batch" /\ Len(ch.rb) < num_rounds_batch
    /\ LET remaining == num_rounds_batch - Len(ch.rb)
           poly == quad_poly(prover.e, batch_evals(prover.claims, num_rounds, powers(ch.rho, 2),
                                                   prover.As, prover.Bs, remaining))
       IN  /\ proof' = [proof EXCEPT !.batch = Append(@, compress(poly))]
           /\ log' = round_log(poly)
           /\ prover' = [prover EXCEPT !.e = evaluate(poly, r),
                                       !.As = batch_bind(@, num_rounds, remaining, r),
                                       !.Bs = batch_bind(@, num_rounds, remaining, r)]
    /\ ch' = [ch EXCEPT !.rb = Append(@, r)]
    /\ UNCHANGED <<S, U, W, dev, phase>>

\* The assertion at the end of prove_quad_batch_prod, which a prover with a
\* false claim leaves out.
batch_exact ==
    dev # "none" \/ prover.e = Sum(1, 2, LAMBDA k : ((prover.As[k][1] * prover.Bs[k][1]) % P) * powers(ch.rho, 2)[k])

ProverDone == \E gamma \in Challenges :
    /\ phase = "batch" /\ Len(ch.rb) = num_rounds_batch
    /\ LET left == <<off("batch", prover.As[1][1]), prover.As[2][1]>>
       IN  IF ~ batch_exact
           THEN phase' = "assertion failed" /\ UNCHANGED <<proof, log>>
           ELSE IF ~ slices_defined(<<W.W, W.E>>)
           THEN phase' = "cannot slice" /\ UNCHANGED <<proof, log>>
           ELSE /\ proof' = [evals_batch |-> left] @@ proof
                /\ log' = log \o <<absorb("l", left), squeeze("g"), absorb("eval_arg",
                              witness_batch(<<W.W, W.E>>, gamma))>>
                /\ phase' = "done"
    /\ ch' = [gamma |-> gamma] @@ ch
    /\ UNCHANGED <<S, U, W, dev, prover>>

Next == \/ ProverTau \/ ProverOuter \/ ProverClaims \/ ProverInner
        \/ ProverBatch \/ ProverBatchRound \/ ProverDone

Spec == Init /\ [][Next]_vars
----------------------------------------------------------------------------
(* The verifier: it has S, U with its commitments, and the proof.          *)

rounds_log(polys) == FlattenSeq([k \in DOMAIN polys |-> <<absorb("p", polys[k]), squeeze("c")>>])

verifier_log ==
    <<absorb("vk", S), absorb("U", <<U, W>>)>>
    \o [k \in 1 .. num_rounds_x |-> squeeze("t")] \o rounds_log(proof.outer)
    \o <<absorb("claims_outer", proof.claims_outer \o <<proof.eval_E>>), squeeze("r")>>
    \o rounds_log(proof.inner) \o <<squeeze("r")>> \o rounds_log(proof.batch)
    \o <<absorb("l", proof.evals_batch), squeeze("g")>>

outer_accepts ==
    LET final == sumcheck_verify(proof.outer, 0, num_rounds_x, 3, ch.rx)
        c     == proof.claims_outer
    IN  final.ok /\ final.e = (eq_evaluate(ch.tau, ch.rx)
                               * ((c[1] * c[2] - U.u * c[3] - proof.eval_E) % P)) % P

public_io == <<U.u>> \o U.X

\* Mutant: the public values are taken at the whole point.
inner_accepts_mut ==
    LET c     == proof.claims_outer
        claim == (c[1] + ch.r * c[2] + ((ch.r * ch.r) % P) * c[3]) % P
        final == sumcheck_verify(proof.inner, claim, num_rounds_y, 2, ch.ry)
        eval_X == sparse_evaluate(num_rounds_y, public_io, ch.ry)
        eval_Z == ((1 - ch.ry[1]) * proof.eval_W + ch.ry[1] * eval_X) % P
        T_x == evals_from_points(ch.rx)
        T_y == evals_from_points(ch.ry)
        at(M) == FoldLeft(LAMBDA v, e : (v + ((T_x[e[1] + 1] * T_y[e[2] + 1]) % P) * e[3]) % P, 0, M)
    IN  final.ok /\ final.e = (((at(S.A) + ch.r * at(S.B) + ((ch.r * ch.r) % P) * at(S.C)) % P)
                               * eval_Z) % P
inner_accepts ==
    LET c     == proof.claims_outer
        claim == (c[1] + ch.r * c[2] + ((ch.r * ch.r) % P) * c[3]) % P
        final == sumcheck_verify(proof.inner, claim, num_rounds_y, 2, ch.ry)
        eval_X == sparse_evaluate(num_rounds_y - 1, public_io, Tail(ch.ry))
        eval_Z == ((1 - ch.ry[1]) * proof.eval_W + ch.ry[1] * eval_X) % P
        T_x == evals_from_points(ch.rx)
        T_y == evals_from_points(ch.ry)
        at(M) == FoldLeft(LAMBDA v, e : (v + ((T_x[e[1] + 1] * T_y[e[2] + 1]) % P) * e[3]) % P, 0, M)
    IN  final.ok /\ final.e = (((at(S.A) + ch.r * at(S.B) + ((ch.r * ch.r) % P) * at(S.C)) % P)
                               * eval_Z) % P

\* batch_eval_verify.
batch_accepts ==
    LET rhos   == powers(ch.rho, 2)
        claims == <<proof.eval_W, proof.eval_E>>
        xs     == <<Tail(ch.ry), ch.rx>>
        final  == sumcheck_verify(proof.batch, scaled_claim(claims, num_rounds, rhos),
                                  num_rounds_batch, 2, ch.rb)
        r_hi(k) == SubSeq(ch.rb, num_rounds_batch - num_rounds[k] + 1, num_rounds_batch)
    IN  final.ok /\ final.e = Sum(1, 2, LAMBDA k :
            ((eq_evaluate(r_hi(k), xs[k]) * proof.evals_batch[k]) % P) * rhos[k])

\* EE::verify on the joint commitment, which is that of the joint polynomial.
argument_accepts ==
    evaluate_with(witness_batch(<<W.W, W.E>>, ch.gamma), ch.rb)
    = instance_batch_diff_size(proof.evals_batch, num_rounds, ch.rb, ch.gamma)

accepts == outer_accepts /\ inner_accepts /\ batch_accepts /\ argument_accepts
----------------------------------------------------------------------------
\* What the instance claims, weighed with the challenges tau of the outer sum.
outer_sum == Sum(1, S.num_cons, LAMBDA i :
    evals_from_points(ch.tau)[i] * ((Az[i] * Bz[i] - uCz_E[i]) % P))

(* The verifier absorbs and squeezes what the prover did, in that order;   *)
(* and for challenges other than 0 and 1 it accepts exactly an honest      *)
(* proof of constraints whose weighed errors cancel: a false claim about   *)
(* Az, about Cz and E together, about W or about the batch is noticed by   *)
(* one of the checks.  The prover panics only where the sizes of W and E   *)
(* differ.                                                                 *)
SpartanExact ==
    /\ phase = "done" =>
          /\ verifier_log = SubSeq(log, 1, Len(log) - 1)
          /\ accepts <=> dev = "none" /\ outer_sum = 0
    /\ phase \in {"assertion failed", "cannot slice"} => S.num_vars # S.num_cons

(* "We allow the polynomial to have different sizes, by appropriately      *)
(* scaling the claims and resulting evaluations from Sumcheck": an honest  *)
(* prover with a satisfied instance makes a proof.                         *)
SizesMayDiffer ==
    dev = "none" /\ (\A i \in 1 .. S.num_cons : (Az[i] * Bz[i] - uCz_E[i]) % P = 0)
        => phase \notin {"assertion failed", "cannot slice"}
=============================================================================
