------------------------------ MODULE PPSnark ------------------------------
(***************************************************************************)
(* RelaxedR1CSSNARK of src/spartan/ppsnark.rs: the matrices are committed  *)
(* as lists of rows, columns and values; a look-up argument proves what    *)
(* the lists read from eq(tau) and from z, in one sum-check together with  *)
(* the constraints, the inner product and the bound on the witness.        *)
(*                                                                         *)
(* Commitments and evaluation argument are ideal, as in Spartan.  The      *)
(* prover may be one with a false look-up, a false claim, or a W that goes *)
(* on where the public values are.                                         *)
(***************************************************************************)
EXTENDS Polynomials

CONSTANTS
    Shapes,       \* as in Spartan
    Assignments,  \* [shape -> triples of [u, X], [W, E] and the X the prover computes with]
    Taus, Rhos,   \* the points tau and rho, by their first half: see Point
    Gammas, Rs,   \* the challenges of the look-up argument
    Challenges    \* and all others; none is 0 or 1

VARIABLES
    S, U, W, X,   \* shape, instance, witness and the X the prover computes with
    repr,         \* S_repr of the keys
    vec,          \* the vectors of the prover, filled up to N
    dev, phase, ch, prover, proof, log

given == <<S, U, W, X, repr, vec, dev>>
vars  == <<given, phase, ch, prover, proof, log>>

absorb(label, x) == <<"absorb", label, x>>
squeezes(label, n) == [k \in 1 .. n |-> <<"squeeze", label>>]
----------------------------------------------------------------------------
(* R1CSShapeSparkRepr                                                      *)

entries(M) == M.A \o M.B \o M.C
MaxOf(a, b) == IF a > b THEN a ELSE b

val(N, lo, M) == Tuple([k \in 1 .. N |-> IF k - lo \in DOMAIN M THEN M[k - lo][3] ELSE 0])
timestamp_calc(N, trace) ==
    Tuple([a \in 1 .. N |-> Len(SelectSeq(trace, LAMBDA x : x = a - 1))])

\* The padding of the rows reads the first entry of eq(tau), that of the columns
\* the last of z.
SparkRepr(M) ==
    LET es  == entries(M)
        N   == 2 ^ log_2(MaxOf(Len(es), MaxOf(2 * M.num_vars, M.num_cons)))
        row == padded([k \in DOMAIN es |-> es[k][1]], N, 0)
        col == padded([k \in DOMAIN es |-> es[k][2]], N, N - 1)
    IN  [N |-> N, row |-> row, col |-> col, val_A |-> val(N, 0, M.A), val_B |-> val(N, Len(M.A), M.B),
         val_C |-> val(N, Len(M.A) + Len(M.B), M.C),
         ts_row |-> timestamp_calc(N, row), ts_col |-> timestamp_calc(N, col)]

num_rounds_sc == log_2(repr.N)

\* What the lists read from the memories: the values of eq(tau) and of z.
evaluation_oracles(tau, z) ==
    LET mem_row == evals_from_points(tau)
        mem_col == padded(z, repr.N, 0)
        es      == entries(S)
    IN  [mem_row |-> mem_row, mem_col |-> mem_col,
         L_row |-> Tuple([k \in 1 .. repr.N |->
            IF k \in DOMAIN es THEN mem_row[es[k][1] + 1] ELSE mem_row[1]]),
         L_col |-> Tuple([k \in 1 .. repr.N |->
            IF k \in DOMAIN es THEN mem_col[es[k][2] + 1] ELSE mem_col[repr.N]])]
----------------------------------------------------------------------------
(* MemorySumcheckInstance                                                  *)

\* batch_invert: one inversion for all, and none if an element is zero.
batch_invert(v) ==
    LET products == FoldLeft(LAMBDA ps, x : Append(ps, (Last(ps) * x) % P), <<1>>, v)
        back == FoldRight(LAMBDA x, s : [acc |-> (s.acc * x) % P,
                                         out |-> <<(products[Len(v) - Len(s.out)] * s.acc) % P>> \o s.out],
                          v, [acc |-> inv[Last(products)], out |-> <<>>])
    IN  [ok |-> Last(products) # 0, out |-> back.out]

hash_func(addr, v, gamma) == (v * gamma + addr) % P

helper(mem, addr, L, ts, gamma, r) ==
    LET t == Tuple([k \in DOMAIN mem |-> (hash_func(k - 1, mem[k], gamma) + r) % P])
        w == Tuple([k \in DOMAIN addr |-> (hash_func(addr[k], L[k], gamma) + r) % P])
        i == batch_invert(t \o w)
    IN  [ok |-> i.ok, t_plus_r |-> t, w_plus_r |-> w,
         t_plus_r_inv |-> Tuple([k \in DOMAIN t |-> (i.out[k] * ts[k]) % P]),
         w_plus_r_inv |-> SubSeq(i.out, Len(t) + 1, Len(t) + Len(w))]
----------------------------------------------------------------------------
(* The prover                                                              *)

Deviations == {"none", "L_row", "L_col", "Az", "E", "W"}
bump(d, v) == IF dev = d THEN [v EXCEPT ![1] = (@ + 1) % P] ELSE v

z == W.W \o <<U.u>> \o X

\* A prover that computes with other public values puts the difference into W.
vectors(M, u, w, x, N) ==
    LET zz    == w.W \o <<u.u>> \o x
        at(A) == padded(multiply_vec(A, zz, M.num_cons), N, 0)
    IN  [Az |-> at(M.A), Bz |-> at(M.B), Cz |-> at(M.C), E |-> padded(w.E, N, 0),
         W |-> Tuple([k \in 1 .. N |->
                  CASE k <= M.num_vars -> w.W[k]
                    [] k - M.num_vars - 1 \in DOMAIN x ->
                         (x[k - M.num_vars - 1] - u.X[k - M.num_vars - 1]) % P
                    [] OTHER -> 0])]

batch_evals_at(es, c) == Dot(powers(c, Len(es)), es)

\* A point of four coordinates from two of them.
Point(p) == Tuple([k \in 1 .. num_rounds_sc |-> IF k <= 2 THEN p[k] ELSE (p[k - 2] + k) % P])

Init ==
    /\ S \in Shapes
    /\ \E a \in Assignments[S] :
          /\ U = a[1] /\ W = a[2] /\ X = a[3]
          /\ dev \in IF a[3] = a[1].X THEN Deviations \ {"W"} ELSE {"W"}
    /\ repr = SparkRepr(S)
    /\ vec = vectors(S, U, W, X, repr.N)
    /\ phase = "tau"
    /\ ch = [rand |-> <<>>]
    /\ prover = <<>>
    /\ proof = [sc |-> <<>>]
    /\ log = <<>>

ProverTau == \E t \in Taus :
    /\ phase = "tau"
    /\ ch' = [tau |-> Point(t)] @@ ch
    /\ log' = <<absorb("vk", S), absorb("U", U), absorb("c", <<vec.Az, vec.Bz, vec.Cz>>)>>
              \o squeezes("t", num_rounds_sc)
    /\ phase' = "oracles"
    /\ UNCHANGED <<given, prover, proof>>

ProverOracles == \E c \in Challenges, gamma \in Gammas, r \in Rs :
    /\ phase = "oracles"
    /\ LET o      == evaluation_oracles(ch.tau, z)
           L_row  == bump("L_row", o.L_row)
           L_col  == bump("L_col", o.L_col)
           at_tau == bump("Az", Tuple([k \in 1 .. 3 |-> evaluate_with(<<vec.Az, vec.Bz, vec.Cz>>[k], ch.tau)]))
           rows   == helper(o.mem_row, repr.row, L_row, repr.ts_row, gamma, r)
           cols   == helper(o.mem_col, repr.col, L_col, repr.ts_col, gamma, r)
       IN  /\ log' = log \o <<absorb("e", at_tau), absorb("e", <<L_row, L_col>>)>>
                         \o squeezes("c", 1) \o squeezes("g", 1) \o squeezes("r", 1)
           /\ prover' = [row |-> rows, col |-> cols, L_row |-> L_row, L_col |-> L_col]
           /\ proof' = [at_tau |-> at_tau, L |-> <<L_row, L_col>>] @@ proof
           /\ phase' = IF rows.ok /\ cols.ok THEN "instances" ELSE "InternalError"
    /\ ch' = [c |-> c, gamma |-> gamma, r |-> r] @@ ch
    /\ UNCHANGED given

\* The four instances with their polynomials, and what prove_helper starts with.
ProverInstances == \E p \in Rhos, s \in Challenges :
    /\ phase = "instances"
    /\ LET rows == prover.row
           cols == prover.col
           mem  == <<rows.t_plus_r_inv, rows.w_plus_r_inv, cols.t_plus_r_inv, cols.w_plus_r_inv>>
           rho  == Point(p)
           lin(a, b, c) == Tuple([k \in 1 .. repr.N |-> (a[k] + ch.c * b[k] + ((ch.c * ch.c) % P) * c[k]) % P])
           joint == batch_evals_at(proof.at_tau, ch.c)
           claims == <<0, 0, 0, 0, 0, 0, 0, joint, joint, 0>>
       IN  /\ log' = log \o <<absorb("l", mem)>> \o squeezes("r", num_rounds_sc) \o squeezes("r", 1)
           /\ proof' = [mem |-> mem] @@ proof
           /\ ch' = [rho |-> rho, s |-> s] @@ ch
           /\ prover' =
                [e |-> Dot(claims, powers(s, 10)),
                 claims |-> claims, eq_rho |-> EqInstance(rho), eq_tau |-> EqInstance(ch.tau),
                 polys |-> <<rows.t_plus_r_inv, rows.w_plus_r_inv, rows.t_plus_r, rows.w_plus_r, repr.ts_row,
                             cols.t_plus_r_inv, cols.w_plus_r_inv, cols.t_plus_r, cols.w_plus_r, repr.ts_col,
                             vec.Az, vec.Bz, Tuple([k \in 1 .. repr.N |-> (U.u * vec.Cz[k] + vec.E[k]) % P]), lin(vec.Az, vec.Bz, vec.Cz),
                             prover.L_row, prover.L_col, lin(repr.val_A, repr.val_B, repr.val_C),
                             masked_eq_evals(ch.tau, log_2(S.num_vars)), vec.W>>]
    /\ phase' = "rounds"
    /\ UNCHANGED given

\* The ten sums of a round: those of the memory, outer, inner and witness instances.
evaluation_points_all ==
    LET q(ks) == [k \in DOMAIN ks |-> prover.polys[ks[k]]]
    IN  << compute_eval_points(q(<<1, 2>>), deg1), compute_eval_points(q(<<6, 7>>), deg1),
           evaluation_points_cubic_with_three_inputs(prover.eq_rho, q(<<1, 3, 5>>)),
           evaluation_points_cubic_with_two_inputs(prover.eq_rho, q(<<2, 4>>)),
           evaluation_points_cubic_with_three_inputs(prover.eq_rho, q(<<6, 8, 10>>)),
           evaluation_points_cubic_with_two_inputs(prover.eq_rho, q(<<7, 9>>)),
           evaluation_points_cubic_with_three_inputs(prover.eq_tau, q(<<11, 12, 13>>)),
           evaluation_points_cubic_with_one_input(prover.eq_tau, q(<<14>>)),
           compute_eval_points(q(<<15, 16, 17>>), deg3),
           compute_eval_points(q(<<18, 19>>), deg2) >>

\* prove_helper, one round.
ProverRound ==
    /\ phase = "rounds" /\ Len(ch.rand) < num_rounds_sc
    /\ LET evals  == evaluation_points_all
           coeffs == powers(ch.s, 10)
           all    == Tuple([j \in 1 .. 3 |-> Sum(1, 10, LAMBDA k : (evals[k][j] % P) * coeffs[k])])
           poly   == cubic_poly(prover.e, all)
       IN  /\ log' = log \o <<absorb("p", compress(poly))>> \o squeezes("c", 1)
           /\ proof' = [proof EXCEPT !.sc = Append(@, compress(poly))]
           /\ \E r \in Challenges :
                 /\ prover' = [prover EXCEPT !.e = evaluate(poly, r),
                                             !.eq_rho = eq_bound(@, r), !.eq_tau = eq_bound(@, r),
                                             !.polys = Tuple([k \in DOMAIN @ |-> bind_poly_var_top(@[k], r)])]
                 /\ ch' = [ch EXCEPT !.rand = Append(@, r)]
    /\ UNCHANGED <<given, phase>>

\* The polynomials of the final claims, in the order of the two sides' comm_vec.
comm_vec == <<vec.W, vec.Az, vec.Bz, vec.Cz, vec.E, proof.L[1], proof.L[2], repr.val_A, repr.val_B, repr.val_C,
              proof.mem[1], repr.row, proof.mem[2], repr.ts_row, proof.mem[3], repr.col, proof.mem[4], repr.ts_col>>

ProverDone == \E c \in Challenges :
    /\ phase = "rounds" /\ Len(ch.rand) = num_rounds_sc
    /\ LET f(k)   == prover.polys[k][1]
           g(v)   == evaluate_with(v, ch.rand)
           eval_E == (g(vec.E) + (IF dev = "E" THEN 1 ELSE 0)) % P
           evals  == <<f(19), f(11), f(12), g(vec.Cz), eval_E, f(15), f(16), g(repr.val_A), g(repr.val_B), g(repr.val_C),
                       f(1), g(repr.row), f(2), f(5), f(6), g(repr.col), f(7), f(10)>>
       IN  /\ proof' = [evals |-> evals] @@ proof
           /\ log' = log \o <<absorb("e", evals)>> \o squeezes("c", 1)
    /\ ch' = [last |-> c] @@ ch
    /\ phase' = "done"
    /\ UNCHANGED <<given, prover>>

Next == ProverTau \/ ProverOracles \/ ProverInstances \/ ProverRound \/ ProverDone

Spec == Init /\ [][Next]_vars
----------------------------------------------------------------------------
(* The verifier                                                            *)

verifier_log ==
    <<absorb("vk", S), absorb("U", U), absorb("c", <<vec.Az, vec.Bz, vec.Cz>>)>> \o squeezes("t", num_rounds_sc)
    \o <<absorb("e", proof.at_tau), absorb("e", proof.L)>>
    \o squeezes("c", 1) \o squeezes("g", 1) \o squeezes("r", 1)
    \o <<absorb("l", proof.mem)>> \o squeezes("r", num_rounds_sc) \o squeezes("r", 1)
    \o FlattenSeq([k \in DOMAIN proof.sc |-> <<absorb("p", proof.sc[k])>> \o squeezes("c", 1)])
    \o <<absorb("e", proof.evals)>> \o squeezes("c", 1)

\* z at the point, from the value of W and the public values.
eval_val_col(x, eval_W) ==
    LET l      == num_rounds_sc - log_2(2 * S.num_vars)
        factor == Prod(1, l, LAMBDA k : (1 - x[k]) % P)
        unpad  == SubSeq(x, l + 1, num_rounds_sc)
        eval_X == sparse_evaluate(Len(unpad) - 1, <<U.u>> \o U.X, Tail(unpad))
    IN  (eval_W + ((factor * unpad[1]) % P) * eval_X) % P

\* Mutant: the look-ups of the columns are not tied to their values.
claim_final_mut ==
    LET x == ch.rand
        v == proof.evals
        coeffs == powers(ch.s, 10)
        tau == eq_evaluate(ch.tau, x)
        rho == eq_evaluate(ch.rho, x)
        mem(addr, value) == (addr + ch.gamma * value + ch.r) % P
        t_row == mem(identity_evaluate(x), tau)
        t_col == mem(identity_evaluate(x), eval_val_col(x, v[1]))
        lin(a, b, c) == (a + ch.c * b + ((ch.c * ch.c) % P) * c) % P
        parts == << v[11] - v[13], v[15] - v[17],
                    rho * ((v[11] * t_row - v[14]) % P),
                    rho * ((v[13] * mem(v[12], v[6]) - 1) % P),
                    rho * ((v[15] * t_col - v[18]) % P),
                    0,
                    tau * ((v[2] * v[3] - U.u * v[4] - v[5]) % P),
                    tau * lin(v[2], v[3], v[4]),
                    ((v[6] * v[7]) % P) * lin(v[8], v[9], v[10]),
                    masked_eq_evaluate(ch.tau, log_2(S.num_vars), x) * v[1] >>
    IN  Sum(1, 10, LAMBDA k : (parts[k] % P) * coeffs[k])
claim_final ==
    LET x == ch.rand
        v == proof.evals
        coeffs == powers(ch.s, 10)
        tau == eq_evaluate(ch.tau, x)
        rho == eq_evaluate(ch.rho, x)
        mem(addr, value) == (addr + ch.gamma * value + ch.r) % P
        t_row == mem(identity_evaluate(x), tau)
        t_col == mem(identity_evaluate(x), eval_val_col(x, v[1]))
        lin(a, b, c) == (a + ch.c * b + ((ch.c * ch.c) % P) * c) % P
        parts == << v[11] - v[13], v[15] - v[17],
                    rho * ((v[11] * t_row - v[14]) % P),
                    rho * ((v[13] * mem(v[12], v[6]) - 1) % P),
                    rho * ((v[15] * t_col - v[18]) % P),
                    rho * ((v[17] * mem(v[16], v[7]) - 1) % P),
                    tau * ((v[2] * v[3] - U.u * v[4] - v[5]) % P),
                    tau * lin(v[2], v[3], v[4]),
                    ((v[6] * v[7]) % P) * lin(v[8], v[9], v[10]),
                    masked_eq_evaluate(ch.tau, log_2(S.num_vars), x) * v[1] >>
    IN  Sum(1, 10, LAMBDA k : (parts[k] % P) * coeffs[k])

joint_claim == ((powers(ch.s, 10)[8] + powers(ch.s, 10)[9]) * batch_evals_at(proof.at_tau, ch.c)) % P

accepts ==
    LET final == sumcheck_verify(proof.sc, joint_claim, num_rounds_sc, 3, ch.rand)
    IN  /\ final.ok /\ final.e = claim_final
        /\ evaluate_with(witness_batch(comm_vec, ch.last), ch.rand)
           = batch_evals_at(proof.evals, ch.last)
----------------------------------------------------------------------------
\* The sums the ten claims are about, over all indices of what was committed.
true_sums ==
    LET rows == helper(evals_from_points(ch.tau), repr.row, proof.L[1], repr.ts_row, ch.gamma, ch.r)
        cols == helper(padded(z, repr.N, 0), repr.col, proof.L[2], repr.ts_col, ch.gamma, ch.r)
        m    == proof.mem
        rho  == evals_from_points(ch.rho)
        tau  == evals_from_points(ch.tau)
        lin(a, b, c) == (a + ch.c * b + ((ch.c * ch.c) % P) * c) % P
        all(f(_)) == Sum(1, repr.N, LAMBDA k : f(k) % P)
    IN  << all(LAMBDA k : m[1][k] - m[2][k]), all(LAMBDA k : m[3][k] - m[4][k]),
           all(LAMBDA k : rho[k] * ((m[1][k] * rows.t_plus_r[k] - repr.ts_row[k]) % P)),
           all(LAMBDA k : rho[k] * ((m[2][k] * rows.w_plus_r[k] - 1) % P)),
           all(LAMBDA k : rho[k] * ((m[3][k] * cols.t_plus_r[k] - repr.ts_col[k]) % P)),
           all(LAMBDA k : rho[k] * ((m[4][k] * cols.w_plus_r[k] - 1) % P)),
           all(LAMBDA k : tau[k] * ((vec.Az[k] * vec.Bz[k] - U.u * vec.Cz[k] - vec.E[k]) % P)),
           all(LAMBDA k : tau[k] * lin(vec.Az[k], vec.Bz[k], vec.Cz[k])),
           all(LAMBDA k : ((proof.L[1][k] * proof.L[2][k]) % P) * lin(repr.val_A[k], repr.val_B[k], repr.val_C[k])),
           all(LAMBDA k : IF k <= S.num_vars THEN 0 ELSE tau[k] * vec.W[k]) >>

joint_sum ==
    Dot(true_sums, powers(ch.s, 10))

satisfied == \A i \in 1 .. S.num_cons : (vec.Az[i] * vec.Bz[i] - U.u * vec.Cz[i] - vec.E[i]) % P = 0
(* The ten claims are all true exactly for an honest prover with a         *)
(* satisfied instance (E is only claimed at the end): the padding of the   *)
(* lists and their time stamps agree with the memories, and public values  *)
(* moved into W are seen by the bound on the witness.  A proof is accepted *)
(* exactly where the errors of its claims cancel and its last claims are   *)
(* true, so every honest one is.  The verifier's transcript is the         *)
(* prover's, and a prover fails only at a pole of the look-up argument.    *)
PPSnarkExact ==
    /\ phase = "rounds" /\ ch.rand = <<>> =>
          (true_sums = prover.claims <=> dev \in {"none", "E"} /\ satisfied)
    /\ phase = "done" =>
          /\ verifier_log = log
          /\ accepts <=> dev # "E" /\ joint_sum = joint_claim
    /\ phase = "InternalError" => 0 \in Range(prover.row.t_plus_r \o prover.row.w_plus_r
                                             \o prover.col.t_plus_r \o prover.col.w_plus_r)
=============================================================================
