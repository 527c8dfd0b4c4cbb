---------------------------- MODULE Polynomials ----------------------------
(***************************************************************************)
(* The polynomials of src/spartan/polys and the sum-check protocol over    *)
(* them (src/spartan/sumcheck.rs): the prover's messages with the shortcut *)
(* for equality polynomials, and the verifier.  A multilinear polynomial   *)
(* is the sequence of its evaluations, the first variable the top bit of   *)
(* the index; a univariate one is the sequence of its coefficients.        *)
(*                                                                         *)
(* The operators take the challenges as parameters; the modules of the     *)
(* SNARKs draw them from their transcripts.                                *)
(***************************************************************************)
EXTENDS PrimeField

log_2(n) == CHOOSE k \in 0 .. n : 2 ^ k >= n /\ \A j \in 0 .. k - 1 : 2 ^ j < n
powers(s, n) == FoldLeft(LAMBDA ps, k : Append(ps, (Last(ps) * s) % P), <<1>>,
                         [k \in 1 .. n - 1 |-> k])
padded(v, n, e) == v \o [k \in 1 .. n - Len(v) |-> e]
----------------------------------------------------------------------------
(* Multilinear polynomials.                                                *)

\* The table with one variable more, on top of the others.
double(table, r) ==
    LET right == Tuple(VecScale(r, table))
    IN  Tuple([k \in DOMAIN table |-> (table[k] - right[k]) % P]) \o right

evals_from_points(r) == FoldLeft(double, <<1>>, Reverse(r))

eq_factor(r, x) == (r * x + (1 - r) * (1 - x)) % P
eq_evaluate(r, x) == Prod(1, Len(x), LAMBDA k : eq_factor(r[k], x[k]))

\* MaskedEqPolynomial: the first 2^m entries are zero.
masked_eq_evals(r, m) ==
    LET chis == evals_from_points(r)
    IN  Tuple([k \in DOMAIN chis |-> IF k <= 2 ^ m THEN 0 ELSE chis[k]])
masked_eq_evaluate(r, m, x) ==
    LET split   == Len(r) - m
        eq_lo   == Prod(1, split, LAMBDA k : eq_factor(r[k], x[k]))
        eq_hi   == Prod(split + 1, Len(r), LAMBDA k : eq_factor(r[k], x[k]))
        mask_lo == Prod(1, split, LAMBDA k : ((1 - r[k]) * (1 - x[k])) % P)
    IN  ((eq_lo - mask_lo) * eq_hi) % P

identity_evaluate(x) == Sum(1, Len(x), LAMBDA k : (2 ^ (Len(x) - k) * x[k]) % P)

evaluate_with(Z, r) ==
    LET chis == evals_from_points(r)
    IN  Sum(1, IF Len(Z) < Len(chis) THEN Len(Z) ELSE Len(chis), LAMBDA k : chis[k] * Z[k])

bind_poly_var_top(Z, r) ==
    LET n == Len(Z) \div 2
    IN  Tuple([k \in 1 .. n |-> (Z[k] + r * ((Z[n + k] - Z[k]) % P)) % P])

\* SparsePolynomial: Z are the first entries of a table of num_vars variables.
\* The code subtracts in unsigned integers, so it needs log_2(Len(Z)) < num_vars.
sparse_evaluate(num_vars, Z, r) ==
    LET rest == num_vars - 1 - log_2(Len(Z))
    IN  (Prod(1, rest, LAMBDA k : (1 - r[k]) % P)
         * evaluate_with(Z, SubSeq(r, rest + 1, num_vars))) % P
----------------------------------------------------------------------------
(* Univariate polynomials of degree 2 and 3.                               *)

TWO_INV == inv[2]

\* From the values at 0 and 1 and the leading coefficient.
from_evals_deg2(ev) == <<ev[1], (ev[2] - ev[3] - ev[1]) % P, ev[3]>>
\* And the value at -1.
from_evals_deg3(ev) ==
    LET b == ((ev[2] + ev[4]) * TWO_INV - ev[1]) % P
    IN  <<ev[1], (ev[2] - ev[3] - ev[1] - b) % P, b, ev[3]>>

evaluate(poly, r) == FoldRight(LAMBDA c, v : (c + r * v) % P, poly, 0)

compress(poly) == <<poly[1]>> \o SubSeq(poly, 3, Len(poly))

decompress(cp, hint) ==
    <<cp[1], (hint - cp[1] - Sum(1, Len(cp), LAMBDA k : cp[k])) % P>> \o Tail(cp)
----------------------------------------------------------------------------
(* EqSumCheckInstance: the factor eq(taus, x) of a sum, split into the     *)
(* variables that are bound (eval_eq_left), the one of the round and the   *)
(* tables of those that are left.                                          *)

compute_eq_polynomials(taus) ==
    FoldLeft(LAMBDA ts, tau : Append(ts, double(Last(ts), tau)), <<<<1>>>>, taus)

EqInstance(taus) ==
    LET half == Len(taus) \div 2
    IN  [taus |-> taus, first_half |-> half, second_half |-> Len(taus) - half,
         round |-> 1, eval_eq_left |-> 1,
         left  |-> compute_eq_polynomials(Reverse(SubSeq(taus, 2, half))),
         right |-> compute_eq_polynomials(Reverse(SubSeq(taus, half + 1, Len(taus))))]

\* eq of the variables after this round's, at the index id (from 0).
rest_factor(eq, id) ==
    LET high == id \div 2 ^ eq.second_half
        low  == id % 2 ^ eq.second_half
    IN  IF eq.round < eq.first_half
        THEN (eq.left[eq.first_half - eq.round + 1][high + 1]
              * eq.right[eq.second_half + 1][low + 1]) % P
        ELSE eq.right[Len(eq.taus) - eq.round + 1][id + 1]

\* The factor of the variables that are bound and, at 0, as a leading
\* coefficient and at -1, that of this round's variable.
update_evals(eq, ev) ==
    LET tau == eq.taus[eq.round]
        p   == eq.eval_eq_left
    IN  <<(ev[1] * (((1 - tau) * p) % P)) % P, (ev[2] * (((2 * tau - 1) * p) % P)) % P,
          (ev[3] * (((2 - 3 * tau) * p) % P)) % P>>

eq_bound(eq, r) ==
    [eq EXCEPT !.eval_eq_left = (@ * eq_factor(eq.taus[eq.round], r)) % P, !.round = @ + 1]
----------------------------------------------------------------------------
(* What the prover's message is made from: for each index of the lower     *)
(* half, the value at 0, the leading coefficient and the value at -1 of    *)
(* the product, from the pairs <<value at 0, value at 1>> of the factors.  *)

m1(z) == 2 * z[1] - z[2]
slope(z) == z[2] - z[1]

one_input(z)    == <<z[1][1], 0, m1(z[1])>>
two_inputs(z)   == <<z[1][1] * z[2][1] - 1, slope(z[1]) * slope(z[2]), m1(z[1]) * m1(z[2]) - 1>>
three_inputs(z) == <<z[1][1] * z[2][1] - z[3][1], slope(z[1]) * slope(z[2]),
                     m1(z[1]) * m1(z[2]) - m1(z[3])>>

\* compute_eval_points_cubic_with_deg for a difference and for products of two
\* and three, and compute_eval_points_quad_prod.
deg1(z) == <<z[1][1] - z[2][1], 0, m1(z[1]) - m1(z[2])>>
deg2(z) == <<z[1][1] * z[2][1], 0, m1(z[1]) * m1(z[2])>>
deg3(z) == <<((z[1][1] * z[2][1]) % P) * z[3][1],
             ((slope(z[1]) * slope(z[2])) % P) * slope(z[3]),
             ((m1(z[1]) * m1(z[2])) % P) * m1(z[3])>>
quad_prod(z) == <<z[1][1] * z[2][1], slope(z[1]) * slope(z[2])>>

SumCases(n, case(_)) ==
    LET s[k \in 0 .. n] == IF k = 0 THEN <<0, 0, 0>> ELSE
            LET before == s[k - 1]
                v == case(k)
            IN  Tuple([j \in DOMAIN v |-> (before[j] + v[j]) % P])
    IN  s[n]

split_and_zip(polys, half, k) == Tuple([p \in DOMAIN polys |-> <<polys[p][k], polys[p][half + k]>>])

compute_eval_points(polys, one_case(_)) ==
    LET half == Len(polys[1]) \div 2
    IN  SumCases(half, LAMBDA k : one_case(split_and_zip(polys, half, k)))
compute_eval_points_quad_prod(polys) == compute_eval_points(polys, quad_prod)

evaluation_points(eq, polys, one_case(_)) ==
    LET half    == Len(polys[1]) \div 2
        with(k) == LET f  == rest_factor(eq, k - 1)
                       ev == one_case(split_and_zip(polys, half, k))
                   IN  Tuple([j \in 1 .. 3 |-> ((ev[j] % P) * f) % P])
    IN  update_evals(eq, SumCases(half, with))
evaluation_points_cubic_with_three_inputs(eq, polys) == evaluation_points(eq, polys, three_inputs)
evaluation_points_cubic_with_two_inputs(eq, polys)   == evaluation_points(eq, polys, two_inputs)
evaluation_points_cubic_with_one_input(eq, polys)    == evaluation_points(eq, polys, one_input)

cubic_poly(claim, ev) == from_evals_deg3(<<ev[1], (claim - ev[1]) % P, ev[2], ev[3]>>)
quad_poly(claim, ev)  == from_evals_deg2(<<ev[1], (claim - ev[1]) % P, ev[2]>>)
----------------------------------------------------------------------------
(* prove_quad_batch_prod: polynomials of several sizes.  The claim of a    *)
(* small one is scaled, and its sum is constant until its first variable.  *)

scaled_claim(claims, num_rounds, coeffs) ==
    LET max == FoldLeft(LAMBDA a, b : IF a > b THEN a ELSE b, 0, num_rounds)
    IN  Sum(1, Len(claims), LAMBDA k : ((2 ^ (max - num_rounds[k]) * claims[k]) % P) * coeffs[k])

batch_evals(claims, num_rounds, coeffs, As, Bs, remaining) ==
    LET at(k) == IF remaining <= num_rounds[k]
                 THEN compute_eval_points_quad_prod(<<As[k], Bs[k]>>)
                 ELSE LET c == (2 ^ (remaining - num_rounds[k] - 1) * claims[k]) % P
                      IN  <<c, c>>
    IN  SumCases(Len(claims), LAMBDA k : LET v == at(k) IN <<v[1] * coeffs[k], v[2] * coeffs[k]>>)

batch_bind(polys, num_rounds, remaining, r) ==
    Tuple([k \in DOMAIN polys |->
        IF remaining <= num_rounds[k] THEN bind_poly_var_top(polys[k], r) ELSE polys[k]])
----------------------------------------------------------------------------
(* src/spartan/mod.rs and the matrices, as sequences of entries            *)
(* <<row, col, value>> with indices from 0.                                *)

multiply_vec(M, z, num_cons) ==
    Tuple([i \in 1 .. num_cons |->
        FoldLeft(LAMBDA v, e : IF e[1] = i - 1 THEN (v + e[3] * z[e[2] + 1]) % P ELSE v, 0, M)])

\* The sum of polynomials of several sizes, each times a power of s.
MaxLen(ps) == FoldLeft(LAMBDA n, p : IF Len(p) > n THEN Len(p) ELSE n, 0, ps)

at_or_zero(p, k) == IF k <= Len(p) THEN p[k] ELSE 0
witness_batch(ps, s) ==
    LET coeffs == powers(s, Len(ps))
    IN  Tuple([k \in 1 .. MaxLen(ps) |->
                  Sum(1, Len(ps), LAMBDA i : coeffs[i] * at_or_zero(ps[i], k))])

----------------------------------------------------------------------------
\* SumcheckProof::verify, given the challenges.
sumcheck_verify(polys, claim, num_rounds, degree_bound, rs) ==
    FoldLeft(LAMBDA s, k : LET poly == decompress(polys[k], s.e)
                           IN  [ok |-> s.ok /\ Len(poly) - 1 = degree_bound,
                                e  |-> evaluate(poly, rs[k])],
             [ok |-> Len(polys) = num_rounds, e |-> claim],
             [k \in 1 .. (IF Len(polys) = num_rounds THEN num_rounds ELSE 0) |-> k])
=============================================================================
