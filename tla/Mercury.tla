------------------------------ MODULE Mercury ------------------------------
(***************************************************************************)
(* src/provider/mercury.rs: the evaluation argument Mercury, with the key  *)
(* and the conventions of HyperKZG.  A polynomial is the sequence of its   *)
(* coefficients.  The challenges are alpha, gamma, zeta, beta, z and d.    *)
(***************************************************************************)
EXTENDS HyperKZG

\* PrimeField::S and ROOT_OF_UNITY, and best_fft of halo2curves.
S_2 == CHOOSE s \in 0 .. 30 : (P - 1) % 2 ^ s = 0 /\ (P - 1) % 2 ^ (s + 1) # 0
ROOT_OF_UNITY == CHOOSE g \in F : pow(g, 2 ^ S_2) = 1 /\ pow(g, 2 ^ (S_2 - 1)) # 1
omega(log_n) == pow(ROOT_OF_UNITY, 2 ^ (S_2 - log_n))
best_fft(a, w) ==
    LET ws == powers(w, Len(a))
    IN  Tuple([i \in DOMAIN a |-> Sum(1, Len(a), LAMBDA j : a[j] * ws[1 + (((i - 1) * (j - 1)) % Len(a))])])
----------------------------------------------------------------------------
(* Univariate polynomials.                                                 *)

trim(f) == LET n == CHOOSE n \in 0 .. Len(f) : /\ \A k \in n + 1 .. Len(f) : f[k] = 0
                                               /\ n > 0 => f[n] # 0
           IN  SubSeq(f, 1, n)

\* f + the sum of scalars[k] * fs[k].
batch_add_with_polynomials(f, fs, scalars) ==
    LET at(g, i) == IF i <= Len(g) THEN g[i] ELSE 0
    IN  Tuple([i \in 1 .. Max({Len(f)} \cup {Len(fs[k]) : k \in DOMAIN fs}) |->
            (at(f, i) + Sum(1, Len(fs), LAMBDA k : scalars[k] * at(fs[k], i))) % P])

\* f * (X + a).
multiply_by_linear_polynomial(f, a) ==
    batch_add_with_polynomials(<<0>> \o f, <<f>>, <<a>>)

\* f / (X - a), with the remainder.
divide_by_linear_polynomial(f, a) ==
    LET h == horner(f, a) IN [quotient |-> Tail(h), rem |-> h[1]]

\* f / (X^b - alpha): a division for each column of the b by b matrix of
\* coefficients; the quotients are padded, joined and transposed.
divide_by_binomial(f, b, alpha) ==
    LET column(j) == divide_by_linear_polynomial(Tuple([i \in 1 .. b |-> f[(i - 1) * b + j]]), alpha)
        columns   == Tuple([j \in 1 .. b |-> column(j)])
        joined    == FlattenSeq([j \in 1 .. b |-> padded(columns[j].quotient, b, 0)])
    IN  [quotient  |-> Tuple([k \in 1 .. b * b |-> joined[((k - 1) % b) * b + (k - 1) \div b + 1]]),
         remainder |-> Tuple([j \in 1 .. b |-> columns[j].rem])]

\* gaussian_elimination: rows of n coefficients and a value.  There is no
\* pivoting, and a zero on the diagonal ends in a division by zero.
minus_row(m, j, i, col) ==
    LET factor == (m[j][col] * inv[m[i][col]]) % P
    IN  IF m[i][col] = 0 THEN m
        ELSE [m EXCEPT ![j] = Tuple([k \in DOMAIN m[j] |-> (m[j][k] - factor * m[i][k]) % P])]
gaussian_elimination(matrix) ==
    LET n    == Len(matrix)
        echelon(m, i)   == FoldLeft(LAMBDA t, j : minus_row(t, i + j, i, i), m, [j \in 1 .. n - i |-> j])
        eliminate(m, i) == FoldLeft(LAMBDA t, j : minus_row(t, i - j, i, i), m, [j \in 1 .. i - 1 |-> j])
        down == FoldLeft(echelon, matrix, [i \in 1 .. n - 1 |-> i])
        up   == FoldLeft(eliminate, down, [i \in 1 .. n - 1 |-> n + 1 - i])
    IN  Tuple([i \in 1 .. n |-> (up[i][n + 1] * inv[up[i][i]]) % P])
from_evals_with_xs(xs, evals) ==
    IF Len(evals) = 1 THEN evals
    ELSE gaussian_elimination(Tuple([i \in DOMAIN xs |-> Append(powers(xs[i], Len(xs)), evals[i])]))

eval_pu_poly(u, r) == Prod(1, Len(u), LAMBDA i :
    u[Len(u) - i + 1] * pow(r, 2 ^ (i - 1)) + 1 - u[Len(u) - i + 1])

compute_h_poly(f, eq_col, b) ==
    Tuple([i \in 1 .. b |-> Sum(1, b, LAMBDA j : f[(i - 1) * b + j] * eq_col[j])])

\* s, of which both inner products are read: with a = eq_col, eq_row and
\* b = g, h, the powers above 0 of the sum of a_k(X) b_k(1/X) + a_k(1/X) b_k(X).
\* Nothing is left to drain when that sum is zero.
s_coeffs(as, bs, log_b, gamma) ==
    LET b2 == 2 ^ (log_b + 1)
        w  == omega(log_b + 1)
        evals(p) == best_fft(padded(p, b2, 0), w)
        a1 == evals(as[1])   a2 == evals(as[2])
        b1 == evals(bs[1])   b2s == evals(bs[2])
        neg(i) == (b2 - i) % b2
        value(i) == ((a1[i + 1] * b1[neg(i) + 1] + a1[neg(i) + 1] * b1[i + 1])
                     + ((a2[i + 1] * b2s[neg(i) + 1] + a2[neg(i) + 1] * b2s[i + 1]) % P) * gamma) % P
        shifted == Tuple([k \in 1 .. b2 |-> (value(k - 1) * pow(w, ((b2 \div 2 - 1) * (k - 1)) % b2)) % P])
        coeffs == trim(best_fft(shifted, inv[w]))
    IN  Tuple(VecScale(inv[b2], coeffs))
make_s_polynomial(coeffs, b) == SubSeq(coeffs, b + 1, Len(coeffs))
----------------------------------------------------------------------------
(* Opening g, h, s and d at their points at once, as the module            *)
(* batch_evaluation does.                                                  *)

star_polys(e, c) ==
    LET zeta == c[3]   zeta_inv == inv[c[3]]
    IN  <<from_evals_with_xs(<<zeta, zeta_inv>>, <<e.g_zeta, e.g_zeta_inv>>),
          from_evals_with_xs(<<zeta, zeta_inv, c[1]>>, <<e.h_zeta, e.h_zeta_inv, e.h_alpha>>),
          from_evals_with_xs(<<zeta, zeta_inv>>, <<e.s_zeta, e.s_zeta_inv>>),
          <<e.d_zeta>>>>

\* The vanishing polynomials of the other points, at z, and that of all points.
vanishing(c) ==
    LET t4 == ((c[5] - c[1]) * (c[5] - inv[c[3]])) % P
    IN  [t_s |-> <<c[5] - c[1], 1, c[5] - c[1], t4>>, t |-> (t4 * (c[5] - c[3])) % P]

\* The polynomial divided by X - p for each of the points.
divide_by_all(f, points_) ==
    FoldLeft(LAMBDA v, p : LET d == divide_by_linear_polynomial(v.quotient, p)
                           IN  [quotient |-> d.quotient, rem |-> Append(v.rem, d.rem)],
             [quotient |-> f, rem |-> <<>>], points_)

\* What is divided by the vanishing polynomial of all points.
diff_sum(stars, polys, c) ==
    LET others == <<<<c[1]>>, <<>>, <<c[1]>>, <<c[1], inv[c[3]]>>>>
        diff(k) == FoldLeft(LAMBDA f, p : multiply_by_linear_polynomial(f, (-p) % P),
                            batch_add_with_polynomials(polys[k], <<stars[k]>>, <<P - 1>>), others[k])
    IN  batch_add_with_polynomials(diff(1), <<diff(2), diff(3), diff(4)>>, Tail(powers(c[4], 4)))

\* The polynomial that is zero at z.
at_z(stars, polys, quot_m, c) ==
    LET scalar(k) == (powers(c[4], 4)[k] * vanishing(c).t_s[k]) % P
        less(k)   == [polys[k] EXCEPT ![1] = (@ - evaluate(stars[k], c[5])) % P]
    IN  batch_add_with_polynomials(<<>>, Tuple([k \in 1 .. 5 |-> IF k = 5 THEN quot_m ELSE less(k)]),
            Tuple([k \in 1 .. 5 |-> IF k = 5 THEN (- vanishing(c).t) % P ELSE scalar(k)]))

arg_of(m, l) == [comm_w |-> commit(m.quotient), comm_w_prime |-> commit(l.quotient),
                 exact  |-> Range(m.rem \o l.rem) = {0}]
generate_batch_evaluate_arg(stars, polys, c) ==
    LET arg(m) == arg_of(m, divide_by_all(at_z(stars, polys, m.quotient, c), <<c[5]>>))
    IN  arg(divide_by_all(diff_sum(stars, polys, c), <<c[1], c[3], inv[c[3]]>>))

\* The left side of the pairing equation.
extract_pairing(stars, p, c) ==
    LET scalar(k) == (powers(c[4], 4)[k] * vanishing(c).t_s[k]) % P
        cm == <<p.comm_g[1], p.comm_h[1], p.comm_s[1], p.comm_d[1]>>
    IN  (Sum(1, 4, LAMBDA k : scalar(k) * ((cm[k] - evaluate(stars[k], c[5])) % P))
         - vanishing(c).t * p.comm_w[1] + c[5] * p.comm_w_prime[1]) % P
----------------------------------------------------------------------------
\* With an odd number of variables there is one more, which is zero.
even_point(x) == IF Len(x) % 2 = 1 THEN <<0>> \o x ELSE x
u_row(pt) == SubSeq(pt, 1, Len(pt) \div 2)
u_col(pt) == SubSeq(pt, Len(pt) \div 2 + 1, Len(pt))

mercury_evals(g, h, s, d, c) ==
    LET zeta == c[3]   zeta_inv == inv[c[3]]
    IN  [g_zeta |-> evaluate(g, zeta), g_zeta_inv |-> evaluate(g, zeta_inv),
         h_zeta |-> evaluate(h, zeta), h_zeta_inv |-> evaluate(h, zeta_inv),
         h_alpha |-> evaluate(h, c[1]), s_zeta |-> evaluate(s, zeta),
         s_zeta_inv |-> evaluate(s, zeta_inv), d_zeta |-> evaluate(d, zeta)]

\* The prover's values, one round after the other.  dev is "h" or "g" for a
\* prover that goes on with another h or g.
divided_by_columns(poly, x, c, dev) ==
    LET pt  == even_point(x)
        b   == 2 ^ (Len(pt) \div 2)
        f   == padded(poly, 2 ^ Len(pt), 0)
        eq_row == evals_from_points(u_row(pt))
        eq_col == evals_from_points(u_col(pt))
        altered(v, name) == IF dev = name THEN [v EXCEPT ![1] = (@ + 1) % P] ELSE v
        div == divide_by_binomial(f, b, c[1])
        g   == altered(div.remainder, "g")
    IN  [b |-> b, log_b |-> Len(pt) \div 2, f |-> f, a |-> <<eq_col, eq_row>>,
         h |-> altered(compute_h_poly(f, eq_col, b), "h"),
         q |-> trim(div.quotient), g |-> g, d |-> Reverse(g)]
with_coeffs(v, c) == [coeffs |-> s_coeffs(v.a, <<v.g, v.h>>, v.log_b, c[2])] @@ v
with_evals(v, c) ==
    LET s == make_s_polynomial(v.coeffs, v.b)
    IN  [s |-> s, e |-> mercury_evals(v.g, v.h, s, v.d, c)] @@ v
with_quotients(v, c) ==
    [quot_f |-> divide_by_linear_polynomial(
        batch_add_with_polynomials(v.f, <<v.q, <<v.e.g_zeta>>>>,
                                   <<(c[1] - pow(c[3], v.b)) % P, P - 1>>), c[3]),
     arg    |-> generate_batch_evaluate_arg(star_polys(v.e, c), <<v.g, v.h, v.s, v.d>>, c)] @@ v

\* The quotient is committed to without what padding f added to it.
mercury_proof(v, size) ==
    LET kept == IF size < Len(v.quot_f.quotient) THEN size ELSE Len(v.quot_f.quotient)
    IN  [comm_h |-> <<commit(v.h)>>, comm_q |-> <<commit(v.q)>>, comm_g |-> <<commit(v.g)>>,
         comm_s |-> <<commit(v.s)>>, comm_d |-> <<commit(v.d)>>,
         comm_quot_f |-> <<commit(trim(SubSeq(v.quot_f.quotient, 1, kept)))>>,
         comm_w |-> <<v.arg.comm_w>>, comm_w_prime |-> <<v.arg.comm_w_prime>>]
        @@ [n \in DOMAIN v.e \ {"h_alpha", "d_zeta"} |-> <<v.e[n]>>]

mercury_log(C, x, claim, p) ==
    <<absorb("f", C), absorb("u", x), absorb("e", claim), absorb("h", p.comm_h),
      squeeze("a"), absorb("q", p.comm_q), absorb("g", p.comm_g), squeeze("gm"),
      absorb("s", p.comm_s), absorb("d", p.comm_d), squeeze("zt"),
      absorb("gz", p.g_zeta), absorb("gzi", p.g_zeta_inv),
      absorb("hz", p.h_zeta), absorb("hzi", p.h_zeta_inv),
      absorb("sz", p.s_zeta), absorb("szi", p.s_zeta_inv),
      absorb("t", p.comm_quot_f), squeeze("b"), absorb("w", p.comm_w),
      squeeze("z"), absorb("wp", p.comm_w_prime), squeeze("pd")>>

mercury_sent(C, x, claim, dev, p, exact) ==
    [panics |-> dev = "none" /\ ~ exact, proof |-> p, log |-> mercury_log(C, x, claim, p)]

mercury_prove(C, poly, x, claim, c, dev) ==
    LET finish(v)   == mercury_sent(C, x, claim, dev, mercury_proof(v, Len(poly)),
                                    v.quot_f.rem = 0 /\ v.arg.exact)
        \* Without a coefficient left there is no s.
        continue(v) == IF Len(v.coeffs) <= v.b THEN [panics |-> TRUE]
                       ELSE finish(with_quotients(with_evals(v, c), c))
    IN  IF Len(x) < 2 THEN [panics |-> TRUE]
        ELSE continue(with_coeffs(divided_by_columns(poly, x, c, dev), c))

mercury_verifier_log(C, x, y, p) ==
    <<absorb("f", C), absorb("u", x), absorb("e", y), absorb("h", p.comm_h), squeeze("a"),
      absorb("q", p.comm_q), absorb("g", p.comm_g), squeeze("gm"),
      absorb("s", p.comm_s), absorb("d", p.comm_d), squeeze("zt"),
      absorb("gz", p.g_zeta), absorb("gzi", p.g_zeta_inv), absorb("hz", p.h_zeta),
      absorb("hzi", p.h_zeta_inv), absorb("sz", p.s_zeta), absorb("szi", p.s_zeta_inv),
      absorb("t", p.comm_quot_f)>>
    \o <<squeeze("b"), absorb("w", p.comm_w), squeeze("z")>>
    \o <<absorb("wp", p.comm_w_prime), squeeze("pd")>>

mercury_verify(C, x, y, p, c) ==
    LET pt   == even_point(x)
        zeta == c[3]   zeta_inv == inv[c[3]]
        zeta_b_one == pow(zeta, 2 ^ (Len(pt) \div 2) - 1)
        col(r) == eval_pu_poly(u_col(pt), r)
        row(r) == eval_pu_poly(u_row(pt), r)
        e0   == [n \in {"g_zeta", "g_zeta_inv", "h_zeta", "h_zeta_inv", "s_zeta", "s_zeta_inv"} |-> p[n][1]]
        denom == (e0.g_zeta * col(zeta_inv) + e0.g_zeta_inv * col(zeta)
                  + c[2] * ((e0.h_zeta * row(zeta_inv) + e0.h_zeta_inv * row(zeta) - 2 * y) % P)
                  - zeta * e0.s_zeta - zeta_inv * e0.s_zeta_inv) % P
        e    == e0 @@ [d_zeta |-> (zeta_b_one * e0.g_zeta_inv) % P, h_alpha |-> (denom * TWO_INV) % P]
        zeta_b_alpha == (zeta_b_one * zeta - c[1]) % P
        lhs  == (C - zeta_b_alpha * p.comm_q[1] - e0.g_zeta + zeta * p.comm_quot_f[1]) % P
        ll   == (lhs + extract_pairing(star_polys(e, c), p, c) * c[6]) % P
        rl   == (p.comm_quot_f[1] + p.comm_w_prime[1] * c[6]) % P
    IN  ll = (Tau * rl) % P
=============================================================================
