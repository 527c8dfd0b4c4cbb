---------------------------- MODULE InnerProduct ----------------------------
(***************************************************************************)
(* src/provider/ipa_pc.rs: the inner product argument, with the key and    *)
(* the conventions of HyperKZG; the generators are the elements of ck, the *)
(* one for the inner products is ck_s.                                     *)
(***************************************************************************)
EXTENDS HyperKZG

ck_s == pow(Tau, KeySize)

halves(v) == [L |-> SubSeq(v, 1, Len(v) \div 2), R |-> SubSeq(v, Len(v) \div 2 + 1, Len(v))]
\* w1 * L + w2 * R, for the vectors and for the generators.
folded(v, w1, w2) == Tuple(VecAdd(VecScale(w1, halves(v).L), VecScale(w2, halves(v).R)))

\* prove_inner: one round with the challenge r.
prove_inner(s, r, ck_c) ==
    LET a == halves(s.a)
        b == halves(s.b)
        k == halves(s.ck)
    IN  [L  |-> Append(s.L, msm(Append(a.L, Dot(a.L, b.R)), Append(k.R, ck_c))),
         R  |-> Append(s.R, msm(Append(a.R, Dot(a.R, b.L)), Append(k.L, ck_c))),
         a  |-> folded(s.a, r, inv[r]),
         b  |-> folded(s.b, inv[r], r),
         ck |-> folded(s.ck, inv[r], r)]

\* The challenges: the base of the inner product, then one for each round.
\* dev is "vector" for a prover whose vector is not the committed one.
ipa_prove(C, hat_P, x, claim, c, dev) ==
    LET ck_c  == (c[1] * ck_s) % P
        start == [L |-> <<>>, R |-> <<>>, b |-> evals_from_points(x), ck |-> SubSeq(ck, 1, Len(hat_P)),
                  a |-> IF dev = "vector" THEN [hat_P EXCEPT ![1] = (@ + 1) % P] ELSE hat_P]
        end   == FoldLeft(LAMBDA s, i : prove_inner(s, c[i + 1], ck_c), start, [i \in 1 .. Len(x) |-> i])
        round(i) == <<absorb("L", end.L[i]), absorb("R", end.R[i]), squeeze("r")>>
    IN  [panics |-> FALSE, proof |-> [L_vec |-> end.L, R_vec |-> end.R, a_hat |-> <<end.a[1]>>],
         log |-> <<absorb("dom_sep", "IPA"), absorb("U", <<C, claim>>), squeeze("r")>>
                 \o FlattenSeq([i \in 1 .. Len(x) |-> round(i)])]

ipa_lengths(x, p) == Len(p.L_vec) = Len(x) /\ Len(p.L_vec) = Len(p.R_vec)

ipa_verifier_log(C, x, y, p) ==
    <<absorb("dom_sep", "IPA")>> \o
    (IF ipa_lengths(x, p)
     THEN <<absorb("U", <<C, y>>), squeeze("r")>>
          \o FlattenSeq([i \in DOMAIN p.L_vec |->
                 <<absorb("L", p.L_vec[i]), absorb("R", p.R_vec[i]), squeeze("r")>>])
     ELSE <<>>)

\* batch_invert, with no inverse (an error) when an entry is zero.
batch_invert(v) ==
    LET products == [i \in 1 .. Len(v) |-> Prod(1, i - 1, LAMBDA k : v[k])]
    IN  FoldRight(LAMBDA i, s : [acc |-> (s.acc * v[i]) % P, inv |-> <<(products[i] * s.acc) % P>> \o s.inv],
                  [i \in 1 .. Len(v) |-> i],
                  [acc |-> inv[Prod(1, Len(v), LAMBDA k : v[k])], inv |-> <<>>]).inv

\* The coefficients with which the generators are folded.
tensor(r, n) ==
    LET r_inverse == batch_invert(r)
        round(i)  == Len(r) - ilog2(i)
    IN  FoldLeft(LAMBDA s, i : Append(s, (s[i - 2 ^ ilog2(i) + 1]
                                          * ((r[round(i)] * r[round(i)]) % P)) % P),
                 <<Prod(1, Len(r), LAMBDA k : r_inverse[k])>>, [i \in 1 .. n - 1 |-> i])

ipa_verify(C, x, y, p, c) ==
    LET n     == 2 ^ Len(x)
        ck_c  == (c[1] * ck_s) % P
        r     == SubSeq(c, 2, Len(x) + 1)
        sq(v) == Tuple([i \in DOMAIN v |-> (v[i] * v[i]) % P])
        s     == tensor(r, n)
        ck_hat == msm(s, SubSeq(ck, 1, n))
        b_hat  == Dot(evals_from_points(x), s)
        P_hat  == msm(sq(r) \o sq(batch_invert(r)) \o <<1>>,
                      p.L_vec \o p.R_vec \o <<(C + ck_c * y) % P>>)
    IN  /\ ipa_lengths(x, p)
        /\ 0 \notin Range(r)
        /\ P_hat = msm(<<p.a_hat[1], (p.a_hat[1] * b_hat) % P>>, <<ck_hat, ck_c>>)
=============================================================================
