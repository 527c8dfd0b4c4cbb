------------------------------ MODULE HyperKZG ------------------------------
(***************************************************************************)
(* src/provider/hyperkzg.rs: the commitment key, the commitments and the   *)
(* evaluation argument HyperKZG.  A commitment is the value at Tau of the  *)
(* polynomial it commits to, and e(L, H) = e(R, tau_H) says L = Tau * R.   *)
(* A prover is a record: "panics", what it absorbed and squeezed, and the  *)
(* proof, whose fields are sequences.  The challenges are a parameter c.   *)
(***************************************************************************)
EXTENDS Polynomials, Msm

CONSTANTS
    Tau,           \* the secret of the setup
    KeySize,       \* the length of the commitment key
    ck,            \* the commitment key, of the setup
    TargetChunks   \* DEFAULT_TARGET_CHUNKS of div_by_monomial

absorb(label, x) == <<"absorb", label, x>>
squeeze(label)   == <<"squeeze", label>>

compute_powers_par(t, n) ==
    LET size == IF n \div Threads > 1 THEN n \div Threads ELSE 1
        start(i) == ((i - 1) \div size) * size
    IN  Tuple([i \in 1 .. n |-> (pow(t, start(i)) * powers(t, size)[i - start(i)]) % P])

setup_from_tau == fixed_base_exp_comb_batch(3, 2, 2, 1, compute_powers_par(Tau, KeySize))
KeyAssumption == ck = setup_from_tau
commit(v) == msm(v, SubSeq(ck, 1, Len(v)))
----------------------------------------------------------------------------
\* The suffixes of f evaluated at u: h[i] = f[i] + u * h[i + 1].
horner(f, u) ==
    FoldRight(LAMBDA a, h : <<(a + (IF h = <<>> THEN 0 ELSE u * h[1])) % P>> \o h, f, <<>>)

chunks(f, size) ==
    [k \in 1 .. (Len(f) + size - 1) \div size |->
        SubSeq(f, (k - 1) * size + 1, IF k * size < Len(f) THEN k * size ELSE Len(f))]

\* f divided by X - u: each chunk by itself, then the chunks' first elements,
\* then what every exact window of the rest gets from its last element.
\* Mutant: the windows are those of the chunks, which end one element before.
div_by_monomial_mut(f, u, target_chunks) ==
    LET t      == Len(f) \div target_chunks
        size   == 2 ^ (IF t > 1 THEN ilog2(t) ELSE 0)
        parts  == Tuple([k \in DOMAIN chunks(f, size) |-> horner(chunks(f, size)[k], u)])
        heads  == horner(Tuple([k \in DOMAIN parts |-> parts[k][1]]), pow(u, size))
        joined == FlattenSeq([k \in DOMAIN parts |-> <<heads[k]>> \o Tail(parts[k])])
        last(i) == ((i - 1) \div size + 1) * size
    IN  Tuple([j \in 1 .. Len(f) - 1 |->
            IF last(j + 1) \in j + 2 .. Len(f)
            THEN (joined[j + 1] + pow(u, last(j + 1) - (j + 1)) * joined[last(j + 1)]) % P
            ELSE joined[j + 1]])
div_by_monomial(f, u, target_chunks) ==
    LET t      == Len(f) \div target_chunks
        size   == 2 ^ (IF t > 1 THEN ilog2(t) ELSE 0)
        parts  == Tuple([k \in DOMAIN chunks(f, size) |-> horner(chunks(f, size)[k], u)])
        heads  == horner(Tuple([k \in DOMAIN parts |-> parts[k][1]]), pow(u, size))
        joined == FlattenSeq([k \in DOMAIN parts |-> <<heads[k]>> \o Tail(parts[k])])
        last(i) == ((i - 2) \div size + 1) * size + 1
    IN  Tuple([j \in 1 .. Len(f) - 1 |->
            IF last(j + 1) \in j + 2 .. Len(f)
            THEN (joined[j + 1] + pow(u, last(j + 1) - (j + 1)) * joined[last(j + 1)]) % P
            ELSE joined[j + 1]])

kzg_open(f, u) == commit(div_by_monomial(f, u, TargetChunks))

kzg_compute_batch_polynomial(fs, q) ==
    Tuple([k \in DOMAIN fs[1] |->
        Sum(1, Len(fs), LAMBDA i : IF k <= Len(fs[i]) THEN powers(q, Len(fs))[i] * fs[i][k] ELSE 0)])

\* The points of an opening.
points(r) == <<r, (-r) % P, (r * r) % P>>

\* A polynomial with its last variable bound, for one variable after another.
fold_poly(p, x) == Tuple([j \in 1 .. Len(p) \div 2 |->
    (x * ((p[2 * j] - p[2 * j - 1]) % P) + p[2 * j - 1]) % P])
fold_polys(hat_P, x) ==
    FoldLeft(LAMBDA ps, i : Append(ps, fold_poly(Last(ps), x[Len(x) - i + 1])), <<hat_P>>,
             [i \in 1 .. Len(x) - 1 |-> i])

\* A proof: com, v of three values for each polynomial, and w.  dev is
\* "fold" for a prover that commits to another polynomial than the folded one.
hyperkzg_prove(hat_P, x, c, dev) ==
    LET honest == fold_polys(hat_P, x)
        polys  == IF dev = "fold" THEN [honest EXCEPT ![2][1] = (@ + 1) % P] ELSE honest
        com    == Tuple([k \in 1 .. Len(x) - 1 |-> commit(polys[k + 1])])
        u      == points(c[1])
        v      == FlattenSeq([k \in DOMAIN polys |-> Tuple([j \in 1 .. 3 |-> evaluate(polys[k], u[j])])])
        B      == kzg_compute_batch_polynomial(polys, c[2])
        w      == Tuple([j \in 1 .. 3 |-> kzg_open(B, u[j])])
    IN  IF Len(x) = 0 THEN [panics |-> TRUE]
        ELSE [panics |-> FALSE, proof |-> [com |-> com, v |-> v, w |-> w],
              log |-> <<absorb("c", com), squeeze("c"), absorb("v", v), squeeze("r"),
                        absorb("W", w), squeeze("d")>>]

hyperkzg_lengths(x, p) == Len(p.v) = 3 * Len(x) /\ Len(p.com) = Len(x) - 1

hyperkzg_verifier_log(x, p) ==
    <<absorb("c", p.com), squeeze("c")>> \o
    (IF hyperkzg_lengths(x, p)
     THEN <<absorb("v", p.v), squeeze("r"), absorb("W", p.w), squeeze("d")>> ELSE <<>>)

hyperkzg_verify(C, x, y, p, c) ==
    LET ell  == Len(x)
        u    == points(c[1])
        v(i, j) == p.v[3 * (i - 1) + j]
        Y(i) == IF i < ell THEN v(i + 1, 3) ELSE y
        consistent(i) == (2 * u[1] * Y(i)) % P
            = (u[1] * (((1 - x[ell - i + 1]) * (v(i, 1) + v(i, 2))) % P)
               + x[ell - i + 1] * (v(i, 1) - v(i, 2))) % P
        d0   == c[3]
        d1   == (d0 * d0) % P
        B_u(j) == FoldRight(LAMBDA i, acc : (acc * c[2] + v(i, j)) % P, [i \in 1 .. ell |-> i], 0)
        L    == (((1 + d0 + d1) * Dot(powers(c[2], ell), <<C>> \o p.com))
                 + u[1] * p.w[1] + ((u[2] * d0) % P) * p.w[2] + ((u[3] * d1) % P) * p.w[3]
                 - (B_u(1) + d0 * B_u(2) + d1 * B_u(3))) % P
    IN  /\ hyperkzg_lengths(x, p)
        /\ \A i \in 1 .. ell : consistent(i)
        /\ L = (Tau * ((p.w[1] + d0 * p.w[2] + d1 * p.w[3]) % P)) % P
=============================================================================
