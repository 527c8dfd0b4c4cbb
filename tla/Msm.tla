-------------------------------- MODULE Msm --------------------------------
(***************************************************************************)
(* Sums of multiples of group elements: src/provider/msm.rs and the        *)
(* fixed-base multiplication of src/provider/hyperkzg.rs.  A group element *)
(* is its discrete logarithm, so the group is F with its addition; a       *)
(* bucket is the sum it holds, with zero for an empty one.                 *)
(***************************************************************************)
EXTENDS PrimeField

CONSTANTS
    Threads,      \* rayon's current_num_threads
    ScalarBits    \* the width of a scalar's representation, 256 in the code

times(k, g) == ((k % P) * g) % P

\* What a sum over chunks, one for each thread, adds up to.
over_chunks(scalars, bases, serial(_, _)) ==
    LET n     == Len(scalars)
        chunk == n \div Threads
        part(k) == LET hi == IF k * chunk > n THEN n ELSE k * chunk
                   IN  serial(SubSeq(scalars, (k - 1) * chunk + 1, hi),
                              SubSeq(bases, (k - 1) * chunk + 1, hi))
    IN  IF n <= Threads THEN serial(scalars, bases)
        ELSE Sum(1, (n + chunk - 1) \div chunk, part)

\* The bases whose scalar satisfies a condition, added up.
sum_where(scalars, bases, cond(_)) ==
    Sum(1, Len(scalars), LAMBDA i : IF cond(scalars[i]) THEN bases[i] ELSE 0)

\* Summation by parts: the sum of k * buckets[k], from the last bucket down.
\* Mutant: the running sum is added before the bucket is.
by_parts_mut(buckets) ==
    FoldLeft(LAMBDA s, b : LET run == (s.run + b) % P
                           IN  [run |-> run, acc |-> (s.acc + s.run) % P],
             [run |-> 0, acc |-> 0], Reverse(buckets)).acc
by_parts(buckets) ==
    FoldLeft(LAMBDA s, b : LET run == (s.run + b) % P
                           IN  [run |-> run, acc |-> (s.acc + run) % P],
             [run |-> 0, acc |-> 0], Reverse(buckets)).acc
----------------------------------------------------------------------------
\* The natural logarithm, rounded up, of a length from 32 to 148.
ceil_ln(n) == IF n <= 54 THEN 4 ELSE 5
window(n) == IF n < 4 THEN 1 ELSE IF n < 32 THEN 3 ELSE ceil_ln(n)

get_at(segment, c, scalar) == (scalar \div 2 ^ (segment * c)) % 2 ^ c

cpu_msm_serial(coeffs, bases) ==
    LET c == window(Len(bases))
        segments == ScalarBits \div c + 1
        segment_sum(s) == by_parts([b \in 1 .. 2 ^ c - 1 |->
            sum_where(coeffs, bases, LAMBDA x : x \notin {0, 1} /\ get_at(s, c, x) = b)])
    IN  (sum_where(coeffs, bases, LAMBDA x : x = 1)
         + FoldLeft(LAMBDA acc, k : (times(2 ^ c, acc) + segment_sum(segments - k)) % P, 0,
                    [k \in 1 .. segments |-> k])) % P

msm(coeffs, bases) == over_chunks(coeffs, bases, cpu_msm_serial)
----------------------------------------------------------------------------
(* Small scalars, of a type of at most 64 bits.                            *)

ilog2(n) == CHOOSE k \in 0 .. n : 2 ^ k <= n /\ n < 2 ^ (k + 1)
num_bits(n) == IF n = 0 THEN 0 ELSE ilog2(n) + 1
compute_ln(n) == IF n = 0 THEN 0 ELSE (ilog2(n) * 69) \div 100

msm_binary(scalars, bases) ==
    over_chunks(scalars, bases, LAMBDA s, b : sum_where(s, b, LAMBDA x : x # 0))

msm_10(scalars, bases, bits) ==
    over_chunks(scalars, bases, LAMBDA s, b :
        by_parts([k \in 1 .. 2 ^ bits - 1 |-> sum_where(s, b, LAMBDA x : x = k)]))

\* A window adds unit scalars as they are, and only the lowest one does.
small_window(n, bits) ==
    IF bits \in {32, 64} THEN 8 ELSE IF n < 32 THEN 3 ELSE compute_ln(n) + 2
msm_small_rest(scalars, bases, bits) ==
    LET serial(s, b) ==
            LET c == small_window(Len(b), bits)
                windows == (bits + c - 1) \div c
                sum_of(w) == ((IF w = 0 THEN sum_where(s, b, LAMBDA x : x = 1) ELSE 0)
                    + by_parts([k \in 1 .. 2 ^ c - 1 |->
                          sum_where(s, b, LAMBDA x : x # 1 /\ get_at(w, c, x) = k)])) % P
            IN  (sum_of(0) + FoldLeft(LAMBDA t, k : times(2 ^ c, (t + sum_of(windows - k)) % P), 0,
                                      [k \in 1 .. windows - 1 |-> k])) % P
    IN  over_chunks(scalars, bases, serial)

\* An index beyond the buckets of msm_10.
out_of_bounds(scalars, bits) == bits \in 2 .. 10 /\ \E x \in Range(scalars) : x >= 2 ^ bits

msm_small_with_max_num_bits(scalars, bases, bits) ==
    CASE bits = 0       -> 0
      [] bits = 1       -> msm_binary(scalars, bases)
      [] bits \in 2 .. 10 -> msm_10(scalars, bases, bits)
      [] OTHER          -> msm_small_rest(scalars, bases, bits)

MaxOf(s) == CHOOSE x \in Range(s) : \A y \in Range(s) : y <= x
msm_small(scalars, bases) ==
    msm_small_with_max_num_bits(scalars, bases, num_bits(MaxOf(scalars)))
----------------------------------------------------------------------------
(* The multiples e * gen of one element, with a comb of H teeth at a       *)
(* distance of A = V * B bits, the bits at a distance of B handled at once.*)

comb(H, V, B, gen, e) ==
    LET A == V * B
        gi(h) == times(2 ^ (A * h), gen)
        precomputed(i, j) == times(2 ^ (B * j),
            Sum(0, H - 1, LAMBDA h : IF (i \div 2 ^ h) % 2 = 1 THEN gi(h) ELSE 0))
        bit(n) == (e \div 2 ^ n) % 2
        teeth(j, k) == FoldLeft(LAMBDA v, h : v + 2 ^ (h - 1) * bit((h - 1) * A + j * B + k), 0,
                                [h \in 1 .. H |-> h])
    IN  FoldLeft(LAMBDA a, k :
            (2 * a + Sum(0, V - 1, LAMBDA j : precomputed(teeth(j, B - k), j))) % P,
            0, [k \in 1 .. B |-> k])
fixed_base_exp_comb_batch(H, V, B, gen, scalars) ==
    Tuple([i \in DOMAIN scalars |-> comb(H, V, B, gen, scalars[i])])
=============================================================================
