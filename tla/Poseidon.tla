------------------------------ MODULE Poseidon ------------------------------
(***************************************************************************)
(* The Poseidon permutation (src/frontend/gadgets/poseidon): the constants *)
(* it is optimised with, derived from a matrix and its round constants     *)
(* (matrix.rs, mds.rs, preprocessing.rs), and the three implementations    *)
(* that consume them one round at a time: the native hash                  *)
(* (poseidon_inner.rs), the circuit (circuit2.rs) and the generator of the *)
(* circuit's witness (circuit2_witness.rs).  A fourth one, from the paper, *)
(* uses none of the optimised constants.                                   *)
(*                                                                         *)
(* The circuit's elements are linear combinations of variables; the model  *)
(* has their values under the generated witness.                           *)
(***************************************************************************)
EXTENDS PrimeField

CONSTANTS
    T,                  \* the width, arity + 1
    HalfFull,           \* half of the full rounds
    Partial,            \* partial rounds
    Matrices,           \* matrices the constants are made from
    RoundConstants,     \* sequences of round constants
    Preimages           \* what is hashed

\* round_numbers.rs never returns fewer than eight full rounds.
RoundsAssumption == T > 1 /\ HalfFull > 1 /\ Partial > 0

VARIABLES
    m, rc,              \* the parameters of new_from_parameters
    constants,          \* what it returned
    stage, round,       \* "new", "panicked" or "hashing", and the rounds done
    plain,              \* the elements of the permutation of the paper,
    native,             \* and those of the hash, the generator and the
    generator,          \* circuit, with how many constants they consumed
    circuit

vars == <<m, rc, constants, stage, round, plain, native, generator, circuit>>

Idx == 1 .. T
Rounds == 2 * HalfFull + Partial
----------------------------------------------------------------------------
(* matrix.rs                                                               *)

left_apply(M, v) == [i \in DOMAIN v |-> Dot(M[i], v)]
transpose(M) == [i \in DOMAIN M |-> [j \in DOMAIN M |-> M[j][i]]]
mat_mul(A, B) == [i \in DOMAIN A |-> left_apply(transpose(B), A[i])]
minor(M) == [i \in 1 .. Len(M) - 1 |-> Tail(M[i + 1])]
make_identity(n) == [i \in 1 .. n |-> [j \in 1 .. n |-> IF i = j THEN 1 ELSE 0]]

\* A row minus c times another.
Minus(row, c, other) == [j \in DOMAIN row |-> (row[j] - c * other[j]) % P]

\* The rows that can be the pivot of a column.
pivot_of(rows, column) == {i \in DOMAIN rows : rows[i][column] # 0}

\* The rows of the matrix and of its shadow are kept as one row.  eliminate
\* moves the pivot to the front and clears its column in the other rows.
eliminate(rows, column) ==
    LET p == CHOOSE i \in pivot_of(rows, column) :
                \A j \in pivot_of(rows, column) : i <= j
        factor(row) == row[column] * inv[rows[p][column]]
    IN  <<rows[p]>> \o
        [i \in 1 .. Len(rows) - 1 |->
            LET row == rows[IF i < p THEN i ELSE i + 1]
            IN  Minus(row, factor(row), rows[p])]

\* The rows of an upper triangular matrix, <<>> when a pivot is missing.
upper_triangular(n, rows) ==
    LET step(s, column) ==
            IF s.left = <<>> \/ pivot_of(s.left, column) = {}
            THEN [done |-> <<>>, left |-> <<>>]
            ELSE LET e == eliminate(s.left, column)
                 IN  [done |-> Append(s.done, Head(e)), left |-> Tail(e)]
        s == FoldLeft(step, [done |-> <<>>, left |-> rows], [c \in 1 .. n - 1 |-> c])
    IN  s.done \o s.left

\* From the last row up, each row is normalised and cleared with those below.
reduce_to_identity(n, rows) ==
    LET below[i \in 1 .. n] ==
            LET row == VecScale(inv[rows[i][i]], rows[i])
            IN  FoldLeft(LAMBDA r, j : Minus(r, r[j], below[j]), row,
                         [k \in 1 .. n - i |-> n + 1 - k])
    IN  [i \in 1 .. n |-> below[i]]

\* invert: <<>> when there is no inverse.
invert(M) ==
    LET n  == Len(M)
        ut == upper_triangular(n, [i \in 1 .. n |-> M[i] \o make_identity(n)[i]])
    IN  IF ut = <<>> \/ \E i \in 1 .. n : ut[i][i] = 0 THEN <<>>
        ELSE [i \in 1 .. n |-> SubSeq(reduce_to_identity(n, ut)[i], n + 1, 2 * n)]
----------------------------------------------------------------------------
(* mds.rs                                                                  *)

make_prime(M) ==
    [i \in Idx |-> IF i = 1 THEN make_identity(T)[1] ELSE <<0>> \o Tail(M[i])]

\* The dense first column and first row of M'', which is the identity else.
make_double_prime(M) ==
    LET w == [i \in 1 .. T - 1 |-> M[i + 1][1]]
    IN  [w_hat |-> <<M[1][1]>> \o left_apply(invert(minor(M)), w),
         v_rest |-> Tail(M[1])]

\* derive_mds_matrices unwraps both inverses.
Derivable(M) == invert(M) # <<>> /\ invert(minor(M)) # <<>>

\* Mutant: the matrix of the round is replaced and not multiplied.
factor_to_sparse_mut(base) ==
    LET step(s, k) ==
            IF s.panicked \/ ~Derivable(s.curr) THEN [s EXCEPT !.panicked = TRUE]
            ELSE [s EXCEPT !.curr = make_prime(s.curr),
                           !.acc = <<make_double_prime(s.curr)>> \o s.acc]
    IN  FoldLeft(step, [curr |-> base, acc |-> <<>>, panicked |-> FALSE],
                 [k \in 1 .. Partial |-> k])
\* From the last partial round to the first, the matrix is M' times M'', the
\* round keeps M'' and the round before takes M' into its own matrix.
factor_to_sparse(base) ==
    LET step(s, k) ==
            IF s.panicked \/ ~Derivable(s.curr) THEN [s EXCEPT !.panicked = TRUE]
            ELSE [s EXCEPT !.curr = mat_mul(base, make_prime(s.curr)),
                           !.acc = <<make_double_prime(s.curr)>> \o s.acc]
    IN  FoldLeft(step, [curr |-> base, acc |-> <<>>, panicked |-> FALSE],
                 [k \in 1 .. Partial |-> k])
----------------------------------------------------------------------------
(* preprocessing.rs, with all partial rounds preprocessed as its one       *)
(* caller asks.  round_keys counts rounds from 0.                          *)

round_keys(r) == SubSeq(rc, r * T + 1, (r + 1) * T)

compress_round_constants(m_inv) ==
    LET final == HalfFull + Partial
        inverted(keys) == left_apply(m_inv, keys)
        step(s, i) ==
            [keys |-> <<inverted(s.acc)[1]>> \o s.keys,
             acc  |-> VecAdd(round_keys(final - i), <<0>> \o Tail(inverted(s.acc)))]
        s == FoldLeft(step, [keys |-> <<>>, acc |-> round_keys(final)],
                      [i \in 1 .. Partial |-> i])
    IN  round_keys(0)
        \o FlattenSeq([i \in 1 .. HalfFull - 1 |-> inverted(round_keys(i))])
        \o inverted(s.acc) \o s.keys
        \o FlattenSeq([i \in 1 .. HalfFull - 1 |-> inverted(round_keys(final + i))])
----------------------------------------------------------------------------
(* The layers of a round.                                                  *)

sbox(x) == (x * x * x * x * x) % P

product_with_matrix(M, el) == left_apply(transpose(M), el)

product_with_sparse(S, el) ==
    <<Dot(S.w_hat, el)>> \o
    [j \in 1 .. T - 1 |-> (el[j + 1] + S.v_rest[j] * el[1]) % P]

\* round_product_mds, and product_mds of the circuit, which only differ in
\* the side the dense matrix is applied from.
round_product(r, el, dense) ==
    IF r = HalfFull - 1 THEN product_with_matrix(constants.pre_sparse, el)
    ELSE IF r > HalfFull - 1 /\ r < HalfFull + Partial
    THEN product_with_sparse(constants.sparse[r - (HalfFull - 1)], el)
    ELSE dense

\* hash_optimized_static starts with the first keys.
add_round_constants(el, crc) == [i \in Idx |-> (el[i] + crc[i]) % P]

IsPartial(r) == r \in HalfFull .. HalfFull + Partial - 1
IsLast(r) == r = Rounds - 1
----------------------------------------------------------------------------
Init ==
    /\ m \in Matrices /\ rc \in RoundConstants
    /\ constants = <<>> /\ stage = "new" /\ round = 0
    /\ plain \in Preimages
    /\ native = <<>> /\ generator = <<>> /\ circuit = <<>>

\* new_from_parameters, and the elements of a sponge to permute.
New ==
    /\ stage = "new"
    /\ LET s == factor_to_sparse(transpose(m))
       IN  IF ~Derivable(m) \/ s.panicked
           THEN /\ stage' = "panicked"
                /\ UNCHANGED <<constants, native, generator, circuit>>
           ELSE /\ constants' = [crc |-> compress_round_constants(invert(m)),
                                 pre_sparse |-> s.curr, sparse |-> s.acc]
                /\ stage' = "hashing"
                /\ native' = [el |-> add_round_constants(plain, constants'.crc), offset |-> T]
                /\ generator' = [el |-> plain, offset |-> 0, aux |-> <<>>]
                /\ circuit' = [el |-> plain, offset |-> 0, sat |-> TRUE]
    /\ UNCHANGED <<m, rc, round, plain>>

PlainRound(r) ==
    LET el == VecAdd(plain, round_keys(r))
    IN  left_apply(m, [i \in Idx |-> IF IsPartial(r) /\ i > 1 THEN el[i] ELSE sbox(el[i])])

\* full_round and partial_round of the native hash.
NativeRound(r) ==
    LET n == IF IsPartial(r) THEN 1 ELSE T
        key(i) == IF IsLast(r) THEN 0 ELSE constants.crc[native.offset + i]
        el == [i \in Idx |-> IF i > n THEN native.el[i] ELSE (sbox(native.el[i]) + key(i)) % P]
    IN  [el |-> round_product(r, el, left_apply(m, el)),
         offset |-> native.offset + IF IsLast(r) THEN 0 ELSE n]

\* generate_witness_into writes three variables for every S-box.
triple(l, post) ==
    LET l2 == (l * l) % P    l4 == (l2 * l2) % P
    IN  <<l2, l4, (l4 * l + post) % P>>
Generated(t, product(_), used) ==
    LET el == [i \in Idx |-> IF i <= Len(t) THEN t[i][3] ELSE generator.el[i]]
    IN  [el |-> product(el), offset |-> generator.offset + used,
         aux |-> generator.aux \o FlattenSeq(t)]

GeneratorInitial(r) ==
    LET x == generator.el    c == constants.crc    o == generator.offset
        M == IF r = HalfFull - 1 THEN constants.pre_sparse ELSE m
    IN  Generated([i \in Idx |-> IF r = 0 THEN triple(x[i] + c[i], c[T + i])
                                 ELSE triple(x[i], c[o + i])],
                  LAMBDA el : product_with_matrix(M, el), IF r = 0 THEN 2 * T ELSE T)
GeneratorPartial(r) ==
    Generated(<<triple(generator.el[1], constants.crc[generator.offset + 1])>>,
              LAMBDA el : product_with_sparse(constants.sparse[r - HalfFull + 1], el), 1)
GeneratorFinal(r) ==
    Generated([i \in Idx |-> triple(generator.el[i],
                 IF IsLast(r) THEN 0 ELSE constants.crc[generator.offset + i])],
              LAMBDA el : product_with_matrix(m, el), IF IsLast(r) THEN 0 ELSE T)

GeneratorRound(r) ==
    IF r < HalfFull THEN GeneratorInitial(r)
    ELSE IF IsPartial(r) THEN GeneratorPartial(r) ELSE GeneratorFinal(r)

\* The constraints on the variables of one S-box.
quintic_s_box(l, a, post) ==
    /\ (l * l) % P = a[1]
    /\ (a[1] * a[1]) % P = a[2]
    /\ (l * a[2]) % P = (a[3] - post) % P

\* The variables the circuit allocates in a round, after those of the rounds
\* before it, take what the generator wrote there.
CircuitRound(r, aux) ==
    LET n == IF IsPartial(r) THEN 1 ELSE T
        o == circuit.offset + IF r = 0 THEN T ELSE 0
        a(i) == SubSeq(aux, Len(generator.aux) + 3 * i - 2, Len(generator.aux) + 3 * i)
        pre(i)  == IF r = 0 THEN constants.crc[i] ELSE 0
        post(i) == IF IsLast(r) THEN 0 ELSE constants.crc[o + i]
        el == [i \in Idx |-> IF i > n THEN circuit.el[i] ELSE a(i)[3]]
    IN  [el |-> round_product(r, el, product_with_matrix(m, el)),
         offset |-> o + IF IsLast(r) THEN 0 ELSE n,
         sat |-> circuit.sat /\ \A i \in 1 .. n :
                    quintic_s_box(circuit.el[i] + pre(i), a(i), post(i))]

Round ==
    /\ stage = "hashing" /\ round < Rounds
    /\ plain' = PlainRound(round)
    /\ native' = NativeRound(round)
    /\ generator' = GeneratorRound(round)
    /\ circuit' = CircuitRound(round, generator'.aux)
    /\ round' = round + 1
    /\ UNCHANGED <<m, rc, constants, stage>>

Next == New \/ Round

Spec == Init /\ [][Next]_vars
----------------------------------------------------------------------------
NativeAgrees == native.el = plain /\ native.offset = Len(constants.crc)
CircuitAgrees == circuit.sat /\ circuit.el = plain /\ generator.el = plain

Done == stage = "hashing" /\ round = Rounds
Singular(M) ==
    \E v \in [DOMAIN M -> F] :
        (\E i \in DOMAIN M : v[i] # 0) /\ \A i \in DOMAIN M : Dot(M[i], v) = 0

(* With a symmetric matrix, which generate_mds makes, the optimised        *)
(* permutation is the one of the paper in all three implementations, all   *)
(* preprocessed constants are consumed and the generated witness satisfies *)
(* the circuit.  No matrix is refused unless it, or its minor, has no      *)
(* inverse: every matrix met while factoring it has one then.              *)
PermutationAgrees ==
    /\ Done => NativeAgrees /\ (m = transpose(m) => CircuitAgrees)
    /\ stage = "panicked" => Singular(m) \/ Singular(minor(m))
=============================================================================
