----------------------------- MODULE R1CSShape -----------------------------
(***************************************************************************)
(* The shape of an R1CS (src/r1cs/mod.rs) and its matrices in compressed   *)
(* rows (src/r1cs/sparse.rs): construction, the iterator R1CSShape::new    *)
(* checks the indices with, multiplication and the padding the final       *)
(* SNARKs ask for.  The three matrices are treated alike, the model has    *)
(* one; its entries are 0 or 1.  Rows and columns count from 0.            *)
(***************************************************************************)
EXTENDS Integers, SequencesExt

CONSTANTS MaxCons, MaxVars, MaxIO, MaxEntries   \* bounds of the model

ASSUME BoundsAssumption == MaxCons \in Nat /\ MaxVars \in Nat /\ MaxIO \in Nat

VARIABLES
    coo,          \* the entries <<row, col>>, in order, a caller makes the matrix from
    rows,         \* the rows it makes it with
    shape,        \* R1CSShape::new's result
    padded,       \* and pad's
    stage         \* "coo", "rejected", "shape", "padded"

vars == <<coo, rows, shape, padded, stage>>
----------------------------------------------------------------------------
(* r1cs/sparse.rs                                                          *)

\* The columns of each row, pushed entry by entry.
pushed(entries, n) ==
    LET after[k \in 0 .. Len(entries)] ==
            IF k = 0 THEN [r \in 1 .. n |-> <<>>]
            ELSE [after[k - 1] EXCEPT ![entries[k][1] + 1] = Append(@, entries[k][2])]
    IN  after[Len(entries)]

\* Where each row begins, and the rows one after the other.
starts(new_matrix, n) ==
    LET upto[k \in 0 .. n] == IF k = 0 THEN 0 ELSE upto[k - 1] + Len(new_matrix[k])
    IN  [k \in 1 .. n + 1 |-> upto[k - 1]]
joined(new_matrix, n) ==
    LET first[k \in 0 .. n] == IF k = 0 THEN <<>> ELSE first[k - 1] \o new_matrix[k]
    IN  first[n]

SparseMatrix(entries, n, cols) ==
    [indices |-> joined(pushed(entries, n), n), indptr |-> starts(pushed(entries, n), n),
     cols |-> cols]

\* Mutant: an empty row between two others is not skipped.
skip_mut(indptr, row, i) ==
    IF i > 0 /\ i >= indptr[row + 1] THEN row + 1
    ELSE CHOOSE k \in row .. Len(indptr) - 1 :
            i < indptr[k + 1] /\ \A j \in row .. k - 1 : indptr[j + 1] <= i
\* The row moves on past the rows that end where item i, from 0, begins.
skip(indptr, row, i) ==
    CHOOSE k \in row .. Len(indptr) - 1 :
        i < indptr[k + 1] /\ \A j \in row .. k - 1 : indptr[j + 1] <= i

\* Iter: the items, with the row it is in at each.
iter(M) ==
    LET at[i \in 0 .. Len(M.indices)] ==
            IF i = 0 THEN 1 ELSE skip(M.indptr, at[i - 1], i - 1)
    IN  [i \in 1 .. Len(M.indices) |-> <<at[i] - 1, M.indices[i]>>]

sum(s) == LET upto[i \in 0 .. Len(s)] == IF i = 0 THEN 0 ELSE upto[i - 1] + s[i]
          IN  upto[Len(s)]
multiply_vec(M, z) ==
    [k \in 1 .. Len(M.indptr) - 1 |->
        sum([i \in 1 .. M.indptr[k + 1] - M.indptr[k] |-> z[M.indices[M.indptr[k] + i] + 1]])]
----------------------------------------------------------------------------
(* r1cs/mod.rs                                                             *)

is_valid(M, num_cons, num_vars, num_io) ==
    \A i \in DOMAIN iter(M) :
        iter(M)[i][1] < num_cons /\ iter(M)[i][2] <= num_io + num_vars

max(x, y) == IF x >= y THEN x ELSE y
powers(n) == LET p[k \in 0 .. n] == IF k = 0 THEN 1 ELSE 2 * p[k - 1] IN p
next_power_of_two(n) ==
    powers(n)[CHOOSE k \in 0 .. n : powers(n)[k] >= n /\ \A j \in 0 .. k - 1 : powers(n)[j] < n]

is_regular_shape(S) ==
    /\ next_power_of_two(S.num_cons) = S.num_cons
    /\ next_power_of_two(S.num_vars) = S.num_vars
    /\ S.num_io < S.num_vars

\* Mutant: the column of u is taken for a variable.
apply_pad_mut(S, m) ==
    LET d == m - S.num_vars
    IN  [indices |-> [i \in DOMAIN S.M.indices |->
                        IF S.M.indices[i] > S.num_vars THEN S.M.indices[i] + d
                        ELSE S.M.indices[i]],
         indptr  |-> S.M.indptr \o [k \in 1 .. m - S.num_cons |-> S.M.indptr[Len(S.M.indptr)]],
         cols    |-> S.M.cols + d]
\* New variables are put before u and the public values, new rows at the end.
apply_pad(S, m) ==
    LET d == m - S.num_vars
    IN  [indices |-> [i \in DOMAIN S.M.indices |->
                        IF S.M.indices[i] >= S.num_vars THEN S.M.indices[i] + d
                        ELSE S.M.indices[i]],
         indptr  |-> S.M.indptr \o [k \in 1 .. m - S.num_cons |-> S.M.indptr[Len(S.M.indptr)]],
         cols    |-> S.M.cols + d]

pad(S) ==
    LET m == next_power_of_two(max(max(S.num_vars, S.num_cons), S.num_io))
    IN  IF is_regular_shape(S) THEN S
        ELSE [num_cons |-> m, num_vars |-> m, num_io |-> S.num_io,
              M |-> IF S.num_vars = m THEN S.M ELSE apply_pad(S, m)]

\* z = (W, u, X), and (W, zeros, u, X) for a padded witness.
z_of(W, u, X) == W \o <<u>> \o X
pad_witness(W, S) == W \o [i \in 1 .. S.num_vars - Len(W) |-> 0]
----------------------------------------------------------------------------
NoShape == [num_cons |-> 0]

Init ==
    \E c \in 1 .. MaxCons, v \in 1 .. MaxVars, x \in 0 .. MaxIO :
        /\ shape = [num_cons |-> c, num_vars |-> v, num_io |-> x]
        /\ rows \in c .. c + 1
        /\ coo = <<>>
        /\ padded = NoShape
        /\ stage = "coo"

\* A caller lists the entries of a row in the order of their columns, as the
\* assertion of SparseMatrix::new demands, and the rows in any order.
AddEntry ==
    /\ stage = "coo"
    /\ Len(coo) < MaxEntries
    /\ \E r \in 0 .. rows - 1, c \in 0 .. shape.num_vars + shape.num_io + 1 :
          /\ \A k \in DOMAIN coo : coo[k][1] = r => coo[k][2] < c
          /\ coo' = Append(coo, <<r, c>>)
    /\ UNCHANGED <<rows, shape, padded, stage>>

matrix == SparseMatrix(coo, rows, shape.num_vars + shape.num_io + 1)

New ==
    /\ stage = "coo"
    /\ LET S == shape
       IN  IF is_valid(matrix, S.num_cons, S.num_vars, S.num_io)
           THEN /\ shape' = [num_cons |-> S.num_cons, num_vars |-> S.num_vars,
                             num_io |-> S.num_io, M |-> matrix]
                /\ stage' = "shape"
           ELSE stage' = "rejected" /\ UNCHANGED shape
    /\ UNCHANGED <<coo, rows, padded>>

Pad ==
    /\ stage = "shape"
    /\ padded' = pad(shape)
    /\ stage' = "padded"
    /\ UNCHANGED <<coo, rows, shape>>

Next == AddEntry \/ New \/ Pad

Spec == Init /\ [][Next]_vars
----------------------------------------------------------------------------
(* The iterator returns every entry of the matrix and nothing else, so that *)
(* R1CSShape::new refuses exactly the matrices with an index out of range. *)
NewChecksEveryEntry ==
    /\ stage = "rejected" =>
          \E e \in ToSet(coo) : e[1] >= shape.num_cons \/ e[2] > shape.num_io + shape.num_vars
    /\ stage = "shape" =>
          \A e \in ToSet(coo) : e[1] < shape.num_cons /\ e[2] <= shape.num_io + shape.num_vars
    /\ ToSet(iter(matrix)) = ToSet(coo) /\ Len(iter(matrix)) = Len(coo)

\* The caller makes the matrix with the rows it declares, as the constraint
\* systems of the frontend do.
Declared == rows = shape.num_cons

\* A vector whose sums tell which entries were added.
W == [i \in 1 .. shape.num_vars |-> 2 ^ i]
U == 2 ^ (shape.num_vars + 1)
X == [i \in 1 .. shape.num_io |-> 2 ^ (shape.num_vars + 1 + i)]

(* Padding a shape and its witness changes no constraint: every row of the *)
(* padded matrix is the row it was or, if it was added, empty.             *)
PadKeepsConstraints ==
    stage = "padded" /\ Declared =>
        LET old == multiply_vec(shape.M, z_of(W, U, X))
            new == multiply_vec(padded.M, z_of(pad_witness(W, padded), U, X))
        IN  /\ padded.M.cols = padded.num_vars + 1 + padded.num_io
            /\ Len(new) >= Len(old)
            /\ \A k \in DOMAIN new : new[k] = IF k \in DOMAIN old THEN old[k] ELSE 0

(* "Pads the R1CSShape so that the shape passes is_regular_shape": it does *)
(* unless the public values alone fill the size it pads to, since that     *)
(* size is chosen for num_io <= num_vars and not num_io < num_vars.        *)
PadRegular ==
    stage = "padded" =>
        LET size == next_power_of_two(max(max(shape.num_vars, shape.num_cons), shape.num_io))
        IN  is_regular_shape(padded) <=> shape.num_io # size

(* Padding does what its comment says, as far as the two facts above say.  *)
PadExact == PadKeepsConstraints /\ PadRegular

(* The assertion of is_sat_relaxed and is_sat that a product has one       *)
(* element for every constraint, for a shape that was padded.              *)
PaddedHasItsRows ==
    stage = "padded" /\ Declared => Len(padded.M.indptr) - 1 = padded.num_cons
============================================================================
