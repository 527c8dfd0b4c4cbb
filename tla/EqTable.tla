------------------------------ MODULE EqTable ------------------------------
(***************************************************************************)
(* EqPolynomial::evals_from_points (src/spartan/polys/eq.rs): the table of *)
(* eq(x, r) over the hypercube, doubled once for every entry of r, from    *)
(* the last to the first.  In the Rust code the two halves are disjoint    *)
(* borrows, so a doubling is one step.                                     *)
(*                                                                         *)
(* The product and the difference are parameters.  Those of the Rust code  *)
(* come from the ff crate and are a field's (FieldArithmetic); what only   *)
(* depends on the order of the operations holds of any.                    *)
(***************************************************************************)
EXTENDS Integers, Sequences

CONSTANTS
    Scalar, ONE,                \* the scalars of r, and Scalar::ONE
    times(_, _), minus(_, _),   \* * and -
    MaxEll                      \* the longest r (bound of the model)

VARIABLES
    point,              \* r, a sequence of scalars
    rest,               \* how many entries of it are not used yet
    table               \* the evaluations so far, from index 1

EqInit ==
    /\ point \in UNION {[1 .. n -> Scalar] : n \in 0 .. MaxEll}
    /\ rest = Len(point)
    /\ table = <<ONE>>

\* Mutant: from the first entry to the last.
Double_mut ==
    LET size == Len(table)
        r    == point[Len(point) + 1 - rest]
    IN  /\ rest > 0 /\ rest' = rest - 1
        /\ table' = [x \in 1 .. 2 * size |->
                        IF x <= size THEN minus(table[x], times(table[x], r))
                        ELSE times(table[x - size], r)]
        /\ UNCHANGED point
Double ==
    LET size == Len(table)
        r    == point[rest]
    IN  /\ rest > 0 /\ rest' = rest - 1
        /\ table' = [x \in 1 .. 2 * size |->
                        IF x <= size THEN minus(table[x], times(table[x], r))
                        ELSE times(table[x - size], r)]
        /\ UNCHANGED point

Ell == Len(point)

EqSpec == EqInit /\ [][Double]_<<point, rest, table>>
----------------------------------------------------------------------------
\* What the proof of TableIsEq asks of the arithmetic; every field has it.
FieldArithmetic ==
    /\ ONE \in Scalar
    /\ \A a, b \in Scalar :
          /\ times(a, b) \in Scalar /\ minus(a, b) \in Scalar
          /\ minus(a, times(a, b)) = times(a, minus(ONE, b))

\* Bit k of the index x, counted from 0, where bit 0 goes with the last of r.
Bit(x, k) == ((x - 1) \div 2 ^ k) % 2

\* The product over the entries k + 1 .. Ell of r of the formula in eq.rs.
eq(k, x) ==
    LET e[j \in k .. Ell] ==
            IF j = Ell THEN ONE
            ELSE times(e[j + 1], IF Bit(x, Ell - (j + 1)) = 1 THEN point[j + 1]
                                 ELSE minus(ONE, point[j + 1]))
    IN  e[k]

(* The table of the Rust code is the equality polynomial of the part of r  *)
(* that was used, with the first entry of r as the most significant bit    *)
(* (the doc comment of EqPolynomial: 6 = 0b110 is r = [1, 1, 0]).          *)
TableIsEq ==
    /\ Len(table) = 2 ^ (Ell - rest)
    /\ \A x \in DOMAIN table : table[x] = eq(rest, x)
============================================================================
