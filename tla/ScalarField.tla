---------------------------- MODULE ScalarField ----------------------------
(***************************************************************************)
(* The scalars of an Engine (trait Engine of src/traits/mod.rs; the field  *)
(* itself comes from the ff and halo2curves crates).  Only the laws the    *)
(* code relies on are assumed, so a theorem proved from this module holds  *)
(* for the scalar field of every curve; a TLC run takes integers modulo a  *)
(* small prime.                                                            *)
(***************************************************************************)
EXTENDS Naturals

CONSTANTS
    Scalar,          \* the carrier, E::Scalar
    Zero, One,       \* Scalar::ZERO and Scalar::ONE
    FieldAdd(_, _), FieldMul(_, _), FieldNeg(_)

a ++ b == FieldAdd(a, b)
a ** b == FieldMul(a, b)
a -- b == a ++ FieldNeg(b)

\* The scalars form a commutative ring with One.
ASSUME RingAssumption ==
    /\ Zero \in Scalar /\ One \in Scalar
    /\ \A a, b \in Scalar : a ++ b \in Scalar /\ a ** b \in Scalar
    /\ \A a \in Scalar : FieldNeg(a) \in Scalar
    /\ \A a, b \in Scalar : a ++ b = b ++ a /\ a ** b = b ** a
    /\ \A a, b, c \in Scalar : (a ++ b) ++ c = a ++ (b ++ c)
    /\ \A a, b, c \in Scalar : (a ** b) ** c = a ** (b ** c)
    /\ \A a, b, c \in Scalar : a ** (b ++ c) = (a ** b) ++ (a ** c)
    /\ \A a \in Scalar : a ++ Zero = a /\ One ** a = a
    /\ \A a \in Scalar : a ++ FieldNeg(a) = Zero

\* The ring is a field: no two non-zero scalars have a zero product.
ASSUME DomainAssumption ==
    /\ Zero # One
    /\ \A a, b \in Scalar : a ** b = Zero => a = Zero \/ b = Zero

\* The sum and the product of the scalars f[0], ..., f[n - 1].
Sum(n, f) ==
    LET s[k \in 0 .. n] == IF k = 0 THEN Zero ELSE s[k - 1] ++ f[k - 1]
    IN  s[n]
Product(n, f) ==
    LET p[k \in 0 .. n] == IF k = 0 THEN One ELSE p[k - 1] ** f[k - 1]
    IN  p[n]

\* x + r * y, the weighted sum every fold of this code base is made of.
Axpy(x, r, y) == [i \in DOMAIN x |-> x[i] ++ (r ** y[i])]
============================================================================
