---------------------------- MODULE FieldLimbs ----------------------------
(***************************************************************************)
(* The 256-bit field arithmetic of fortran/src/field_ops.f90, with limbs   *)
(* of any width.  A limb is a signed integer that wraps: sums and          *)
(* differences are those of unsigned limbs, comparisons are not.           *)
(***************************************************************************)
EXTENDS Integers, Sequences

CONSTANTS
    Half,           \* the values of half a limb (2^32)
    NLIMBS,         \* limbs of an element (4)
    P               \* the modulus, below a quarter of the values of NLIMBS limbs

ASSUME LimbsAssumption == Half \in Nat \ {0} /\ NLIMBS \in Nat \ {0} /\ P \in Nat \ {0}

VARIABLES
    left, right,        \* the operands of the last call
    called, returned    \* which call it was and what it returned

limb_vars == <<left, right, called, returned>>

Base == Half * Half
Idx  == 1 .. NLIMBS
Limb == 0 .. Base - 1

\* The operands, and the products before they are reduced.
Words == [Idx -> Limb]
Wide  == [1 .. 2 * NLIMBS -> Limb]

\* What a limb counts for, from the least significant on.
weight[k \in 0 .. 2 * NLIMBS] == IF k = 0 THEN 1 ELSE weight[k - 1] * Base
R == weight[NLIMBS]

wrap(x)   == x % Base
signed(x) == IF x >= Base \div 2 THEN x - Base ELSE x
lt(x, y)  == signed(x) < signed(y)
le(x, y)  == signed(x) <= signed(y)

\* What limbs stand for, and the n limbs of a number.
Value(s) == LET upto[k \in 0 .. Len(s)] ==
                    IF k = 0 THEN 0 ELSE upto[k - 1] + s[k] * weight[k - 1]
            IN  upto[Len(s)]
LimbsOf(x, n) == [k \in 1 .. n |-> (x \div weight[k - 1]) % Base]

MODULUS == LimbsOf(P, NLIMBS)
P_PRIME == CHOOSE x \in Limb : (x * P + 1) % Base = 0
R_SQUARED_MOD_P == LimbsOf((R * R) % P, NLIMBS)
----------------------------------------------------------------------------
field_zero == [k \in Idx |-> 0]
field_one  == [k \in Idx |-> IF k = 1 THEN 1 ELSE 0]

\* The most significant limb that differs decides.
field_compare(x, y) ==
    LET D == {k \in Idx : x[k] # y[k]}
        k == CHOOSE m \in D : \A n \in D : n <= m
    IN  IF D = {} THEN 0 ELSE IF lt(x[k], y[k]) THEN -1 ELSE 1

field_gte_modulus(x) == field_compare(x, MODULUS) >= 0

field_sub_no_borrow(x, y) ==
    LET borrow[k \in 0 .. NLIMBS] ==
            IF k = 0 THEN 0
            ELSE IF lt(x[k], wrap(y[k] + borrow[k - 1])) THEN 1 ELSE 0
    IN  [k \in Idx |-> wrap(x[k] - y[k] - borrow[k - 1])]

field_add_no_reduce(x, y) ==
    LET carry[k \in 0 .. NLIMBS] ==
            LET sum_low == wrap(x[k] + y[k] + carry[k - 1])
            IN  IF k = 0 THEN 0
                ELSE IF lt(sum_low, x[k]) \/ (carry[k - 1] > 0 /\ le(sum_low, x[k]))
                     THEN 1 ELSE 0
    IN  [k \in Idx |-> wrap(x[k] + y[k] + carry[k - 1])]

field_add(x, y) ==
    LET c == field_add_no_reduce(x, y)
    IN  IF field_gte_modulus(c) THEN field_sub_no_borrow(c, MODULUS) ELSE c

field_sub(x, y) ==
    LET sub[a \in Words, b \in Words] ==
            IF field_compare(a, b) >= 0 THEN field_sub_no_borrow(a, b)
            ELSE field_sub_no_borrow(MODULUS, field_sub_no_borrow(b, a))
    IN  sub[x, y]

\* Mutant: the carry out of the middle products is dropped.
mul64_mut(x, y) ==
    LET x_lo == x % Half    x_hi == x \div Half
        y_lo == y % Half    y_hi == y \div Half
        carry == wrap((x_lo * y_lo) \div Half + ((x_lo * y_hi) % Half) + ((x_hi * y_lo) % Half))
    IN  [lo |-> wrap(((x_lo * y_lo) % Half) + (carry % Half) * Half),
         hi |-> wrap(x_hi * y_hi + (x_lo * y_hi) \div Half + (x_hi * y_lo) \div Half)]
\* The product of two limbs, from products of half limbs.
mul64(x, y) ==
    LET x_lo == x % Half    x_hi == x \div Half
        y_lo == y % Half    y_hi == y \div Half
        p0 == wrap(x_lo * y_lo)    p1 == wrap(x_lo * y_hi)
        p2 == wrap(x_hi * y_lo)    p3 == wrap(x_hi * y_hi)
        carry == wrap(p0 \div Half + (p1 % Half) + (p2 % Half))
    IN  [lo |-> wrap((p0 % Half) + (carry % Half) * Half),
         hi |-> wrap(p3 + p1 \div Half + p2 \div Half + carry \div Half)]

\* The carry of sum, a limb that was x before lo and carry were added to it.
next_carry(sum, x, carry, hi) ==
    IF lt(sum, x) \/ (signed(carry) > 0 /\ le(sum, x)) THEN wrap(hi + 1) ELSE hi

\* x * y, row by row: row i adds x[i] * y, from column k on.
product[x \in Words, y \in Words] ==
    LET row[t \in Wide, i \in Idx, k \in 1 .. NLIMBS + 1, carry \in Limb] ==
            LET m == i + k - 1
                h == mul64(x[i], y[k])
                sum == wrap(t[m] + h.lo + carry)
            IN  IF k > NLIMBS THEN [t EXCEPT ![i + NLIMBS] = wrap(@ + carry)]
                ELSE row[[t EXCEPT ![m] = sum], i, k + 1,
                         next_carry(sum, h.lo, carry, h.hi)]
        rows[t \in Wide, i \in 1 .. NLIMBS + 1] ==
            IF i > NLIMBS THEN t ELSE rows[row[t, i, 1, 0], i + 1]
    IN  rows[[n \in 1 .. 2 * NLIMBS |-> 0], 1]

\* Row i adds the multiple u of the modulus that clears column i.
montgomery_reduce[prod \in Wide] ==
    LET row[t \in Wide, i \in Idx, u \in Limb, k \in 1 .. NLIMBS + 1, carry \in Limb] ==
            LET m == i + k - 1
                h == mul64(u, MODULUS[k])
                sum == wrap(t[m] + h.lo + carry)
            IN  IF k > NLIMBS THEN [t EXCEPT ![i + NLIMBS] = wrap(@ + carry)]
                ELSE row[[t EXCEPT ![m] = sum], i, u, k + 1,
                         next_carry(sum, t[m], carry, h.hi)]
        rows[t \in Wide, i \in 1 .. NLIMBS + 1] ==
            IF i > NLIMBS THEN t
            ELSE rows[row[t, i, wrap(t[i] * P_PRIME), 1, 0], i + 1]
        reduced[hi \in Words] ==
            IF field_gte_modulus(hi) THEN field_sub_no_borrow(hi, MODULUS) ELSE hi
    IN  reduced[SubSeq(rows[prod, 1], NLIMBS + 1, 2 * NLIMBS)]

to_montgomery(x)   == montgomery_reduce[product[x, R_SQUARED_MOD_P]]
from_montgomery(x) == montgomery_reduce[[k \in Idx |-> 0] \o x]

field_mul_mont_b(x, y_mont) ==
    from_montgomery(montgomery_reduce[product[to_montgomery(x), y_mont]])
field_mul(x, y) == field_mul_mont_b(x, to_montgomery(y))
----------------------------------------------------------------------------
(* A caller calls one of the operations.  Elements are reduced, the limbs  *)
(* mul64 multiplies are any.                                               *)

Element == {LimbsOf(v, NLIMBS) : v \in 0 .. P - 1}

LimbsInit ==
    left = LimbsOf(0, NLIMBS) /\ right = left /\ called = "none" /\ returned = left

Called(name, x, y, z) ==
    called = "none" /\ left' = x /\ right' = y /\ called' = name /\ returned' = z

CallMul64(x, y)          == LET p == mul64(x, y)
                        IN  Called("mul64", <<x>>, <<y>>, <<p.lo, p.hi>>)
CallCompare(x, y)        == Called("compare", x, y, <<field_compare(x, y)>>)
CallAdd(x, y)            == Called("add", x, y, field_add(x, y))
CallSubNoBorrow(x, y)    == Called("sub_no_borrow", x, y, field_sub_no_borrow(x, y))
CallSub(x, y)            == Called("sub", x, y, field_sub(x, y))
CallFromMontgomery(x)    == Called("from_montgomery", x, x, from_montgomery(x))
CallMul(x, y)            == Called("mul", x, y, field_mul(x, y))

LimbsNext ==
    \/ \E x, y \in Limb : CallMul64(x, y)
    \/ \E x, y \in Element :
          \/ CallCompare(x, y) \/ CallAdd(x, y) \/ CallSubNoBorrow(x, y) \/ CallSub(x, y)
          \/ CallMul(x, y)
    \/ \E x \in Element : CallFromMontgomery(x)

LimbsSpec == LimbsInit /\ [][LimbsNext]_limb_vars
----------------------------------------------------------------------------
(* mul64 returns the whole product, whatever the two limbs: none of the    *)
(* half products or their sum overflows.                                   *)
Mul64Exact == called = "mul64" => Value(returned) = Value(left) * Value(right)

\* The limbs for which a signed comparison is one of unsigned limbs, with
\* room for a borrow.
Small(x) == \A k \in Idx : x[k] < Base \div 2 - 1

(* field_sub_no_borrow is exact as its comment says, for a >= b, as long   *)
(* as no limb reaches the sign bit.                                        *)
SubNoBorrowExact ==
    called = "sub_no_borrow" /\ Small(left) /\ Small(right) /\ Value(left) >= Value(right)
        => Value(returned) = Value(left) - Value(right)

(* mul64 is exact, and so is the subtraction by limbs where no limb comes  *)
(* near the sign bit.  The modulus of BN256 has limbs that do.             *)
LimbsExact == Mul64Exact /\ SubNoBorrowExact

(* field_compare: "returns -1 if a < b, 0 if a == b, 1 if a > b", which    *)
(* the README says works for BN256, "all limbs < 2^63".                    *)
CompareIsOrder ==
    called = "compare" =>
        returned = <<IF Value(left) < Value(right) THEN -1 ELSE IF left = right THEN 0 ELSE 1>>

(* from_montgomery: "a_normal = a_mont * R^-1 mod p". *)
FromMontgomeryNormal ==
    called = "from_montgomery" => (Value(returned) * R) % P = Value(left)
============================================================================
