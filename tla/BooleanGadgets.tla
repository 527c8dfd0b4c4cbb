--------------------------- MODULE BooleanGadgets ---------------------------
(***************************************************************************)
(* The gadgets circuits are built from: allocated bits and Booleans        *)
(* (src/frontend/gadgets/boolean.rs), allocated numbers (num.rs) and the   *)
(* selections of src/gadgets/utils.rs.                                     *)
(*                                                                         *)
(* A gadget allocates variables and constrains them.  It is modelled by    *)
(* the set of results its constraints allow, over all values of the        *)
(* variables it allocates: what a prover who is not bound to the generated *)
(* witness can make of it.  Its arguments are values of variables that are *)
(* constrained already.                                                    *)
(***************************************************************************)
EXTENDS PrimeField

\* Sets of allowed values, one gadget after the other.
Then(S, f(_)) == UNION {f(s) : s \in S}
\* The result of a gadget that allows one.
The(S) == CHOOSE s \in S : TRUE
----------------------------------------------------------------------------
(* AllocatedBit.                                                           *)

alloc_bit == {a \in F : ((1 - a) * a) % P = 0}
alloc_conditionally(must_be_false) == {a \in F : ((1 - must_be_false - a) * a) % P = 0}
\* Each of these has the constraint x * y = z, with its result alone in z.
Solves(x, y, rest) == {(x * y + rest) % P}
bit_xor(a, b)     == Solves(-2 * a, b, a + b)
bit_and(a, b)     == Solves(a, b, 0)
bit_and_not(a, b) == Solves(a, 1 - b, 0)
bit_nor(a, b)     == Solves(1 - a, 1 - b, 0)
----------------------------------------------------------------------------
(* Boolean: a bit, the negation of a bit, or a constant.                   *)

Boolean(kind, v) == [kind |-> kind, v |-> v]
Is(S) == {Boolean("is", c) : c \in S}
const(b, v) == b.kind = "const" /\ b.v = v

lc(b) == IF b.kind = "not" THEN (1 - b.v) % P ELSE b.v
not(b) == CASE b.kind = "const" -> Boolean("const", 1 - b.v)
            [] b.kind = "is"    -> Boolean("not", b.v)
            [] b.kind = "not"   -> Boolean("is", b.v)
Nots(S) == {not(b) : b \in S}

\* The arms of a match are tried in order.
\* Of two arguments in either order, the one that is not the constant v.
other(a, b, v) == IF const(a, v) THEN b ELSE a

xor(a, b) ==
    IF const(a, 0) \/ const(b, 0) THEN {other(a, b, 0)}
    ELSE IF const(a, 1) \/ const(b, 1) THEN {not(other(a, b, 1))}
    ELSE IF a.kind # b.kind THEN Nots(Is(bit_xor(a.v, b.v)))
    ELSE Is(bit_xor(a.v, b.v))

and(a, b) ==
    IF const(a, 0) \/ const(b, 0) THEN {Boolean("const", 0)}
    ELSE IF const(a, 1) \/ const(b, 1) THEN {other(a, b, 1)}
    ELSE IF a.kind = "is" /\ b.kind = "not" THEN Is(bit_and_not(a.v, b.v))
    ELSE IF a.kind = "not" /\ b.kind = "is" THEN Is(bit_and_not(b.v, a.v))
    ELSE IF a.kind = "not" /\ b.kind = "not" THEN Is(bit_nor(a.v, b.v))
    ELSE Is(bit_and(a.v, b.v))

or(a, b) == Nots(and(not(a), not(b)))

\* The bits a Boolean allows with another are constrained to be equal.
enforce_equal(a, b) ==
    IF a.kind = "const" /\ b.kind = "const" THEN a.v = b.v
    ELSE IF const(a, 1) \/ const(b, 1) THEN (1 - lc(other(a, b, 1))) % P = 0
    ELSE IF const(a, 0) \/ const(b, 0) THEN lc(other(a, b, 0)) = 0
    ELSE (lc(a) - lc(b)) % P = 0

\* The reference functions, on 0 and 1.
ch(a, b, c)  == IF a = 1 THEN b ELSE c
maj(a, b, c) == IF a + b + c > 1 THEN 1 ELSE 0

constants(a, b, c) == a.kind = "const" /\ b.kind = "const" /\ c.kind = "const"

\* (a and b) xor ((not a) and c)
sha256_ch(a, b, c) ==
    IF constants(a, b, c) THEN {Boolean("const", ch(a.v, b.v, c.v))}
    ELSE IF const(a, 0) THEN {c}
    ELSE IF const(b, 0) THEN and(not(a), c)
    ELSE IF const(c, 0) THEN and(a, b)
    ELSE IF const(c, 1) THEN Nots(and(a, not(b)))
    ELSE IF const(b, 1) THEN Nots(and(not(a), not(c)))
    ELSE Is(Solves(lc(b) - lc(c), lc(a), lc(c)))

\* (a and b) xor (a and c) xor (b and c)
sha256_maj(a, b, c) ==
    IF constants(a, b, c) THEN {Boolean("const", maj(a.v, b.v, c.v))}
    ELSE IF const(a, 0) THEN and(b, c)
    ELSE IF const(b, 0) THEN and(a, c)
    ELSE IF const(c, 0) THEN and(a, b)
    ELSE IF const(c, 1) THEN Nots(and(not(a), not(b)))
    ELSE IF const(b, 1) THEN Nots(and(not(a), not(c)))
    ELSE IF const(a, 1) THEN Nots(and(not(b), not(c)))
    ELSE UNION {Is(Solves(lc(b) + lc(c) - 2 * lc(bc), lc(a), lc(bc))) : bc \in and(b, c)}
----------------------------------------------------------------------------
(* AllocatedNum.  Bits of numbers are sequences, the lowest first.         *)

bits_of(n) ==
    LET half[k \in 0 .. n] == IF k = 0 THEN n ELSE half[k - 1] \div 2
        len == CHOOSE k \in 0 .. n : half[k] = 0 /\ \A j \in 0 .. k - 1 : half[j] > 0
    IN  [k \in 1 .. len |-> half[k - 1] % 2]
NUM_BITS == Len(bits_of(P))

packed(bits) ==
    LET high[k \in 0 .. Len(bits)] ==
            IF k = 0 THEN 0 ELSE bits[Len(bits) + 1 - k] + 2 * high[k - 1]
    IN  high[Len(bits)]

num_add(x, y) == Solves(x + y, 1, 0)
num_mul(x, y) == Solves(x, y, 0)
square(x)     == Solves(x, x, 0)
inputize(x)   == Solves(x, 1, 0)
\* Nothing is returned: the inverses that are allowed.
assert_nonzero(x) == {i \in F : (x * i) % P = 1}

conditionally_reverse(x, y, cond) ==
    {r \in F \X F : /\ ((x - y) * lc(cond)) % P = (x - r[1]) % P
                    /\ ((y - x) * lc(cond)) % P = (y - r[2]) % P}

kary_and(v) ==
    LET upto[k \in 1 .. Len(v)] ==
            IF k = 1 THEN {v[1]} ELSE UNION {bit_and(a, v[k]) : a \in upto[k - 1]}
    IN  upto[Len(v)]

\* Mutant: the run before the last one is forgotten.
ones_so_far_mut(s) == IF s.run = <<>> THEN ToSet(s.last) ELSE kary_and(s.run)
\* Whether all bits where -1 has a one are ones: the last run and those before.
ones_so_far(s) == IF s.run = <<>> THEN ToSet(s.last) ELSE kary_and(s.run \o s.last)

\* From the highest bit of -1 down: a bit of a run of ones is free, the bits
\* of zeros after it are zero if all ones so far were.
strict_bit(s, b) ==
    IF b = 1
    THEN {[s EXCEPT !.bits = Append(@, a), !.run = Append(@, a)] : a \in alloc_bit}
    ELSE UNION {{[bits |-> Append(s.bits, a), run |-> <<>>, last |-> <<r>>] :
                    a \in alloc_conditionally(r)} : r \in ones_so_far(s)}
to_bits_le_strict(x) ==
    LET minus_one == Reverse(bits_of(P - 1))
        all[k \in 0 .. Len(minus_one)] ==
            IF k = 0 THEN {[bits |-> <<>>, run |-> <<>>, last |-> <<>>]}
            ELSE UNION {strict_bit(s, minus_one[k]) : s \in all[k - 1]}
    IN  {bits \in {Reverse(s.bits) : s \in all[Len(minus_one)]} : packed(bits) % P = x}

field_into_allocated_bits_le == [1 .. NUM_BITS -> alloc_bit]
to_bits_le(x) == {bits \in field_into_allocated_bits_le : packed(bits) % P = x}
----------------------------------------------------------------------------
(* src/gadgets/utils.rs.  A condition c is the value of a Boolean or of a  *)
(* number that is 0 or 1.                                                  *)

le_bits_to_num(bits) == {n \in F : (packed(bits) - n) % P = 0}
alloc_num_equals(x, y) ==
    {r \in alloc_bit : /\ \E t \in F : (t * (x - y)) % P = (1 - r) % P
                       /\ (r * (x - y)) % P = 0}
conditionally_select(x, y, c) == Solves(x - y, c, y)
select_zero_or_num2(x, c)     == Solves(x, 1 - c, 0)
select_num_or_zero(x, c)      == Solves(x, c, 0)
select_one_or_num2(x, c)      == Solves(1 - x, c, x)
select_one_or_diff2(x, y, c)  == Solves(1 - x + y, c, x - y)
select_num_or_one(x, c)       == Solves(x - 1, c, 1)
=============================================================================
