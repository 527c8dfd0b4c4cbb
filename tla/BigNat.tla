------------------------------- MODULE BigNat -------------------------------
(***************************************************************************)
(* Numbers of another field in a circuit: limbs that are variables of the  *)
(* circuit's field (src/gadgets/nonnative/bignat.rs, util.rs and their use *)
(* by fold_with_r1cs of src/nova/circuit/r1cs.rs).                         *)
(*                                                                         *)
(* As in Gadgets a gadget is the set of results its constraints allow. The *)
(* polynomial products are determined by their values at more points than  *)
(* their degree, and a carry by its equation; what is left to the prover   *)
(* are the limbs of quotients and remainders.  The logarithm of a bound is *)
(* taken exactly where the code takes it in floating point.                *)
(***************************************************************************)
EXTENDS BooleanGadgets, FiniteSetsExt

CONSTANTS
    LimbWidth, NLimbs,      \* BN_LIMB_WIDTH, BN_N_LIMBS
    NumLimbs,               \* the limbs that hold any element of the field
    Moduli,                 \* the orders of the other field
    Factors                 \* the numbers that are multiplied

VARIABLES op, args, allowed     \* as in Gadgets

vars == <<op, args, allowed>>
----------------------------------------------------------------------------
limbs_to_nat(limbs, width) == FoldRight(LAMBDA l, v : l + 2 ^ width * v, limbs, 0)
nat_to_limbs(nat, width, n) ==
    [k \in 1 .. n |-> (nat \div 2 ^ (width * (k - 1))) % 2 ^ width]
fits(nat, width, n) == nat < 2 ^ (width * n)

BigNat(limbs, width, max_word) ==
    [limbs |-> limbs, limb_width |-> width, max_word |-> max_word]
of_nat(nat, n) == BigNat(nat_to_limbs(nat, LimbWidth, n), LimbWidth, 2 ^ LimbWidth - 1)
n_bits(x) == x.limb_width * (Len(x.limbs) - 1) + Len(bits_of(x.max_word))

\* All bits but the lowest are allocated, the lowest is what is left.
fits_in_bits(v, n) ==
    \E high \in 0 .. 2 ^ Max({n - 1, 0}) - 1 : (v - 2 * high) % P \in {0, 1}

well_formed == {v \in F : fits_in_bits(v, LimbWidth)}
alloc_well_formed(n) ==
    {BigNat(limbs, LimbWidth, 2 ^ LimbWidth - 1) : limbs \in [1 .. n -> well_formed]}

\* The bits of all limbs are summed up in the field.
from_num(n) == {x \in alloc_well_formed(NumLimbs) :
                    limbs_to_nat(x.limbs, LimbWidth) % P = n}

\* Every limb is constrained to be that of the constant.
alloc_bignat_constant(v) == {of_nat(v, NLimbs)}

conditionally_select_bignat(x, y, c) ==
    {BigNat(limbs, LimbWidth, 2 ^ LimbWidth - 1) :
        limbs \in {f \in [1 .. NLimbs -> F] :
            \A k \in 1 .. NLimbs : f[k] \in Solves(x.limbs[k] - y.limbs[k], c, y.limbs[k])}}

ceil_log2(n) == Min({k \in 0 .. 30 : 2 ^ k >= n})
carry_bits(max_word, width) == Max({ceil_log2(2 * max_word) - width, 0})

\* Mutant: the carry out of the last limb is not compared.
last_carry_mut(carry, extra) == TRUE
last_carry(carry, extra) == carry = extra % P

\* The difference of the limbs plus max_word is carried from limb to limb and
\* must be what the sum of the max_words alone would carry.
equal_when_carried(x, y) ==
    LET n        == Min({Len(x.limbs), Len(y.limbs)})
        base     == 2 ^ x.limb_width
        max_word == Max({x.max_word, y.max_word})
        step(s, k) ==
            LET extra == s.extra + max_word
                carry == ((s.carry + x.limbs[k] - y.limbs[k] + max_word - (extra % base))
                            * inv[base % P]) % P
            IN [extra |-> extra \div base, carry |-> carry,
                ok |-> /\ s.ok
                       /\ IF k < n THEN fits_in_bits(carry, carry_bits(max_word, x.limb_width))
                                   ELSE last_carry(carry, extra \div base)]
    IN  /\ FoldLeft(step, [extra |-> 0, carry |-> 0, ok |-> TRUE],
                    [k \in 1 .. n |-> k]).ok
        /\ \A z \in {x, y} : \A k \in n + 1 .. Len(z.limbs) : z.limbs[k] = 0

group_limbs(x, per_group) ==
    LET part(g) == SubSeq(x.limbs, (g - 1) * per_group + 1,
                          Min({g * per_group, Len(x.limbs)}))
    IN  BigNat([g \in 1 .. (Len(x.limbs) - 1) \div per_group + 1 |->
                    limbs_to_nat(part(g), x.limb_width) % P],
               x.limb_width * per_group,
               limbs_to_nat([k \in 1 .. per_group |-> 1], x.limb_width) * x.max_word)

equal_when_carried_regroup(x, y) ==
    LET max_word  == Max({x.max_word, y.max_word})
        per_group == (NUM_BITS - 1 - carry_bits(max_word, x.limb_width)) \div x.limb_width
    IN  equal_when_carried(group_limbs(x, per_group), group_limbs(y, per_group))

At(s, k) == IF k \in DOMAIN s THEN s[k] ELSE 0
alloc_product(p, q) ==
    Tuple([k \in 1 .. Len(p) + Len(q) - 1 |->
              Sum(1, Len(p), LAMBDA j : p[j] * At(q, k + 1 - j))])
sum(p, q) == Tuple([k \in 1 .. Max({Len(p), Len(q)}) |-> (At(p, k) + At(q, k)) % P])

add(x, y) == BigNat(sum(x.limbs, y.limbs), x.limb_width, x.max_word + y.max_word)

quotient_limbs(bits) == Max({bits - 1, 0}) \div LimbWidth + 1

product_max_word(x, y) == Min({Len(x.limbs), Len(y.limbs)}) * x.max_word * y.max_word

\* q * modulus + r as a number that is compared with what is divided.
divided(q, r, modulus) ==
    BigNat(sum(alloc_product(q.limbs, modulus.limbs), r.limbs), LimbWidth,
           product_max_word(q, modulus) + r.max_word)

mult_mod(a, b, modulus) ==
    LET left == BigNat(alloc_product(a.limbs, b.limbs), LimbWidth, product_max_word(a, b))
    IN  {qr \in alloc_well_formed(quotient_limbs(n_bits(a) + n_bits(b)))
                \X alloc_well_formed(Len(modulus.limbs)) :
            equal_when_carried_regroup(left, divided(qr[1], qr[2], modulus))}

red_mod(a, modulus) ==
    {r \in alloc_well_formed(Len(modulus.limbs)) :
        \E q \in alloc_well_formed(quotient_limbs(n_bits(a))) :
            equal_when_carried_regroup(a, divided(q, r, modulus))}
----------------------------------------------------------------------------
(* A circuit makes one of these calls, or the two by which fold_with_r1cs  *)
(* folds a public value, X + r * x mod m.                                  *)

Small == 0 .. 2 ^ (LimbWidth * NLimbs) - 1
nat(x) == limbs_to_nat(x.limbs, x.limb_width)
big(v) == of_nat(v, NLimbs)

Init == op = "none" /\ args = <<>> /\ allowed = {}

Call(name, arguments, results) == op' = name /\ args' = arguments /\ allowed' = results

CallUnary == /\ op = "none"
             /\ \/ \E n \in F : Call("from_num", <<n>>, {nat(x) : x \in from_num(n)})
                \/ \E v \in Small :
                      Call("constant", <<v>>, {nat(x) : x \in alloc_bignat_constant(v)})

CallSelect == /\ op = "none"
              /\ \E x, y \in Factors, c \in {0, 1} :
                    Call("select", <<x, y, c>>,
                         {nat(z) : z \in conditionally_select_bignat(big(x), big(y), c)})

FoldMultiply ==
    /\ op = "none"
    /\ \E x, r \in Factors, m \in Moduli :
          Call("mult_mod", <<x, r, m>>,
               {<<nat(qr[1]), nat(qr[2])>> : qr \in mult_mod(big(x), big(r), big(m))})

FoldReduce ==
    /\ op = "mult_mod"
    /\ \E qr \in allowed, X \in Factors :
          LET m == args[3]
          IN  /\ X < m
              /\ Call("red_mod", <<args[1] * args[2] + X, qr[2] + X, m>>,
                      {nat(r) : r \in red_mod(add(big(X), big(qr[2])), big(m))})

Next == CallUnary \/ CallSelect \/ FoldMultiply \/ FoldReduce

Spec == Init /\ [][Next]_vars
----------------------------------------------------------------------------
\* What the numbers are, computed without limbs.
Expected ==
    CASE op = "from_num" -> {v \in 0 .. 2 ^ (LimbWidth * NumLimbs) - 1 : v % P = args[1]}
      [] op = "constant" -> {args[1]}
      [] op = "select"   -> {IF args[3] = 1 THEN args[1] ELSE args[2]}
      [] op = "mult_mod" ->
            {<<(args[1] * args[2] - r) \div args[3], r>> :
                r \in {r \in Small : /\ r <= args[1] * args[2]
                                     /\ (args[1] * args[2] - r) % args[3] = 0}}
      [] op = "red_mod"  -> {r \in Small : r <= args[2] /\ (args[2] - r) % args[3] = 0}

(* The carried comparison of two numbers holds exactly when the numbers    *)
(* are equal, without wrapping around in the circuit's field and without   *)
(* excluding a carry that occurs: a product and its reduction leave        *)
(* exactly the quotients and remainders of the division, of which the      *)
(* remainder need not be below the modulus, and folding a public value     *)
(* yields X + r * x modulo the order of the other field.                   *)
BigNatExact ==
    op # "none" =>
        /\ allowed = Expected
        /\ op = "red_mod" => /\ allowed # {}
                             /\ \A r \in allowed : (r - args[1]) % args[3] = 0
=============================================================================
