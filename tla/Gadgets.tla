------------------------------ MODULE Gadgets ------------------------------
(***************************************************************************)
(* One call of a gadget of BooleanGadgets, on every argument a circuit can *)
(* give it, against what the gadget is documented to compute.              *)
(***************************************************************************)
EXTENDS BooleanGadgets

VARIABLES
    gadget,         \* the gadget that was called, "none" before
    args,           \* its arguments
    allowed         \* the results its constraints allow

vars == <<gadget, args, allowed>>

(* A circuit calls one gadget.                                             *)

Bools == {Boolean(kind, v) : kind \in {"const", "is", "not"}, v \in {0, 1}}

Init == gadget = "none" /\ args = <<>> /\ allowed = {}

Call(name, arguments, results) ==
    gadget = "none" /\ gadget' = name /\ args' = arguments /\ allowed' = results

CallBoolean ==
    \E a, b \in Bools :
        \/ Call("xor", <<lc(a), lc(b)>>, {lc(r) : r \in xor(a, b)})
        \/ Call("and", <<lc(a), lc(b)>>, {lc(r) : r \in and(a, b)})
        \/ Call("or",  <<lc(a), lc(b)>>, {lc(r) : r \in or(a, b)})
        \/ Call("enforce_equal", <<lc(a), lc(b)>>, {r \in {0} : enforce_equal(a, b)})
        \/ \E c \in Bools :
              \/ Call("ch",  <<lc(a), lc(b), lc(c)>>, {lc(r) : r \in sha256_ch(a, b, c)})
              \/ Call("maj", <<lc(a), lc(b), lc(c)>>, {lc(r) : r \in sha256_maj(a, b, c)})

CallNumber ==
    \E x, y \in F :
        \/ Call("add", <<x, y>>, num_add(x, y))
        \/ Call("mul", <<x, y>>, num_mul(x, y))
        \/ Call("equals", <<x, y>>, alloc_num_equals(x, y))
        \/ \E cond \in Bools :
              Call("reverse", <<x, y, lc(cond)>>, conditionally_reverse(x, y, cond))
        \/ \E c \in {0, 1} :
              \/ Call("select", <<x, y, c>>, conditionally_select(x, y, c))
              \/ Call("one_or_diff", <<x, y, c>>, select_one_or_diff2(x, y, c))

CallUnary ==
    \E x \in F :
        \/ Call("square", <<x>>, square(x))
        \/ Call("inputize", <<x>>, inputize(x))
        \/ Call("assert_nonzero", <<x>>, assert_nonzero(x))
        \/ Call("to_bits_strict", <<x>>, to_bits_le_strict(x))
        \/ Call("to_bits", <<x>>, {packed(bits) % P : bits \in to_bits_le(x)})
        \/ \E bits \in to_bits_le(x) : Call("from_bits", <<x>>, le_bits_to_num(bits))
        \/ \E c \in {0, 1} :
              \/ Call("zero_or_num", <<x, c>>, select_zero_or_num2(x, c))
              \/ Call("num_or_zero", <<x, c>>, select_num_or_zero(x, c))
              \/ Call("one_or_num", <<x, c>>, select_one_or_num2(x, c))
              \/ Call("num_or_one", <<x, c>>, select_num_or_one(x, c))

Next == CallBoolean \/ CallNumber \/ CallUnary

Spec == Init /\ [][Next]_vars
----------------------------------------------------------------------------
\* What each gadget's documentation says it computes.
Expected ==
    LET x == args[1]
        y == args[2]
        c == Last(args)
        if(p) == IF p THEN 1 ELSE 0
        choose(p, q) == IF c = 1 THEN p ELSE q
    IN  CASE gadget = "xor" -> {if(x # y)}
          [] gadget = "and" -> {x * y}
          [] gadget = "or" -> {if(x + y > 0)}
          [] gadget = "enforce_equal" -> IF x = y THEN {0} ELSE {}
          [] gadget = "ch" -> {ch(x, y, c)}
          [] gadget = "maj" -> {maj(x, y, c)}
          [] gadget = "add" -> {(x + y) % P}
          [] gadget = "mul" -> {(x * y) % P}
          [] gadget = "equals" -> {if(x = y)}
          [] gadget = "reverse" -> {choose(<<y, x>>, <<x, y>>)}
          [] gadget = "select" -> {choose(x, y)}
          [] gadget = "one_or_diff" -> {choose(1, (x - y) % P)}
          [] gadget = "square" -> {(x * x) % P}
          [] gadget = "assert_nonzero" -> IF x = 0 THEN {} ELSE {inv[x]}
          [] gadget = "to_bits_strict" ->
                {bits \in [1 .. NUM_BITS -> {0, 1}] : packed(bits) = x}
          [] gadget = "zero_or_num" -> {choose(0, x)}
          [] gadget = "num_or_zero" -> {choose(x, 0)}
          [] gadget = "one_or_num" -> {choose(1, x)}
          [] gadget = "num_or_one" -> {choose(x, 1)}
          [] gadget \in {"inputize", "to_bits", "from_bits"} -> {x}

(* The constraints of a gadget leave exactly the result it is documented   *)
(* to compute: none of its variables is left free in a way that reaches    *)
(* the result, and the intended result is never excluded.  The strict      *)
(* decomposition of a number is the one below the modulus; the other one   *)
(* may be that of the number plus the modulus.                             *)
GadgetsExact == gadget # "none" => allowed = Expected
============================================================================
