----------------------------- MODULE MCFortran -----------------------------
(* The Rust table over the integers modulo Modulus, and the Fortran        *)
(* library: its parallel table and its field arithmetic on limbs, each     *)
(* alone in a behaviour.                                                   *)
EXTENDS Butterfly

CONSTANTS Modulus, Tried

VARIABLE part

ModScalar == 0 .. (Modulus - 1)
ModMul(x, y) == (x * y) % Modulus
ModSub(x, y) == (x - y) % Modulus

MCInputs == {LimbsOf(v, NLIMBS) : v \in Tried}

ASSUME FieldArithmetic
ASSUME Tried \subseteq 0 .. P - 1

rust_vars == <<point, rest, table>>

\* Beside an empty table, which is only refused.
NoCall == Init /\ r = <<>> /\ temp_arr = [x \in 1 .. 1 |-> field_zero]
NoRust == EqInit /\ point = <<>>

MCInit == /\ LimbsInit
          /\ \/ part = "table" /\ Init /\ NoRust
             \/ part = "rust" /\ EqInit /\ NoCall
             \/ part = "limbs" /\ NoCall /\ NoRust

OnTable(A) == part = "table" /\ A /\ UNCHANGED <<part, rust_vars, limb_vars>>
OnRust(A)  == part = "rust" /\ A /\ UNCHANGED <<part, vars, limb_vars>>
OnLimbs(A) == part = "limbs" /\ A /\ UNCHANGED <<part, rust_vars, vars>>

\* What a caller may pass, as long as no call was made.
Operands(S) == IF part = "limbs" /\ called = "none" THEN S ELSE {}

MCNext ==
    \/ Reject /\ UNCHANGED <<part, rust_vars, limb_vars>>
    \/ OnRust(Double)
    \/ OnTable(EndLoop) \/ OnTable(Return)
    \/ \E j \in DOMAIN pc : OnTable(Mul(j)) \/ OnTable(CopyUp(j)) \/ OnTable(Sub(j))
    \/ \E x, y \in Operands(Limb) : OnLimbs(CallMul64(x, y))
    \/ \E x, y \in Operands(Element) :
          \/ OnLimbs(CallCompare(x, y)) \/ OnLimbs(CallAdd(x, y))
          \/ OnLimbs(CallSubNoBorrow(x, y)) \/ OnLimbs(CallSub(x, y))
          \/ OnLimbs(CallMul(x, y))
    \/ \E x \in Operands(Element) : OnLimbs(CallFromMontgomery(x))

MCSpec == MCInit /\ [][MCNext]_<<part, vars, rust_vars, limb_vars>> /\ Fairness
=============================================================================
