----------------------------- MODULE MCCircuits -----------------------------
(* What circuits are made of, each alone in a behaviour: the shape and its *)
(* padding, the synthesis, and the gadgets, the numbers and the points of  *)
(* another field with the sets of results their constraints allow.         *)
EXTENDS R1CSShape, FrontendGadgets

CONSTANTS NumberP, LimbWidth, NLimbs, NumLimbs, Moduli, Factors,
          CurveP, A, B, Order, Points, MaxBits

VARIABLES
    part,                   \* which of them
    op                      \* a call on numbers or points

Number == INSTANCE BigNat WITH P <- NumberP
Curve == INSTANCE Ecc WITH P <- CurveP

ASSUME Gadget!PrimeAssumption /\ Number!PrimeAssumption /\ Curve!PrimeAssumption
ASSUME Curve!CurveAssumption

gadget_vars == <<gadget, op, args, allowed>>

SmallestShape == /\ shape = [num_cons |-> 1, num_vars |-> 1, num_io |-> 0]
                 /\ rows = 1 /\ coo = <<>> /\ padded = NoShape /\ stage = "coo"

MCInit ==
    /\ Gadget!Init /\ op = "none" /\ FrontendInit
    /\ \/ part = "shape" /\ Init
       \/ part \in {"gadget", "number", "curve", "circuit"} /\ SmallestShape

OnShape(step)   == part = "shape" /\ step /\ UNCHANGED <<part, gadget_vars, frontend_vars>>
OnGadget(step)  == part = "gadget" /\ step /\ UNCHANGED <<part, op, vars, frontend_vars>>
OnNumber(step)  == part = "number" /\ step /\ UNCHANGED <<part, gadget, vars, frontend_vars>>
OnCurve(step)   == part = "curve" /\ step /\ UNCHANGED <<part, gadget, vars, frontend_vars>>
OnCircuit(step) == part = "circuit" /\ step /\ UNCHANGED <<part, vars, gadget_vars>>

MCNext ==
    \/ OnShape(AddEntry) \/ OnShape(New) \/ OnShape(Pad)
    \/ OnGadget(Gadget!CallBoolean) \/ OnGadget(Gadget!CallNumber)
    \/ OnGadget(Gadget!CallUnary)
    \/ OnNumber(Number!CallUnary) \/ OnNumber(Number!CallSelect)
    \/ OnNumber(Number!FoldMultiply) \/ OnNumber(Number!FoldReduce)
    \/ OnCurve(Curve!CallPoint) \/ OnCurve(Curve!CallScalarMul)
    \/ OnCurve(Curve!CallCheck)
    \/ OnCircuit(alloc) \/ OnCircuit(alloc_input)
    \/ OnCircuit(extend) \/ OnCircuit(AddTerm)
    \/ OnCircuit(AddCombination) \/ OnCircuit(enforce)

MCSpec == MCInit /\ [][MCNext]_<<part, vars, gadget_vars, frontend_vars>>
----------------------------------------------------------------------------
(* Numbers are equal when their carried limbs are (see BigNat).            *)
BigNatExact == part = "number" => Number!BigNatExact

(* The points add up as on the curve (see Ecc).                            *)
EccExact == part = "curve" => Curve!EccExact
----------------------------------------------------------------------------
\* The points of y^2 = x^3 + B.
MCPoints ==
    {[x |-> 0, y |-> 0, inf |-> 1]} \cup
    {p \in [x : 0 .. CurveP - 1, y : 0 .. CurveP - 1, inf : {0}] :
        (p.y * p.y) % CurveP = (p.x * p.x * p.x + B) % CurveP}
=============================================================================
