----------------------------- MODULE MCFolding -----------------------------
(* Folding over the integers modulo P with the constraint w * (w + u) = x. *)
EXTENDS Folding, Integers

CONSTANTS P, Blinds, WrongBlinds, PublicValues

ModScalar == 0 .. (P - 1)
ModAdd(a, b) == (a + b) % P
ModMul(a, b) == (a * b) % P
ModNeg(a) == (P - a) % P

\* The columns are strings: "w" in Vars, "x" in IO, "u" between them.
MCRowA(k, z) == z["w"]
MCRowB(k, z) == z["w"] ++ z["u"]
MCRowC(k, z) == z["x"]

\* Every pair of a witness and public values, its commitment right or, with
\* a wrong blind, not.
MCIncoming ==
    {<<[comm_W |-> Commit(W, r_W ++ d), X |-> [i \in IO |-> x]],
       [W |-> W, r_W |-> r_W]>> :
        W \in Vec(Vars), r_W \in Blinds, d \in WrongBlinds, x \in PublicValues}

\* The random pairs: a non-zero u, and witness and public values in step.
MCSampled ==
    {<<[i \in Vars |-> x], P - 1, [i \in IO |-> x]>> : x \in PublicValues}
============================================================================
