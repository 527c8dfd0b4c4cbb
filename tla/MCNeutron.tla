----------------------------- MODULE MCNeutron -----------------------------
(* NeutronNova: its folding scheme over the integers modulo P with the     *)
(* constraints w * w = x and w * x = u and two rows of padding, and its    *)
(* chain of snarks, each of which a behaviour runs alone.                  *)
EXTENDS ZeroFold, NeutronIVC, TLC

CONSTANTS P, Blinds, WrongBlinds, Witnesses, PublicValues

VARIABLE part

ASSUME BoundAssumption

ModScalar == 0 .. (P - 1)
ModAdd(a, b) == (a + b) % P
ModMul(a, b) == (a * b) % P
ModNeg(a) == (P - a) % P
ModInv(a) == CHOOSE b \in ModScalar : (a * b) % P = 1

MCRowA(k, z) == IF k < 2 THEN z["w"] ELSE 0
MCRowB(k, z) == IF k = 0 THEN z["w"] ELSE IF k = 1 THEN z["x"] ELSE 0
MCRowC(k, z) == IF k = 0 THEN z["x"] ELSE IF k = 1 THEN z["u"] ELSE 0

\* Pairs with right and, with a wrong blind, wrong commitments.
MCIncoming ==
    {<<[comm_W |-> Commit([i \in Vars |-> w], r_W ++ d), X |-> [i \in IO |-> x]],
       [W |-> [i \in Vars |-> w], r_W |-> r_W]>> :
        w \in Witnesses, r_W \in Blinds, d \in WrongBlinds, x \in PublicValues}

MCInit == part \in {"fold", "chain"} /\ NifsInit /\ Init
OnFold(A)  == part = "fold" /\ A /\ UNCHANGED <<part, vars>>
OnChain(A) == part = "chain" /\ A /\ UNCHANGED <<part, nifs_vars>>

MCNext ==
    \/ \E p \in Incoming : OnFold(ProveFold(p[1], p[2]))
    \/ OnFold(Verify)
    \/ OnFold(VerifyCircuit)
    \/ \E s \in Slot, pp \in PP, z0, z \in State, ok \in BOOLEAN :
          OnChain(New(s, pp, z0, z, ok))
    \/ \E s \in Slot : OnChain(ProveFirstStep(s))
    \/ \E s \in Slot, pp \in PP, z \in State, ok \in BOOLEAN :
          OnChain(ProveStep(s, pp, z, ok))
    \/ \E s, t \in Slot : OnChain(Copy(s, t))

MCSpec == MCInit /\ [][MCNext]_<<part, nifs_vars, vars>>

----------------------------------------------------------------------------
Symmetric == Permutations(Slot) \cup Permutations(PP)
=============================================================================
