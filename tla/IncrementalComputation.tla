---------------------- MODULE IncrementalComputation ----------------------
(***************************************************************************)
(* What a RecursiveSNARK promises: it is a claim about one computation,    *)
(* under one set of public parameters.  The claim grows a step at a time,  *)
(* can be copied and published, and once a step went wrong it claims       *)
(* nothing, whatever is done to it afterwards.                             *)
(***************************************************************************)
EXTENDS Naturals

CONSTANTS Slot, PP, State

VARIABLES
    claim,       \* what the snark in each slot proves
    published    \* what the compressed proof proves

NoClaim == [kind |-> "none"]
Void    == [kind |-> "void"]
\* A claim that is not counted yet is not accepted, only publishable.
Claim(pp, z0, n, z, known) ==
    [kind |-> "claim", pp |-> pp, z0 |-> z0, n |-> n, z |-> z, counted |-> known]

Init == claim = [s \in Slot |-> NoClaim] /\ published = NoClaim

Set(s, c) == claim' = [claim EXCEPT ![s] = c] /\ UNCHANGED published

Start(s) ==
    \/ Set(s, Void)
    \/ \E pp \in PP, z0, z \in State : Set(s, Claim(pp, z0, 1, z, FALSE))

Count(s) ==
    LET c == claim[s]
    IN  /\ c.kind = "claim" /\ ~c.counted
        /\ Set(s, Claim(c.pp, c.z0, 1, c.z, TRUE))

Extend(s) ==
    LET c == claim[s]
    IN  /\ c.kind = "claim" /\ c.counted
        /\ \/ Set(s, Void)
           \/ \E z \in State : Set(s, Claim(c.pp, c.z0, c.n + 1, z, TRUE))

Copy(s, t) == claim[s] # NoClaim /\ Set(t, claim[s])

\* A published claim is counted; nothing comes of what is void, or of
\* publishing under other parameters.
Publish(s) ==
    LET c == claim[s]
    IN  /\ c # NoClaim
        /\ \/ published' = Void
           \/ /\ c.kind = "claim"
              /\ published' = Claim(c.pp, c.z0, c.n, c.z, TRUE)
        /\ UNCHANGED claim

Next ==
    \/ \E s \in Slot : Start(s) \/ Count(s) \/ Extend(s) \/ Publish(s)
    \/ \E s, t \in Slot : Copy(s, t)

Spec == Init /\ [][Next]_<<claim, published>>
============================================================================
