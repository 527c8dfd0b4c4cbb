-------------------------- MODULE FrontendGadgets --------------------------
(* The synthesis of a circuit (Frontend) and, beside it, one call of a     *)
(* gadget (Gadgets), over the same scalars.                                *)
EXTENDS Frontend

VARIABLES
    gadget,         \* the gadget that was called, "none" before
    args,           \* its arguments
    allowed         \* the results its constraints allow

Gadget == INSTANCE Gadgets
----------------------------------------------------------------------------
(* The constraints of a gadget leave exactly its result (see Gadgets).     *)
GadgetsExact == Gadget!GadgetsExact
=============================================================================
