------------------------------- MODULE MCIVC -------------------------------
(* IVC with interchangeable slots and public parameters. *)
EXTENDS IVC, TLC

Symmetric == Permutations(Slot) \cup Permutations(PP)
============================================================================
