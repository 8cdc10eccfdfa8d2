----------------------------- MODULE ApiValues ------------------------------
(* What the modules of the API's services have in common. *)
EXTENDS Naturals, Sequences, FiniteSets

CONSTANT None   \* null
=============================================================================
