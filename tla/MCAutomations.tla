--------------------------- MODULE MCAutomations ---------------------------
(* An instance of Automations for TLC. *)
EXTENDS Automations, TLC

CONSTANTS a1, a2, w1, w2

\* Two automations, one of them with two actions, tried twice, and the other
\* without any action.
Actions_Two     == a1 :> 2 @@ a2 :> 0
MaxAttempts_Two == a1 :> 2 @@ a2 :> 1
=============================================================================
