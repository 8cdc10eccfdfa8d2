------------------------------ MODULE MCAlerts ------------------------------
(* Instances of Alerts for TLC. *)
EXTENDS Alerts, TLC

CONSTANTS s1, h1, h2

\* Handlers are interchangeable.
HandlerSymmetry == Permutations(Handlers)
=============================================================================
