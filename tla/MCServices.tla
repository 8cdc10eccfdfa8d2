----------------------------- MODULE MCServices -----------------------------
(* Instances of Services for TLC. *)
EXTENDS Services, TLC

\* Tenants, users and processes are told apart by nothing but their names.  So are
\* requesters and buttons, but to compare more permutations takes longer than it saves.
Symmetry ==
  UNION {Permutations(set) : set \in {Tenants, Users, Processes}}
=============================================================================
