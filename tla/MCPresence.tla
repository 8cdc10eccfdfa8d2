----------------------------- MODULE MCPresence -----------------------------
(* An instance of Presence for TLC. *)
EXTENDS Presence

CONSTANTS d1, d2, h1, h2
=============================================================================
