--------------------------- MODULE MCRemoteAccess ---------------------------
(* Instances of RemoteAccess for TLC. *)
EXTENDS RemoteAccess
=============================================================================
