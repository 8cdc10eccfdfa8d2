--------------------------- MODULE MCAuthSessions ---------------------------
(* Instances of AuthSessions for TLC. *)
EXTENDS AuthSessions, TLC

CONSTANTS t1, t2, b1, b2

\* Two tabs of one browser, or of two.
Homes_TwoTabs == {t1 :> b1 @@ t2 :> b : b \in {b1, b2}}
=============================================================================
