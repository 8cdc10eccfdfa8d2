----------------------------- MODULE MCTickets -----------------------------
(* Instances of Tickets for TLC. *)
EXTENDS Tickets, TLC

CONSTANTS p1, p2, h1, h2

\* Deadlines at the ticks 12 and 14, and 16 and 18.
FirstResponseMinutes_SixEight == p1 :> 6 @@ p2 :> 8
ResolutionMinutes_SevenNine   == p1 :> 7 @@ p2 :> 9

\* On track; then a breach of both deadlines of p1, while p2's first response is
\* half a minute late and its resolution is not due yet.
Instants_Late == {0, 17}

HandlerSymmetry == Permutations(Handlers)
=============================================================================
