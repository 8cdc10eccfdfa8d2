------------------------------ MODULE SlaClock ------------------------------
(***************************************************************************)
(* Deadlines of tickets and the SLA indicators derived from them whenever  *)
(* a ticket is read: SlaService.computeDeadlines and the pure functions at *)
(* the end of TicketsService.  Instants are integers, counted in ticks of  *)
(* half a minute: what the code rounds is rounded here.                    *)
(***************************************************************************)
EXTENDS Integers

CONSTANT None   \* no instant

TicksPerMinute == 2

SlaState == {"none", "on_track", "at_risk", "met", "breached"}

CeilDiv(a, b) == -((-a) \div b)

DueAt(minutes, from) == from + minutes * TicksPerMinute

\* Minutes that have begun count: up to a minute after the deadline none is
\* missing yet.
RemainingMinutes(dueAt, now) == CeilDiv(dueAt - now, TicksPerMinute)

\* A fifth of the target, but at least five minutes and at most an hour.
RiskThreshold(targetMinutes) ==
  LET fifth == CeilDiv(targetMinutes, 5) IN
  CASE fifth < 5 -> 5 [] fifth > 60 -> 60 [] OTHER -> fifth

\* Mutant of ComputeSlaClock: any answer is in time.
ComputeSlaClock_AnyAnswer(dueAt, respondedAt, targetMinutes, now) ==
  CASE dueAt = None        -> "none"
    [] respondedAt # None  -> "met"
    [] RemainingMinutes(dueAt, now) < 0 -> "breached"
    [] RemainingMinutes(dueAt, now) <= RiskThreshold(targetMinutes) -> "at_risk"
    [] OTHER -> "on_track"

ComputeSlaClock(dueAt, respondedAt, targetMinutes, now) ==
  IF dueAt = None THEN "none"
  ELSE IF respondedAt # None THEN IF respondedAt <= dueAt THEN "met" ELSE "breached"
  ELSE LET remaining == RemainingMinutes(dueAt, now) IN
       CASE remaining < 0 -> "breached"
         [] remaining \in 0..RiskThreshold(targetMinutes) -> "at_risk"
         [] OTHER -> "on_track"

ComputeOverallSlaState(status, firstResponse, resolution) ==
  LET either(s) == s \in {firstResponse, resolution} IN
  IF firstResponse = "none" /\ resolution = "none" THEN "none"
  ELSE IF either("breached") THEN "breached"
  ELSE IF status \in {"resolved", "closed"} /\ resolution = "met" THEN "met"
  ELSE IF either("at_risk") THEN "at_risk"
  ELSE "on_track"
=============================================================================
