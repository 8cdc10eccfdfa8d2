------------------------- MODULE MCScriptExecutions -------------------------
(* Instances of ScriptExecutions for TLC. *)
EXTENDS ScriptExecutions, TLC

CONSTANTS e1, e2, d1, w1, w2, p1, p2, r1, r2

\* One execution with every fault, and two that share a device and its polls.
Target_ScriptFaults == e1 :> d1
Target_ScriptLife   == e1 :> d1 @@ e2 :> d1

\* The faults after which ScriptRun is still implemented.
MildFaults == {"attemptFails", "workerCrash", "pollOverlap", "reportDies"}

\* Worker, poll and report slots are interchangeable (used where no liveness
\* is checked).
SlotSymmetry == Permutations(Workers) \cup Permutations(Pulls) \cup Permutations(Reports)
=============================================================================
