------------------------------ MODULE ScriptRun ------------------------------
(***************************************************************************)
(* What the script-execution service promises of each run: it is submitted *)
(* once, started once, its command is given to the agent after that, and   *)
(* it ends once - with the outcome of the run if there was a command, with *)
(* FAILED if there was none to give.                                       *)
(***************************************************************************)
CONSTANT Runs

VARIABLES
  phase,    \* [Runs -> {"none", "queued", "running", "success", "failed"}]
  issued    \* the runs whose command has been created

Init == phase = [e \in Runs |-> "none"] /\ issued = {}

Submit(e) == /\ phase[e] = "none"
             /\ phase' = [phase EXCEPT ![e] = "queued"]
             /\ UNCHANGED issued

Start(e) ==  /\ phase[e] = "queued"
             /\ phase' = [phase EXCEPT ![e] = "running"]
             /\ UNCHANGED issued

Issue(e) ==  /\ phase[e] = "running"
             /\ e \notin issued
             /\ issued' = issued \cup {e}
             /\ UNCHANGED phase

End(e, outcome) ==
             /\ phase[e] = "running"
             /\ e \in issued
             /\ phase' = [phase EXCEPT ![e] = outcome]
             /\ UNCHANGED issued

Refuse(e) == /\ phase[e] = "running"
             /\ e \notin issued
             /\ phase' = [phase EXCEPT ![e] = "failed"]
             /\ UNCHANGED issued

Next == \E e \in Runs :
  \/ Submit(e) \/ Start(e) \/ Issue(e) \/ Refuse(e)
  \/ \E outcome \in {"success", "failed"} : End(e, outcome)

Spec == Init /\ [][Next]_<<phase, issued>>
=============================================================================
