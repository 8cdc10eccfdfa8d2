------------------------------ MODULE Presence ------------------------------
(***************************************************************************)
(* Which devices are online: heartbeats and metrics of the agents          *)
(* (MonitoringService), the Device and Agent documents they refresh, the   *)
(* repeated job that marks silent devices offline, the device_offline      *)
(* trigger of the automations and what the web client was shown.           *)
(*                                                                         *)
(* An action is one awaited operation of one handler.  Time is abstract: a *)
(* heartbeat is fresh, then older than DEVICE_OFFLINE_THRESHOLD_SECONDS.   *)
(* The deployment has queues (DISABLE_QUEUES is not set) and the sweep is  *)
(* not switched off by MONITORING_RECONCILE_ENABLED.                       *)
(***************************************************************************)
EXTENDS Naturals, FiniteSets

CONSTANTS
  Devices,      \* devices with a registered agent
  Requests,     \* heartbeat and ingest handlers that may run at the same time
  None,         \* no device
  MaxFaults     \* the bound on handlers and jobs that fail half way

ASSUME PresenceAssumption == None \notin Devices /\ MaxFaults \in Nat

VARIABLES
  power,        \* the agent process of each device
  online,       \* Device.onlineStatus
  beat,         \* the age of Device.lastHeartbeatAt
  agentOnline,  \* is Agent.status ONLINE?
  agentBeat,    \* the age of Agent.lastHeartbeatAt
  request,      \* the local state of each handler
  sweep,        \* the local state of runHeartbeatTimeoutCheck
  shown,        \* the status last emitted to (or loaded by) the web client
  account,      \* history: changes of each device to OFFLINE against announcements
  faults        \* number of faults so far

docVars == <<online, beat, agentOnline, agentBeat>>
vars == <<power, online, beat, agentOnline, agentBeat, request, sweep, shown, account, faults>>

OnlineStatus == {"unknown", "online", "offline"}
Age          == {"never", "fresh", "stale"}
Kind         == {"heartbeat", "goodbye", "metrics"}

IdleRequest == [pc |-> "idle", device |-> None, kind |-> "heartbeat", change |-> FALSE]
IdleSweep   == [pc |-> "idle", batch |-> {}, agentBatch |-> {}]

Init ==
  /\ power       = [d \in Devices |-> "off"]
  /\ online      = [d \in Devices |-> "unknown"]
  /\ beat        = [d \in Devices |-> "never"]
  /\ agentOnline = [d \in Devices |-> FALSE]
  /\ agentBeat   = [d \in Devices |-> "never"]
  /\ request     = [h \in Requests |-> IdleRequest]
  /\ sweep       = IdleSweep
  /\ shown       = [d \in Devices |-> "unknown"]
  /\ account     = [d \in Devices |-> "even"]
  /\ faults      = 0

-----------------------------------------------------------------------------
(* The agent process.  start() registers again, which resets Agent.status. *)

AgentStarts(d) ==
  /\ power[d] = "off"
  /\ power'       = [power EXCEPT ![d] = "on"]
  /\ agentOnline' = [agentOnline EXCEPT ![d] = FALSE]
  /\ UNCHANGED <<online, beat, agentBeat, request, sweep, shown, account, faults>>

AgentDies(d) ==
  /\ power[d] = "on"
  /\ power' = [power EXCEPT ![d] = "off"]
  /\ UNCHANGED <<docVars, request, sweep, shown, account, faults>>

\* The timestamps pass the threshold.
Ages(d) ==
  /\ "fresh" \in {beat[d], agentBeat[d]}
  /\ beat'      = [beat EXCEPT ![d] = IF @ = "fresh" THEN "stale" ELSE @]
  /\ agentBeat' = [agentBeat EXCEPT ![d] = IF @ = "fresh" THEN "stale" ELSE @]
  /\ UNCHANGED <<power, online, agentOnline, request, sweep, shown, account, faults>>

-----------------------------------------------------------------------------
(* processHeartbeat (the offline heartbeat of shutdown() is a "goodbye")   *)
(* and ingestMetrics.  The timers of the agent do not wait for answers, so *)
(* requests of one device overlap.                                         *)

Busy(d) == \E h \in Requests : request[h].device = d

\* Mutant of StatusOf: the kind of the request is taken for the status.
StatusOf_Kind(kind) == kind

StatusOf(kind) == IF kind = "goodbye" THEN "offline" ELSE "online"

\* What becomes of the account of announcements: two handlers of a device at
\* a time make it void, a change to OFFLINE is owed an announcement.
Void(S) == [d \in Devices |-> IF d \in S THEN "void" ELSE account[d]]

Charge(S) == [d \in Devices |->
  IF d \in S /\ online[d] # "offline" /\ account[d] = "even" THEN "owed" ELSE account[d]]

\* findByToken, and (heartbeats only) the status of the device before: is it
\* another one?
Send(h, d, kind) ==
  /\ request[h].pc = "idle"
  /\ request' = [request EXCEPT ![h] =
                   [pc |-> "read", device |-> d, kind |-> kind,
                    change |-> kind # "metrics" /\ online[d] # StatusOf(kind)]]
  /\ account' = IF Busy(d) \/ sweep.pc # "idle" THEN Void({d}) ELSE account
  /\ UNCHANGED <<docVars, sweep, shown, faults>>

\* Until the goodbye is answered the timers go on.
SendHeartbeat(h, d) ==
  power[d] # "off" /\ Send(h, d, "heartbeat") /\ UNCHANGED power

SendMetrics(h, d) ==
  power[d] # "off" /\ Send(h, d, "metrics") /\ UNCHANGED power

SayGoodbye(h, d) ==
  /\ power[d] = "on"
  /\ Send(h, d, "goodbye")
  /\ power' = [power EXCEPT ![d] = "stopping"]

\* touchHeartbeat.
TouchDevice(h) ==
  LET d == request[h].device
      s == StatusOf(request[h].kind) IN
  /\ request[h].pc = "read"
  /\ online'  = [online EXCEPT ![d] = s]
  /\ beat'    = [beat EXCEPT ![d] = "fresh"]
  /\ account' = IF s = "offline" THEN Charge({d}) ELSE account
  /\ request' = [request EXCEPT ![h].pc = "touched"]
  /\ UNCHANGED <<power, agentOnline, agentBeat, sweep, shown, faults>>

\* AgentsService.heartbeat.
TouchAgent(h) ==
  LET d == request[h].device IN
  /\ request[h].pc = "touched"
  /\ agentOnline' = [agentOnline EXCEPT ![d] = StatusOf(request[h].kind) = "online"]
  /\ agentBeat'   = [agentBeat EXCEPT ![d] = "fresh"]
  /\ request'     = [request EXCEPT ![h].pc = "recorded"]
  /\ UNCHANGED <<power, online, beat, sweep, shown, account, faults>>

\* A device_offline job is added to the automation queue.
Announced(d) == [account EXCEPT ![d] =
  CASE @ = "owed" -> "even" [] @ = "even" -> "spurious" [] OTHER -> @]

\* The agent exits once its goodbye has been answered, or refused.
PowerAfter(h) ==
  LET r == request[h] IN
  IF r.kind = "goodbye" /\ power[r.device] = "stopping"
    THEN [power EXCEPT ![r.device] = "off"] ELSE power

\* Mutants of ShownAfter: metrics are emitted when the status changes only; the
\* status before the heartbeat is emitted.
ShownAfter_OnChange(h) ==
  LET r == request[h] IN
  IF r.change THEN [shown EXCEPT ![r.device] = StatusOf(r.kind)] ELSE shown
ShownAfter_Before(h) ==
  LET r == request[h] IN
  IF r.kind = "metrics" THEN [shown EXCEPT ![r.device] = "online"]
  ELSE IF r.change THEN [shown EXCEPT ![r.device] =
                           IF r.kind = "goodbye" THEN "online" ELSE "offline"] ELSE shown

\* Metrics always emit the status they have set, heartbeats if it is a change.
ShownAfter(h) ==
  LET r == request[h] IN
  IF r.kind = "metrics" \/ r.change
    THEN [shown EXCEPT ![r.device] = StatusOf(r.kind)] ELSE shown

\* The status is emitted, alerts are evaluated (errors are only logged) and a
\* change to OFFLINE is announced.
Answer(h) ==
  LET r == request[h] IN
  /\ r.pc = "recorded"
  /\ shown'   = ShownAfter(h)
  /\ account' = IF r.kind = "goodbye" /\ r.change THEN Announced(r.device) ELSE account
  /\ power'   = PowerAfter(h)
  /\ request' = [request EXCEPT ![h] = IdleRequest]
  /\ UNCHANGED <<docVars, sweep, faults>>

Fault == faults < MaxFaults /\ faults' = faults + 1

\* An awaited call of the handler rejects, or the API dies, perhaps after the
\* event has been emitted.
RequestFails(h) ==
  /\ request[h].pc # "idle"
  /\ Fault
  /\ shown' \in {shown} \cup (IF request[h].pc = "recorded" THEN {ShownAfter(h)} ELSE {})
  /\ power'   = PowerAfter(h)
  /\ request' = [request EXCEPT ![h] = IdleRequest]
  /\ UNCHANGED <<docVars, sweep, account>>

-----------------------------------------------------------------------------
(* runHeartbeatTimeoutCheck, a job repeated every 30 seconds.              *)

\* Mutants of SweepFinds: only devices without any heartbeat are found; devices
\* that are not online are found again.
SweepFinds_Never ==
  /\ sweep.pc = "idle"
  /\ sweep'   = [IdleSweep EXCEPT !.pc = "found",
                   !.batch = {d \in Devices : online[d] = "online" /\ beat[d] = "never"}]
  /\ account' = Void({d \in Devices : Busy(d)})
  /\ UNCHANGED <<power, docVars, request, shown, faults>>
SweepFinds_Any ==
  /\ sweep.pc = "idle"
  /\ sweep'   = [IdleSweep EXCEPT !.pc = "found",
                   !.batch = {d \in Devices : beat[d] = "stale"}]
  /\ account' = Void({d \in Devices : Busy(d)})
  /\ UNCHANGED <<power, docVars, request, shown, faults>>

SweepFinds ==
  /\ sweep.pc = "idle"
  /\ sweep'   = [IdleSweep EXCEPT !.pc = "found",
                   !.batch = {d \in Devices : online[d] = "online" /\ beat[d] = "stale"}]
  /\ account' = Void({d \in Devices : Busy(d)})
  /\ UNCHANGED <<power, docVars, request, shown, faults>>

\* updateMany selects the devices by _id only, not by their age.
SweepMarks ==
  /\ sweep.pc = "found"
  /\ online'  = [d \in Devices |-> IF d \in sweep.batch THEN "offline" ELSE online[d]]
  /\ account' = Charge(sweep.batch)
  /\ sweep'   = [sweep EXCEPT !.pc = "marked"]
  /\ UNCHANGED <<power, beat, agentOnline, agentBeat, request, shown, faults>>

SweepFindsAgents ==
  /\ sweep.pc = "marked"
  /\ sweep' = [sweep EXCEPT !.pc = "agentsFound",
                 !.agentBatch = {d \in Devices : agentOnline[d] /\ agentBeat[d] = "stale"}]
  /\ UNCHANGED <<power, docVars, request, shown, account, faults>>

SweepMarksAgents ==
  /\ sweep.pc = "agentsFound"
  /\ agentOnline' = [d \in Devices |-> agentOnline[d] /\ d \notin sweep.agentBatch]
  /\ sweep' = [sweep EXCEPT !.pc = "announcing"]
  /\ UNCHANGED <<power, online, beat, agentBeat, request, shown, account, faults>>

\* For each device found: the event to the web client, the alerts (errors are
\* only logged) and the device_offline trigger.
SweepAnnounces(d) ==
  /\ sweep.pc = "announcing"
  /\ d \in sweep.batch
  /\ shown'   = [shown EXCEPT ![d] = "offline"]
  /\ account' = Announced(d)
  /\ sweep'   = [sweep EXCEPT !.batch = @ \ {d}]
  /\ UNCHANGED <<power, docVars, request, faults>>

SweepEnds ==
  /\ sweep.pc = "announcing"
  /\ sweep.batch = {}
  /\ sweep' = IdleSweep
  /\ UNCHANGED <<power, docVars, request, shown, account, faults>>

\* An awaited call rejects: the job fails, perhaps after an event has been
\* emitted, and the next one starts over.
SweepFails ==
  /\ sweep.pc # "idle"
  /\ Fault
  /\ shown' \in {shown} \cup (IF sweep.pc = "announcing"
                  THEN {[shown EXCEPT ![d] = "offline"] : d \in sweep.batch} ELSE {})
  /\ sweep' = IdleSweep
  /\ UNCHANGED <<power, docVars, request, account>>

-----------------------------------------------------------------------------
AgentNext == \E d \in Devices :
  AgentStarts(d) \/ AgentDies(d) \/ Ages(d)

RequestNext == \E h \in Requests :
  \/ \E d \in Devices : SendHeartbeat(h, d) \/ SendMetrics(h, d) \/ SayGoodbye(h, d)
  \/ TouchDevice(h) \/ TouchAgent(h) \/ Answer(h) \/ RequestFails(h)

SweepStep ==
  \/ SweepMarks \/ SweepFindsAgents \/ SweepMarksAgents
  \/ (\E d \in Devices : SweepAnnounces(d)) \/ SweepEnds

Next == AgentNext \/ RequestNext \/ SweepFinds \/ SweepStep \/ SweepFails

Spec == Init /\ [][Next]_vars

(* Fairness.  Handlers go on, the repeated job is run again and again, and *)
(* the timers of a running agent send heartbeats and metrics: each of them *)
(* gets a slot now and then, since the API bounds no number of requests.   *)
Fairness ==
  /\ \A h \in Requests : WF_vars(TouchDevice(h) \/ TouchAgent(h) \/ Answer(h))
  /\ WF_vars(SweepFinds) /\ WF_vars(SweepStep)
  /\ \A d \in Devices :
       /\ SF_vars(\E h \in Requests : SendHeartbeat(h, d))
       /\ SF_vars(\E h \in Requests : SendMetrics(h, d))

FairSpec == Spec /\ Fairness

-----------------------------------------------------------------------------
RequestType == [pc : {"idle", "read", "touched", "recorded"}, device : Devices \cup {None},
                kind : Kind, change : BOOLEAN]
SweepType == [pc : {"idle", "found", "marked", "agentsFound", "announcing"},
              batch : SUBSET Devices, agentBatch : SUBSET Devices]

\* Type invariant.
TypeOK ==
  /\ power       \in [Devices -> {"off", "on", "stopping"}]
  /\ online      \in [Devices -> OnlineStatus]
  /\ beat        \in [Devices -> Age]
  /\ agentOnline \in [Devices -> BOOLEAN]
  /\ agentBeat   \in [Devices -> Age]
  /\ request     \in [Requests -> RequestType]
  /\ sweep       \in SweepType
  /\ shown       \in [Devices -> OnlineStatus]
  /\ account     \in [Devices -> {"even", "owed", "spurious", "void"}]
  /\ faults      \in Nat

\* No handler of d and no sweep is under way, nor has any failed or overlapped
\* with another.
Settled(d) == ~Busy(d) /\ sweep.pc = "idle" /\ account[d] # "void" /\ faults = 0

\* A device_offline trigger is raised for each change to OFFLINE, by whichever
\* handler makes it, and never without one.  (Two handlers at a time may both
\* see the old status, and a sweep that fails announces nobody.)
OfflineAnnouncedOnce ==
  \A d \in Devices :
    /\ account[d] # "spurious"
    /\ Settled(d) => account[d] = "even"

\* What the web client was shown is what the device document says, although
\* heartbeats emit only the changes they see themselves.
ShownIsCurrent ==
  \A d \in Devices : Settled(d) => shown[d] = online[d]

\* Both audiences of a change of status, the automations and the web client, are
\* told what is stored.
ChangesAreTold == OfflineAnnouncedOnce /\ ShownIsCurrent

\* A device, or an agent, whose heartbeat is too old does not stay ONLINE: a
\* sweep marks it OFFLINE unless it reports again - whatever handlers overlap
\* or fail, and also if its goodbye was overtaken by an earlier request.
SilenceIsNoticed ==
  \A d \in Devices :
    /\ beat[d] = "stale" ~> online[d] # "online" \/ beat[d] = "fresh"
    /\ agentBeat[d] = "stale" ~> ~agentOnline[d] \/ agentBeat[d] = "fresh"

\* A device whose agent keeps running is ONLINE, and shown to be ONLINE, again
\* and again: whatever a sweep overwrote or emitted late is repaired.
LiveDevicesComeBack ==
  \A d \in Devices :
    <>[](power[d] = "on") => []<>(online[d] = "online") /\ []<>(shown[d] = "online")
=============================================================================
