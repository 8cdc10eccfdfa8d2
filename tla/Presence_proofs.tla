-------------------------- MODULE Presence_proofs --------------------------
(***************************************************************************)
(* Theorems about Presence, for any devices, any number of requests at a   *)
(* time and any number of faults.                                          *)
(***************************************************************************)
EXTENDS Presence, TLAPS

-----------------------------------------------------------------------------
(* The inductive invariant.                                                *)

\* A request is of a device exactly while it is handled.
RequestsOK == \A h \in Requests : request[h].pc = "idle" <=> request[h].device = None

Touched == {"touched", "recorded"}
Marked  == {"marked", "agentsFound", "announcing"}

\* A handler that has stored a status that it will show, and one that owes an
\* announcement of it.
WillShow(r)     == r.pc \in Touched /\ (r.change \/ r.kind = "metrics")
WillAnnounce(r) == r.pc \in Touched /\ r.change /\ r.kind = "goodbye"

\* One handler at a time: no two requests of the device, none beside a sweep.
OneAtATime(d) ==
  /\ \A g, h \in Requests : request[g].device = d /\ request[h].device = d => g = h
  /\ Busy(d) => sweep.pc = "idle"

\* What the handler of the device has seen and stored is still so.
RequestKnows(d) ==
  \A h \in Requests : request[h].device = d =>
    LET r == request[h] IN
    /\ r.pc = "read" => (r.change <=> r.kind # "metrics" /\ online[d] # StatusOf(r.kind))
    /\ r.pc \in Touched => online[d] = StatusOf(r.kind)
    /\ WillAnnounce(r) => account[d] = "owed"

SweepKnows(d) ==
  d \in sweep.batch =>
    /\ sweep.pc = "found" => online[d] = "online"
    /\ sweep.pc \in Marked => online[d] = "offline" /\ account[d] = "owed"

\* Without faults, a debt has its debtor, and what is not shown yet will be.
DebtsArePaid(d) ==
  /\ account[d] = "owed" =>
       \/ \E h \in Requests : request[h].device = d /\ WillAnnounce(request[h])
       \/ sweep.pc \in Marked /\ d \in sweep.batch
  /\ \/ shown[d] = online[d]
     \/ \E h \in Requests : request[h].device = d /\ WillShow(request[h])
     \/ sweep.pc \in Marked /\ d \in sweep.batch

Told(d) ==
  /\ OneAtATime(d) /\ RequestKnows(d) /\ SweepKnows(d)
  /\ faults = 0 => DebtsArePaid(d)

Telling ==
  \A d \in Devices : account[d] # "spurious" /\ (account[d] # "void" => Told(d))

Inv == TypeOK /\ RequestsOK /\ Telling

-----------------------------------------------------------------------------
(* The type invariant.                                                     *)

LEMMA FieldUpdates ==
  ASSUME NEW r \in RequestType
  PROVE  \A x \in {"read", "touched", "recorded"} :
           /\ [r EXCEPT !.pc = x] \in RequestType /\ [r EXCEPT !.pc = x].pc = x
           /\ [r EXCEPT !.pc = x].device = r.device /\ [r EXCEPT !.pc = x].kind = r.kind
           /\ [r EXCEPT !.pc = x].change = r.change
BY DEF RequestType

LEMMA IdleTypes ==
  /\ IdleRequest \in RequestType /\ IdleRequest.pc = "idle" /\ IdleRequest.device = None
  /\ IdleSweep \in SweepType /\ IdleSweep.pc = "idle" /\ IdleSweep.batch = {}
BY DEF IdleRequest, IdleSweep, RequestType, SweepType, Kind

AccountType == [Devices -> {"even", "owed", "spurious", "void"}]

LEMMA AccountTypes ==
  ASSUME TypeOK
  PROVE  /\ \A S : Void(S) \in AccountType /\ Charge(S) \in AccountType
         /\ \A d \in Devices : Announced(d) \in AccountType
<1>1. account \in AccountType
  BY DEF TypeOK, AccountType
<1>2. \A S : Void(S) \in AccountType /\ Charge(S) \in AccountType
  BY <1>1 DEF Void, Charge, AccountType
<1>3. ASSUME NEW d \in Devices PROVE Announced(d) \in AccountType
  BY <1>1 DEF Announced, AccountType
<1> QED BY <1>2, <1>3

LEMMA AnnouncementPays ==
  ASSUME TypeOK, NEW d \in Devices, account[d] = "owed"
  PROVE  Announced(d)[d] = "even"
<1>1. (CASE account[d] = "owed" -> "even" [] account[d] = "even" -> "spurious"
         [] OTHER -> account[d]) = "even"
  BY Z3
<1>2. d \in DOMAIN account
  BY DEF TypeOK
<1> QED BY <1>1, <1>2, Zenon DEF Announced

\* The requests of the handlers that are not h stay as they are.
Others(h) == \A g \in Requests \ {h} : request'[g] = request[g]

LEMMA Put ==
  ASSUME TypeOK, NEW h \in Requests, NEW r \in RequestType,
         request' = [request EXCEPT ![h] = r]
  PROVE  request' \in [Requests -> RequestType] /\ request'[h] = r /\ Others(h)
BY DEF TypeOK, Others

\* A handler gets on.
LEMMA Advance ==
  ASSUME TypeOK, NEW h \in Requests, NEW pc \in {"read", "touched", "recorded"},
         request' = [request EXCEPT ![h].pc = pc]
  PROVE  /\ request' \in [Requests -> RequestType] /\ Others(h)
         /\ request'[h].pc = pc /\ request'[h].device = request[h].device
         /\ request'[h].kind = request[h].kind /\ request'[h].change = request[h].change
<1> DEFINE r == [request[h] EXCEPT !.pc = pc]
<1>1. request' = [request EXCEPT ![h] = r]
  BY Zenon
<1>2. request[h] \in RequestType
  BY DEF TypeOK
<1>3. /\ r \in RequestType /\ r.pc = pc /\ r.device = request[h].device
      /\ r.kind = request[h].kind /\ r.change = request[h].change
  BY <1>2, FieldUpdates
<1> HIDE DEF r
<1> QED BY <1>1, <1>3, Put

LEMMA ShownTypes ==
  ASSUME TypeOK, RequestsOK, NEW h \in Requests, request[h].pc # "idle"
  PROVE  /\ ShownAfter(h) \in [Devices -> OnlineStatus]
         /\ PowerAfter(h) \in [Devices -> {"off", "on", "stopping"}]
         /\ request[h] \in RequestType /\ request[h].device \in Devices
<1>1. request[h] \in RequestType /\ request[h].device \in Devices
  BY DEF TypeOK, RequestsOK, RequestType
<1> QED BY <1>1 DEF TypeOK, ShownAfter, PowerAfter, StatusOf, OnlineStatus

\* The steps of requests and of the sweep that are common to all properties.
RequestStep(h) ==
  \/ \E d \in Devices, kind \in Kind :
       /\ Send(h, d, kind)
       /\ power' \in {power, [power EXCEPT ![d] = "stopping"]}
  \/ TouchDevice(h) \/ TouchAgent(h) \/ Answer(h) \/ RequestFails(h)

LEMMA RequestType_Next ==
  ASSUME TypeOK, RequestsOK, NEW h \in Requests, RequestStep(h)
  PROVE  TypeOK' /\ RequestsOK'
<1> USE DEF docVars
<1>t. request[h] \in RequestType /\ (request[h].pc # "idle" => request[h].device \in Devices)
  BY DEF TypeOK, RequestsOK, RequestType
<1>1. ASSUME NEW d \in Devices, NEW kind \in Kind, Send(h, d, kind),
             power' \in {power, [power EXCEPT ![d] = "stopping"]}
      PROVE  TypeOK' /\ RequestsOK'
  <2> DEFINE r == [pc |-> "read", device |-> d, kind |-> kind,
                   change |-> kind # "metrics" /\ online[d] # StatusOf(kind)]
  <2>1. request' = [request EXCEPT ![h] = r]
    BY <1>1 DEF Send
  <2>2. r \in RequestType /\ r.pc = "read" /\ r.device \in Devices
    BY DEF RequestType
  <2>3. account' \in AccountType
    BY <1>1, AccountTypes DEF Send, TypeOK, AccountType
  <2>4. power' \in [Devices -> {"off", "on", "stopping"}]
    BY <1>1 DEF TypeOK
  <2>5. UNCHANGED <<docVars, sweep, shown, faults>>
    BY <1>1 DEF Send
  <2> HIDE DEF r
  <2>6. request' \in [Requests -> RequestType] /\ request'[h] = r /\ Others(h)
    BY <2>1, <2>2, Put
  <2>7. TypeOK'
    BY <2>3, <2>4, <2>5, <2>6 DEF TypeOK, AccountType
  <2>8. RequestsOK'
    BY <2>2, <2>6, PresenceAssumption DEF RequestsOK, Others
  <2> QED BY <2>7, <2>8
<1>2. CASE TouchDevice(h)
  <2>1. request' = [request EXCEPT ![h].pc = "touched"] /\ request[h].pc = "read"
    BY <1>2 DEF TouchDevice
  <2>2. /\ request' \in [Requests -> RequestType] /\ Others(h)
        /\ request'[h].pc = "touched" /\ request'[h].device = request[h].device
    BY <2>1, Advance
  <2>3. online' \in [Devices -> OnlineStatus] /\ beat' \in [Devices -> Age]
    BY <1>2 DEF TouchDevice, TypeOK, StatusOf, OnlineStatus, Age
  <2>4. account' \in AccountType
    BY <1>2, AccountTypes DEF TouchDevice, TypeOK, AccountType
  <2>5. UNCHANGED <<power, agentOnline, agentBeat, sweep, shown, faults>>
    BY <1>2 DEF TouchDevice
  <2>6. TypeOK'
    BY <2>2, <2>3, <2>4, <2>5 DEF TypeOK, AccountType
  <2>7. RequestsOK'
    BY <2>1, <2>2 DEF RequestsOK, Others
  <2> QED BY <2>6, <2>7
<1>3. CASE TouchAgent(h)
  <2>1. request' = [request EXCEPT ![h].pc = "recorded"] /\ request[h].pc = "touched"
    BY <1>3 DEF TouchAgent
  <2>2. /\ request' \in [Requests -> RequestType] /\ Others(h)
        /\ request'[h].pc = "recorded" /\ request'[h].device = request[h].device
    BY <2>1, Advance
  <2>3. agentOnline' \in [Devices -> BOOLEAN] /\ agentBeat' \in [Devices -> Age]
    BY <1>3 DEF TouchAgent, TypeOK, Age
  <2>4. UNCHANGED <<power, online, beat, sweep, shown, account, faults>>
    BY <1>3 DEF TouchAgent
  <2>5. TypeOK'
    BY <2>2, <2>3, <2>4 DEF TypeOK
  <2>6. RequestsOK'
    BY <2>1, <2>2 DEF RequestsOK, Others
  <2> QED BY <2>5, <2>6
<1>4. CASE Answer(h) \/ RequestFails(h)
  <2>1. request[h].pc # "idle" /\ request' = [request EXCEPT ![h] = IdleRequest]
    BY <1>4 DEF Answer, RequestFails
  <2>2. request' \in [Requests -> RequestType] /\ request'[h] = IdleRequest /\ Others(h)
    BY <2>1, IdleTypes, Put
  <2>3. shown' \in [Devices -> OnlineStatus] /\ power' = PowerAfter(h)
    BY <1>4, <2>1, ShownTypes DEF Answer, RequestFails, TypeOK
  <2>4. power' \in [Devices -> {"off", "on", "stopping"}]
    BY <2>1, <2>3, ShownTypes
  <2>5. account' \in AccountType
    BY <1>4, <2>1, ShownTypes, AccountTypes DEF Answer, RequestFails, TypeOK, AccountType
  <2>6. UNCHANGED <<docVars, sweep>> /\ faults' \in Nat
    BY <1>4 DEF Answer, RequestFails, Fault, TypeOK
  <2>7. TypeOK'
    BY <2>2, <2>3, <2>4, <2>5, <2>6 DEF TypeOK, AccountType
  <2>8. RequestsOK'
    BY <2>2, IdleTypes DEF RequestsOK, Others
  <2> QED BY <2>7, <2>8
<1> QED BY <1>1, <1>2, <1>3, <1>4 DEF RequestStep

AgentStep(d) == AgentStarts(d) \/ AgentDies(d) \/ Ages(d)

LEMMA AgentType_Next ==
  ASSUME TypeOK, NEW d \in Devices, AgentStep(d)
  PROVE  /\ TypeOK' /\ UNCHANGED <<online, request, sweep, shown, account, faults>>
BY DEF AgentStep, AgentStarts, AgentDies, Ages, docVars, TypeOK, Age

SweepNext == SweepFinds \/ SweepStep \/ SweepFails

LEMMA SweepType_Next ==
  ASSUME TypeOK, SweepNext
  PROVE  TypeOK' /\ UNCHANGED request
<1> USE DEF docVars
<1>1. CASE SweepFinds
  <2> DEFINE b == {d \in Devices : online[d] = "online" /\ beat[d] = "stale"}
  <2>1. sweep' = [IdleSweep EXCEPT !.pc = "found", !.batch = b]
    BY <1>1 DEF SweepFinds
  <2>2. sweep' \in SweepType
    BY <2>1 DEF IdleSweep, SweepType
  <2>3. account' \in AccountType
    BY <1>1, AccountTypes DEF SweepFinds
  <2> QED BY <1>1, <2>2, <2>3 DEF SweepFinds, TypeOK, AccountType
<1>2. CASE SweepMarks
  <2>1. sweep' = [sweep EXCEPT !.pc = "marked"]
    BY <1>2 DEF SweepMarks
  <2>2. sweep' \in SweepType
    BY <2>1 DEF SweepType, TypeOK
  <2>3. account' \in AccountType /\ online' \in [Devices -> OnlineStatus]
    BY <1>2, AccountTypes DEF SweepMarks, TypeOK, OnlineStatus
  <2> QED BY <1>2, <2>2, <2>3 DEF SweepMarks, TypeOK, AccountType
<1>3. CASE SweepFindsAgents
  <2> DEFINE b == {d \in Devices : agentOnline[d] /\ agentBeat[d] = "stale"}
  <2>1. sweep' = [sweep EXCEPT !.pc = "agentsFound", !.agentBatch = b]
    BY <1>3 DEF SweepFindsAgents
  <2>2. sweep' \in SweepType
    BY <2>1 DEF SweepType, TypeOK
  <2> QED BY <1>3, <2>2 DEF SweepFindsAgents, TypeOK
<1>4. CASE SweepMarksAgents
  <2>1. sweep' = [sweep EXCEPT !.pc = "announcing"]
    BY <1>4 DEF SweepMarksAgents
  <2>2. sweep' \in SweepType
    BY <2>1 DEF SweepType, TypeOK
  <2>3. agentOnline' \in [Devices -> BOOLEAN]
    BY <1>4 DEF SweepMarksAgents, TypeOK
  <2> QED BY <1>4, <2>2, <2>3 DEF SweepMarksAgents, TypeOK
<1>5. ASSUME NEW d \in Devices, SweepAnnounces(d) PROVE TypeOK' /\ UNCHANGED request
  <2>1. sweep' = [sweep EXCEPT !.batch = sweep.batch \ {d}]
    BY <1>5 DEF SweepAnnounces
  <2>2. sweep' \in SweepType
    BY <2>1 DEF SweepType, TypeOK
  <2>3. account' \in AccountType /\ shown' \in [Devices -> OnlineStatus]
    BY <1>5, AccountTypes DEF SweepAnnounces, TypeOK, OnlineStatus
  <2> QED BY <1>5, <2>2, <2>3 DEF SweepAnnounces, TypeOK, AccountType
<1>6. CASE SweepEnds
  BY <1>6, IdleTypes DEF SweepEnds, TypeOK
<1>7. CASE SweepFails
  <2>1. shown' \in [Devices -> OnlineStatus]
    BY <1>7 DEF SweepFails, TypeOK, SweepType, OnlineStatus
  <2>2. sweep' \in SweepType /\ faults' \in Nat
    BY <1>7, IdleTypes DEF SweepFails, Fault, TypeOK
  <2> QED BY <1>7, <2>1, <2>2 DEF SweepFails, TypeOK
<1> QED BY <1>1, <1>2, <1>3, <1>4, <1>5, <1>6, <1>7 DEF SweepNext, SweepStep

-----------------------------------------------------------------------------
(* Both audiences are told: the requests.                                  *)

\* A step that is not about a device leaves it told.
LEMMA Untouched ==
  ASSUME NEW d \in Devices, Told(d), faults \in Nat,
         account'[d] = account[d], online'[d] = online[d],
         \/ faults' = faults /\ sweep' = sweep /\ shown'[d] = shown[d]
         \/ faults' # 0 /\ (sweep' = sweep \/ sweep' = IdleSweep),
         \A h \in Requests :
           \/ request'[h] = request[h]
           \/ request'[h].device # d /\ (request[h].device # d \/ faults' # 0)
  PROVE  Told(d)'
<1>1. OneAtATime(d)'
  BY IdleTypes DEF Told, OneAtATime, Busy
<1>2. RequestKnows(d)'
  BY DEF Told, RequestKnows, WillAnnounce
<1>3. SweepKnows(d)'
  BY IdleTypes DEF Told, SweepKnows
<1>4. (faults = 0 => DebtsArePaid(d))'
  BY DEF Told, DebtsArePaid, WillAnnounce, WillShow
<1> QED BY <1>1, <1>2, <1>3, <1>4 DEF Told

LEMMA SendTells ==
  ASSUME Inv, NEW h \in Requests, NEW d \in Devices, NEW kind \in Kind, Send(h, d, kind)
  PROVE  Telling'
<1> DEFINE r == [pc |-> "read", device |-> d, kind |-> kind,
                 change |-> kind # "metrics" /\ online[d] # StatusOf(kind)]
<1>1. r \in RequestType /\ request' = [request EXCEPT ![h] = r]
  BY DEF Send, RequestType
<1>2. /\ r.pc = "read" /\ r.device = d
      /\ r.change <=> r.kind # "metrics" /\ online[d] # StatusOf(r.kind)
  OBVIOUS
<1> HIDE DEF r
<1>3. request'[h] = r /\ Others(h)
  BY <1>1, Put DEF Inv
<1>4. request[h].device = None
  BY DEF Inv, RequestsOK, Send
<1>5. /\ UNCHANGED <<online, sweep, shown, faults>> /\ faults \in Nat
      /\ account' = IF Busy(d) \/ sweep.pc # "idle" THEN Void({d}) ELSE account
  BY DEF Send, docVars, Inv, TypeOK
<1>6. ASSUME NEW e \in Devices, e # d
      PROVE  account'[e] # "spurious" /\ (account'[e] # "void" => Told(e)')
  <2>1. account'[e] = account[e]
    BY <1>5, <1>6 DEF Void
  <2>2. account[e] # "spurious" /\ (account[e] # "void" => Told(e))
    BY DEF Inv, Telling
  <2>3. \A g \in Requests : request'[g] = request[g]
                            \/ (request'[g].device # e /\ request[g].device # e)
    BY <1>2, <1>3, <1>4, <1>6, PresenceAssumption DEF Others
  <2> QED BY <1>5, <2>1, <2>2, <2>3, Untouched
<1>7. account'[d] # "spurious"
  BY <1>5 DEF Inv, Telling, Void
<1>8. ASSUME account'[d] # "void" PROVE Told(d)'
  <2>1. ~Busy(d) /\ sweep.pc = "idle" /\ account' = account /\ Told(d)
    BY <1>5, <1>8 DEF Void, Inv, Telling
  <2>2. \A g \in Requests : request'[g].device = d => g = h
    BY <1>3, <2>1 DEF Busy, Others
  <2>3. OneAtATime(d)'
    BY <1>5, <2>1, <2>2 DEF OneAtATime
  <2>4. RequestKnows(d)'
    BY <1>2, <1>3, <1>5, <2>2 DEF RequestKnows, WillAnnounce, Touched
  <2>5. SweepKnows(d)'
    BY <1>5, <2>1 DEF SweepKnows, Marked
  <2>6. (faults = 0 => DebtsArePaid(d))'
    BY <1>5, <2>1 DEF Told, DebtsArePaid, Busy, Marked
  <2> QED BY <2>3, <2>4, <2>5, <2>6 DEF Told
<1> QED BY <1>6, <1>7, <1>8 DEF Telling

LEMMA TouchDeviceTells ==
  ASSUME Inv, NEW h \in Requests, TouchDevice(h)
  PROVE  Telling'
<1>a. PICK d \in Devices : d = request[h].device
  BY ShownTypes DEF TouchDevice, Inv
<1>b. PICK s : s = StatusOf(request[h].kind)
  OBVIOUS
<1>1. /\ request[h].pc = "read" /\ request' = [request EXCEPT ![h].pc = "touched"]
      /\ online' = [online EXCEPT ![d] = s]
      /\ account' = IF s = "offline" THEN Charge({d}) ELSE account
      /\ UNCHANGED <<sweep, shown, faults>> /\ faults \in Nat
  BY <1>a, <1>b DEF TouchDevice, Inv, TypeOK
<1>2. d \in Devices /\ request[h] \in RequestType
  BY <1>1, ShownTypes DEF Inv
<1>3. /\ Others(h) /\ request'[h].pc = "touched" /\ request'[h].device = d
      /\ request'[h].kind = request[h].kind /\ request'[h].change = request[h].change
  BY <1>1, <1>a, Advance DEF Inv
<1>4. s = IF request[h].kind = "goodbye" THEN "offline" ELSE "online"
  BY <1>b DEF StatusOf
<1>5. request'[h].device = d /\ StatusOf(request'[h].kind) = s
  BY <1>3, <1>b
<1>6. online \in [Devices -> OnlineStatus] /\ account \in AccountType
  BY DEF Inv, TypeOK, AccountType
<1>7. ASSUME NEW e \in Devices, e # d
      PROVE  account'[e] # "spurious" /\ (account'[e] # "void" => Told(e)')
  <2>1. account'[e] = account[e] /\ online'[e] = online[e]
    BY <1>1, <1>6, <1>7 DEF Charge
  <2>2. account[e] # "spurious" /\ (account[e] # "void" => Told(e))
    BY DEF Inv, Telling
  <2>3. \A g \in Requests : request'[g] = request[g]
                            \/ (request'[g].device # e /\ request[g].device # e)
    BY <1>3, <1>7, <1>a DEF Others
  <2> QED BY <1>1, <2>1, <2>2, <2>3, Untouched
<1>8. account'[d] # "spurious" /\ online'[d] = s
  BY <1>1, <1>2, <1>6 DEF Inv, Telling, Charge
<1>9. ASSUME account'[d] # "void" PROVE Told(d)'
  <2>1. account[d] # "void" /\ Told(d)
    BY <1>1, <1>2, <1>9 DEF Charge, Inv, Telling
  <2>2. sweep.pc = "idle" /\ \A g \in Requests : request[g].device = d => g = h
    BY <1>a, <2>1 DEF Told, OneAtATime, Busy
  <2>3. \A g \in Requests : request'[g].device = d => g = h
    BY <1>3, <2>2 DEF Others
  <2>4. OneAtATime(d)'
    BY <1>1, <2>2, <2>3 DEF OneAtATime
  <2>5. request[h].change <=> request[h].kind # "metrics" /\ online[d] # s
    BY <1>1, <1>a, <1>b, <2>1 DEF Told, RequestKnows
  <2>6. WillAnnounce(request'[h]) => account'[d] = "owed"
    <3>1. SUFFICES ASSUME request[h].change, request[h].kind = "goodbye"
                   PROVE  account'[d] = "owed"
      BY <1>3 DEF WillAnnounce
    <3>2. s = "offline" /\ online[d] # "offline"
      BY <1>4, <2>5, <3>1
    <3>3. account[d] \in {"even", "owed"}
      BY <1>2, <1>6, <2>1 DEF AccountType, Inv, Telling
    <3> QED BY <1>1, <1>2, <3>2, <3>3 DEF Charge
  <2>7. RequestKnows(d)'
    BY <1>3, <1>5, <1>8, <2>3, <2>6 DEF RequestKnows
  <2>8. SweepKnows(d)'
    BY <1>1, <2>2 DEF SweepKnows, Marked
  <2>9. ASSUME faults = 0 PROVE DebtsArePaid(d)'
    <3>1. account[d] # "owed" /\ shown[d] = online[d]
      BY <1>1, <2>1, <2>2, <2>9
        DEF Told, DebtsArePaid, WillAnnounce, WillShow, Touched, Marked
    <3>2. ASSUME account'[d] = "owed" PROVE WillAnnounce(request'[h])
      <4>1. s = "offline" /\ online[d] # "offline"
        BY <1>1, <1>2, <3>1, <3>2 DEF Charge
      <4> QED BY <1>3, <1>4, <2>5, <4>1 DEF WillAnnounce, Touched
    <3>3. shown'[d] = online'[d] \/ WillShow(request'[h])
      BY <1>1, <1>3, <1>8, <2>5, <3>1 DEF WillShow, Touched
    <3> QED BY <1>3, <3>2, <3>3 DEF DebtsArePaid
  <2> QED BY <1>1, <2>4, <2>7, <2>8, <2>9 DEF Told
<1> QED BY <1>2, <1>7, <1>8, <1>9 DEF Telling

LEMMA TouchAgentTells ==
  ASSUME Inv, NEW h \in Requests, TouchAgent(h)
  PROVE  Telling'
<1>1. /\ request[h].pc = "touched" /\ request' = [request EXCEPT ![h].pc = "recorded"]
      /\ UNCHANGED <<online, sweep, shown, account, faults>> /\ faults \in Nat
  BY DEF TouchAgent, Inv, TypeOK
<1>a. PICK d \in Devices : d = request[h].device
  BY <1>1, ShownTypes DEF Inv
<1>2. /\ Others(h) /\ request'[h].pc = "recorded" /\ request'[h].device = d
      /\ request'[h].kind = request[h].kind /\ request'[h].change = request[h].change
  BY <1>1, <1>a, Advance DEF Inv
<1>3. /\ WillShow(request'[h]) <=> WillShow(request[h])
      /\ WillAnnounce(request'[h]) <=> WillAnnounce(request[h])
  BY <1>1, <1>2 DEF WillShow, WillAnnounce, Touched
<1>4. ASSUME NEW e \in Devices, e # d, Told(e) PROVE Told(e)'
  <2>1. \A g \in Requests : request'[g] = request[g]
                            \/ (request'[g].device # e /\ request[g].device # e)
    BY <1>2, <1>4, <1>a DEF Others
  <2> QED BY <1>1, <1>4, <2>1, Untouched
<1>5. ASSUME Told(d) PROVE Told(d)'
  <2>1. OneAtATime(d)'
    BY <1>1, <1>2, <1>5, <1>a DEF Told, OneAtATime, Busy, Others
  <2>2. RequestKnows(d)'
    BY <1>1, <1>2, <1>3, <1>5, <1>a DEF Told, RequestKnows, Others, Touched
  <2>3. SweepKnows(d)'
    BY <1>1, <1>5 DEF Told, SweepKnows
  <2>4. \A g \in Requests : /\ request'[g].device = d <=> request[g].device = d
                            /\ WillShow(request'[g]) <=> WillShow(request[g])
                            /\ WillAnnounce(request'[g]) <=> WillAnnounce(request[g])
    BY <1>2, <1>3, <1>a DEF Others
  <2>5. (faults = 0 => DebtsArePaid(d))'
    BY <1>1, <1>5, <2>4 DEF Told, DebtsArePaid
  <2> QED BY <2>1, <2>2, <2>3, <2>5 DEF Told
<1> QED BY <1>1, <1>4, <1>5 DEF Telling, Inv

LEMMA AnswerTells ==
  ASSUME Inv, NEW h \in Requests, Answer(h)
  PROVE  Telling'
<1> DEFINE announces == request[h].kind = "goodbye" /\ request[h].change
<1>1. /\ request[h].pc = "recorded" /\ request' = [request EXCEPT ![h] = IdleRequest]
      /\ shown' = ShownAfter(h)
      /\ account' = IF announces THEN Announced(request[h].device) ELSE account
      /\ UNCHANGED <<online, sweep, faults>> /\ faults \in Nat
  BY DEF Answer, docVars, Inv, TypeOK
<1>a. PICK d \in Devices : d = request[h].device
  BY <1>1, ShownTypes DEF Inv
<1>2. request'[h] = IdleRequest /\ Others(h)
  BY <1>1, IdleTypes, Put DEF Inv
<1>3. request'[h].device \notin Devices
  BY <1>2, IdleTypes, PresenceAssumption
<1>4. shown \in [Devices -> OnlineStatus] /\ account \in AccountType
  BY DEF Inv, TypeOK, AccountType
<1>5. ASSUME NEW e \in Devices, e # d
      PROVE  account'[e] # "spurious" /\ (account'[e] # "void" => Told(e)')
  <2>1. account'[e] = account[e] /\ shown'[e] = shown[e]
    BY <1>1, <1>4, <1>5, <1>a DEF Announced, ShownAfter
  <2>2. account[e] # "spurious" /\ (account[e] # "void" => Told(e))
    BY DEF Inv, Telling
  <2>3. \A g \in Requests : request'[g] = request[g]
                            \/ (request'[g].device # e /\ request[g].device # e)
    BY <1>2, <1>3, <1>5, <1>a DEF Others
  <2> QED BY <1>1, <2>1, <2>2, <2>3, Untouched
<1>6. CASE account[d] = "void"
  <2>1. account'[d] = "void"
    BY <1>1, <1>4, <1>6, <1>a DEF Announced
  <2> QED BY <1>5, <2>1 DEF Telling
<1>7. CASE account[d] # "void"
  <2>1. Told(d) /\ account[d] # "spurious"
    BY <1>7 DEF Inv, Telling
  <2>2. sweep.pc = "idle" /\ \A g \in Requests : request[g].device = d => g = h
    BY <1>a, <2>1 DEF Told, OneAtATime, Busy
  <2>3. ~Busy(d)'
    BY <1>2, <1>3, <2>2 DEF Busy, Others
  <2>4. online[d] = StatusOf(request[h].kind) /\ (announces => account[d] = "owed")
    BY <1>1, <1>a, <2>1 DEF Told, RequestKnows, WillAnnounce, Touched
  <2>5. account'[d] = IF announces THEN "even" ELSE account[d]
    BY <1>1, <1>a, <2>4, AnnouncementPays DEF Inv
  <2>6. OneAtATime(d)' /\ RequestKnows(d)'
    BY <2>3 DEF OneAtATime, RequestKnows, Busy
  <2>7. SweepKnows(d)'
    BY <1>1, <2>2 DEF SweepKnows, Marked
  <2>8. ASSUME faults = 0 PROVE DebtsArePaid(d)'
    <3>1. account'[d] # "owed"
      BY <1>a, <2>1, <2>2, <2>5, <2>8 DEF Told, DebtsArePaid, WillAnnounce, Marked
    <3>2. shown'[d] = IF request[h].kind = "metrics" \/ request[h].change
                        THEN StatusOf(request[h].kind) ELSE shown[d]
      BY <1>1, <1>4, <1>a DEF ShownAfter
    <3>3. shown'[d] = online'[d]
      BY <1>1, <1>a, <2>1, <2>2, <2>4, <2>8, <3>2 DEF Told, DebtsArePaid, WillShow, Marked
    <3> QED BY <3>1, <3>3 DEF DebtsArePaid
  <2>9. Told(d)'
    BY <1>1, <2>6, <2>7, <2>8 DEF Told
  <2> QED BY <1>5, <2>1, <2>5, <2>9 DEF Telling
<1> QED BY <1>6, <1>7

LEMMA RequestFailsTells ==
  ASSUME Inv, NEW h \in Requests, RequestFails(h)
  PROVE  Telling'
<1>1. /\ request' = [request EXCEPT ![h] = IdleRequest]
      /\ UNCHANGED <<online, sweep, account>>
      /\ faults \in Nat /\ faults' # 0
  BY DEF RequestFails, Fault, docVars, Inv, TypeOK
<1>2. request'[h].device \notin Devices /\ Others(h)
  BY <1>1, IdleTypes, Put, PresenceAssumption DEF Inv
<1>3. ASSUME NEW e \in Devices, Told(e) PROVE Told(e)'
  <2>1. \A g \in Requests : request'[g] = request[g] \/ request'[g].device # e
    BY <1>2 DEF Others
  <2> QED BY <1>1, <1>3, <2>1, Untouched
<1> QED BY <1>1, <1>3 DEF Telling, Inv

-----------------------------------------------------------------------------
(* Both audiences are told: the sweep.                                     *)

LEMMA SweepFindsTells ==
  ASSUME Inv, SweepFinds
  PROVE  Telling'
<1> DEFINE b == {d \in Devices : online[d] = "online" /\ beat[d] = "stale"}
<1>1. /\ sweep.pc = "idle" /\ sweep' = [IdleSweep EXCEPT !.pc = "found", !.batch = b]
      /\ account' = Void({d \in Devices : Busy(d)})
      /\ UNCHANGED <<online, request, shown, faults>>
  BY DEF SweepFinds, docVars
<1>2. sweep'.pc = "found" /\ \A d \in sweep'.batch : online[d] = "online"
  BY <1>1 DEF IdleSweep
<1>3. ASSUME NEW d \in Devices
      PROVE  account'[d] # "spurious" /\ (account'[d] # "void" => Told(d)')
  <2>1. account'[d] = IF Busy(d) THEN "void" ELSE account[d]
    BY <1>1 DEF Void
  <2>2. account'[d] # "spurious"
    BY <2>1 DEF Inv, Telling
  <2>3. ASSUME account'[d] # "void" PROVE Told(d)'
    <3>1. ~Busy(d) /\ account'[d] = account[d] /\ Told(d)
      BY <2>1, <2>3 DEF Inv, Telling
    <3>2. OneAtATime(d)' /\ RequestKnows(d)'
      BY <1>1, <3>1 DEF OneAtATime, RequestKnows, Busy
    <3>3. SweepKnows(d)'
      BY <1>1, <1>2 DEF SweepKnows, Marked
    <3>4. (faults = 0 => DebtsArePaid(d))'
      BY <1>1, <3>1 DEF Told, DebtsArePaid, Busy, Marked
    <3> QED BY <3>2, <3>3, <3>4 DEF Told
  <2> QED BY <2>2, <2>3
<1> QED BY <1>3 DEF Telling

LEMMA SweepMarksTells ==
  ASSUME Inv, SweepMarks
  PROVE  Telling'
<1>1. /\ sweep.pc = "found" /\ sweep' = [sweep EXCEPT !.pc = "marked"]
      /\ account' = Charge(sweep.batch)
      /\ online' = [d \in Devices |-> IF d \in sweep.batch THEN "offline" ELSE online[d]]
      /\ UNCHANGED <<request, shown, faults>>
  BY DEF SweepMarks
<1>2. sweep'.pc = "marked" /\ sweep'.batch = sweep.batch
  BY <1>1 DEF Inv, TypeOK, SweepType
<1>3. account \in AccountType
  BY DEF Inv, TypeOK, AccountType
<1>4. ASSUME NEW d \in Devices
      PROVE  account'[d] # "spurious" /\ (account'[d] # "void" => Told(d)')
  <2>1. account[d] # "spurious" /\ (account[d] # "void" => Told(d))
    BY DEF Inv, Telling
  <2>2. CASE account[d] = "void"
    BY <1>1, <2>2 DEF Charge
  <2>3. CASE account[d] # "void" /\ d \notin sweep.batch
    <3>1. account'[d] = account[d] /\ online'[d] = online[d] /\ Told(d)
      BY <1>1, <2>1, <2>3 DEF Charge
    <3>2. OneAtATime(d)' /\ RequestKnows(d)'
      BY <1>1, <3>1 DEF Told, OneAtATime, RequestKnows, Busy
    <3>3. SweepKnows(d)'
      BY <1>2, <2>3 DEF SweepKnows
    <3>4. (faults = 0 => DebtsArePaid(d))'
      BY <1>1, <2>3, <3>1 DEF Told, DebtsArePaid
    <3> QED BY <2>1, <3>1, <3>2, <3>3, <3>4 DEF Told
  <2>4. CASE account[d] # "void" /\ d \in sweep.batch
    <3>1. ~Busy(d) /\ online[d] = "online" /\ account[d] \in {"even", "owed"}
      BY <1>1, <1>3, <2>1, <2>4 DEF Told, OneAtATime, SweepKnows, AccountType
    <3>2. account'[d] = "owed" /\ online'[d] = "offline"
      BY <1>1, <2>4, <3>1 DEF Charge
    <3>3. OneAtATime(d)' /\ RequestKnows(d)'
      BY <1>1, <3>1 DEF OneAtATime, RequestKnows, Busy
    <3>4. SweepKnows(d)' /\ DebtsArePaid(d)'
      BY <1>2, <2>4, <3>2 DEF SweepKnows, DebtsArePaid, Marked
    <3> QED BY <3>2, <3>3, <3>4 DEF Told
  <2> QED BY <2>2, <2>3, <2>4
<1> QED BY <1>4 DEF Telling

LEMMA SweepAgentsTells ==
  ASSUME Inv, SweepFindsAgents \/ SweepMarksAgents
  PROVE  Telling'
<1>1. /\ sweep.pc \in {"marked", "agentsFound"}
      /\ sweep'.pc \in {"agentsFound", "announcing"} /\ sweep'.batch = sweep.batch
  BY DEF SweepFindsAgents, SweepMarksAgents, Inv, TypeOK, SweepType
<1>2. UNCHANGED <<online, request, shown, account, faults>>
  BY DEF SweepFindsAgents, SweepMarksAgents, docVars
<1>3. ASSUME NEW d \in Devices, Told(d) PROVE Told(d)'
  <2>1. OneAtATime(d)' /\ RequestKnows(d)'
    BY <1>1, <1>2, <1>3 DEF Told, OneAtATime, RequestKnows, Busy
  <2>2. SweepKnows(d)'
    BY <1>1, <1>2, <1>3 DEF Told, SweepKnows, Marked
  <2>3. (faults = 0 => DebtsArePaid(d))'
    BY <1>1, <1>2, <1>3 DEF Told, DebtsArePaid, Marked
  <2> QED BY <2>1, <2>2, <2>3 DEF Told
<1> QED BY <1>2, <1>3 DEF Telling, Inv

LEMMA SweepAnnouncesTells ==
  ASSUME Inv, NEW d \in Devices, SweepAnnounces(d)
  PROVE  Telling'
<1>1. /\ sweep.pc = "announcing" /\ d \in sweep.batch
      /\ sweep' = [sweep EXCEPT !.batch = sweep.batch \ {d}]
      /\ account' = Announced(d) /\ shown' = [shown EXCEPT ![d] = "offline"]
      /\ UNCHANGED <<online, request, faults>>
  BY DEF SweepAnnounces, docVars
<1>2. sweep'.pc = "announcing" /\ sweep'.batch = sweep.batch \ {d}
  BY <1>1 DEF Inv, TypeOK, SweepType
<1>3. account \in AccountType /\ shown \in [Devices -> OnlineStatus]
  BY DEF Inv, TypeOK, AccountType
<1>4. ASSUME NEW e \in Devices, e # d
      PROVE  account'[e] # "spurious" /\ (account'[e] # "void" => Told(e)')
  <2>1. account'[e] = account[e] /\ shown'[e] = shown[e]
    BY <1>1, <1>3, <1>4 DEF Announced
  <2>2. account[e] # "spurious"
    BY DEF Inv, Telling
  <2>3. ASSUME account[e] # "void" PROVE Told(e)'
    <3>1. Told(e)
      BY <2>3 DEF Inv, Telling
    <3>2. OneAtATime(e)' /\ RequestKnows(e)'
      BY <1>1, <1>2, <2>1, <3>1 DEF Told, OneAtATime, RequestKnows, Busy
    <3>3. SweepKnows(e)'
      BY <1>1, <1>2, <2>1, <3>1 DEF Told, SweepKnows
    <3>4. (faults = 0 => DebtsArePaid(e))'
      BY <1>1, <1>2, <1>4, <2>1, <3>1 DEF Told, DebtsArePaid
    <3> QED BY <3>2, <3>3, <3>4 DEF Told
  <2> QED BY <2>1, <2>2, <2>3
<1>5. CASE account[d] = "void"
  <2>1. account'[d] = "void"
    BY <1>1, <1>3, <1>5 DEF Announced
  <2> QED BY <1>4, <2>1 DEF Telling
<1>6. CASE account[d] # "void"
  <2>1. Told(d)
    BY <1>6 DEF Inv, Telling
  <2>2. online[d] = "offline" /\ account[d] = "owed" /\ ~Busy(d)
    BY <1>1, <2>1 DEF Told, OneAtATime, SweepKnows, Marked
  <2>3. account'[d] = "even" /\ shown'[d] = online'[d]
    BY <1>1, <1>3, <2>2, AnnouncementPays DEF Inv
  <2>4. OneAtATime(d)' /\ RequestKnows(d)'
    BY <1>1, <2>2 DEF OneAtATime, RequestKnows, Busy
  <2>5. SweepKnows(d)' /\ DebtsArePaid(d)'
    BY <1>2, <2>3 DEF SweepKnows, DebtsArePaid
  <2> QED BY <1>4, <2>3, <2>4, <2>5 DEF Telling, Told
<1> QED BY <1>5, <1>6

LEMMA SweepEndsTells ==
  ASSUME Inv, SweepEnds
  PROVE  Telling'
<1>1. /\ sweep.pc = "announcing" /\ sweep.batch = {} /\ sweep' = IdleSweep
      /\ UNCHANGED <<online, request, shown, account, faults>>
  BY DEF SweepEnds, docVars
<1>2. ASSUME NEW d \in Devices, Told(d) PROVE Told(d)'
  <2>1. OneAtATime(d)' /\ RequestKnows(d)'
    BY <1>1, <1>2, IdleTypes DEF Told, OneAtATime, RequestKnows, Busy
  <2>2. SweepKnows(d)'
    BY <1>1, IdleTypes DEF SweepKnows
  <2>3. (faults = 0 => DebtsArePaid(d))'
    BY <1>1, <1>2 DEF Told, DebtsArePaid
  <2> QED BY <2>1, <2>2, <2>3 DEF Told
<1> QED BY <1>1, <1>2 DEF Telling, Inv

LEMMA SweepFailsTells ==
  ASSUME Inv, SweepFails
  PROVE  Telling'
<1>1. /\ sweep' = IdleSweep /\ UNCHANGED <<online, request, account>>
      /\ faults \in Nat /\ faults' # 0
  BY DEF SweepFails, Fault, docVars, Inv, TypeOK
<1> QED BY <1>1, Untouched DEF Telling, Inv

-----------------------------------------------------------------------------
(* Every step.                                                             *)

LEMMA InitInv == Init => Inv
<1> SUFFICES ASSUME Init PROVE Inv
  OBVIOUS
<1>1. TypeOK
  BY IdleTypes DEF Init, TypeOK, OnlineStatus, Age
<1>2. \A h \in Requests : request[h] = IdleRequest
  BY DEF Init
<1>3. RequestsOK
  BY <1>2, IdleTypes DEF RequestsOK
<1>4. \A d \in Devices : ~Busy(d)
  BY <1>2, IdleTypes, PresenceAssumption DEF Busy
<1>5. ASSUME NEW d \in Devices PROVE account[d] = "even" /\ Told(d)
  <2>1. account[d] = "even" /\ shown[d] = online[d] /\ sweep = IdleSweep
    BY DEF Init
  <2>2. OneAtATime(d) /\ RequestKnows(d)
    BY <1>4 DEF OneAtATime, RequestKnows, Busy
  <2>3. SweepKnows(d) /\ DebtsArePaid(d)
    BY <2>1, IdleTypes DEF SweepKnows, DebtsArePaid
  <2> QED BY <2>1, <2>2, <2>3 DEF Told
<1> QED BY <1>1, <1>3, <1>5 DEF Inv, Telling

LEMMA NextInv == Inv /\ [Next]_vars => Inv'
<1> SUFFICES ASSUME Inv, [Next]_vars PROVE Inv'
  OBVIOUS
<1>1. ASSUME NEW d \in Devices, AgentStep(d) PROVE Inv'
  <2>1. TypeOK' /\ UNCHANGED <<online, request, sweep, shown, account, faults>>
    BY <1>1, AgentType_Next DEF Inv
  <2>2. Telling'
    BY <2>1, Untouched DEF Inv, Telling, TypeOK
  <2> QED BY <2>1, <2>2 DEF Inv, RequestsOK
<1>2. ASSUME NEW h \in Requests, RequestStep(h) PROVE Inv'
  <2>1. TypeOK' /\ RequestsOK'
    BY <1>2, RequestType_Next DEF Inv
  <2>2. Telling'
    BY <1>2, SendTells, TouchDeviceTells, TouchAgentTells, AnswerTells, RequestFailsTells
      DEF RequestStep
  <2> QED BY <2>1, <2>2 DEF Inv
<1>3. CASE SweepNext
  <2>1. TypeOK' /\ UNCHANGED request
    BY <1>3, SweepType_Next DEF Inv
  <2>2. Telling'
    BY <1>3, SweepFindsTells, SweepMarksTells, SweepAgentsTells, SweepAnnouncesTells,
       SweepEndsTells, SweepFailsTells DEF SweepNext, SweepStep
  <2> QED BY <2>1, <2>2 DEF Inv, RequestsOK
<1>4. CASE UNCHANGED vars
  <2>1. TypeOK' /\ RequestsOK' /\ UNCHANGED <<online, request, sweep, shown, account, faults>>
    BY <1>4 DEF vars, Inv, TypeOK, RequestsOK
  <2>2. Telling'
    BY <2>1, Untouched DEF Inv, Telling, TypeOK
  <2> QED BY <2>1, <2>2 DEF Inv
<1>5. ASSUME NEW h \in Requests, NEW d \in Devices,
             SendHeartbeat(h, d) \/ SendMetrics(h, d) \/ SayGoodbye(h, d)
      PROVE  RequestStep(h)
  BY <1>5 DEF SendHeartbeat, SendMetrics, SayGoodbye, RequestStep, Kind
<1>6. AgentNext => \E d \in Devices : AgentStep(d)
  BY DEF AgentNext, AgentStep
<1>7. RequestNext => \E h \in Requests : RequestStep(h)
  BY <1>5 DEF RequestNext, RequestStep
<1> QED BY <1>1, <1>2, <1>3, <1>4, <1>6, <1>7 DEF Next, SweepNext

LEMMA TellingTells == Inv => ChangesAreTold
<1> SUFFICES ASSUME Inv, NEW d \in Devices
             PROVE  /\ account[d] # "spurious"
                    /\ Settled(d) => account[d] = "even" /\ shown[d] = online[d]
  BY DEF ChangesAreTold, OfflineAnnouncedOnce, ShownIsCurrent
<1>1. account[d] # "spurious" /\ account[d] \in {"even", "owed", "spurious", "void"}
  BY DEF Inv, Telling, TypeOK
<1>2. ASSUME Settled(d) PROVE account[d] = "even" /\ shown[d] = online[d]
  <2>1. ~Busy(d) /\ sweep.pc = "idle" /\ account[d] # "void" /\ DebtsArePaid(d)
    BY <1>2 DEF Settled, Inv, Telling, Told
  <2> QED BY <1>1, <2>1 DEF DebtsArePaid, Busy, Marked
<1> QED BY <1>1, <1>2

\* The inductive invariant: what every handler knows of its device is true, and
\* what is owed to either audience has someone who will pay it.
THEOREM TellingHolds == Spec => []Inv
BY InitInv, NextInv, PTL DEF Spec

\* Documents, handlers, the sweep and the web client have their types.
THEOREM TypesHold == Spec => []TypeOK
<1>1. Inv => TypeOK
  BY DEF Inv
<1> QED BY <1>1, TellingHolds, PTL

\* The automations are told of each change to OFFLINE exactly once and the web
\* client is shown the stored status, by one handler or another, for any number
\* of devices, requests and faults.
THEOREM AllAreTold == Spec => []ChangesAreTold
BY TellingTells, TellingHolds, PTL
=============================================================================
