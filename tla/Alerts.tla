------------------------------- MODULE Alerts -------------------------------
(***************************************************************************)
(* Alerts and the tickets made from them: AlertsService with               *)
(* TicketsService.createFromAlert.  Rules are matched by handlers of       *)
(* metrics, heartbeats and sweeps (see Presence), operators acknowledge    *)
(* and resolve alerts and ask for tickets.                                 *)
(*                                                                         *)
(* An action is one awaited operation of one handler.  A document's save() *)
(* writes the fields assigned since it was loaded, if they differ from     *)
(* what was loaded, whatever the stored ones have become.                  *)
(***************************************************************************)
EXTENDS Naturals, Sequences, FiniteSets

CONSTANTS
  Subjects,     \* pairs of a rule and a device, the unit of deduplication
  Handlers,     \* handlers that may run at the same time
  None,         \* no subject
  MaxAlerts,    \* the bound on the number of alerts
  MaxTickets,   \* the bound on the number of tickets
  MaxFaults     \* the bound on handlers that fail half way

ASSUME AlertsAssumption ==
  /\ None \notin Subjects
  /\ MaxAlerts \in Nat /\ MaxTickets \in Nat /\ MaxFaults \in Nat

VARIABLES
  rule,         \* the AlertRule of each subject: has it a cooldown, does it ask
                \* for a ticket (autoCreateTicket, or severity CRITICAL)?
  alerts,       \* Alert documents in the order of createdAt
  tickets,      \* Ticket documents made from alerts
  handler,      \* the local state of each handler
  overlapped,   \* history: subjects two of whose handlers ran at the same time
  faults        \* number of faults so far

vars == <<rule, alerts, tickets, handler, overlapped, faults>>

AlertStatus == {"open", "acknowledged", "resolved"}
Active      == {"open", "acknowledged"}

Idle == [pc |-> "idle", subject |-> None, alert |-> 0, seen |-> "open", ticket |-> 0]

Rule == [cooldown : BOOLEAN, autoTicket : BOOLEAN]

Init ==
  /\ rule \in [Subjects -> Rule]
  /\ alerts      = <<>>
  /\ tickets     = <<>>
  /\ handler     = [h \in Handlers |-> Idle]
  /\ overlapped  = {}
  /\ faults      = 0

Of(s) == {i \in 1..Len(alerts) : alerts[i].subject = s}

Begin(h, s, local) ==
  /\ handler[h].pc = "idle"
  /\ handler'    = [handler EXCEPT ![h] = local]
  /\ overlapped' = IF \E g \in Handlers : handler[g].subject = s
                     THEN overlapped \cup {s} ELSE overlapped
  /\ UNCHANGED <<rule, alerts, tickets, faults>>

Go(h, pc)  == handler' = [handler EXCEPT ![h].pc = pc]
End(h)     == handler' = [handler EXCEPT ![h] = Idle]

-----------------------------------------------------------------------------
(* triggerAlertForRule, called by evaluateMetrics and evaluateDeviceStatus *)
(* for each enabled rule that matches.                                     *)

\* The bound: room for one more alert of each handler about to create one.
Room == Len(alerts) + Cardinality({g \in Handlers : handler[g].pc \in {"latest", "create"}})
          < MaxAlerts

\* Mutant of Trigger: only an OPEN alert counts as active.
Trigger_OpenOnly(h, s) ==
  \/ \E i \in Of(s) :
       /\ alerts[i].status = "open"
       /\ Begin(h, s, [pc |-> "reopen", subject |-> s, alert |-> i,
                       seen |-> "open", ticket |-> 0])
  \/ /\ \A i \in Of(s) : alerts[i].status # "open"
     /\ Room
     /\ Begin(h, s, [Idle EXCEPT !.pc = "latest", !.subject = s])

\* The query for an active alert; findOne may return any of several.
Trigger(h, s) ==
  \/ \E i \in Of(s) :
       /\ alerts[i].status \in Active
       /\ Begin(h, s, [pc |-> "reopen", subject |-> s, alert |-> i,
                       seen |-> alerts[i].status, ticket |-> 0])
  \/ /\ \A i \in Of(s) : alerts[i].status \notin Active
     /\ Room
     /\ Begin(h, s, [Idle EXCEPT !.pc = "latest", !.subject = s])

\* Mutant of Reopen: the timeline's word for it is stored as the status.
Reopen_Retriggered(h) ==
  /\ handler[h].pc = "reopen"
  /\ alerts' = [alerts EXCEPT ![handler[h].alert].status = "retriggered"]
  /\ End(h)
  /\ UNCHANGED <<rule, tickets, overlapped, faults>>

\* OPEN is assigned; it is written only if the alert was loaded ACKNOWLEDGED.
Reopen(h) ==
  LET i == handler[h].alert IN
  /\ handler[h].pc = "reopen"
  /\ alerts' = IF handler[h].seen = "open" THEN alerts
               ELSE [alerts EXCEPT ![i].status = "open"]
  /\ End(h)
  /\ UNCHANGED <<rule, tickets, overlapped, faults>>

\* Mutant of CheckCooldown: the latest alert's age is not looked at.
CheckCooldown_Never(h) ==
  /\ handler[h].pc = "latest"
  /\ Go(h, "create")
  /\ UNCHANGED <<rule, alerts, tickets, overlapped, faults>>

\* The latest alert of the subject, whatever its status, starts the cooldown.
CheckCooldown(h) ==
  LET s == handler[h].subject IN
  /\ handler[h].pc = "latest"
  /\ IF rule[s].cooldown /\ \E i \in Of(s) : alerts[i].recent /\ \A j \in Of(s) : j <= i
       THEN End(h) ELSE Go(h, "create")
  /\ UNCHANGED <<rule, alerts, tickets, overlapped, faults>>

CreateAlert(h) ==
  LET s == handler[h].subject IN
  /\ handler[h].pc = "create"
  /\ alerts' = Append(alerts, [subject |-> s, status |-> "open", recent |-> TRUE,
                               ticket |-> 0, announced |-> FALSE])
  /\ handler' = [handler EXCEPT ![h].pc = "announce", ![h].alert = Len(alerts) + 1]
  /\ UNCHANGED <<rule, tickets, overlapped, faults>>

\* Mutant of AnnounceAlert: rules asking for a ticket are not looked at.
AnnounceAlert_NoTicket(h) ==
  /\ handler[h].pc = "announce"
  /\ alerts' = [alerts EXCEPT ![handler[h].alert].announced = TRUE]
  /\ End(h)
  /\ UNCHANGED <<rule, tickets, overlapped, faults>>

\* Notifications, the alert_created trigger, then the ticket if the rule asks
\* for one.
AnnounceAlert(h) ==
  LET s == handler[h].subject IN
  /\ handler[h].pc = "announce"
  /\ alerts' = [alerts EXCEPT ![handler[h].alert].announced = TRUE]
  /\ IF rule[s].autoTicket THEN Go(h, "findTicket") ELSE End(h)
  /\ UNCHANGED <<rule, tickets, overlapped, faults>>

CooldownPasses(i) ==
  /\ i <= Len(alerts)
  /\ alerts[i].recent
  /\ alerts' = [alerts EXCEPT ![i].recent = FALSE]
  /\ UNCHANGED <<rule, tickets, handler, overlapped, faults>>

-----------------------------------------------------------------------------
(* acknowledgeAlert, resolveAlert and createTicketFromAlert.               *)

Load(h, i, pc) ==
  Begin(h, alerts[i].subject,
        [pc |-> pc, subject |-> alerts[i].subject, alert |-> i,
         seen |-> alerts[i].status, ticket |-> 0])

\* Mutant of Acknowledge: resolved alerts are not rejected.
Acknowledge_Any(h, i) ==
  /\ alerts[i].status # "acknowledged"
  /\ Load(h, i, "acknowledge")

\* 'Resolved alerts cannot be acknowledged'; acknowledged ones are left alone.
Acknowledge(h, i) ==
  /\ alerts[i].status = "open"
  /\ Load(h, i, "acknowledge")

SaveAcknowledged(h) ==
  /\ handler[h].pc = "acknowledge"
  /\ alerts' = [alerts EXCEPT ![handler[h].alert].status = "acknowledged"]
  /\ End(h)
  /\ UNCHANGED <<rule, tickets, overlapped, faults>>

Resolve(h, i) ==
  /\ alerts[i].status # "resolved"
  /\ Load(h, i, "resolve")

SaveResolved(h) ==
  /\ handler[h].pc = "resolve"
  /\ alerts' = [alerts EXCEPT ![handler[h].alert].status = "resolved"]
  /\ End(h)
  /\ UNCHANGED <<rule, tickets, overlapped, faults>>

\* Mutant of RequestTicket: the alert's ticket is not looked at.
RequestTicket_Always(h, i) == Load(h, i, "findTicket")

\* An alert that has a ticket is answered with it.
RequestTicket(h, i) ==
  /\ alerts[i].ticket = 0
  /\ Load(h, i, "findTicket")

-----------------------------------------------------------------------------
(* createFromAlert, and the alert's link to its result.                    *)

ActiveTickets(i) == {t \in 1..Len(tickets) : tickets[t].alert = i /\ tickets[t].active}

FindTicket(h) ==
  LET found == ActiveTickets(handler[h].alert) IN
  /\ handler[h].pc = "findTicket"
  /\ \/ \E t \in found :
          handler' = [handler EXCEPT ![h].pc = "link", ![h].ticket = t]
     \/ found = {} /\ Go(h, "createTicket")
  /\ UNCHANGED <<rule, alerts, tickets, overlapped, faults>>

CreateTicket(h) ==
  /\ handler[h].pc = "createTicket"
  /\ Len(tickets) < MaxTickets
  /\ tickets' = Append(tickets, [alert |-> handler[h].alert, active |-> TRUE])
  /\ handler' = [handler EXCEPT ![h].pc = "link", ![h].ticket = Len(tickets) + 1]
  /\ UNCHANGED <<rule, alerts, overlapped, faults>>

\* Notifications and the ticket_created trigger, then alert.save().
LinkTicket(h) ==
  /\ handler[h].pc = "link"
  /\ alerts' = [alerts EXCEPT ![handler[h].alert].ticket = handler[h].ticket]
  /\ End(h)
  /\ UNCHANGED <<rule, tickets, overlapped, faults>>

\* Technicians resolve, close and reopen tickets.
SetTicket(t) ==
  /\ t <= Len(tickets)
  /\ tickets' = [tickets EXCEPT ![t].active = ~@]
  /\ UNCHANGED <<rule, alerts, handler, overlapped, faults>>

\* An awaited call of the handler rejects, or the API dies.
HandlerFails(h) ==
  /\ handler[h].pc # "idle"
  /\ faults < MaxFaults
  /\ faults' = faults + 1
  /\ End(h)
  /\ UNCHANGED <<rule, alerts, tickets, overlapped>>

-----------------------------------------------------------------------------
TriggerNext == \E h \in Handlers :
  \/ \E s \in Subjects : Trigger(h, s)
  \/ Reopen(h) \/ CheckCooldown(h) \/ CreateAlert(h) \/ AnnounceAlert(h)

OperatorNext == \E h \in Handlers :
  \/ \E i \in 1..Len(alerts) : Acknowledge(h, i) \/ Resolve(h, i) \/ RequestTicket(h, i)
  \/ SaveAcknowledged(h) \/ SaveResolved(h)

TicketNext ==
  \/ \E h \in Handlers : FindTicket(h) \/ CreateTicket(h) \/ LinkTicket(h)
  \/ \E t \in 1..Len(tickets) : SetTicket(t)

Next ==
  \/ TriggerNext \/ OperatorNext \/ TicketNext
  \/ \E i \in 1..Len(alerts) : CooldownPasses(i)
  \/ \E h \in Handlers : HandlerFails(h)

Spec == Init /\ [][Next]_vars

-----------------------------------------------------------------------------
Alert  == [subject : Subjects, status : AlertStatus, recent : BOOLEAN,
           ticket : Nat, announced : BOOLEAN]
Ticket == [alert : Nat, active : BOOLEAN]
HandlerType ==
  [pc : {"idle", "reopen", "latest", "create", "announce", "acknowledge", "resolve",
         "findTicket", "createTicket", "link"},
   subject : Subjects \cup {None}, alert : Nat, seen : AlertStatus, ticket : Nat]

\* Type invariant.
TypeOK ==
  /\ rule        \in [Subjects -> Rule]
  /\ alerts      \in Seq(Alert)
  /\ tickets     \in Seq(Ticket)
  /\ handler     \in [Handlers -> HandlerType]
  /\ overlapped  \in SUBSET Subjects
  /\ faults      \in Nat

Busy(s) == \E h \in Handlers : handler[h].subject = s
Alone(s) == s \notin overlapped

\* A rule has at most one alert to deal with per device: a repeated match
\* retriggers the active alert.  (Two handlers at a time may both find none.)
OneActiveAlert ==
  \A i, j \in 1..Len(alerts) :
    /\ i # j
    /\ alerts[i].subject = alerts[j].subject
    /\ Alone(alerts[i].subject)
    => ~(alerts[i].status \in Active /\ alerts[j].status \in Active)

\* Two alerts of a rule and device are never created within one cooldown, also
\* when operators resolve the first one in between.
CooldownRespected ==
  \A i, j \in 1..Len(alerts) :
    /\ i < j
    /\ alerts[i].subject = alerts[j].subject
    /\ rule[alerts[i].subject].cooldown
    /\ Alone(alerts[i].subject)
    => ~alerts[i].recent

\* A match makes no alert beside an active one or within a cooldown.
NoDuplicateAlerts == OneActiveAlert /\ CooldownRespected

\* A resolved alert stays resolved.
ResolvedIsFinal ==
  [][\A i \in 1..Len(alerts) :
       Alone(alerts[i].subject) /\ alerts[i].status = "resolved"
         => alerts'[i].status = "resolved"]_vars

\* No alert has two tickets, even if its ticket is closed, reopened, or asked
\* for again.
OneTicketPerAlert ==
  faults = 0 =>
    \A t, u \in 1..Len(tickets) :
      tickets[t].alert = tickets[u].alert /\ Alone(alerts[tickets[t].alert].subject) => t = u

\* Once its handlers are through, an alert has raised alert_created
\* and has its ticket, if its rule wants one; the ticket is the alert's own.
NewAlertsAreHandled ==
  \A i \in 1..Len(alerts) :
    LET a == alerts[i] IN
    /\ ~Busy(a.subject) /\ faults = 0 => a.announced /\ (rule[a.subject].autoTicket => a.ticket # 0)
    /\ a.ticket # 0 => a.ticket <= Len(tickets) /\ tickets[a.ticket].alert = i

\* Alerts and tickets are tied one to one: none is made twice and none is left out.
AlertsHaveTheirTicket == OneTicketPerAlert /\ NewAlertsAreHandled

\* alerts.service.ts:255: 'Resolved alerts cannot be acknowledged'.
ResolvedNotAcknowledged ==
  [][\A i \in 1..Len(alerts) :
       alerts[i].status = "resolved" => alerts'[i].status # "acknowledged"]_vars
=============================================================================
