---------------------------- MODULE Alerts_proofs ----------------------------
(***************************************************************************)
(* Theorems about Alerts, for any rules and devices, any number of         *)
(* handlers, and any bounds on alerts, tickets and faults.                 *)
(***************************************************************************)
EXTENDS Alerts, TLAPS

-----------------------------------------------------------------------------
(* The inductive invariant.                                                *)

AlertIds  == 1..Len(alerts)
TicketIds == 1..Len(tickets)

\* Handlers and documents refer to what there is.
HasAlert(r) == r.alert \in AlertIds /\ alerts[r.alert].subject = r.subject

HandlerRefs(r) ==
  /\ r.pc = "idle" <=> r.subject = None
  /\ r.pc \notin {"idle", "latest", "create"} => HasAlert(r)
  /\ r.pc = "link" => r.ticket \in TicketIds /\ tickets[r.ticket].alert = r.alert

Refs ==
  /\ \A h \in Handlers : HandlerRefs(handler[h])
  /\ \A t \in TicketIds : tickets[t].alert \in AlertIds
  /\ \A i \in AlertIds :
       alerts[i].ticket # 0 =>
         alerts[i].ticket \in TicketIds /\ tickets[alerts[i].ticket].alert = i

\* An alert that has still to be announced, or to be given its ticket, has a
\* handler at it.
Ticketing == {"findTicket", "createTicket", "link"}

AtIt(i, pcs) == \E h \in Handlers : handler[h].pc \in pcs /\ handler[h].alert = i

Owed(i) ==
  /\ ~alerts[i].announced => AtIt(i, {"announce"})
  /\ rule[alerts[i].subject].autoTicket /\ alerts[i].ticket = 0 =>
       AtIt(i, {"announce"} \cup Ticketing)

\* What the one handler of a subject knows is still so.
NoneActive(s) == \A i \in Of(s) : alerts[i].status \notin Active
NoneRecent(s) == rule[s].cooldown => \A i \in Of(s) : ~alerts[i].recent

Informed(r) ==
  /\ r.pc = "reopen" => alerts[r.alert].status = r.seen /\ r.seen \in Active
  /\ r.pc \in {"latest", "create"} => NoneActive(r.subject)
  /\ r.pc = "create" => NoneRecent(r.subject)
  /\ r.pc = "acknowledge" => alerts[r.alert].status = "open"
  /\ r.pc \in {"announce"} \cup Ticketing => alerts[r.alert].ticket = 0

One(s) == \A g, h \in Handlers : handler[g].subject = s /\ handler[h].subject = s => g = h

Single(s) ==
  \A i, j \in Of(s) : i # j => ~(alerts[i].status \in Active /\ alerts[j].status \in Active)

Spaced(s) ==
  rule[s].cooldown => \A i, j \in Of(s) : i < j => ~alerts[i].recent

\* A ticket is the one of its alert, or is about to be linked to it.
Tied(s) ==
  \A t \in TicketIds : tickets[t].alert \in Of(s) =>
    \/ alerts[tickets[t].alert].ticket = t
    \/ \E h \in Handlers : /\ handler[h].pc = "link" /\ handler[h].ticket = t
                           /\ handler[h].alert = tickets[t].alert

Sound(s) ==
  /\ One(s) /\ Single(s) /\ Spaced(s)
  /\ \A h \in Handlers : handler[h].subject = s => Informed(handler[h])
  /\ faults = 0 => Tied(s)

Inv ==
  /\ TypeOK /\ Refs
  /\ faults = 0 => \A i \in AlertIds : Owed(i)
  /\ \A s \in Subjects : Alone(s) => Sound(s)

-----------------------------------------------------------------------------
(* Documents and handlers.                                                 *)

\* An alert is saved.
SavedAs(i, a) ==
  /\ alerts' \in Seq(Alert) /\ AlertIds' = AlertIds
  /\ alerts'[i] = a /\ \A j \in AlertIds \ {i} : alerts'[j] = alerts[j]
  /\ \A s \in Subjects : Of(s)' = Of(s)

LEMMA Saved ==
  ASSUME TypeOK, NEW i \in AlertIds, NEW a \in Alert, a.subject = alerts[i].subject,
         alerts' = [alerts EXCEPT ![i] = a]
  PROVE  SavedAs(i, a)
<1>1. alerts' \in Seq(Alert) /\ Len(alerts') = Len(alerts)
  BY DEF TypeOK, AlertIds
<1>2. alerts'[i] = a /\ \A j \in AlertIds \ {i} : alerts'[j] = alerts[j]
  BY DEF TypeOK, AlertIds
<1>3. \A s \in Subjects : Of(s)' = Of(s)
  BY <1>1, <1>2 DEF Of, AlertIds
<1> QED BY <1>1, <1>2, <1>3 DEF SavedAs, AlertIds

LEMMA Added ==
  ASSUME TypeOK, NEW a \in Alert, alerts' = Append(alerts, a)
  PROVE  LET n == Len(alerts) + 1 IN
         /\ alerts' \in Seq(Alert) /\ AlertIds' = AlertIds \cup {n} /\ n \notin AlertIds
         /\ alerts'[n] = a /\ \A j \in AlertIds : alerts'[j] = alerts[j]
         /\ \A s \in Subjects : Of(s)' = IF s = a.subject THEN Of(s) \cup {n} ELSE Of(s)
<1> DEFINE n == Len(alerts) + 1
<1>1. alerts' \in Seq(Alert) /\ Len(alerts') = n /\ Len(alerts) \in Nat
  BY DEF TypeOK
<1>2. alerts'[n] = a /\ \A j \in AlertIds : alerts'[j] = alerts[j]
  BY DEF TypeOK, AlertIds
<1>3. AlertIds' = AlertIds \cup {n} /\ n \notin AlertIds
  BY <1>1 DEF AlertIds
<1>4. \A s \in Subjects : Of(s)' = IF s = a.subject THEN Of(s) \cup {n} ELSE Of(s)
  BY <1>2, <1>3 DEF Of, AlertIds
<1> QED BY <1>1, <1>2, <1>3, <1>4

LEMMA AlertFacts ==
  ASSUME TypeOK
  PROVE  /\ \A i \in AlertIds : alerts[i] \in Alert /\ alerts[i].subject \in Subjects
         /\ \A i \in AlertIds : i \in Of(alerts[i].subject)
         /\ \A s \in Subjects : \A i \in Of(s) : i \in AlertIds /\ alerts[i].subject = s
         /\ \A i \in AlertIds : i \in Nat
<1>1. \A i \in AlertIds : alerts[i] \in Alert
  BY DEF TypeOK, AlertIds
<1>2. \A i \in AlertIds : alerts[i].subject \in Subjects
  BY <1>1 DEF Alert
<1>3. \A i \in AlertIds : i \in Nat
  BY DEF TypeOK, AlertIds
<1> QED BY <1>1, <1>2, <1>3 DEF Of, AlertIds

\* A handler gets the local state r.
Becomes(h, r) ==
  /\ handler' \in [Handlers -> HandlerType]
  /\ handler'[h] = r /\ \A g \in Handlers \ {h} : handler'[g] = handler[g]

LEMMA Put ==
  ASSUME TypeOK, NEW h \in Handlers, NEW r \in HandlerType,
         handler' = [handler EXCEPT ![h] = r]
  PROVE  Becomes(h, r)
BY DEF TypeOK, Becomes

LEMMA IdleType == Idle \in HandlerType /\ Idle.pc = "idle" /\ Idle.subject = None
BY DEF Idle, HandlerType, AlertStatus

LEMMA HandlerFacts ==
  ASSUME TypeOK, Refs, NEW h \in Handlers
  PROVE  /\ handler[h] \in HandlerType
         /\ handler[h].pc # "idle" => handler[h].subject \in Subjects
         /\ handler[h].pc = "idle" => handler[h].subject = None
<1>1. handler[h] \in HandlerType /\ HandlerRefs(handler[h])
  BY DEF TypeOK, Refs
<1> QED BY <1>1 DEF HandlerType, HandlerRefs

-----------------------------------------------------------------------------
(* Subjects a step is not about.                                           *)

LEMMA Elsewhere ==
  ASSUME TypeOK, Refs, NEW s \in Subjects, Sound(s), rule' = rule,
         faults' = faults \/ faults' # 0,
         \A h \in Handlers : handler'[h] = handler[h]
           \/ (handler'[h].subject # s /\ (handler[h].subject # s \/ faults' # 0)),
         Of(s)' = Of(s), \A i \in Of(s) : alerts'[i] = alerts[i],
         \A t \in TicketIds' : (t \in TicketIds /\ tickets'[t].alert = tickets[t].alert)
                               \/ tickets'[t].alert \notin Of(s)
  PROVE  Sound(s)'
<1>1. One(s)'
  BY DEF Sound, One
<1>2. Single(s)' /\ Spaced(s)'
  BY DEF Sound, Single, Spaced
<1>3. ASSUME NEW h \in Handlers, handler'[h].subject = s PROVE Informed(handler[h])'
  <2>1. handler'[h] = handler[h] /\ Informed(handler[h]) /\ HandlerRefs(handler[h])
    BY <1>3 DEF Sound, Refs
  <2>2. handler[h].pc \notin {"idle", "latest", "create"} => handler[h].alert \in Of(s)
    BY <1>3, <2>1 DEF HandlerRefs, HasAlert, Of, AlertIds
  <2> QED BY <1>3, <2>1, <2>2
    DEF Informed, NoneActive, NoneRecent, Ticketing
<1>4. ASSUME faults' = 0 PROVE Tied(s)'
  <2>1. faults = 0 /\ Tied(s)
    BY <1>4 DEF Sound
  <2>2. ASSUME NEW t \in TicketIds', tickets'[t].alert \in Of(s)'
        PROVE  \/ alerts'[tickets'[t].alert].ticket = t
               \/ \E h \in Handlers : /\ handler'[h].pc = "link" /\ handler'[h].ticket = t
                                      /\ handler'[h].alert = tickets'[t].alert
    <3>1. t \in TicketIds /\ tickets'[t].alert = tickets[t].alert /\ tickets[t].alert \in Of(s)
      BY <2>2
    <3>2. CASE alerts[tickets[t].alert].ticket = t
      BY <3>1, <3>2
    <3>3. ASSUME NEW h \in Handlers, handler[h].pc = "link", handler[h].ticket = t,
                 handler[h].alert = tickets[t].alert
          PROVE  handler'[h] = handler[h]
      <4>1. handler[h].subject = s
        BY <3>1, <3>3 DEF Refs, HandlerRefs, HasAlert, Of
      <4> QED BY <1>4, <4>1
    <3> QED BY <2>1, <3>1, <3>2, <3>3 DEF Tied
  <2> QED BY <2>2 DEF Tied
<1> QED BY <1>1, <1>2, <1>3, <1>4 DEF Sound

\* A step of a handler of s is not about the others.
LEMMA OthersSound ==
  ASSUME Inv, NEW h \in Handlers, NEW r, Becomes(h, r), NEW s \in Subjects,
         handler[h].subject \in {s, None}, r.subject \in {s, None},
         rule' = rule, faults' = faults \/ faults' # 0, overlapped \subseteq overlapped',
         \A e \in Subjects \ {s} : Of(e)' = Of(e) /\ \A i \in Of(e) : alerts'[i] = alerts[i],
         \A t \in TicketIds' : (t \in TicketIds /\ tickets'[t].alert = tickets[t].alert)
                               \/ tickets'[t].alert \in Of(s)
  PROVE  \A e \in Subjects \ {s} : Alone(e)' => Sound(e)'
<1> SUFFICES ASSUME NEW e \in Subjects \ {s}, Alone(e)' PROVE Sound(e)'
  OBVIOUS
<1>1. TypeOK /\ Refs /\ Sound(e)
  BY DEF Inv, Alone
<1>2. \A g \in Handlers : handler'[g] = handler[g]
                          \/ (handler'[g].subject # e /\ handler[g].subject # e)
  BY AlertsAssumption DEF Becomes
<1>3. \A i : i \in Of(s) => i \notin Of(e)
  BY DEF Of
<1> QED BY <1>1, <1>2, <1>3, Elsewhere

-----------------------------------------------------------------------------
(* A handler begins, goes on, or fails; no document changes.               *)

LEMMA BeginStep ==
  ASSUME Inv, NEW h \in Handlers, NEW s \in Subjects, NEW r \in HandlerType, Begin(h, s, r),
         r.subject = s, r.pc # "idle", HandlerRefs(r), Alone(s) => Informed(r)
  PROVE  Inv'
<1>0. TypeOK /\ Refs
  BY DEF Inv
<1>1. /\ Becomes(h, r) /\ handler[h].pc = "idle" /\ handler[h].subject = None
      /\ UNCHANGED <<rule, alerts, tickets, faults>>
  BY <1>0, Put, HandlerFacts DEF Begin
<1>2. overlapped' = IF \E g \in Handlers : handler[g].subject = s
                      THEN overlapped \cup {s} ELSE overlapped
  BY DEF Begin
<1>3. TypeOK'
  BY <1>0, <1>1, <1>2 DEF TypeOK, Becomes
<1>4. Refs'
  BY <1>0, <1>1 DEF Refs, HandlerRefs, HasAlert, Becomes, AlertIds, TicketIds
<1>5. (faults = 0 => \A i \in AlertIds : Owed(i))'
  <2>1. \A i, pcs : "idle" \notin pcs /\ AtIt(i, pcs) => AtIt(i, pcs)'
    BY <1>1 DEF AtIt, Becomes
  <2> QED BY <1>1, <2>1 DEF Inv, Owed, AlertIds, Ticketing
<1>6. Alone(s)' => Sound(s)'
  <2> SUFFICES ASSUME Alone(s)' PROVE Sound(s)'
    OBVIOUS
  <2>1. Alone(s) /\ Sound(s) /\ \A g \in Handlers : handler[g].subject # s
    BY <1>2 DEF Alone, Inv
  <2>2. One(s)'
    BY <1>1, <2>1 DEF One, Becomes
  <2>3. Single(s)' /\ Spaced(s)'
    BY <1>1, <2>1 DEF Sound, Single, Spaced, Of
  <2>4. ASSUME NEW g \in Handlers, handler'[g].subject = s PROVE Informed(handler[g])'
    <3>1. g = h
      BY <1>1, <2>1, <2>4 DEF Becomes
    <3> QED BY <1>1, <2>1, <3>1 DEF Becomes, Informed, NoneActive, NoneRecent, Of
  <2>5. (faults = 0 => Tied(s))'
    BY <1>1, <2>1 DEF Sound, Tied, Becomes, Of, TicketIds
  <2> QED BY <2>2, <2>3, <2>4, <2>5 DEF Sound
<1>7. \A e \in Subjects \ {s} : Alone(e)' => Sound(e)'
  BY <1>1, <1>2, OthersSound DEF Of, TicketIds
<1> QED BY <1>3, <1>4, <1>5, <1>6, <1>7 DEF Inv

\* The debts of a handler that goes on stay with it.
KeepsAtIt(p, r) ==
  /\ p.pc \notin {"announce", "link"}
  /\ p.pc \in Ticketing => r.pc \in Ticketing /\ r.alert = p.alert

LEMMA GoStep ==
  ASSUME Inv, NEW h \in Handlers, NEW r \in HandlerType,
         handler' = [handler EXCEPT ![h] = r],
         UNCHANGED <<rule, alerts, tickets, overlapped, faults>>,
         NEW s \in Subjects, handler[h].subject = s, r.subject \in {s, None}, HandlerRefs(r),
         KeepsAtIt(handler[h], r), Sound(s) /\ Alone(s) /\ r.subject = s => Informed(r)
  PROVE  Inv'
<1>0. TypeOK /\ Refs /\ Becomes(h, r)
  BY Put DEF Inv
<1>1. TypeOK'
  BY <1>0 DEF TypeOK, Becomes
<1>2. Refs'
  BY <1>0 DEF Refs, HandlerRefs, HasAlert, Becomes, AlertIds, TicketIds
<1>3. (faults = 0 => \A i \in AlertIds : Owed(i))'
  <2>1. \A i : AtIt(i, {"announce"}) => AtIt(i, {"announce"})'
    BY <1>0 DEF AtIt, Becomes, KeepsAtIt
  <2>2. \A i : AtIt(i, {"announce"} \cup Ticketing) => AtIt(i, {"announce"} \cup Ticketing)'
    BY <1>0 DEF AtIt, Becomes, KeepsAtIt, Ticketing
  <2> QED BY <2>1, <2>2 DEF Inv, Owed, AlertIds
<1>4. Alone(s)' => Sound(s)'
  <2> SUFFICES ASSUME Alone(s) PROVE Sound(s)'
    BY DEF Alone
  <2>1. Sound(s)
    BY DEF Inv
  <2>2. One(s)'
    BY <1>0, <2>1, AlertsAssumption DEF Sound, One, Becomes
  <2>3. Single(s)' /\ Spaced(s)'
    BY <2>1 DEF Sound, Single, Spaced, Of
  <2>4. ASSUME NEW g \in Handlers, handler'[g].subject = s PROVE Informed(handler[g])'
    <3>1. Informed(handler'[g])
      BY <1>0, <2>1, <2>4 DEF Becomes, Sound
    <3> QED BY <3>1 DEF Informed, NoneActive, NoneRecent, Of
  <2>5. (faults = 0 => Tied(s))'
    BY <1>0, <2>1 DEF Sound, Tied, Becomes, Of, TicketIds, KeepsAtIt
  <2> QED BY <2>2, <2>3, <2>4, <2>5 DEF Sound
<1>5. \A e \in Subjects \ {s} : Alone(e)' => Sound(e)'
  BY <1>0, OthersSound DEF Of, TicketIds
<1> QED BY <1>1, <1>2, <1>3, <1>4, <1>5 DEF Inv

LEMMA FailStep ==
  ASSUME Inv, NEW h \in Handlers, HandlerFails(h)
  PROVE  Inv'
<1>0. TypeOK /\ Refs /\ handler' = [handler EXCEPT ![h] = Idle]
  BY DEF Inv, HandlerFails, End
<1>a. Becomes(h, Idle)
  BY <1>0, Put, IdleType
<1>b. faults' # 0 /\ faults' \in Nat
  BY <1>0 DEF HandlerFails, TypeOK
<1>1. /\ Becomes(h, Idle) /\ UNCHANGED <<rule, alerts, tickets, overlapped>>
      /\ faults' # 0 /\ faults' \in Nat
  BY <1>a, <1>b DEF HandlerFails
<1>2. TypeOK'
  BY <1>0, <1>1 DEF TypeOK, Becomes
<1>3. Refs'
  BY <1>0, <1>1, IdleType DEF Refs, HandlerRefs, HasAlert, Becomes, AlertIds, TicketIds
<1>4. ASSUME NEW s \in Subjects, Alone(s)' PROVE Sound(s)'
  <2>1. Sound(s)
    BY <1>1, <1>4 DEF Inv, Alone
  <2>2. \A g \in Handlers : handler'[g] = handler[g] \/ handler'[g].subject # s
    BY <1>1, IdleType, AlertsAssumption DEF Becomes
  <2> QED BY <1>0, <1>1, <2>1, <2>2, Elsewhere DEF Of, TicketIds
<1> QED BY <1>1, <1>2, <1>3, <1>4 DEF Inv

-----------------------------------------------------------------------------
(* The steps that read.                                                    *)

LEMMA TriggerStep ==
  ASSUME Inv, NEW h \in Handlers, NEW s \in Subjects, Trigger(h, s)
  PROVE  Inv'
<1>0. TypeOK /\ Refs
  BY DEF Inv
<1>1. ASSUME NEW i \in Of(s), alerts[i].status \in Active,
             Begin(h, s, [pc |-> "reopen", subject |-> s, alert |-> i,
                          seen |-> alerts[i].status, ticket |-> 0])
      PROVE  Inv'
  <2> DEFINE r == [pc |-> "reopen", subject |-> s, alert |-> i,
                   seen |-> alerts[i].status, ticket |-> 0]
  <2>1. i \in AlertIds /\ i \in Nat /\ alerts[i] \in Alert /\ alerts[i].subject = s
    BY <1>0, AlertFacts
  <2>2. alerts[i].status \in AlertStatus
    BY <2>1 DEF Alert
  <2>3. /\ r \in HandlerType /\ r.subject = s /\ r.pc = "reopen" /\ r.alert = i
        /\ r.seen = alerts[i].status
    BY <2>1, <2>2 DEF HandlerType
  <2>4. Begin(h, s, r)
    BY <1>1
  <2> HIDE DEF r
  <2>5. HandlerRefs(r)
    BY <2>1, <2>3, AlertsAssumption DEF HandlerRefs, HasAlert
  <2>6. Informed(r)
    BY <1>1, <2>3 DEF Informed, Ticketing
  <2> QED BY <2>3, <2>4, <2>5, <2>6, BeginStep
<1>2. ASSUME \A i \in Of(s) : alerts[i].status \notin Active,
             Begin(h, s, [Idle EXCEPT !.pc = "latest", !.subject = s])
      PROVE  Inv'
  <2> DEFINE r == [Idle EXCEPT !.pc = "latest", !.subject = s]
  <2>1. r \in HandlerType /\ r.subject = s /\ r.pc = "latest"
    BY DEF Idle, HandlerType, AlertStatus
  <2>2. Begin(h, s, r)
    BY <1>2
  <2> HIDE DEF r
  <2>3. HandlerRefs(r) /\ Informed(r)
    BY <1>2, <2>1, AlertsAssumption DEF HandlerRefs, Informed, NoneActive, Ticketing
  <2> QED BY <2>1, <2>2, <2>3, BeginStep
<1> QED BY <1>1, <1>2 DEF Trigger

LEMMA LoadStep ==
  ASSUME Inv, NEW h \in Handlers, NEW i \in AlertIds,
         Acknowledge(h, i) \/ Resolve(h, i) \/ RequestTicket(h, i)
  PROVE  Inv'
<1>0. TypeOK /\ Refs
  BY DEF Inv
<1>a. PICK pc \in {"acknowledge", "resolve", "findTicket"} :
        /\ Load(h, i, pc)
        /\ pc = "acknowledge" => alerts[i].status = "open"
        /\ pc = "findTicket" => alerts[i].ticket = 0
  BY DEF Acknowledge, Resolve, RequestTicket
<1>s. PICK s \in Subjects : s = alerts[i].subject
  BY <1>0, AlertFacts
<1> DEFINE r == [pc |-> pc, subject |-> s, alert |-> i, seen |-> alerts[i].status, ticket |-> 0]
<1>1. i \in Nat /\ alerts[i] \in Alert
  BY <1>0, AlertFacts
<1>2. alerts[i].status \in AlertStatus
  BY <1>1 DEF Alert
<1>3. r \in HandlerType /\ r.subject = s /\ r.pc = pc /\ r.alert = i
  BY <1>1, <1>2 DEF HandlerType
<1>4. Begin(h, s, r)
  BY <1>a, <1>s DEF Load
<1> HIDE DEF r
<1>5. HandlerRefs(r)
  BY <1>3, <1>s, AlertsAssumption DEF HandlerRefs, HasAlert
<1>6. Informed(r)
  BY <1>a, <1>3 DEF Informed, Ticketing
<1> QED BY <1>3, <1>4, <1>5, <1>6, BeginStep

LEMMA GoUpdates ==
  ASSUME TypeOK, NEW h \in Handlers, NEW pc \in {"create", "findTicket", "createTicket"}, Go(h, pc)
  PROVE  \E r \in HandlerType :
           /\ handler' = [handler EXCEPT ![h] = r] /\ r.pc = pc
           /\ r.subject = handler[h].subject /\ r.alert = handler[h].alert
<1> DEFINE r == [handler[h] EXCEPT !.pc = pc]
<1>1. handler' = [handler EXCEPT ![h] = r]
  BY Zenon DEF Go
<1>2. handler[h] \in HandlerType
  BY DEF TypeOK
<1>3. /\ r \in HandlerType /\ r.pc = pc /\ r.subject = handler[h].subject
      /\ r.alert = handler[h].alert
  BY <1>2 DEF HandlerType
<1> HIDE DEF r
<1> QED BY <1>1, <1>3

LEMMA CooldownStep ==
  ASSUME Inv, NEW h \in Handlers, CheckCooldown(h)
  PROVE  Inv'
<1>0. TypeOK /\ Refs /\ handler[h].pc = "latest"
  BY DEF Inv, CheckCooldown
<1>s. PICK s \in Subjects : s = handler[h].subject
  BY <1>0, HandlerFacts
<1>1. KeepsAtIt(handler[h], handler[h]) /\ UNCHANGED <<rule, alerts, tickets, overlapped, faults>>
  BY <1>0 DEF KeepsAtIt, Ticketing, CheckCooldown
<1>2. CASE End(h)
  <2>1. HandlerRefs(Idle) /\ KeepsAtIt(handler[h], Idle)
    BY <1>0, IdleType DEF HandlerRefs, KeepsAtIt, Ticketing
  <2>2. handler' = [handler EXCEPT ![h] = Idle]
    BY <1>2 DEF End
  <2> QED BY <1>1, <1>s, <2>1, <2>2, IdleType, AlertsAssumption, GoStep
<1>3. CASE /\ Go(h, "create")
           /\ ~(rule[s].cooldown /\ \E i \in Of(s) : alerts[i].recent /\ \A j \in Of(s) : j <= i)
  <2>1. PICK r \in HandlerType : /\ handler' = [handler EXCEPT ![h] = r] /\ r.pc = "create"
                                 /\ r.subject = s
    BY <1>0, <1>3, <1>s, GoUpdates
  <2>2. HandlerRefs(r) /\ KeepsAtIt(handler[h], r)
    BY <1>0, <2>1, AlertsAssumption DEF HandlerRefs, KeepsAtIt, Ticketing
  <2>3. ASSUME Sound(s) PROVE Informed(r)
    <3>1. NoneActive(s)
      BY <1>0, <1>s, <2>3 DEF Sound, Informed
    <3>2. ASSUME rule[s].cooldown, NEW i \in Of(s) PROVE ~alerts[i].recent
      <4>1. CASE \A j \in Of(s) : j <= i
        BY <1>3, <3>2, <4>1
      <4>2. ASSUME NEW j \in Of(s), ~(j <= i) PROVE ~alerts[i].recent
        <5>1. i < j
          BY <1>0, <4>2, AlertFacts
        <5> QED BY <2>3, <3>2, <5>1 DEF Sound, Spaced
      <4> QED BY <4>1, <4>2
    <3> QED BY <2>1, <3>1, <3>2 DEF Informed, NoneRecent, Ticketing
  <2> QED BY <1>1, <1>s, <2>1, <2>2, <2>3, GoStep
<1> QED BY <1>2, <1>3, <1>s DEF CheckCooldown

LEMMA FindStep ==
  ASSUME Inv, NEW h \in Handlers, FindTicket(h)
  PROVE  Inv'
<1>0. /\ TypeOK /\ Refs /\ handler[h].pc = "findTicket" /\ HandlerRefs(handler[h])
      /\ handler[h] \in HandlerType /\ UNCHANGED <<rule, alerts, tickets, overlapped, faults>>
  BY HandlerFacts DEF Inv, FindTicket, Refs
<1>s. PICK s \in Subjects : s = handler[h].subject
  BY <1>0, HandlerFacts
<1>1. HasAlert(handler[h])
  BY <1>0 DEF HandlerRefs
<1>2. Sound(s) => alerts[handler[h].alert].ticket = 0
  BY <1>0, <1>s DEF Sound, Informed, Ticketing
<1>3. ASSUME NEW t \in ActiveTickets(handler[h].alert),
             handler' = [handler EXCEPT ![h].pc = "link", ![h].ticket = t]
      PROVE  Inv'
  <2> DEFINE r == [handler[h] EXCEPT !.pc = "link", !.ticket = t]
  <2>1. t \in TicketIds /\ t \in Nat /\ tickets[t].alert = handler[h].alert
    BY <1>0 DEF ActiveTickets, TicketIds, TypeOK
  <2>2. handler' = [handler EXCEPT ![h] = r]
    BY <1>0, <1>3 DEF TypeOK
  <2>3. /\ r \in HandlerType /\ r.pc = "link" /\ r.subject = s
        /\ r.alert = handler[h].alert /\ r.ticket = t
    BY <1>0, <1>s, <2>1 DEF HandlerType
  <2> HIDE DEF r
  <2>4. HandlerRefs(r)
    BY <1>1, <1>s, <2>1, <2>3, AlertsAssumption DEF HandlerRefs, HasAlert
  <2>5. KeepsAtIt(handler[h], r)
    BY <1>0, <2>3 DEF KeepsAtIt, Ticketing
  <2>6. Sound(s) => Informed(r)
    BY <1>2, <2>3 DEF Informed, Ticketing
  <2> QED BY <1>0, <1>s, <2>2, <2>3, <2>4, <2>5, <2>6, GoStep
<1>4. CASE Go(h, "createTicket")
  <2>1. PICK r \in HandlerType : /\ handler' = [handler EXCEPT ![h] = r] /\ r.pc = "createTicket"
                                 /\ r.subject = s /\ r.alert = handler[h].alert
    BY <1>0, <1>4, <1>s, GoUpdates
  <2>2. HandlerRefs(r)
    BY <1>1, <1>s, <2>1, AlertsAssumption DEF HandlerRefs, HasAlert
  <2>3. KeepsAtIt(handler[h], r)
    BY <1>0, <2>1 DEF KeepsAtIt, Ticketing
  <2>4. Sound(s) => Informed(r)
    BY <1>2, <2>1 DEF Informed, Ticketing
  <2> QED BY <1>0, <1>s, <2>1, <2>2, <2>3, <2>4, GoStep
<1> QED BY <1>3, <1>4 DEF FindTicket

-----------------------------------------------------------------------------
(* The steps that create.                                                  *)

LEMMA CreateAlertStep ==
  ASSUME Inv, NEW h \in Handlers, CreateAlert(h)
  PROVE  Inv'
<1>0. /\ TypeOK /\ Refs /\ handler[h].pc = "create" /\ handler[h] \in HandlerType
      /\ UNCHANGED <<rule, tickets, overlapped, faults>>
  BY HandlerFacts DEF Inv, CreateAlert
<1>s. PICK s \in Subjects : s = handler[h].subject
  BY <1>0, HandlerFacts
<1>n. PICK n \in Nat : n = Len(alerts) + 1
  BY <1>0 DEF TypeOK
<1>a. PICK a \in Alert : /\ a.subject = s /\ a.status = "open" /\ ~a.announced /\ a.ticket = 0
                         /\ a = [subject |-> s, status |-> "open", recent |-> TRUE,
                                 ticket |-> 0, announced |-> FALSE]
  BY DEF Alert, AlertStatus
<1>1. /\ alerts' \in Seq(Alert) /\ AlertIds' = AlertIds \cup {n} /\ n \notin AlertIds
      /\ alerts'[n] = a /\ \A j \in AlertIds : alerts'[j] = alerts[j]
      /\ \A e \in Subjects : Of(e)' = IF e = a.subject THEN Of(e) \cup {n} ELSE Of(e)
  <2>1. alerts' = Append(alerts, a)
    BY <1>a, <1>s DEF CreateAlert
  <2> QED BY <1>0, <1>n, <2>1, Added
<1>2. \A j \in AlertIds : j < n /\ j \in Nat
  BY <1>0, <1>n DEF AlertIds, TypeOK
<1>3. PICK r \in HandlerType : /\ Becomes(h, r) /\ r.pc = "announce" /\ r.subject = s
                               /\ r.alert = n
  <2> DEFINE r == [handler[h] EXCEPT !.pc = "announce", !.alert = n]
  <2>1. handler' = [handler EXCEPT ![h] = r]
    BY <1>0, <1>n DEF TypeOK, CreateAlert
  <2>2. r \in HandlerType /\ r.pc = "announce" /\ r.subject = s /\ r.alert = n
    BY <1>0, <1>s, <1>n DEF HandlerType
  <2> HIDE DEF r
  <2> QED BY <1>0, <2>1, <2>2, Put
<1>4. TypeOK'
  BY <1>0, <1>1, <1>3 DEF TypeOK, Becomes
<1>5. Refs'
  <2>1. \A g \in Handlers : HandlerRefs(handler[g])'
    <3>1. HandlerRefs(handler[h])'
      BY <1>1, <1>3, <1>a, AlertsAssumption DEF Becomes, HandlerRefs, HasAlert
    <3>2. \A g \in Handlers \ {h} : HandlerRefs(handler[g])'
      BY <1>0, <1>1, <1>3 DEF Becomes, Refs, HandlerRefs, HasAlert, TicketIds
    <3> QED BY <3>1, <3>2
  <2>2. \A t \in TicketIds' : tickets'[t].alert \in AlertIds'
    BY <1>0, <1>1 DEF Refs, TicketIds
  <2>3. \A i \in AlertIds' : alerts'[i].ticket # 0 =>
          alerts'[i].ticket \in TicketIds' /\ tickets'[alerts'[i].ticket].alert = i
    BY <1>0, <1>1, <1>a DEF Refs, TicketIds
  <2> QED BY <2>1, <2>2, <2>3 DEF Refs
<1>6. (faults = 0 => \A i \in AlertIds : Owed(i))'
  <2>1. \A i, pcs : "create" \notin pcs /\ AtIt(i, pcs) => AtIt(i, pcs)'
    BY <1>0, <1>3 DEF AtIt, Becomes
  <2>2. \A i \in AlertIds : Owed(i) => Owed(i)'
    BY <1>0, <1>1, <2>1 DEF Owed, Ticketing
  <2>3. Owed(n)'
    BY <1>3 DEF Owed, AtIt, Becomes
  <2> QED BY <1>0, <1>1, <2>2, <2>3 DEF Inv
<1>7. Alone(s)' => Sound(s)'
  <2> SUFFICES ASSUME Alone(s) PROVE Sound(s)'
    BY <1>0 DEF Alone
  <2>1. Sound(s) /\ NoneActive(s) /\ NoneRecent(s)
    BY <1>0, <1>s DEF Inv, Sound, Informed
  <2>2. One(s)'
    BY <1>3, <1>s, <2>1 DEF Sound, One, Becomes
  <2>3. Of(s)' = Of(s) \cup {n} /\ \A j \in Of(s) : j \in AlertIds /\ alerts'[j] = alerts[j]
    BY <1>0, <1>1, <1>a, AlertFacts
  <2>4. Single(s)'
    BY <2>1, <2>3 DEF Sound, Single, NoneActive
  <2>5. Spaced(s)'
    <3> SUFFICES ASSUME rule[s].cooldown, NEW i \in Of(s)', NEW j \in Of(s)', i < j
                 PROVE  ~alerts'[i].recent
      BY <1>0 DEF Spaced
    <3>1. i # n
      BY <1>2, <1>n, <2>3
    <3> QED BY <2>1, <2>3, <3>1 DEF NoneRecent
  <2>6. ASSUME NEW g \in Handlers, handler'[g].subject = s PROVE Informed(handler[g])'
    <3>1. g = h
      BY <1>3, <1>s, <2>1, <2>6 DEF Becomes, Sound, One
    <3> QED BY <1>1, <1>3, <1>a, <3>1 DEF Becomes, Informed, Ticketing
  <2>7. (faults = 0 => Tied(s))'
    <3> SUFFICES ASSUME faults = 0, NEW t \in TicketIds, tickets[t].alert \in Of(s)'
                 PROVE  alerts'[tickets[t].alert].ticket = t
      BY <1>0 DEF Tied, TicketIds
    <3>1. tickets[t].alert \in AlertIds /\ tickets[t].alert \in Of(s)
      BY <1>0, <1>1, <2>3 DEF Refs
    <3>2. ASSUME NEW g \in Handlers, handler[g].pc = "link", handler[g].alert = tickets[t].alert
          PROVE  FALSE
      <4>1. handler[g].subject = s
        BY <1>0, <3>1, <3>2 DEF Refs, HandlerRefs, HasAlert, Of
      <4> QED BY <1>0, <1>s, <2>1, <3>2, <4>1 DEF Sound, One
    <3> QED BY <1>1, <2>1, <3>1, <3>2 DEF Sound, Tied
  <2> QED BY <2>2, <2>4, <2>5, <2>6, <2>7 DEF Sound
<1>8. \A e \in Subjects \ {s} : Alone(e)' => Sound(e)'
  <2>1. \A e \in Subjects \ {s} : Of(e)' = Of(e) /\ \A i \in Of(e) : alerts'[i] = alerts[i]
    BY <1>0, <1>1, <1>a, AlertFacts
  <2> QED BY <1>0, <1>3, <1>s, <2>1, OthersSound DEF TicketIds
<1> QED BY <1>4, <1>5, <1>6, <1>7, <1>8 DEF Inv

LEMMA CreateTicketStep ==
  ASSUME Inv, NEW h \in Handlers, CreateTicket(h)
  PROVE  Inv'
<1>0. /\ TypeOK /\ Refs /\ handler[h].pc = "createTicket" /\ handler[h] \in HandlerType
      /\ HandlerRefs(handler[h]) /\ UNCHANGED <<rule, alerts, overlapped, faults>>
  BY HandlerFacts DEF Inv, CreateTicket, Refs
<1>s. PICK s \in Subjects : s = handler[h].subject
  BY <1>0, HandlerFacts
<1>i. PICK i \in AlertIds : i = handler[h].alert /\ i \in Of(s) /\ i \in Nat
  BY <1>0, <1>s, AlertFacts DEF HandlerRefs, HasAlert, Of, AlertIds
<1>n. PICK n \in Nat : n = Len(tickets) + 1
  BY <1>0 DEF TypeOK
<1>a. PICK a \in Ticket : a.alert = i /\ a = [alert |-> i, active |-> TRUE]
  BY <1>i DEF Ticket
<1>1. /\ tickets' \in Seq(Ticket) /\ TicketIds' = TicketIds \cup {n} /\ n \notin TicketIds
      /\ tickets'[n] = a /\ \A t \in TicketIds : tickets'[t] = tickets[t]
  <2>1. tickets' = Append(tickets, a) /\ tickets \in Seq(Ticket)
    BY <1>0, <1>a, <1>i DEF CreateTicket, TypeOK
  <2> QED BY <1>n, <2>1 DEF TicketIds
<1>2. PICK r \in HandlerType : /\ Becomes(h, r) /\ r.pc = "link" /\ r.subject = s
                               /\ r.alert = i /\ r.ticket = n
  <2> DEFINE r == [handler[h] EXCEPT !.pc = "link", !.ticket = n]
  <2>1. handler' = [handler EXCEPT ![h] = r]
    BY <1>0, <1>n DEF TypeOK, CreateTicket
  <2>2. r \in HandlerType /\ r.pc = "link" /\ r.subject = s /\ r.alert = i /\ r.ticket = n
    BY <1>0, <1>s, <1>i, <1>n DEF HandlerType
  <2> HIDE DEF r
  <2> QED BY <1>0, <2>1, <2>2, Put
<1>3. TypeOK'
  BY <1>0, <1>1, <1>2 DEF TypeOK, Becomes
<1>4. Refs'
  <2>1. HandlerRefs(handler[h])'
    BY <1>0, <1>1, <1>2, <1>a, <1>i, AlertsAssumption
    DEF Becomes, HandlerRefs, HasAlert, AlertIds, Of
  <2>2. \A g \in Handlers \ {h} : HandlerRefs(handler[g])'
    BY <1>0, <1>1, <1>2 DEF Becomes, Refs, HandlerRefs, HasAlert, AlertIds
  <2>3. \A t \in TicketIds' : tickets'[t].alert \in AlertIds'
    BY <1>0, <1>1, <1>a DEF Refs, AlertIds
  <2>4. \A j \in AlertIds' : alerts'[j].ticket # 0 =>
          alerts'[j].ticket \in TicketIds' /\ tickets'[alerts'[j].ticket].alert = j
    BY <1>0, <1>1 DEF Refs, AlertIds
  <2> QED BY <2>1, <2>2, <2>3, <2>4 DEF Refs
<1>5. (faults = 0 => \A j \in AlertIds : Owed(j))'
  <2>1. \A j : AtIt(j, {"announce"}) => AtIt(j, {"announce"})'
    BY <1>0, <1>2 DEF AtIt, Becomes
  <2>2. \A j : AtIt(j, {"announce"} \cup Ticketing) => AtIt(j, {"announce"} \cup Ticketing)'
    BY <1>0, <1>2, <1>i DEF AtIt, Becomes, Ticketing
  <2> QED BY <1>0, <2>1, <2>2 DEF Inv, Owed, AlertIds
<1>6. Alone(s)' => Sound(s)'
  <2> SUFFICES ASSUME Alone(s) PROVE Sound(s)'
    BY <1>0 DEF Alone
  <2>1. Sound(s) /\ alerts[i].ticket = 0
    BY <1>0, <1>s, <1>i DEF Inv, Sound, Informed, Ticketing
  <2>2. One(s)'
    BY <1>2, <1>s, <2>1 DEF Sound, One, Becomes
  <2>3. Single(s)' /\ Spaced(s)'
    BY <1>0, <2>1 DEF Sound, Single, Spaced, Of
  <2>4. ASSUME NEW g \in Handlers, handler'[g].subject = s PROVE Informed(handler[g])'
    <3>1. g = h
      BY <1>2, <1>s, <2>1, <2>4 DEF Becomes, Sound, One
    <3> QED BY <1>0, <1>2, <2>1, <3>1 DEF Becomes, Informed, Ticketing
  <2>5. (faults = 0 => Tied(s))'
    <3>1. \A g \in Handlers : handler[g].pc = "link" => handler'[g] = handler[g]
      BY <1>0, <1>2 DEF Becomes
    <3>2. handler'[h].pc = "link" /\ handler'[h].ticket = n /\ handler'[h].alert = i
      BY <1>2 DEF Becomes
    <3>3. Of(s)' = Of(s)
      BY <1>0 DEF Of
    <3> QED BY <1>0, <1>1, <1>a, <2>1, <3>1, <3>2, <3>3 DEF Sound, Tied
  <2> QED BY <2>2, <2>3, <2>4, <2>5 DEF Sound
<1>7. \A e \in Subjects \ {s} : Alone(e)' => Sound(e)'
  <2>1. \A t \in TicketIds' : (t \in TicketIds /\ tickets'[t].alert = tickets[t].alert)
                               \/ tickets'[t].alert \in Of(s)
    BY <1>1, <1>a, <1>i
  <2> QED BY <1>0, <1>2, <1>s, <2>1, OthersSound DEF Of
<1> QED BY <1>3, <1>4, <1>5, <1>6, <1>7 DEF Inv

\* Technicians set a ticket.
LEMMA SetTicketStep ==
  ASSUME Inv, NEW t \in TicketIds, SetTicket(t)
  PROVE  Inv'
<1>0. TypeOK /\ Refs /\ UNCHANGED <<rule, alerts, handler, overlapped, faults>>
  BY DEF Inv, SetTicket
<1>1. /\ tickets' \in Seq(Ticket) /\ TicketIds' = TicketIds
      /\ \A u \in TicketIds : tickets'[u].alert = tickets[u].alert
  <2>b. PICK b \in BOOLEAN : b = ~tickets[t].active
    BY Zenon
  <2>1. PICK a \in Ticket : a = [tickets[t] EXCEPT !.active = b] /\ a.alert = tickets[t].alert
    <3>1. PICK old \in Ticket : old = tickets[t]
      BY <1>0 DEF TypeOK, TicketIds
    <3>2. CASE b = TRUE
      <4>1. [old EXCEPT !.active = TRUE] \in Ticket
        BY DEF Ticket
      <4>2. [old EXCEPT !.active = TRUE].alert = old.alert
        BY DEF Ticket
      <4> QED BY <3>1, <3>2, <4>1, <4>2, Zenon
    <3>3. CASE b = FALSE
      <4>1. [old EXCEPT !.active = FALSE] \in Ticket
        BY DEF Ticket
      <4>2. [old EXCEPT !.active = FALSE].alert = old.alert
        BY DEF Ticket
      <4> QED BY <3>1, <3>3, <4>1, <4>2, Zenon
    <3> QED BY <3>2, <3>3
  <2>2. tickets' = [tickets EXCEPT ![t] = a] /\ tickets \in Seq(Ticket)
    BY <1>0, <2>b, <2>1, Zenon DEF SetTicket, TypeOK
  <2> QED BY <2>1, <2>2 DEF TicketIds
<1>2. TypeOK'
  BY <1>0, <1>1 DEF TypeOK
<1>3. Refs'
  BY <1>0, <1>1 DEF Refs, HandlerRefs, HasAlert, AlertIds
<1>4. (faults = 0 => \A i \in AlertIds : Owed(i))'
  BY <1>0 DEF Inv, Owed, AtIt, AlertIds
<1>5. ASSUME NEW s \in Subjects, Alone(s)' PROVE Sound(s)'
  <2>1. Sound(s)
    BY <1>0, <1>5 DEF Inv, Alone
  <2> QED BY <1>0, <1>1, <2>1, Elsewhere DEF Of
<1> QED BY <1>2, <1>3, <1>4, <1>5 DEF Inv

-----------------------------------------------------------------------------
(* The steps that save an alert.                                           *)

\* Alert i is saved as a by a handler whose local state was p.
Saves(p, i, a) ==
  /\ a.subject = p.subject /\ a.recent = alerts[i].recent
  /\ a.announced = TRUE \/ (p.pc # "announce" /\ a.announced = alerts[i].announced)
  /\ a.ticket = IF p.pc = "link" THEN p.ticket ELSE alerts[i].ticket
  /\ Alone(p.subject) /\ a.status \in Active => alerts[i].status \in Active

\* The handler is through, or has a new alert's ticket to make.
GoesOn(p, i, r) ==
  \/ /\ r.pc = "idle" /\ r.subject = None
     /\ p.pc = "announce" => ~rule[p.subject].autoTicket
  \/ /\ p.pc = "announce"
     /\ r.pc = "findTicket" /\ r.subject = p.subject /\ r.alert = i

LEMMA SaveStep ==
  ASSUME Inv, NEW h \in Handlers,
         handler[h].pc \in {"reopen", "acknowledge", "resolve", "announce", "link"},
         NEW i \in AlertIds, i = handler[h].alert,
         NEW a \in Alert, alerts' = [alerts EXCEPT ![i] = a], Saves(handler[h], i, a),
         NEW r \in HandlerType, handler' = [handler EXCEPT ![h] = r], GoesOn(handler[h], i, r),
         UNCHANGED <<rule, tickets, overlapped, faults>>
  PROVE  Inv'
<1>0. TypeOK /\ Refs /\ Becomes(h, r) /\ HandlerRefs(handler[h])
  BY Put DEF Inv, Refs
<1>s. PICK s \in Subjects : s = handler[h].subject
  BY <1>0, HandlerFacts
<1>a. /\ a.subject = s /\ a.recent = alerts[i].recent
      /\ a.announced = TRUE \/ (handler[h].pc # "announce" /\ a.announced = alerts[i].announced)
      /\ a.ticket = IF handler[h].pc = "link" THEN handler[h].ticket ELSE alerts[i].ticket
      /\ Alone(s) /\ a.status \in Active => alerts[i].status \in Active
  BY <1>s DEF Saves
<1>r. /\ \/ r.pc = "idle" /\ r.subject = None
         \/ /\ r.pc = "findTicket" /\ r.subject = s /\ r.alert = i
            /\ handler[h].pc = "announce"
      /\ handler[h].pc = "announce" /\ r.pc = "idle" => ~rule[s].autoTicket
  BY <1>s DEF GoesOn
<1> USE <1>s, <1>a, <1>r
<1>1. alerts[i].subject = s /\ i \in Of(s)
  BY <1>0 DEF HandlerRefs, HasAlert, Of, AlertIds
<1>2. SavedAs(i, a)
  BY <1>0, <1>1, Saved
<1>3. TypeOK'
  BY <1>0, <1>2 DEF TypeOK, Becomes, SavedAs
<1>4. Refs'
  <2>1. HandlerRefs(handler[h])'
    BY <1>0, <1>1, <1>2, AlertsAssumption DEF Becomes, HandlerRefs, HasAlert, SavedAs
  <2>2. \A g \in Handlers \ {h} : HandlerRefs(handler[g])'
    BY <1>0, <1>1, <1>2 DEF Becomes, Refs, HandlerRefs, HasAlert, SavedAs, TicketIds
  <2>3. \A t \in TicketIds' : tickets'[t].alert \in AlertIds'
    BY <1>0, <1>2 DEF Refs, SavedAs, TicketIds
  <2>4. a.ticket # 0 => a.ticket \in TicketIds /\ tickets[a.ticket].alert = i
    BY <1>0 DEF Refs, HandlerRefs
  <2>5. \A j \in AlertIds' : alerts'[j].ticket # 0 =>
          alerts'[j].ticket \in TicketIds' /\ tickets'[alerts'[j].ticket].alert = j
    BY <1>0, <1>2, <2>4 DEF Refs, SavedAs, TicketIds
  <2> QED BY <2>1, <2>2, <2>3, <2>5 DEF Refs
<1>5. (faults = 0 => \A j \in AlertIds : Owed(j))'
  <2>1. \A j, pcs : j # i /\ AtIt(j, pcs) => AtIt(j, pcs)'
    BY <1>0 DEF AtIt, Becomes
  <2>2. \A j \in AlertIds \ {i} : Owed(j) => Owed(j)'
    BY <1>2, <2>1 DEF Owed, SavedAs
  <2>3. ASSUME Owed(i) PROVE Owed(i)'
    <3>1. CASE handler[h].pc = "announce"
      BY <1>0, <1>1, <1>2, <3>1 DEF Owed, SavedAs, AtIt, Becomes, Ticketing
    <3>2. CASE handler[h].pc = "link"
      <4>1. a.ticket # 0
        BY <1>0, <3>2 DEF HandlerRefs, TicketIds, TypeOK
      <4>2. AtIt(i, {"announce"}) => AtIt(i, {"announce"})'
        BY <1>0, <3>2 DEF AtIt, Becomes
      <4> QED BY <1>2, <2>3, <3>2, <4>1, <4>2 DEF Owed, SavedAs
    <3>3. CASE handler[h].pc \in {"reopen", "acknowledge", "resolve"}
      <4>1. AtIt(i, {"announce"}) => AtIt(i, {"announce"})'
        BY <1>0, <3>3 DEF AtIt, Becomes
      <4>2. AtIt(i, {"announce"} \cup Ticketing) => AtIt(i, {"announce"} \cup Ticketing)'
        BY <1>0, <3>3 DEF AtIt, Becomes, Ticketing
      <4> QED BY <1>1, <1>2, <2>3, <3>3, <4>1, <4>2 DEF Owed, SavedAs
    <3> QED BY <3>1, <3>2, <3>3
  <2> QED BY <1>2, <2>2, <2>3 DEF Inv, SavedAs
<1>6. Alone(s)' => Sound(s)'
  <2> SUFFICES ASSUME Alone(s) PROVE Sound(s)'
    BY DEF Alone
  <2>1. Sound(s) /\ Informed(handler[h])
    BY DEF Inv, Sound
  <2>2. One(s)'
    BY <1>0, <2>1, AlertsAssumption DEF Sound, One, Becomes
  <2>3. \A j \in Of(s) : j \in AlertIds /\ (j = i \/ alerts'[j] = alerts[j])
    BY <1>0, <1>2, AlertFacts DEF SavedAs
  <2>4. Single(s)'
    BY <1>2, <2>1, <2>3 DEF Sound, Single, SavedAs
  <2>5. Spaced(s)'
    BY <1>2, <2>1, <2>3 DEF Sound, Spaced, SavedAs
  <2>6. ASSUME NEW g \in Handlers, handler'[g].subject = s PROVE Informed(handler[g])'
    <3>1. g = h
      BY <1>0, <2>1, <2>6 DEF Becomes, Sound, One
    <3>2. handler'[g] = r /\ r.pc = "findTicket" /\ r.alert = i /\ handler[h].pc = "announce"
      BY <1>0, <2>6, <3>1, AlertsAssumption DEF Becomes
    <3>3. a.ticket = 0
      BY <2>1, <3>2 DEF Informed
    <3> QED BY <1>2, <3>2, <3>3 DEF Informed, SavedAs
  <2>7. ASSUME faults = 0 PROVE Tied(s)'
    <3> SUFFICES ASSUME NEW t \in TicketIds, tickets[t].alert \in Of(s)
                 PROVE  alerts'[tickets[t].alert].ticket = t
      BY <1>2 DEF Tied, SavedAs, TicketIds
    <3>1. CASE /\ alerts[tickets[t].alert].ticket = t
               /\ handler[h].pc = "link" => tickets[t].alert # i
      BY <1>2, <2>3, <3>1 DEF SavedAs
    <3>2. CASE /\ alerts[tickets[t].alert].ticket = t
               /\ handler[h].pc = "link" /\ tickets[t].alert = i
      <4>1. alerts[i].ticket = 0 /\ t # 0
        BY <1>0, <2>1, <3>2 DEF Informed, Ticketing, TicketIds, TypeOK
      <4> QED BY <3>2, <4>1
    <3>3. ASSUME NEW g \in Handlers, handler[g].pc = "link", handler[g].ticket = t,
                 handler[g].alert = tickets[t].alert
          PROVE  alerts'[tickets[t].alert].ticket = t
      <4>1. handler[g].subject = s
        BY <1>0, <3>3 DEF Refs, HandlerRefs, HasAlert, Of
      <4>2. g = h
        BY <2>1, <4>1 DEF Sound, One
      <4> QED BY <1>2, <3>3, <4>2 DEF SavedAs
    <3> QED BY <2>1, <2>7, <3>1, <3>2, <3>3 DEF Sound, Tied
  <2> QED BY <2>2, <2>4, <2>5, <2>6, <2>7 DEF Sound
<1>7. \A e \in Subjects \ {s} : Alone(e)' => Sound(e)'
  <2>1. \A e \in Subjects \ {s} : Of(e)' = Of(e) /\ \A j \in Of(e) : alerts'[j] = alerts[j]
    BY <1>0, <1>1, <1>2, AlertFacts DEF SavedAs
  <2> QED BY <1>0, <2>1, OthersSound DEF TicketIds
<1> QED BY <1>3, <1>4, <1>5, <1>6, <1>7 DEF Inv

\* What the steps that save an alert have in common.
LEMMA SaverFacts ==
  ASSUME Inv, NEW h \in Handlers,
         handler[h].pc \in {"reopen", "acknowledge", "resolve", "announce", "link"}
  PROVE  /\ handler[h].subject \in Subjects /\ handler[h].alert \in AlertIds
         /\ alerts[handler[h].alert] \in Alert
         /\ alerts[handler[h].alert].subject = handler[h].subject
         /\ handler[h] \in HandlerType /\ alerts \in Seq(Alert)
         /\ Alone(handler[h].subject) => Informed(handler[h])
<1>1. TypeOK /\ Refs /\ HandlerRefs(handler[h])
  BY DEF Inv, Refs
<1>2. handler[h] \in HandlerType /\ handler[h].subject \in Subjects
  BY <1>1, HandlerFacts
<1>3. HasAlert(handler[h])
  BY <1>1 DEF HandlerRefs
<1> QED BY <1>1, <1>2, <1>3, AlertFacts DEF HasAlert, Inv, Sound, TypeOK

LEMMA StatusStep ==
  ASSUME Inv, NEW h \in Handlers, Reopen(h) \/ SaveAcknowledged(h) \/ SaveResolved(h)
  PROVE  Inv'
<1>0. /\ handler[h].pc \in {"reopen", "acknowledge", "resolve"}
      /\ handler' = [handler EXCEPT ![h] = Idle] /\ UNCHANGED <<rule, tickets, overlapped, faults>>
  BY DEF Reopen, SaveAcknowledged, SaveResolved, End
<1>i. PICK i \in AlertIds : i = handler[h].alert
  BY <1>0, SaverFacts
<1>1. /\ alerts[i] \in Alert /\ alerts[i].subject = handler[h].subject /\ alerts \in Seq(Alert)
      /\ handler[h].subject \in Subjects /\ handler[h] \in HandlerType
      /\ Alone(handler[h].subject) => Informed(handler[h])
  BY <1>0, <1>i, SaverFacts
<1>2. PICK x \in AlertStatus :
        /\ alerts' = [alerts EXCEPT ![i] = [alerts[i] EXCEPT !.status = x]]
        /\ Alone(handler[h].subject) /\ x \in Active => alerts[i].status \in Active
  <2>1. /\ alerts[i].status \in AlertStatus
        /\ alerts[i] = [alerts[i] EXCEPT !.status = alerts[i].status]
    BY <1>1 DEF Alert
  <2>2. alerts = [alerts EXCEPT ![i] = alerts[i]]
    BY <1>1 DEF AlertIds
  <2>3. CASE Reopen(h) /\ handler[h].seen = "open"
    <3>1. alerts' = [alerts EXCEPT ![i] = [alerts[i] EXCEPT !.status = alerts[i].status]]
      BY <2>1, <2>2, <2>3, Zenon DEF Reopen
    <3> QED BY <2>1, <3>1
  <2>4. CASE Reopen(h) /\ handler[h].seen # "open"
    <3>1. alerts' = [alerts EXCEPT ![i] = [alerts[i] EXCEPT !.status = "open"]]
      BY <1>i, <2>4, Zenon DEF Reopen
    <3>2. Alone(handler[h].subject) => alerts[i].status \in Active
      BY <1>1, <1>i, <2>4 DEF Reopen, Informed
    <3> QED BY <3>1, <3>2 DEF AlertStatus
  <2>5. CASE SaveAcknowledged(h)
    <3>1. alerts' = [alerts EXCEPT ![i] = [alerts[i] EXCEPT !.status = "acknowledged"]]
      BY <1>i, <2>5, Zenon DEF SaveAcknowledged
    <3>2. Alone(handler[h].subject) => alerts[i].status \in Active
      BY <1>1, <1>i, <2>5 DEF SaveAcknowledged, Informed, Active
    <3> QED BY <3>1, <3>2 DEF AlertStatus
  <2>6. CASE SaveResolved(h)
    <3>1. alerts' = [alerts EXCEPT ![i] = [alerts[i] EXCEPT !.status = "resolved"]]
      BY <1>i, <2>6, Zenon DEF SaveResolved
    <3> QED BY <3>1 DEF AlertStatus, Active
  <2> QED BY <2>3, <2>4, <2>5, <2>6
<1>3. PICK a \in Alert : /\ alerts' = [alerts EXCEPT ![i] = a] /\ a.status = x
                         /\ a.subject = alerts[i].subject /\ a.recent = alerts[i].recent
                         /\ a.ticket = alerts[i].ticket /\ a.announced = alerts[i].announced
  <2>1. LET b == [alerts[i] EXCEPT !.status = x] IN
          /\ b \in Alert /\ b.status = x /\ b.subject = alerts[i].subject
          /\ b.recent = alerts[i].recent /\ b.ticket = alerts[i].ticket
          /\ b.announced = alerts[i].announced
    BY <1>1 DEF Alert
  <2> QED BY <1>2, <2>1, Zenon
<1>4. Saves(handler[h], i, a)
  BY <1>0, <1>1, <1>2, <1>3 DEF Saves
<1>5. GoesOn(handler[h], i, Idle)
  BY <1>0, IdleType DEF GoesOn
<1> QED BY <1>0, <1>i, <1>3, <1>4, <1>5, IdleType, SaveStep

LEMMA AnnounceStep ==
  ASSUME Inv, NEW h \in Handlers, AnnounceAlert(h)
  PROVE  Inv'
<1>0. handler[h].pc = "announce" /\ UNCHANGED <<rule, tickets, overlapped, faults>>
  BY DEF AnnounceAlert
<1>i. PICK i \in AlertIds : i = handler[h].alert
  BY <1>0, SaverFacts
<1>1. /\ alerts[i] \in Alert /\ alerts[i].subject = handler[h].subject /\ TypeOK
      /\ handler[h].subject \in Subjects
  BY <1>0, <1>i, SaverFacts DEF Inv
<1>2. alerts' = [alerts EXCEPT ![i] = [alerts[i] EXCEPT !.announced = TRUE]]
  BY <1>i, Zenon DEF AnnounceAlert
<1>3. PICK a \in Alert : /\ alerts' = [alerts EXCEPT ![i] = a] /\ a.announced = TRUE
                         /\ a.subject = alerts[i].subject /\ a.status = alerts[i].status
                         /\ a.ticket = alerts[i].ticket /\ a.recent = alerts[i].recent
  <2>1. LET b == [alerts[i] EXCEPT !.announced = TRUE] IN
          /\ b \in Alert /\ b.announced = TRUE /\ b.subject = alerts[i].subject
          /\ b.status = alerts[i].status /\ b.ticket = alerts[i].ticket
          /\ b.recent = alerts[i].recent
    BY <1>1 DEF Alert
  <2> QED BY <1>2, <2>1, Zenon
<1>a. Saves(handler[h], i, a)
  BY <1>0, <1>1, <1>3 DEF Saves
<1>4. CASE rule[handler[h].subject].autoTicket /\ Go(h, "findTicket")
  <2>1. PICK r \in HandlerType : /\ handler' = [handler EXCEPT ![h] = r] /\ r.pc = "findTicket"
                                 /\ r.subject = handler[h].subject /\ r.alert = i
    BY <1>1, <1>i, <1>4, GoUpdates
  <2>2. GoesOn(handler[h], i, r)
    BY <1>0, <2>1 DEF GoesOn
  <2> QED BY <1>0, <1>i, <1>3, <1>a, <2>1, <2>2, SaveStep
<1>5. CASE ~rule[handler[h].subject].autoTicket /\ End(h)
  <2>1. handler' = [handler EXCEPT ![h] = Idle]
    BY <1>5 DEF End
  <2>2. GoesOn(handler[h], i, Idle)
    BY <1>5, IdleType DEF GoesOn
  <2> QED BY <1>0, <1>i, <1>3, <1>a, <2>1, <2>2, IdleType, SaveStep
<1> QED BY <1>4, <1>5 DEF AnnounceAlert

LEMMA LinkStep ==
  ASSUME Inv, NEW h \in Handlers, LinkTicket(h)
  PROVE  Inv'
<1>0. /\ handler[h].pc = "link" /\ UNCHANGED <<rule, tickets, overlapped, faults>>
      /\ handler' = [handler EXCEPT ![h] = Idle]
  BY DEF LinkTicket, End
<1>i. PICK i \in AlertIds : i = handler[h].alert
  BY <1>0, SaverFacts
<1>1. /\ alerts[i] \in Alert /\ alerts[i].subject = handler[h].subject
      /\ handler[h] \in HandlerType /\ handler[h].subject \in Subjects
  BY <1>0, <1>i, SaverFacts
<1>t. PICK t \in Nat : t = handler[h].ticket
  BY <1>1 DEF HandlerType
<1>2. alerts' = [alerts EXCEPT ![i] = [alerts[i] EXCEPT !.ticket = t]]
  BY <1>i, <1>t, Zenon DEF LinkTicket
<1>3. PICK a \in Alert : /\ alerts' = [alerts EXCEPT ![i] = a] /\ a.ticket = t
                         /\ a.subject = alerts[i].subject /\ a.status = alerts[i].status
                         /\ a.recent = alerts[i].recent /\ a.announced = alerts[i].announced
  <2>1. LET b == [alerts[i] EXCEPT !.ticket = t] IN
          /\ b \in Alert /\ b.ticket = t /\ b.subject = alerts[i].subject
          /\ b.status = alerts[i].status /\ b.recent = alerts[i].recent
          /\ b.announced = alerts[i].announced
    BY <1>1 DEF Alert
  <2> QED BY <1>2, <2>1, Zenon
<1>4. Saves(handler[h], i, a)
  BY <1>0, <1>1, <1>t, <1>3 DEF Saves
<1>5. GoesOn(handler[h], i, Idle)
  BY <1>0, IdleType DEF GoesOn
<1> QED BY <1>0, <1>i, <1>3, <1>4, <1>5, IdleType, SaveStep

\* Time passes.
LEMMA CooldownPassesStep ==
  ASSUME Inv, NEW i \in AlertIds, CooldownPasses(i)
  PROVE  Inv'
<1>0. TypeOK /\ Refs /\ UNCHANGED <<rule, tickets, handler, overlapped, faults>>
  BY DEF Inv, CooldownPasses
<1>1. alerts[i] \in Alert /\ alerts' = [alerts EXCEPT ![i] = [alerts[i] EXCEPT !.recent = FALSE]]
  BY <1>0, AlertFacts, Zenon DEF CooldownPasses
<1>2. PICK a \in Alert : /\ alerts' = [alerts EXCEPT ![i] = a] /\ a.recent = FALSE
                         /\ a.subject = alerts[i].subject /\ a.status = alerts[i].status
                         /\ a.ticket = alerts[i].ticket /\ a.announced = alerts[i].announced
  <2>1. LET b == [alerts[i] EXCEPT !.recent = FALSE] IN
          /\ b \in Alert /\ b.recent = FALSE /\ b.subject = alerts[i].subject
          /\ b.status = alerts[i].status /\ b.ticket = alerts[i].ticket
          /\ b.announced = alerts[i].announced
    BY <1>1 DEF Alert
  <2> QED BY <1>1, <2>1, Zenon
<1>3. SavedAs(i, a)
  BY <1>0, <1>2, Saved
<1>4. \A j \in AlertIds :
        /\ alerts'[j].subject = alerts[j].subject /\ alerts'[j].status = alerts[j].status
        /\ alerts'[j].ticket = alerts[j].ticket /\ alerts'[j].announced = alerts[j].announced
        /\ alerts'[j].recent => alerts[j].recent
  BY <1>2, <1>3 DEF SavedAs
<1>5. TypeOK'
  BY <1>0, <1>3 DEF TypeOK, SavedAs
<1>6. Refs'
  BY <1>0, <1>3, <1>4 DEF Refs, HandlerRefs, HasAlert, SavedAs, TicketIds
<1>7. (faults = 0 => \A j \in AlertIds : Owed(j))'
  BY <1>0, <1>3, <1>4 DEF Inv, Owed, AtIt, SavedAs
<1>8. ASSUME NEW s \in Subjects, Alone(s)' PROVE Sound(s)'
  <2>1. Sound(s) /\ Of(s)' = Of(s) /\ \A j \in Of(s) : j \in AlertIds
    BY <1>0, <1>3, <1>8, AlertFacts DEF Inv, Alone, SavedAs
  <2>2. One(s)' /\ Single(s)' /\ Spaced(s)'
    BY <1>0, <1>4, <2>1 DEF Sound, One, Single, Spaced
  <2>3. ASSUME NEW g \in Handlers, handler'[g].subject = s PROVE Informed(handler[g])'
    <3>1. Informed(handler[g]) /\ HandlerRefs(handler[g])
      BY <1>0, <2>1, <2>3 DEF Sound, Refs
    <3>2. handler[g].pc \notin {"idle", "latest", "create"} => handler[g].alert \in AlertIds
      BY <3>1 DEF HandlerRefs, HasAlert
    <3> QED BY <1>0, <1>4, <2>1, <2>3, <3>1, <3>2
      DEF Informed, NoneActive, NoneRecent, Ticketing
  <2>4. (faults = 0 => Tied(s))'
    BY <1>0, <1>4, <2>1 DEF Sound, Tied, TicketIds
  <2> QED BY <2>2, <2>3, <2>4 DEF Sound
<1> QED BY <1>5, <1>6, <1>7, <1>8 DEF Inv

-----------------------------------------------------------------------------
(* The theorems.                                                           *)

LEMMA InitInv == Init => Inv
<1> SUFFICES ASSUME Init PROVE Inv
  OBVIOUS
<1>0. /\ alerts = <<>> /\ tickets = <<>> /\ AlertIds = {} /\ TicketIds = {} /\ faults = 0
      /\ \A h \in Handlers : handler[h] = Idle
  BY DEF Init, AlertIds, TicketIds
<1>1. TypeOK
  BY <1>0, IdleType DEF Init, TypeOK
<1>2. Refs
  BY <1>0, IdleType DEF Refs, HandlerRefs
<1>3. ASSUME NEW s \in Subjects PROVE Sound(s)
  <2>1. Of(s) = {} /\ \A h \in Handlers : handler[h].subject # s
    BY <1>0, IdleType, AlertsAssumption DEF Of
  <2> QED BY <1>0, <2>1 DEF Sound, One, Single, Spaced, Tied
<1> QED BY <1>0, <1>1, <1>2, <1>3 DEF Inv

LEMMA StutterInv == Inv /\ UNCHANGED vars => Inv'
<1> SUFFICES ASSUME Inv, UNCHANGED vars PROVE Inv'
  OBVIOUS
<1>1. UNCHANGED <<rule, alerts, tickets, handler, overlapped, faults>>
  BY DEF vars
<1>2. TypeOK' /\ Refs' /\ (faults = 0 => \A i \in AlertIds : Owed(i))'
  BY <1>1 DEF Inv, TypeOK, Refs, HandlerRefs, HasAlert, Owed, AtIt, AlertIds, TicketIds
<1>3. ASSUME NEW s \in Subjects, Alone(s)' PROVE Sound(s)'
  <2>1. Sound(s) /\ TypeOK /\ Refs
    BY <1>1, <1>3 DEF Inv, Alone
  <2> QED BY <1>1, <2>1, Elsewhere DEF Of, TicketIds
<1> QED BY <1>2, <1>3 DEF Inv

LEMMA NextInv == Inv /\ [Next]_vars => Inv'
<1> SUFFICES ASSUME Inv, Next PROVE Inv'
  BY StutterInv
<1>1. CASE TriggerNext
  BY <1>1, TriggerStep, StatusStep, CooldownStep, CreateAlertStep, AnnounceStep DEF TriggerNext
<1>2. CASE OperatorNext
  BY <1>2, LoadStep, StatusStep DEF OperatorNext, AlertIds
<1>3. CASE TicketNext
  BY <1>3, FindStep, CreateTicketStep, LinkStep, SetTicketStep DEF TicketNext, TicketIds
<1>4. CASE \E i \in 1..Len(alerts) : CooldownPasses(i)
  BY <1>4, CooldownPassesStep DEF AlertIds
<1>5. CASE \E h \in Handlers : HandlerFails(h)
  BY <1>5, FailStep
<1> QED BY <1>1, <1>2, <1>3, <1>4, <1>5 DEF Next

LEMMA Invariant == Spec => []Inv
BY InitInv, NextInv, PTL DEF Spec

\* Documents and handlers have their types throughout.
THEOREM TypesHold == Spec => []TypeOK
<1>1. Inv => TypeOK
  BY DEF Inv
<1> QED BY <1>1, Invariant, PTL

LEMMA InvNoDuplicates == Inv => NoDuplicateAlerts
<1> SUFFICES ASSUME Inv PROVE OneActiveAlert /\ CooldownRespected
  BY DEF NoDuplicateAlerts
<1>0. TypeOK
  BY DEF Inv
<1>1. ASSUME NEW i \in AlertIds, NEW j \in AlertIds, alerts[i].subject = alerts[j].subject,
             Alone(alerts[i].subject)
      PROVE  /\ i \in Of(alerts[i].subject) /\ j \in Of(alerts[i].subject)
             /\ Single(alerts[i].subject) /\ Spaced(alerts[i].subject)
  <2>1. alerts[i].subject \in Subjects
    BY <1>0, AlertFacts
  <2> QED BY <1>0, <1>1, <2>1, AlertFacts DEF Inv, Sound
<1>2. OneActiveAlert
  BY <1>1 DEF OneActiveAlert, Single, AlertIds
<1>3. CooldownRespected
  BY <1>1 DEF CooldownRespected, Spaced, AlertIds
<1> QED BY <1>2, <1>3

\* As long as no two handlers of a rule and device run at the same time, a
\* match makes no alert beside an active one, nor within a cooldown, whatever
\* operators do to its alerts in between and whichever handler dies.
THEOREM NoDuplicates == Spec => []NoDuplicateAlerts
BY InvNoDuplicates, Invariant, PTL

LEMMA InvTickets == Inv => AlertsHaveTheirTicket
<1> SUFFICES ASSUME Inv PROVE OneTicketPerAlert /\ NewAlertsAreHandled
  BY DEF AlertsHaveTheirTicket
<1>0. TypeOK /\ Refs
  BY DEF Inv
<1>1. ASSUME faults = 0, NEW t \in TicketIds, NEW u \in TicketIds,
             tickets[t].alert = tickets[u].alert, Alone(alerts[tickets[t].alert].subject)
      PROVE  t = u
  <2>i. PICK i \in AlertIds : i = tickets[t].alert
    BY <1>0 DEF Refs
  <2>s. PICK s \in Subjects : s = alerts[i].subject /\ i \in Of(s)
    BY <1>0, AlertFacts
  <2>1. Tied(s) /\ One(s) /\ \A h \in Handlers : handler[h].subject = s => Informed(handler[h])
    BY <1>1, <2>i, <2>s DEF Inv, Sound
  <2>2. ASSUME NEW h \in Handlers, handler[h].pc = "link", handler[h].alert = i
        PROVE  handler[h].subject = s /\ alerts[i].ticket = 0
    <3>1. handler[h].subject = s
      BY <1>0, <2>2, <2>s DEF Refs, HandlerRefs, HasAlert
    <3> QED BY <2>1, <2>2, <3>1 DEF Informed, Ticketing
  <2>3. t # 0 /\ u # 0
    BY <1>0 DEF TicketIds, TypeOK
  <2>4. \A v \in {t, u} : \/ alerts[i].ticket = v
                         \/ \E h \in Handlers : /\ handler[h].pc = "link" /\ handler[h].ticket = v
                                                /\ handler[h].alert = i
    BY <1>1, <2>i, <2>s, <2>1 DEF Tied
  <2> QED BY <2>1, <2>2, <2>3, <2>4 DEF One
<1>2. OneTicketPerAlert
  BY <1>1 DEF OneTicketPerAlert, TicketIds
<1>3. ASSUME NEW i \in AlertIds, ~Busy(alerts[i].subject), faults = 0
      PROVE  /\ alerts[i].announced
             /\ rule[alerts[i].subject].autoTicket => alerts[i].ticket # 0
  <2>1. \A pcs \in {{"announce"}, {"announce"} \cup Ticketing} : ~AtIt(i, pcs)
    BY <1>0, <1>3 DEF AtIt, Ticketing, Refs, HandlerRefs, HasAlert, Busy
  <2> QED BY <1>3, <2>1 DEF Inv, Owed
<1>4. ASSUME NEW i \in AlertIds, alerts[i].ticket # 0
      PROVE  alerts[i].ticket <= Len(tickets) /\ tickets[alerts[i].ticket].alert = i
  BY <1>0, <1>4 DEF Refs, TicketIds, TypeOK
<1>5. NewAlertsAreHandled
  BY <1>3, <1>4 DEF NewAlertsAreHandled, AlertIds
<1> QED BY <1>2, <1>5

\* As long as no handler dies half way, an alert whose handlers are through has
\* been announced and has its ticket, if its rule asks for one; and no alert
\* whose handlers ran one at a time has two.
THEOREM TicketsTied == Spec => []AlertsHaveTheirTicket
BY InvTickets, Invariant, PTL

LEMMA ResolvedStep ==
  ASSUME Inv, Next, NEW i \in AlertIds, Alone(alerts[i].subject), alerts[i].status = "resolved"
  PROVE  alerts'[i].status = "resolved"
<1>0. TypeOK /\ Refs /\ alerts \in Seq(Alert) /\ alerts[i] \in Alert
  BY AlertFacts DEF Inv, TypeOK
<1>1. CASE alerts' = alerts
  BY <1>1
<1>2. ASSUME NEW h \in Handlers, Reopen(h) \/ SaveAcknowledged(h) \/ SaveResolved(h),
             alerts' # alerts
      PROVE  alerts'[i].status = "resolved"
  <2>1. handler[h].pc \in {"reopen", "acknowledge", "resolve"}
    BY <1>2 DEF Reopen, SaveAcknowledged, SaveResolved
  <2>k. PICK k \in AlertIds : k = handler[h].alert
    BY <2>1, SaverFacts
  <2>2. CASE k # i
    BY <1>0, <1>2, <2>k, <2>2 DEF Reopen, SaveAcknowledged, SaveResolved, AlertIds
  <2>3. CASE k = i /\ SaveResolved(h)
    BY <1>0, <2>k, <2>3 DEF SaveResolved, AlertIds, Alert
  <2>4. CASE k = i /\ ~SaveResolved(h)
    <3>1. Informed(handler[h])
      BY <2>1, <2>k, <2>4, SaverFacts
    <3>2. alerts[i].status \in Active
      BY <1>2, <2>k, <2>4, <3>1 DEF Informed, Active, Reopen, SaveAcknowledged
    <3> QED BY <3>2 DEF Active
  <2> QED BY <2>2, <2>3, <2>4
<1>3. ASSUME NEW h \in Handlers, CreateAlert(h) PROVE alerts'[i].status = "resolved"
  BY <1>0, <1>3 DEF CreateAlert, AlertIds
<1>4. ASSUME NEW h \in Handlers, AnnounceAlert(h) PROVE alerts'[i].status = "resolved"
  BY <1>0, <1>4 DEF AnnounceAlert, AlertIds, Alert
<1>5. ASSUME NEW h \in Handlers, LinkTicket(h) PROVE alerts'[i].status = "resolved"
  BY <1>0, <1>5 DEF LinkTicket, AlertIds, Alert
<1>6. ASSUME NEW k \in AlertIds, CooldownPasses(k) PROVE alerts'[i].status = "resolved"
  BY <1>0, <1>6 DEF CooldownPasses, AlertIds, Alert
<1>7. CASE TriggerNext
  BY <1>1, <1>2, <1>3, <1>4, <1>7 DEF TriggerNext, Trigger, Begin, CheckCooldown
<1>8. CASE OperatorNext
  BY <1>1, <1>2, <1>8 DEF OperatorNext, Acknowledge, Resolve, RequestTicket, Load, Begin
<1>9. CASE TicketNext
  BY <1>1, <1>5, <1>9 DEF TicketNext, FindTicket, CreateTicket, SetTicket
<1> QED BY <1>1, <1>6, <1>7, <1>8, <1>9 DEF Next, HandlerFails, AlertIds

\* As long as no two handlers of a rule and device run at the same time, no
\* handler that loaded an alert before it was resolved overwrites that.
THEOREM ResolvedStays == Spec => ResolvedIsFinal
<1> DEFINE Stays == \A i \in 1..Len(alerts) :
                      Alone(alerts[i].subject) /\ alerts[i].status = "resolved"
                        => alerts'[i].status = "resolved"
<1>1. Inv /\ [Next]_vars => [Stays]_vars
  <2> SUFFICES ASSUME Inv, Next PROVE Stays
    OBVIOUS
  <2> QED BY ResolvedStep DEF AlertIds
<1>2. [][Stays]_vars <=> ResolvedIsFinal
  BY PTL DEF ResolvedIsFinal
<1> HIDE DEF Stays
<1> QED BY <1>1, <1>2, Invariant, PTL DEF Spec
=============================================================================
