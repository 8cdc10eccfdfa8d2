----------------------- MODULE TicketAutomations_proofs -----------------------
(***************************************************************************)
(* Theorems about Tickets, for any policies, instants and number of        *)
(* requests at a time; and, after them, about Automations, which fire on   *)
(* what happens to tickets, for any automations with any number of actions *)
(* and attempts, any workers, and any number of crashes and lost locks.    *)
(***************************************************************************)
EXTENDS Tickets, Automations, TLAPS

-----------------------------------------------------------------------------
(* The inductive invariant of Tickets.                                     *)

Fields == {"status", "slaPolicyId", "firstResponseDueAt", "resolutionDueAt",
           "firstRespondedAt", "resolvedAt", "closedAt"}
Stamps == {"firstRespondedAt", "resolvedAt", "closedAt"}

\* What a handler writes to field f, and the field after its save.
MayWrite(f, x) == x \in FieldType[f] \/ (f \in Stamps /\ x = Now)
Proper(p) == \A f \in DOMAIN p : f \in Fields /\ MayWrite(f, p[f])
After(p, f) == IF f \in DOMAIN p THEN p[f] ELSE ticket[f]

Agree(status, resolvedAt, closedAt) ==
  /\ status \in Finished => resolvedAt # None
  /\ status = "closed" => closedAt # None
  /\ status = "reopened" => resolvedAt = None /\ closedAt = None
  /\ closedAt # None => resolvedAt # None

BothDue(first, resolution) == first = None <=> resolution = None

Times ==
  ~overlapped => /\ Agree(ticket["status"], ticket["resolvedAt"], ticket["closedAt"])
                 /\ BothDue(ticket["firstResponseDueAt"], ticket["resolutionDueAt"])

Shapes ==
  /\ handler = [h \in Handlers |-> [pc |-> handler[h].pc, patch |-> handler[h].patch]]
  /\ \A h \in Handlers : Proper(handler[h].patch)

\* Deadlines are kept or cleared once they are set; a time at which the ticket was
\* finished is kept or taken back.
KeepsDeadlines(first, resolution) ==
  \/ ticket["resolutionDueAt"] = None
  \/ first = None /\ resolution = None
  \/ first = ticket["firstResponseDueAt"] /\ resolution = ticket["resolutionDueAt"]

KeepsTimes(resolvedAt, closedAt) ==
  \/ resolvedAt = ticket["resolvedAt"]
  \/ ticket["resolvedAt"] = None /\ resolvedAt = Now
  \/ resolvedAt = None /\ closedAt = None

\* A transition leaves the stamp of the answer alone; once it is saved, status
\* and times agree.
Transition(p) ==
  /\ "firstRespondedAt" \notin DOMAIN p
  /\ ~overlapped =>
       /\ Agree(After(p, "status"), After(p, "resolvedAt"), After(p, "closedAt"))
       /\ BothDue(After(p, "firstResponseDueAt"), After(p, "resolutionDueAt"))
       /\ KeepsDeadlines(After(p, "firstResponseDueAt"), After(p, "resolutionDueAt"))
       /\ KeepsTimes(After(p, "resolvedAt"), After(p, "closedAt"))

\* A comment leaves the times of the transitions alone; it stamps the answer, if
\* there is no stamp yet.
Comment(p) ==
  /\ DOMAIN p \subseteq {"firstRespondedAt", "status"}
  /\ "status" \in DOMAIN p => p["status"] = "in_progress"
  /\ "firstRespondedAt" \in DOMAIN p => p["firstRespondedAt"] = Now
  /\ "firstRespondedAt" \in DOMAIN p \/ ticket.firstRespondedAt # None

Patches ==
  \A h \in Handlers :
    /\ handler[h].pc = "change" => Transition(handler[h].patch)
    /\ handler[h].pc \in {"comment", "respond"} => Comment(handler[h].patch)

OneChanges == ~overlapped => \A g, h \in Handlers : Changing(g) /\ Changing(h) => g = h

Answers ==
  /\ firstComment # None => firstComment <= now
  /\ \A h \in Handlers : handler[h].pc = "respond" => firstComment # None
  /\ ticket.firstRespondedAt # None =>
       /\ firstComment # None /\ firstComment <= ticket.firstRespondedAt
       /\ ticket.firstRespondedAt <= now
  /\ firstComment # None /\ ~failed =>
       \/ ticket.firstRespondedAt # None
       \/ \E h \in Handlers : handler[h].pc = "respond"

Inv ==
  /\ TypeOK /\ Shapes /\ Patches /\ OneChanges /\ Times /\ Answers

-----------------------------------------------------------------------------
(* Values.                                                                 *)

LEMMA FieldFacts ==
  /\ DOMAIN FieldType = Fields
  /\ FieldType["status"] = TicketStatus /\ FieldType["slaPolicyId"] = Policies \cup {None}
  /\ FieldType["firstResponseDueAt"] = Deadlines /\ FieldType["resolutionDueAt"] = Deadlines
  /\ \A f \in Stamps : FieldType[f] = Instant
BY DEF FieldType, Fields, Stamps

LEMMA ConstantFacts ==
  /\ None \notin Policies /\ None \notin Int /\ None # Now
  /\ Now \notin Policies /\ Now \notin Int /\ Now \notin TicketStatus
  /\ Keep \notin Policies /\ Keep \notin TicketStatus /\ Keep # None
  /\ \A i \in Instants : i \in Nat /\ i # Now /\ i # None
  /\ 0 \in Instants /\ Requested \subseteq TicketStatus
<1>1. /\ None \notin Policies /\ None \notin Int /\ None # Now
      /\ Now \notin Policies /\ Now \notin Int /\ Now \notin TicketStatus
      /\ Keep \notin Policies /\ Keep \notin TicketStatus /\ Keep # None
  BY TicketsAssumption, Zenon
<1>2. ASSUME NEW i \in Instants PROVE i \in Nat /\ i \in Int
  BY TicketsAssumption
<1>3. \A i \in Instants : i # Now /\ i # None
  BY <1>1, <1>2, Zenon
<1>4. 0 \in Instants /\ Requested \subseteq TicketStatus
  BY TicketsAssumption
<1> QED BY <1>1, <1>2, <1>3, <1>4, Zenon

LEMMA DueFacts ==
  /\ \A p \in Policies \cup {None} : Due(p).first \in Deadlines /\ Due(p).resolution \in Deadlines
  /\ \A p \in Policies \cup {None} : BothDue(Due(p).first, Due(p).resolution)
  /\ Deadlines \subseteq Int \cup {None}
<1>1. \A p \in Policies : Due(p).first \in Int /\ Due(p).resolution \in Int
  BY TicketsAssumption DEF Due, DueAt, TicksPerMinute
<1>2. Due(None).first = None /\ Due(None).resolution = None
  BY DEF Due
<1>3. \A p \in Policies \cup {None} : BothDue(Due(p).first, Due(p).resolution)
  BY <1>1, <1>2, ConstantFacts DEF BothDue
<1> QED BY <1>1, <1>2, <1>3 DEF Deadlines

\* No value of a field is Now.
LEMMA NowIsNone == \A f \in Fields : Now \notin FieldType[f]
<1>1. Now \notin TicketStatus /\ Now \notin Policies \cup {None}
  BY ConstantFacts
<1>2. Now \notin Deadlines
  BY DueFacts, ConstantFacts
<1>3. Now \notin Instant
  BY ConstantFacts DEF Instant
<1> QED BY <1>1, <1>2, <1>3, FieldFacts DEF Fields, Stamps

LEMMA Saved ==
  ASSUME TypeOK, NEW p, Proper(p), Save(p)
  PROVE  /\ DOMAIN ticket' = Fields
         /\ \A f \in Fields : ticket'[f] \in FieldType[f]
         /\ \A f \in Fields : f \notin DOMAIN p => ticket'[f] = ticket[f]
         /\ \A f \in DOMAIN p : p[f] = Now => ticket'[f] = now
         /\ \A f \in DOMAIN p : p[f] # Now => ticket'[f] = p[f]
<1>0. /\ DOMAIN ticket = Fields /\ now \in Instants
      /\ \A f \in Fields : ticket[f] \in FieldType[f]
  BY FieldFacts DEF TypeOK
<1>1. /\ DOMAIN ticket' = Fields
      /\ \A f \in Fields : f \notin DOMAIN p => ticket'[f] = ticket[f]
      /\ \A f \in DOMAIN p : p[f] = Now => ticket'[f] = now
      /\ \A f \in DOMAIN p : p[f] # Now => ticket'[f] = p[f]
  BY <1>0 DEF Save, Proper
<1>2. ASSUME NEW f \in Fields PROVE ticket'[f] \in FieldType[f]
  <2>1. CASE f \notin DOMAIN p
    BY <1>0, <1>1, <2>1
  <2>2. CASE f \in DOMAIN p /\ p[f] # Now
    BY <1>1, <2>2 DEF Proper, MayWrite
  <2>3. CASE f \in DOMAIN p /\ p[f] = Now
    <3>1. f \in Stamps
      BY <2>3, NowIsNone DEF Proper, MayWrite
    <3> QED BY <1>0, <1>1, <2>3, <3>1, FieldFacts DEF Instant
  <2> QED BY <2>1, <2>2, <2>3
<1> QED BY <1>1, <1>2

LEMMA Patched ==
  ASSUME DOMAIN ticket = Fields, NEW doc, \A f \in Fields : MayWrite(f, doc[f]),
         NEW p, p = Patch(ticket, doc)
  PROVE  /\ Proper(p) /\ \A f \in Fields : After(p, f) = doc[f]
         /\ \A f \in DOMAIN p : p[f] = doc[f] /\ doc[f] # ticket[f]
         /\ \A f \in Fields : f \notin DOMAIN p => doc[f] = ticket[f]
BY DEF Patch, Proper, After

-----------------------------------------------------------------------------
(* The documents that handlers work out.                                   *)

LEMMA PolicyDocument ==
  ASSUME TypeOK, NEW x \in Policies \cup {None, Keep}, NEW d, d = WithPolicy(ticket, x)
  PROVE  /\ DOMAIN d = Fields /\ \A f \in Fields : d[f] \in FieldType[f]
         /\ d["status"] = ticket["status"]
         /\ \A f \in Stamps : d[f] = ticket[f]
         /\ BothDue(ticket["firstResponseDueAt"], ticket["resolutionDueAt"]) =>
              /\ BothDue(d["firstResponseDueAt"], d["resolutionDueAt"])
              /\ KeepsDeadlines(d["firstResponseDueAt"], d["resolutionDueAt"])
<1>0. DOMAIN ticket = Fields /\ \A f \in Fields : ticket[f] \in FieldType[f]
  BY FieldFacts DEF TypeOK
<1>1. CASE x = Keep
  BY <1>0, <1>1 DEF WithPolicy, Fields, Stamps, KeepsDeadlines
<1>2. CASE x # Keep /\ d = [ticket EXCEPT !.slaPolicyId = x]
  <2>1. DOMAIN d = Fields /\ d["slaPolicyId"] = x
        /\ \A f \in Fields \ {"slaPolicyId"} : d[f] = ticket[f]
    BY <1>0, <1>2 DEF Fields
  <2> QED BY <1>0, <1>2, <2>1, FieldFacts DEF Fields, Stamps, KeepsDeadlines
<1>3. CASE /\ x # Keep
           /\ \/ x = None \/ ticket["firstResponseDueAt"] = None
              \/ ticket["resolutionDueAt"] = None
           /\ d = [ticket EXCEPT !.slaPolicyId = x, !.firstResponseDueAt = Due(x).first,
                                 !.resolutionDueAt = Due(x).resolution]
  <2>1. DOMAIN d = Fields /\ d["slaPolicyId"] = x
    BY <1>0, <1>3 DEF Fields
  <2>2. /\ d["firstResponseDueAt"] = Due(x).first /\ d["resolutionDueAt"] = Due(x).resolution
        /\ \A f \in Fields \ {"slaPolicyId", "firstResponseDueAt", "resolutionDueAt"} :
             d[f] = ticket[f]
    BY <1>0, <1>3 DEF Fields
  <2>3. /\ Due(x).first \in Deadlines /\ Due(x).resolution \in Deadlines
        /\ BothDue(Due(x).first, Due(x).resolution)
        /\ x = None => Due(x).first = None /\ Due(x).resolution = None
    BY <1>3, DueFacts DEF Due
  <2>4. /\ d["status"] = ticket["status"]
        /\ \A f \in Fields : d[f] \in FieldType[f]
        /\ \A f \in Stamps : d[f] = ticket[f]
    BY <1>0, <1>3, <2>1, <2>2, <2>3, FieldFacts DEF Fields, Stamps
  <2>5. BothDue(ticket["firstResponseDueAt"], ticket["resolutionDueAt"]) =>
          /\ BothDue(d["firstResponseDueAt"], d["resolutionDueAt"])
          /\ KeepsDeadlines(d["firstResponseDueAt"], d["resolutionDueAt"])
    BY <1>3, <2>2, <2>3 DEF BothDue, KeepsDeadlines
  <2> QED BY <2>1, <2>4, <2>5
<1> QED BY <1>1, <1>2, <1>3 DEF WithPolicy

LEMMA StatusDocument ==
  ASSUME NEW t, DOMAIN t = Fields, \A f \in Fields : t[f] \in FieldType[f],
         NEW s \in TicketStatus \cup {Keep}, NEW d, d = ApplyStatusTransition(t, s)
  PROVE  /\ \A f \in Fields : MayWrite(f, d[f])
         /\ d["firstRespondedAt"] = t["firstRespondedAt"]
         /\ Agree(t["status"], t["resolvedAt"], t["closedAt"])
              => Agree(d["status"], d["resolvedAt"], d["closedAt"])
         /\ d["firstResponseDueAt"] = t["firstResponseDueAt"]
         /\ d["resolutionDueAt"] = t["resolutionDueAt"]
         /\ \/ d["resolvedAt"] = t["resolvedAt"]
            \/ t["resolvedAt"] = None /\ d["resolvedAt"] = Now
            \/ d["resolvedAt"] = None /\ d["closedAt"] = None
<1> USE DEF MayWrite
<1>0. Keep \notin TicketStatus /\ None # Now
  BY ConstantFacts
<1>r. PICK r : r = IF t["resolvedAt"] = None THEN Now ELSE t["resolvedAt"]
  OBVIOUS
<1>1. MayWrite("resolvedAt", r) /\ r # None
  BY <1>0, <1>r, FieldFacts DEF Fields, Stamps
<1>2. CASE s = Keep
  BY <1>0, <1>2 DEF ApplyStatusTransition, TicketStatus
<1>3. CASE s = "reopened"
  <2>1. d = [t EXCEPT !.status = "reopened", !.resolvedAt = None, !.closedAt = None]
    BY <1>0, <1>3 DEF ApplyStatusTransition, TicketStatus
  <2>2. /\ d["status"] = "reopened" /\ d["resolvedAt"] = None /\ d["closedAt"] = None
        /\ \A f \in Fields \ {"status", "resolvedAt", "closedAt"} : d[f] = t[f]
    BY <2>1 DEF Fields
  <2> QED BY <2>2, FieldFacts DEF Fields, Stamps, Agree, Finished, TicketStatus, Instant
<1>4. CASE s = "resolved"
  <2>1. d = [t EXCEPT !.status = "resolved", !.resolvedAt = r]
    BY <1>0, <1>4, <1>r DEF ApplyStatusTransition, TicketStatus
  <2>2. /\ d["status"] = "resolved" /\ d["resolvedAt"] = r
        /\ \A f \in Fields \ {"status", "resolvedAt"} : d[f] = t[f]
    BY <2>1 DEF Fields
  <2>3. d["resolvedAt"] = t["resolvedAt"] \/ (t["resolvedAt"] = None /\ d["resolvedAt"] = Now)
    BY <1>r, <2>2
  <2>4. /\ Agree(t["status"], t["resolvedAt"], t["closedAt"])
             => Agree(d["status"], d["resolvedAt"], d["closedAt"])
        /\ \A f \in Fields : MayWrite(f, d[f])
    BY <1>1, <2>2, FieldFacts DEF Fields, Stamps, Agree, Finished, TicketStatus
  <2> QED BY <2>2, <2>3, <2>4 DEF Fields
<1>5. CASE s = "closed"
  <2>1. d = [t EXCEPT !.status = "closed", !.resolvedAt = r, !.closedAt = Now]
    BY <1>0, <1>5, <1>r DEF ApplyStatusTransition, TicketStatus
  <2>2. /\ d["status"] = "closed" /\ d["resolvedAt"] = r /\ d["closedAt"] = Now
        /\ \A f \in Fields \ {"status", "resolvedAt", "closedAt"} : d[f] = t[f]
    BY <2>1 DEF Fields
  <2>3. d["resolvedAt"] = t["resolvedAt"] \/ (t["resolvedAt"] = None /\ d["resolvedAt"] = Now)
    BY <1>r, <2>2
  <2>4. /\ Agree(t["status"], t["resolvedAt"], t["closedAt"])
             => Agree(d["status"], d["resolvedAt"], d["closedAt"])
        /\ \A f \in Fields : MayWrite(f, d[f])
    BY <1>0, <1>1, <2>2, FieldFacts DEF Fields, Stamps, Agree, Finished, TicketStatus
  <2> QED BY <2>2, <2>3, <2>4 DEF Fields
<1>6. CASE s \in {"open", "in_progress"}
  <2>1. d = [t EXCEPT !.status = s]
    BY <1>0, <1>6 DEF ApplyStatusTransition, TicketStatus
  <2>2. d["status"] = s /\ \A f \in Fields \ {"status"} : d[f] = t[f]
    BY <2>1 DEF Fields
  <2> QED BY <1>6, <2>2, FieldFacts DEF Fields, Stamps, Agree, Finished, TicketStatus
<1> QED BY <1>2, <1>3, <1>4, <1>5, <1>6 DEF TicketStatus

LEMMA AnswerDocument ==
  ASSUME TypeOK, NEW d, d = Response(ticket)
  PROVE  /\ \A f \in Fields : MayWrite(f, d[f])
         /\ \A f \in Fields \ {"firstRespondedAt", "status"} : d[f] = ticket[f]
         /\ d["status"] # ticket["status"] => d["status"] = "in_progress"
         /\ \/ /\ d["firstRespondedAt"] = ticket["firstRespondedAt"]
               /\ ticket["firstRespondedAt"] # None
            \/ d["firstRespondedAt"] = Now /\ ticket["firstRespondedAt"] = None
<1>0. DOMAIN ticket = Fields /\ \A f \in Fields : ticket[f] \in FieldType[f]
  BY FieldFacts DEF TypeOK
<1>1. CASE ticket["firstRespondedAt"] # None
  BY <1>0, <1>1 DEF Response, MayWrite
<1>2. CASE ticket["firstRespondedAt"] = None
  <2>s. PICK s : s = IF ticket["status"] = "open" THEN "in_progress" ELSE ticket["status"]
    OBVIOUS
  <2>1. d = [ticket EXCEPT !.firstRespondedAt = Now, !.status = s]
    BY <1>0, <1>2, <2>s DEF Response, Fields
  <2>2. /\ d["firstRespondedAt"] = Now /\ d["status"] = s
        /\ \A f \in Fields \ {"firstRespondedAt", "status"} : d[f] = ticket[f]
    BY <1>0, <2>1 DEF Fields
  <2>3. s \in TicketStatus
    BY <1>0, <2>s, FieldFacts DEF Fields, TicketStatus
  <2> QED BY <1>0, <1>2, <2>s, <2>2, <2>3, FieldFacts DEF MayWrite, Fields, Stamps
<1> QED BY <1>1, <1>2

-----------------------------------------------------------------------------
(* The steps.                                                              *)

\* A handler gets a step and a patch.
Gets(h, pc, p) ==
  /\ handler' = [g \in Handlers |-> [pc |-> handler'[g].pc, patch |-> handler'[g].patch]]
  /\ DOMAIN handler' = Handlers
  /\ handler'[h].pc = pc /\ handler'[h].patch = p
  /\ \A g \in Handlers \ {h} : handler'[g] = handler[g]

LEMMA Put ==
  ASSUME Shapes, NEW h \in Handlers, NEW pc, NEW p,
         handler' = [handler EXCEPT ![h] = [pc |-> pc, patch |-> p]]
  PROVE  Gets(h, pc, p)
BY DEF Shapes, Gets

LEMMA PutIdle ==
  ASSUME Shapes, NEW h \in Handlers, handler' = [handler EXCEPT ![h] = IdleHandler]
  PROVE  Gets(h, "idle", <<>>)
BY Put DEF IdleHandler

\* The types of the handlers' states.
HandlerTypes ==
  /\ Shapes /\ DOMAIN handler = Handlers
  /\ \A h \in Handlers : handler[h].pc \in {"idle", "change", "comment", "respond"}

LEMMA Types ==
  TypeOK /\ Shapes <=>
    /\ now \in Instants /\ DOMAIN ticket = Fields /\ \A f \in Fields : ticket[f] \in FieldType[f]
    /\ HandlerTypes
    /\ firstComment \in Instant /\ overlapped \in BOOLEAN /\ failed \in BOOLEAN
BY FieldFacts DEF TypeOK, Shapes, HandlerTypes, Proper, MayWrite

LEMMA TypesNext ==
  TypeOK' /\ Shapes' <=>
    /\ now' \in Instants /\ DOMAIN ticket' = Fields /\ \A f \in Fields : ticket'[f] \in FieldType[f]
    /\ HandlerTypes'
    /\ firstComment' \in Instant /\ overlapped' \in BOOLEAN /\ failed' \in BOOLEAN
BY FieldFacts DEF TypeOK, Shapes, HandlerTypes, Proper, MayWrite

LEMMA GetsTypes ==
  ASSUME HandlerTypes, NEW h \in Handlers, NEW p, Proper(p),
         NEW pc \in {"idle", "change", "comment", "respond"}, Gets(h, pc, p)
  PROVE  HandlerTypes'
BY DEF HandlerTypes, Gets, Shapes, Proper

LEMMA NoPatch == Proper(<<>>) /\ DOMAIN <<>> = {}
BY DEF Proper

LEMMA LoadChangeStep ==
  ASSUME Inv, NEW h \in Handlers, NEW s \in TicketStatus \cup {Keep},
         NEW x \in Policies \cup {None, Keep}, LoadForChange(h, s, x)
  PROVE  Inv'
<1>0. /\ TypeOK /\ Shapes /\ HandlerTypes /\ DOMAIN ticket = Fields
      /\ handler[h].pc = "idle" /\ UNCHANGED <<now, ticket, firstComment, failed>>
      /\ overlapped' = (overlapped \/ \E g \in Handlers : Changing(g))
  BY Types DEF Inv, LoadForChange
<1>w. PICK w : w = WithPolicy(ticket, x)
  OBVIOUS
<1>d. PICK d : d = ApplyStatusTransition(w, s)
  OBVIOUS
<1>p. PICK p : p = Patch(ticket, d)
  OBVIOUS
<1>1. /\ DOMAIN w = Fields /\ \A f \in Fields : w[f] \in FieldType[f]
      /\ w["status"] = ticket["status"] /\ \A f \in Stamps : w[f] = ticket[f]
      /\ BothDue(ticket["firstResponseDueAt"], ticket["resolutionDueAt"]) =>
           /\ BothDue(w["firstResponseDueAt"], w["resolutionDueAt"])
           /\ KeepsDeadlines(w["firstResponseDueAt"], w["resolutionDueAt"])
  BY <1>0, <1>w, PolicyDocument
<1>2. /\ \A f \in Fields : MayWrite(f, d[f])
      /\ d["firstRespondedAt"] = ticket["firstRespondedAt"]
      /\ Agree(ticket["status"], ticket["resolvedAt"], ticket["closedAt"])
           => Agree(d["status"], d["resolvedAt"], d["closedAt"])
      /\ d["firstResponseDueAt"] = w["firstResponseDueAt"]
      /\ d["resolutionDueAt"] = w["resolutionDueAt"]
      /\ KeepsTimes(d["resolvedAt"], d["closedAt"])
  BY <1>1, <1>d, StatusDocument DEF Stamps, KeepsTimes
<1>3. /\ Proper(p) /\ \A f \in Fields : After(p, f) = d[f]
      /\ \A f \in DOMAIN p : p[f] = d[f] /\ d[f] # ticket[f]
  BY <1>0, <1>2, <1>p, Patched
<1>4. Gets(h, "change", p)
  BY <1>0, <1>w, <1>d, <1>p, Put DEF LoadForChange
<1>5. TypeOK' /\ Shapes'
  <2>1. HandlerTypes'
    BY <1>0, <1>3, <1>4, GetsTypes
  <2>2. overlapped' \in BOOLEAN
    BY <1>0
  <2> QED BY <1>0, <2>1, <2>2, Types, TypesNext
<1>6. Times'
  BY <1>0 DEF Inv, Times
<1>7. Patches'
  <2>1. "firstRespondedAt" \notin DOMAIN p
    BY <1>2, <1>3
  <2>a. After(p, "status") = d["status"] /\ After(p, "resolvedAt") = d["resolvedAt"]
        /\ After(p, "closedAt") = d["closedAt"]
        /\ After(p, "firstResponseDueAt") = d["firstResponseDueAt"]
        /\ After(p, "resolutionDueAt") = d["resolutionDueAt"]
    BY <1>3 DEF Fields
  <2>2. ASSUME ~overlapped
        PROVE  /\ Agree(After(p, "status"), After(p, "resolvedAt"), After(p, "closedAt"))
               /\ BothDue(After(p, "firstResponseDueAt"), After(p, "resolutionDueAt"))
               /\ KeepsDeadlines(After(p, "firstResponseDueAt"), After(p, "resolutionDueAt"))
               /\ KeepsTimes(After(p, "resolvedAt"), After(p, "closedAt"))
    BY <1>1, <1>2, <2>2, <2>a DEF Inv, Times
  <2>b. ~overlapped' => ~overlapped
    BY <1>0, Zenon
  <2>3. Transition(handler[h].patch)'
    BY <1>0, <1>4, <2>1, <2>2, <2>b DEF Gets, Transition, After, KeepsDeadlines, KeepsTimes
  <2>4. ASSUME NEW g \in Handlers \ {h}
        PROVE  /\ handler'[g].pc = "change" => Transition(handler[g].patch)'
               /\ handler'[g].pc \in {"comment", "respond"} => Comment(handler[g].patch)'
    BY <1>0, <1>4, <2>b DEF Gets, Inv, Patches, Transition, After, Comment,
        KeepsDeadlines, KeepsTimes
  <2> QED BY <1>4, <2>3, <2>4 DEF Patches, Gets
<1>8. OneChanges'
  <2>1. ~overlapped' => \A g \in Handlers : ~Changing(g)
    BY <1>0, Zenon
  <2> QED BY <1>4, <2>1 DEF OneChanges, Changing, Gets
<1>9. Answers'
  BY <1>0, <1>4 DEF Inv, Answers, Gets
<1> QED BY <1>5, <1>6, <1>7, <1>8, <1>9 DEF Inv

LEMMA LoadCommentStep ==
  ASSUME Inv, NEW h \in Handlers, LoadForComment(h)
  PROVE  Inv'
<1>0. /\ TypeOK /\ Shapes /\ HandlerTypes /\ DOMAIN ticket = Fields
      /\ handler[h].pc = "idle" /\ UNCHANGED <<now, ticket, firstComment, overlapped, failed>>
  BY Types DEF Inv, LoadForComment
<1>d. PICK d : d = Response(ticket)
  OBVIOUS
<1>p. PICK p : p = Patch(ticket, d)
  OBVIOUS
<1>2. /\ \A f \in Fields : MayWrite(f, d[f])
      /\ \A f \in Fields \ {"firstRespondedAt", "status"} : d[f] = ticket[f]
      /\ d["status"] # ticket["status"] => d["status"] = "in_progress"
      /\ \/ d["firstRespondedAt"] = ticket["firstRespondedAt"] /\ ticket["firstRespondedAt"] # None
         \/ d["firstRespondedAt"] = Now /\ ticket["firstRespondedAt"] = None
  BY <1>0, <1>d, AnswerDocument
<1>3. /\ Proper(p) /\ \A f \in DOMAIN p : p[f] = d[f] /\ d[f] # ticket[f]
      /\ \A f \in Fields : f \notin DOMAIN p => d[f] = ticket[f]
  BY <1>0, <1>2, <1>p, Patched
<1>4. Gets(h, "comment", p)
  BY <1>0, <1>d, <1>p, Put DEF LoadForComment
<1>5. TypeOK' /\ Shapes'
  <2>1. HandlerTypes'
    BY <1>0, <1>3, <1>4, GetsTypes
  <2> QED BY <1>0, <2>1, Types, TypesNext
<1>6. Times'
  BY <1>0 DEF Inv, Times
<1>7. Patches'
  <2>1. Comment(p)
    <3>1. DOMAIN p \subseteq {"firstRespondedAt", "status"}
      BY <1>2, <1>3 DEF Proper
    <3>2. "status" \in DOMAIN p => p["status"] = "in_progress"
      BY <1>2, <1>3
    <3>3. "firstRespondedAt" \in DOMAIN p => p["firstRespondedAt"] = Now
      BY <1>2, <1>3
    <3>4. "firstRespondedAt" \in DOMAIN p \/ ticket["firstRespondedAt"] # None
      BY <1>2, <1>3, ConstantFacts DEF Fields
    <3> QED BY <3>1, <3>2, <3>3, <3>4 DEF Comment
  <2>2. Comment(handler[h].patch)'
    BY <1>0, <1>4, <2>1 DEF Gets, Comment
  <2>3. ASSUME NEW g \in Handlers \ {h}
        PROVE  /\ handler'[g].pc = "change" => Transition(handler[g].patch)'
               /\ handler'[g].pc \in {"comment", "respond"} => Comment(handler[g].patch)'
    BY <1>0, <1>4 DEF Gets, Inv, Patches, Transition, After, Comment,
        KeepsDeadlines, KeepsTimes
  <2> QED BY <1>4, <2>2, <2>3 DEF Patches, Gets
<1>8. OneChanges'
  BY <1>0, <1>4 DEF Inv, OneChanges, Changing, Gets
<1>9. Answers'
  BY <1>0, <1>4 DEF Inv, Answers, Gets
<1> QED BY <1>5, <1>6, <1>7, <1>8, <1>9 DEF Inv

LEMMA CreateCommentStep ==
  ASSUME Inv, NEW h \in Handlers, CreateComment(h)
  PROVE  Inv'
<1>0. /\ TypeOK /\ Shapes /\ HandlerTypes /\ DOMAIN ticket = Fields /\ Answers
      /\ handler[h].pc = "comment" /\ UNCHANGED <<now, ticket, overlapped, failed>>
      /\ firstComment' = IF firstComment = None THEN now ELSE firstComment
  BY Types DEF Inv, CreateComment
<1>p. PICK p : p = handler[h].patch
  OBVIOUS
<1>1. Comment(p) /\ Proper(p)
  BY <1>0, <1>p DEF Inv, Patches, Shapes
<1>2. \/ p = <<>> /\ Gets(h, "idle", <<>>)
      \/ Gets(h, "respond", p)
  <2>1. CASE p = <<>>
    BY <1>0, <1>p, <2>1, PutIdle DEF CreateComment
  <2>2. CASE p # <<>>
    <3>1. handler[h] = [pc |-> "comment", patch |-> p]
      BY <1>0, <1>p DEF Shapes
    <3>2. [handler[h] EXCEPT !.pc = "respond"] = [pc |-> "respond", patch |-> p]
      BY <3>1
    <3>3. handler' = [handler EXCEPT ![h] = IF handler[h].patch = <<>> THEN IdleHandler
                                            ELSE [handler[h] EXCEPT !.pc = "respond"]]
      BY Zenon DEF CreateComment
    <3>4. handler' = [handler EXCEPT ![h] = [pc |-> "respond", patch |-> p]]
      BY <1>p, <2>2, <3>2, <3>3
    <3> QED BY <1>0, <3>4, Put
  <2> QED BY <2>1, <2>2
<1>3. \A g \in Handlers \ {h} : handler'[g] = handler[g]
  BY <1>2 DEF Gets
<1>i. now \in Instants /\ now \in Nat /\ now # None
  BY <1>0, ConstantFacts DEF TypeOK
<1>4. TypeOK' /\ Shapes'
  <2>1. HandlerTypes'
    BY <1>0, <1>1, <1>2, GetsTypes, NoPatch
  <2>2. firstComment' \in Instant
    BY <1>0, <1>i DEF TypeOK, Instant
  <2> QED BY <1>0, <2>1, <2>2, Types, TypesNext
<1>5. Times'
  BY <1>0 DEF Inv, Times
<1>6. Patches'
  <2>1. Comment(p)'
    BY <1>0, <1>1 DEF Comment
  <2>2. /\ handler'[h].pc # "change"
        /\ handler'[h].pc \in {"comment", "respond"} => Comment(handler[h].patch)'
    <3>1. CASE Gets(h, "idle", <<>>)
      BY <3>1 DEF Gets
    <3>2. CASE Gets(h, "respond", p)
      <4>1. handler'[h].pc = "respond" /\ handler'[h].patch = p
        BY <3>2 DEF Gets
      <4> QED BY <2>1, <4>1 DEF Comment
    <3> QED BY <1>2, <3>1, <3>2
  <2>3. ASSUME NEW g \in Handlers \ {h}
        PROVE  /\ handler'[g].pc = "change" => Transition(handler[g].patch)'
               /\ handler'[g].pc \in {"comment", "respond"} => Comment(handler[g].patch)'
    BY <1>0, <1>3 DEF Inv, Patches, Transition, After, Comment, KeepsDeadlines, KeepsTimes
  <2> QED BY <2>2, <2>3 DEF Patches
<1>7. OneChanges'
  BY <1>0, <1>2 DEF Inv, OneChanges, Changing, Gets
<1>8. Answers'
  <2>1. firstComment' # None /\ firstComment' <= now
    BY <1>0, <1>i DEF Answers
  <2>2. ticket["firstRespondedAt"] # None => firstComment' <= ticket["firstRespondedAt"]
    BY <1>0 DEF Answers
  <2>3. ticket["firstRespondedAt"] # None \/ \E g \in Handlers : handler'[g].pc = "respond"
    BY <1>1, <1>2, NoPatch DEF Comment, Gets
  <2> QED BY <1>0, <2>1, <2>2, <2>3 DEF Answers
<1> QED BY <1>4, <1>5, <1>6, <1>7, <1>8 DEF Inv

LEMMA FailStep ==
  ASSUME Inv, NEW h \in Handlers, HandlerFails(h)
  PROVE  Inv'
<1>0. /\ TypeOK /\ Shapes /\ HandlerTypes /\ DOMAIN ticket = Fields /\ failed' = TRUE
      /\ UNCHANGED <<now, ticket, firstComment, overlapped>> /\ Gets(h, "idle", <<>>)
  BY Types, PutIdle DEF Inv, HandlerFails
<1>1. TypeOK' /\ Shapes'
  <2>1. HandlerTypes'
    BY <1>0, GetsTypes, NoPatch
  <2> QED BY <1>0, <2>1, Types, TypesNext
<1>2. Times'
  BY <1>0 DEF Inv, Times
<1>3. Patches'
  BY <1>0 DEF Gets, Inv, Patches, Transition, After, Comment,
        KeepsDeadlines, KeepsTimes
<1>4. OneChanges'
  BY <1>0 DEF Inv, OneChanges, Changing, Gets
<1>5. Answers'
  BY <1>0 DEF Inv, Answers, Gets
<1> QED BY <1>1, <1>2, <1>3, <1>4, <1>5 DEF Inv

LEMMA TimeStep ==
  ASSUME Inv, TimePasses
  PROVE  Inv'
<1>0. /\ TypeOK /\ Shapes /\ UNCHANGED <<ticket, handler, firstComment, overlapped, failed>>
      /\ now \in Nat /\ now' \in Nat /\ now' \in Instants /\ now < now'
  BY ConstantFacts DEF Inv, TypeOK, TimePasses
<1>1. TypeOK' /\ Shapes'
  BY <1>0 DEF TypeOK, Shapes, Proper, MayWrite
<1>2. Times' /\ OneChanges'
  BY <1>0 DEF Inv, Times, OneChanges, Changing
<1>3. Patches'
  BY <1>0 DEF Inv, Patches, Transition, After, Comment, KeepsDeadlines, KeepsTimes
<1>4. Answers'
  <2>1. firstComment # None => firstComment \in Nat
    BY <1>0, ConstantFacts DEF TypeOK, Instant
  <2>2. ticket["firstRespondedAt"] # None => ticket["firstRespondedAt"] \in Nat
    BY <1>0, Types, FieldFacts, ConstantFacts DEF Fields, Stamps, Instant
  <2> QED BY <1>0, <2>1, <2>2 DEF Inv, Answers
<1> QED BY <1>1, <1>2, <1>3, <1>4 DEF Inv

LEMMA SaveChangeStep ==
  ASSUME Inv, NEW h \in Handlers, SaveChange(h)
  PROVE  Inv'
<1>p. PICK p : p = handler[h].patch
  OBVIOUS
<1>0. /\ TypeOK /\ Shapes /\ HandlerTypes /\ Save(p) /\ Gets(h, "idle", <<>>)
      /\ handler[h].pc = "change" /\ UNCHANGED <<now, firstComment, overlapped, failed>>
      /\ Transition(p) /\ Proper(p)
  BY <1>p, Types, PutIdle DEF Inv, SaveChange, Changing, Patches, Shapes
<1>1. /\ DOMAIN ticket' = Fields /\ \A f \in Fields : ticket'[f] \in FieldType[f]
      /\ \A f \in Fields : f \notin DOMAIN p => ticket'[f] = ticket[f]
      /\ \A f \in DOMAIN p : p[f] = Now => ticket'[f] = now
      /\ \A f \in DOMAIN p : p[f] # Now => ticket'[f] = p[f]
  BY <1>0, Saved
<1>2. TypeOK' /\ Shapes'
  <2>1. HandlerTypes'
    BY <1>0, GetsTypes, NoPatch
  <2> QED BY <1>0, <1>1, <2>1, Types, TypesNext
<1>3. ticket'["firstRespondedAt"] = ticket["firstRespondedAt"]
  BY <1>0, <1>1 DEF Transition, Fields
<1>i. now # None /\ Now # None /\ \A f \in Fields : Now \notin FieldType[f]
  BY <1>0, ConstantFacts, NowIsNone DEF TypeOK
<1>4. Times'
  <2> SUFFICES ASSUME ~overlapped
               PROVE  /\ Agree(ticket'["status"], ticket'["resolvedAt"], ticket'["closedAt"])
                      /\ BothDue(ticket'["firstResponseDueAt"], ticket'["resolutionDueAt"])
    BY <1>0 DEF Times, Agree, BothDue
  <2>1. /\ Agree(After(p, "status"), After(p, "resolvedAt"), After(p, "closedAt"))
        /\ BothDue(After(p, "firstResponseDueAt"), After(p, "resolutionDueAt"))
    BY <1>0 DEF Transition
  <2>2. \A f \in Fields \ Stamps : ticket'[f] = After(p, f)
    BY <1>0, <1>1, <1>i DEF After, Proper, MayWrite
  <2>3. \A f \in Stamps : ticket'[f] = None <=> After(p, f) = None
    BY <1>0, <1>1, <1>i DEF After, Fields, Stamps
  <2> QED BY <2>1, <2>2, <2>3 DEF Agree, BothDue, Stamps, Fields
<1>5. Patches'
  <2> SUFFICES ASSUME NEW g \in Handlers, g # h
               PROVE  /\ handler[g].pc = "change" => Transition(handler[g].patch)'
                      /\ handler[g].pc \in {"comment", "respond"} => Comment(handler[g].patch)'
    BY <1>0 DEF Patches, Gets
  <2>1. handler'[g] = handler[g]
    BY <1>0 DEF Gets
  <2>2. ASSUME handler[g].pc = "change" PROVE Transition(handler[g].patch)'
    BY <1>0, <2>1, <2>2 DEF Inv, Patches, Transition, OneChanges, Changing
  <2>3. ASSUME handler[g].pc \in {"comment", "respond"} PROVE Comment(handler[g].patch)'
    BY <1>3, <2>1, <2>3 DEF Inv, Patches, Comment
  <2> QED BY <2>2, <2>3
<1>6. OneChanges'
  BY <1>0 DEF Inv, OneChanges, Changing, Gets
<1>7. Answers'
  BY <1>0, <1>3 DEF Inv, Answers, Gets
<1> QED BY <1>2, <1>4, <1>5, <1>6, <1>7 DEF Inv

LEMMA SaveResponseStep ==
  ASSUME Inv, NEW h \in Handlers, SaveResponse(h)
  PROVE  Inv'
<1>p. PICK p : p = handler[h].patch
  OBVIOUS
<1>0. /\ TypeOK /\ Shapes /\ HandlerTypes /\ Save(p) /\ Gets(h, "idle", <<>>)
      /\ handler[h].pc = "respond" /\ UNCHANGED <<now, firstComment, overlapped, failed>>
      /\ Comment(p) /\ Proper(p)
  BY <1>p, Types, PutIdle DEF Inv, SaveResponse, Patches, Shapes
<1>1. /\ DOMAIN ticket' = Fields /\ \A f \in Fields : ticket'[f] \in FieldType[f]
      /\ \A f \in Fields : f \notin DOMAIN p => ticket'[f] = ticket[f]
      /\ \A f \in DOMAIN p : p[f] = Now => ticket'[f] = now
      /\ \A f \in DOMAIN p : p[f] # Now => ticket'[f] = p[f]
  BY <1>0, Saved
<1>2. TypeOK' /\ Shapes'
  <2>1. HandlerTypes'
    BY <1>0, GetsTypes, NoPatch
  <2> QED BY <1>0, <1>1, <2>1, Types, TypesNext
<1>i. now # None /\ now \in Nat /\ "in_progress" # Now
  BY <1>0, ConstantFacts DEF TypeOK, TicketStatus
<1>3. /\ ticket'["status"] \in {ticket["status"], "in_progress"}
      /\ ticket'["resolvedAt"] = ticket["resolvedAt"]
      /\ ticket'["closedAt"] = ticket["closedAt"]
      /\ ticket'["firstResponseDueAt"] = ticket["firstResponseDueAt"]
      /\ ticket'["resolutionDueAt"] = ticket["resolutionDueAt"]
  BY <1>0, <1>1, <1>i DEF Comment, Fields
<1>4. /\ ticket'["firstRespondedAt"] \in {ticket["firstRespondedAt"], now}
      /\ ticket'["firstRespondedAt"] # None
  BY <1>0, <1>1, <1>i DEF Comment, Fields
<1>5. Times'
  BY <1>0, <1>3 DEF Inv, Times, Agree, BothDue, Finished
<1>6. Patches'
  <2> SUFFICES ASSUME NEW g \in Handlers, g # h
               PROVE  /\ handler[g].pc = "change" => Transition(handler[g].patch)'
                      /\ handler[g].pc \in {"comment", "respond"} => Comment(handler[g].patch)'
    BY <1>0 DEF Patches, Gets
  <2>1. handler'[g] = handler[g]
    BY <1>0 DEF Gets
  <2>2. ASSUME handler[g].pc = "change" PROVE Transition(handler[g].patch)'
    <3>q. PICK q : q = handler[g].patch /\ Transition(q)
      BY <2>2 DEF Inv, Patches
    <3>1. /\ After(q, "status")' \in {After(q, "status"), "in_progress"}
          /\ After(q, "resolvedAt")' = After(q, "resolvedAt")
          /\ After(q, "closedAt")' = After(q, "closedAt")
          /\ After(q, "firstResponseDueAt")' = After(q, "firstResponseDueAt")
          /\ After(q, "resolutionDueAt")' = After(q, "resolutionDueAt")
      BY <1>3 DEF After
    <3>2. Transition(q)'
      BY <1>0, <1>3, <3>q, <3>1
      DEF Transition, Agree, BothDue, KeepsDeadlines, KeepsTimes, Finished
    <3> QED BY <2>1, <3>q, <3>2 DEF Transition, After
  <2>3. ASSUME handler[g].pc \in {"comment", "respond"} PROVE Comment(handler[g].patch)'
    BY <1>4, <2>1, <2>3 DEF Inv, Patches, Comment
  <2> QED BY <2>2, <2>3
<1>7. OneChanges'
  BY <1>0 DEF Inv, OneChanges, Changing, Gets
<1>8. Answers'
  <2>1. firstComment # None /\ firstComment <= now
    BY <1>0 DEF Inv, Answers
  <2>2. firstComment <= ticket'["firstRespondedAt"] /\ ticket'["firstRespondedAt"] <= now
    BY <1>4, <1>i, <2>1 DEF Inv, Answers
  <2> QED BY <1>0, <1>4, <2>1, <2>2 DEF Answers
<1> QED BY <1>2, <1>5, <1>6, <1>7, <1>8 DEF Inv

-----------------------------------------------------------------------------
(* The theorems.                                                           *)

LEMMA InitInv == Init => Inv
<1> SUFFICES ASSUME Init PROVE Inv
  OBVIOUS
<1>0. /\ now = 0 /\ firstComment = None /\ overlapped = FALSE /\ failed = FALSE
      /\ handler = [h \in Handlers |-> [pc |-> "idle", patch |-> <<>>]]
  BY DEF Init, IdleHandler
<1>1. PICK s \in TicketStatus, x \in Policies \cup {None} : ticket = Created(s, x)
  BY DEF Init
<1>2. /\ DOMAIN ticket = Fields /\ ticket["status"] = s /\ ticket["slaPolicyId"] = x
      /\ ticket["firstResponseDueAt"] = Due(x).first
      /\ ticket["resolutionDueAt"] = Due(x).resolution
      /\ ticket["firstRespondedAt"] = None
      /\ ticket["resolvedAt"] = (IF s \in Finished THEN 0 ELSE None)
      /\ ticket["closedAt"] = (IF s = "closed" THEN 0 ELSE None)
  BY <1>1 DEF Created, Fields
<1>3. \A f \in Fields : ticket[f] \in FieldType[f]
  BY <1>2, FieldFacts, DueFacts, ConstantFacts DEF Fields, Stamps, Instant
<1>4. HandlerTypes /\ \A h \in Handlers : handler[h].pc = "idle"
  BY <1>0, NoPatch DEF HandlerTypes, Shapes
<1>5. TypeOK /\ Shapes
  BY <1>0, <1>2, <1>3, <1>4, Types, ConstantFacts DEF Instant
<1>6. Times
  <2>1. Agree(ticket["status"], ticket["resolvedAt"], ticket["closedAt"])
    BY <1>2, ConstantFacts DEF Agree, Finished
  <2> QED BY <1>2, <2>1, DueFacts DEF Times
<1>7. Patches /\ OneChanges /\ Answers
  BY <1>0, <1>2, <1>4 DEF Patches, OneChanges, Answers, Changing
<1> QED BY <1>5, <1>6, <1>7 DEF Inv

LEMMA StutterInv == Inv /\ UNCHANGED vars => Inv'
<1> SUFFICES ASSUME Inv, UNCHANGED vars PROVE Inv'
  OBVIOUS
<1>0. UNCHANGED <<now, ticket, handler, firstComment, overlapped, failed>>
  BY DEF vars
<1>1. TypeOK' /\ Shapes'
  BY <1>0 DEF Inv, TypeOK, Shapes, Proper, MayWrite
<1>2. Patches' /\ OneChanges' /\ Times' /\ Answers'
  BY <1>0 DEF Inv, Patches, Transition, After, Comment, KeepsDeadlines, KeepsTimes,
            OneChanges, Changing, Times, Answers
<1> QED BY <1>1, <1>2 DEF Inv

LEMMA NextInv == Inv /\ [Next]_vars => Inv'
<1> SUFFICES ASSUME Inv, Next PROVE Inv'
  BY StutterInv
<1>1. ASSUME NEW h \in Handlers, Update(h) \/ Resolve(h) \/ Close(h) \/ Reopen(h) PROVE Inv'
  <2>1. \E s \in TicketStatus \cup {Keep}, x \in Policies \cup {None, Keep} :
          LoadForChange(h, s, x)
    BY <1>1, ConstantFacts DEF Update, Resolve, Close, Reopen, TicketStatus
  <2> QED BY <2>1, LoadChangeStep
<1> QED BY <1>1, TimeStep, SaveChangeStep, LoadCommentStep, CreateCommentStep, SaveResponseStep,
           FailStep DEF Next

LEMMA Invariant == Spec => []Inv
BY InitInv, NextInv, PTL DEF Spec

\* The document, the clock and the patches under way have their types throughout;
\* no field is ever left at the placeholder for the time of the save.
THEOREM TypesHold == Spec => []TypeOK
<1>1. Inv => TypeOK
  BY DEF Inv
<1> QED BY <1>1, Invariant, PTL

LEMMA InvStamps == Inv => StampsAreTrue
<1> SUFFICES ASSUME Inv PROVE AnswersCount
  BY DEF Inv, StampsAreTrue, Times, Agree, TimesAgree
<1>1. ASSUME FirstResponseState = "met"
      PROVE  firstComment # None /\ firstComment <= ticket.firstResponseDueAt
  <2>1. /\ ticket.firstResponseDueAt # None /\ ticket.firstRespondedAt # None
        /\ ticket.firstRespondedAt <= ticket.firstResponseDueAt
    BY <1>1 DEF FirstResponseState, ComputeSlaClock
  <2>2. /\ ticket.firstResponseDueAt \in Deadlines /\ ticket.firstRespondedAt \in Instant
        /\ firstComment \in Instant
    BY FieldFacts DEF Inv, TypeOK, Fields, Stamps
  <2>3. firstComment # None /\ firstComment <= ticket.firstRespondedAt
    BY <2>1 DEF Inv, Answers
  <2>4. ticket.firstResponseDueAt \in Int
    BY <2>1, <2>2, DueFacts, Zenon
  <2>5. ticket.firstRespondedAt \in Nat /\ firstComment \in Nat
    BY <2>1, <2>2, <2>3, ConstantFacts, Zenon DEF Instant
  <2> QED BY <2>1, <2>3, <2>4, <2>5
<1> QED BY <1>1 DEF Inv, Answers, AnswersCount

\* However comments and transitions overlap, and whatever fails: a finished ticket
\* has its times and a reopened one has none, as long as no two transitions
\* overlap; a first response shown as met was given by the deadline; and until a
\* handler fails, one that was given is stamped.
THEOREM StampsHold == Spec => []StampsAreTrue
BY InvStamps, Invariant, PTL

-----------------------------------------------------------------------------
(* Breaches.                                                               *)

\* A clock shows a breach if the answer came late, or has not come and is late by
\* a minute or more.
Late(due, responded, at) ==
  /\ due # None
  /\ IF responded # None THEN responded > due ELSE RemainingMinutes(due, at) < 0

LEMMA Breached ==
  ASSUME NEW due, NEW responded, NEW target, NEW at,
         due # None /\ responded # None => responded \in Int /\ due \in Int,
         due # None => RemainingMinutes(due, at) \in Int
  PROVE  ComputeSlaClock(due, responded, target, at) = "breached" <=> Late(due, responded, at)
<1>1. CASE due = None
  BY <1>1 DEF ComputeSlaClock, Late
<1>2. CASE due # None /\ responded # None
  BY <1>2 DEF ComputeSlaClock, Late
<1>3. CASE due # None /\ responded = None
  BY <1>3 DEF ComputeSlaClock, Late
<1> QED BY <1>1, <1>2, <1>3

LEMMA Overdue ==
  ASSUME NEW due \in Int, NEW at \in Nat
  PROVE  /\ RemainingMinutes(due, at) \in Int
         /\ RemainingMinutes(due, at) < 0 => due < at
         /\ \A later \in Nat : at < later /\ RemainingMinutes(due, at) < 0
              => RemainingMinutes(due, later) < 0
BY DEF RemainingMinutes, CeilDiv, TicksPerMinute

LEMMA Overall ==
  ASSUME NEW status, NEW first, NEW resolution
  PROVE  ComputeOverallSlaState(status, first, resolution) = "breached"
           <=> first = "breached" \/ resolution = "breached"
BY DEF ComputeOverallSlaState

LateAnswer == Late(ticket["firstResponseDueAt"], ticket["firstRespondedAt"], now)
LateEnd    == Late(ticket["resolutionDueAt"], FinishedAt, now)

LEMMA Instances ==
  ASSUME Inv
  PROVE  /\ now \in Nat
         /\ \A f \in Stamps : ticket[f] # None => ticket[f] \in Nat
         /\ \A f \in {"firstResponseDueAt", "resolutionDueAt"} :
              ticket[f] # None => ticket[f] \in Int
         /\ OverallState = "breached" <=> LateAnswer \/ LateEnd
<1>1. /\ now \in Nat /\ \A f \in Stamps : ticket[f] # None => ticket[f] \in Nat
  BY Types, FieldFacts, ConstantFacts DEF Inv, Fields, Stamps, Instant
<1>2. \A f \in {"firstResponseDueAt", "resolutionDueAt"} : ticket[f] # None => ticket[f] \in Int
  BY Types, FieldFacts, DueFacts DEF Inv, Fields
<1>3. ASSUME NEW f \in {"firstResponseDueAt", "resolutionDueAt"}, NEW target, NEW responded,
             responded # None => responded \in Nat
      PROVE  ComputeSlaClock(ticket[f], responded, target, now) = "breached"
               <=> Late(ticket[f], responded, now)
  <2>1. ticket[f] # None => RemainingMinutes(ticket[f], now) \in Int
    BY <1>1, <1>2, Overdue
  <2>2. ticket[f] # None /\ responded # None => responded \in Int /\ ticket[f] \in Int
    BY <1>2, <1>3
  <2> QED BY <2>1, <2>2, Breached
<1>4. FirstResponseState = "breached" <=> LateAnswer
  BY <1>1, <1>3 DEF FirstResponseState, LateAnswer, Stamps
<1>5. FinishedAt # None => FinishedAt \in Nat
  BY <1>1 DEF FinishedAt, Stamps
<1>6. ResolutionState = "breached" <=> LateEnd
  BY <1>3, <1>5 DEF ResolutionState, LateEnd
<1> QED BY <1>1, <1>2, <1>4, <1>6, Overall DEF OverallState

Shown == OverallState = "breached" <=> LateAnswer \/ LateEnd

LEMMA ShownNow == Inv => Shown
BY Instances DEF Shown

LEMMA ShownNext == Inv' => Shown'
BY ShownNow, PTL

\* What a step may do to the stamps and deadlines of a ticket with a breach.
Hides ==
  \/ ticket["resolutionDueAt"] # None /\ ticket'["resolutionDueAt"] = None
  \/ FinishedAt # None /\ FinishedAt' = None

LEMMA ChangeKeepsBreach ==
  ASSUME Inv, NEW h \in Handlers, SaveChange(h), ~overlapped, LateAnswer \/ LateEnd
  PROVE  LateAnswer' \/ LateEnd' \/ Hides
<1>p. PICK p : p = handler[h].patch
  OBVIOUS
<1>0. /\ TypeOK /\ Save(p) /\ now' = now /\ Transition(p) /\ Proper(p)
  BY <1>p, Types DEF Inv, SaveChange, Changing, Patches, Shapes
<1>1. /\ \A f \in Fields : f \notin DOMAIN p => ticket'[f] = ticket[f]
      /\ \A f \in DOMAIN p : p[f] = Now => ticket'[f] = now
      /\ \A f \in DOMAIN p : p[f] # Now => ticket'[f] = p[f]
  BY <1>0, Saved
<1>i. /\ now \in Nat /\ now # None /\ Now # None /\ \A f \in Fields : Now \notin FieldType[f]
  BY <1>0, ConstantFacts, NowIsNone DEF TypeOK
<1>2. ticket'["firstRespondedAt"] = ticket["firstRespondedAt"]
  BY <1>0, <1>1 DEF Transition, Fields
<1>3. \A f \in Fields \ Stamps : ticket'[f] = After(p, f)
  BY <1>0, <1>1, <1>i DEF After, Proper, MayWrite
<1>4. /\ BothDue(ticket["firstResponseDueAt"], ticket["resolutionDueAt"])
      /\ KeepsDeadlines(ticket'["firstResponseDueAt"], ticket'["resolutionDueAt"])
  BY <1>0, <1>3 DEF Inv, Times, Transition, Fields, Stamps
<1>5. ticket["resolutionDueAt"] # None
  BY <1>4 DEF BothDue, LateAnswer, LateEnd, Late
<1>6. CASE ticket'["resolutionDueAt"] = None
  BY <1>5, <1>6 DEF Hides
<1>7. CASE /\ ticket'["firstResponseDueAt"] = ticket["firstResponseDueAt"]
           /\ ticket'["resolutionDueAt"] = ticket["resolutionDueAt"]
  <2>1. CASE LateAnswer
    BY <1>0, <1>2, <1>7, <2>1 DEF LateAnswer
  <2>2. CASE LateEnd
    <3>1. /\ Agree(ticket["status"], ticket["resolvedAt"], ticket["closedAt"])
          /\ Agree(After(p, "status"), After(p, "resolvedAt"), After(p, "closedAt"))
          /\ KeepsTimes(After(p, "resolvedAt"), After(p, "closedAt"))
      BY <1>0 DEF Inv, Times, Transition
    <3>2. FinishedAt = ticket["resolvedAt"]
      BY <3>1 DEF Agree, FinishedAt
    <3>3. /\ ticket'["resolvedAt"] = (IF After(p, "resolvedAt") = Now THEN now
                                     ELSE After(p, "resolvedAt"))
          /\ ticket'["closedAt"] = None <=> After(p, "closedAt") = None
      <4>1. ticket["resolvedAt"] # Now /\ ticket["closedAt"] # Now
        BY <1>0, <1>i, FieldFacts DEF TypeOK, Fields
      <4> QED BY <1>1, <1>i, <4>1 DEF After, Fields
    <3>4. FinishedAt' = ticket'["resolvedAt"]
      BY <3>1, <3>3, <1>i DEF Agree, FinishedAt
    <3>5. CASE ticket["resolvedAt"] = None /\ ticket'["resolvedAt"] = now
      <4>1. ticket["resolutionDueAt"] < now
        BY <1>i, <2>2, <3>2, <3>5, Instances, Overdue DEF LateEnd, Late
      <4>2. ticket["resolutionDueAt"] \in Int
        BY <1>5, Instances
      <4> QED BY <1>0, <1>5, <1>7, <1>i, <3>4, <3>5, <4>1, <4>2 DEF LateEnd, Late
    <3>6. CASE ticket'["resolvedAt"] = ticket["resolvedAt"]
      BY <1>0, <1>7, <2>2, <3>2, <3>4, <3>6 DEF LateEnd
    <3>7. CASE ticket["resolvedAt"] # None /\ ticket'["resolvedAt"] = None
      BY <3>2, <3>4, <3>7 DEF Hides
    <3>8. ticket["resolvedAt"] # Now
      BY <1>0, <1>i, FieldFacts DEF TypeOK, Fields
    <3> QED BY <1>i, <3>1, <3>3, <3>5, <3>6, <3>7, <3>8 DEF KeepsTimes
  <2> QED BY <2>1, <2>2
<1> QED BY <1>4, <1>5, <1>6, <1>7 DEF KeepsDeadlines

LEMMA ResponseKeepsBreach ==
  ASSUME Inv, NEW h \in Handlers, SaveResponse(h), LateAnswer \/ LateEnd
  PROVE  LateAnswer' \/ LateEnd'
<1>p. PICK p : p = handler[h].patch
  OBVIOUS
<1>0. /\ TypeOK /\ Save(p) /\ now' = now /\ Comment(p) /\ Proper(p)
  BY <1>p, Types DEF Inv, SaveResponse, Patches, Shapes
<1>1. /\ \A f \in Fields : f \notin DOMAIN p => ticket'[f] = ticket[f]
      /\ \A f \in DOMAIN p : p[f] = Now => ticket'[f] = now
  BY <1>0, Saved
<1>2. /\ ticket'["firstResponseDueAt"] = ticket["firstResponseDueAt"]
      /\ ticket'["resolutionDueAt"] = ticket["resolutionDueAt"]
      /\ ticket'["resolvedAt"] = ticket["resolvedAt"]
      /\ ticket'["closedAt"] = ticket["closedAt"]
      /\ ticket'["firstRespondedAt"] \in {ticket["firstRespondedAt"], now}
  BY <1>0, <1>1 DEF Comment, Fields
<1>3. CASE LateEnd
  BY <1>0, <1>2, <1>3 DEF LateEnd, FinishedAt
<1>4. CASE LateAnswer
  <2>1. /\ now \in Nat /\ now # None /\ ticket["firstResponseDueAt"] # None
        /\ ticket["firstResponseDueAt"] \in Int
        /\ ticket["firstRespondedAt"] # None => ticket["firstRespondedAt"] \in Nat
    BY <1>0, <1>4, Instances, ConstantFacts DEF TypeOK, LateAnswer, Late, Stamps
  <2>2. ticket["firstResponseDueAt"] < now
    <3>1. CASE ticket["firstRespondedAt"] = None
      BY <1>4, <2>1, <3>1, Overdue DEF LateAnswer, Late
    <3>2. CASE ticket["firstRespondedAt"] # None
      <4>1. ticket["firstRespondedAt"] <= now
        BY <3>2 DEF Inv, Answers
      <4>2. ticket["firstRespondedAt"] > ticket["firstResponseDueAt"]
        BY <1>4, <3>2 DEF LateAnswer, Late
      <4> QED BY <2>1, <3>2, <4>1, <4>2
    <3> QED BY <3>1, <3>2
  <2>3. CASE ticket'["firstRespondedAt"] = ticket["firstRespondedAt"]
    BY <1>0, <1>2, <1>4, <2>3 DEF LateAnswer
  <2>4. CASE ticket'["firstRespondedAt"] = now
    BY <1>2, <2>1, <2>2, <2>4 DEF LateAnswer, Late
  <2> QED BY <1>2, <2>3, <2>4
<1> QED BY <1>3, <1>4

LEMMA TimeKeepsBreach ==
  ASSUME Inv, TimePasses, LateAnswer \/ LateEnd
  PROVE  LateAnswer' \/ LateEnd'
<1>0. ticket' = ticket /\ now \in Nat /\ now' \in Nat /\ now < now'
  BY ConstantFacts DEF Inv, TypeOK, TimePasses
<1>1. ASSUME NEW due \in Int, NEW responded, Late(due, responded, now)
      PROVE  Late(due, responded, now')
  BY <1>0, <1>1, Overdue DEF Late
<1>2. CASE LateAnswer
  <2>1. ticket["firstResponseDueAt"] \in Int
    BY <1>2, Instances DEF LateAnswer, Late
  <2> QED BY <1>0, <1>1, <1>2, <2>1 DEF LateAnswer
<1>3. CASE LateEnd
  <2>1. ticket["resolutionDueAt"] \in Int
    BY <1>3, Instances DEF LateEnd, Late
  <2> QED BY <1>0, <1>1, <1>3, <2>1 DEF LateEnd, FinishedAt
<1> QED BY <1>2, <1>3

\* As long as no two transitions overlap, no comment and no transition hides a
\* breach, whatever the policies; only reopening the ticket or clearing its policy
\* does.
THEOREM BreachesStay == Spec => BreachStays
<1> DEFINE Stays == ~overlapped /\ OverallState = "breached" =>
                      \/ OverallState' = "breached"
                      \/ ticket.resolutionDueAt # None /\ ticket.resolutionDueAt' = None
                      \/ FinishedAt # None /\ FinishedAt' = None
<1>1. Inv /\ [Next]_vars => [Stays]_vars
  <2> SUFFICES ASSUME Inv, Next, ~overlapped, OverallState = "breached"
               PROVE  OverallState' = "breached" \/ Hides
    BY DEF Hides
  <2>1. LateAnswer \/ LateEnd
    BY Instances
  <2>2. Inv'
    BY NextInv
  <2>3. LateAnswer' \/ LateEnd' => OverallState' = "breached"
    BY <2>2, ShownNext DEF Shown
  <2>4. ASSUME UNCHANGED <<ticket, now>> PROVE LateAnswer' \/ LateEnd'
    BY <2>1, <2>4 DEF LateAnswer, LateEnd, FinishedAt
  <2>5. CASE TimePasses
    BY <2>1, <2>3, <2>5, TimeKeepsBreach
  <2>6. ASSUME NEW h \in Handlers, SaveChange(h) PROVE OverallState' = "breached" \/ Hides
    BY <2>1, <2>3, <2>6, ChangeKeepsBreach
  <2>7. ASSUME NEW h \in Handlers, SaveResponse(h) PROVE OverallState' = "breached"
    BY <2>1, <2>3, <2>7, ResponseKeepsBreach
  <2>8. ASSUME NEW h \in Handlers,
               \/ Update(h) \/ Resolve(h) \/ Close(h) \/ Reopen(h)
               \/ LoadForComment(h) \/ CreateComment(h) \/ HandlerFails(h)
        PROVE  UNCHANGED <<ticket, now>>
    BY <2>8 DEF Update, Resolve, Close, Reopen, LoadForChange, LoadForComment, CreateComment,
                HandlerFails
  <2> QED BY <2>3, <2>4, <2>5, <2>6, <2>7, <2>8 DEF Next
<1>2. [][Stays]_vars <=> BreachStays
  BY PTL DEF BreachStays
<1> HIDE DEF Stays
<1> QED BY <1>1, <1>2, Invariant, PTL DEF Spec

-----------------------------------------------------------------------------
(* The inductive invariant of Automations.                                 *)

\* A log with the outcome its automation should have.
HasOutcome(l) ==
  l.status \in IF l.automation \in matching THEN {"success", "failed"} ELSE {"skipped"}

Logged(a) == \E l \in Logs : l.automation = a /\ HasOutcome(l)

\* What a log says of the actions is true.
Honest(l) ==
  /\ l.ran \subseteq 1..Actions[l.automation]
  /\ l.status = "success" => l.ran = 1..Actions[l.automation]

\* A worker with the local state r and the log l it is at: what it has done is in
\* the log, and it is between automations only when the log has its outcome.
Working(r, l) ==
  /\ l # NoLog => Honest(l)
  /\ r.pc \notin {"idle", "find", "next"} => l # NoLog
  /\ r.pc \in {"act", "saveSuccess"} => 1..r.done \subseteq l.ran
  /\ r.pc = "act" => r.done < Actions[l.automation]
  /\ r.pc = "saveSuccess" => r.done = Actions[l.automation]
  /\ r.pc \in {"act", "saveSuccess", "notify", "saveFailed"} => l.automation \in matching
  /\ r.pc = "saveSkipped" => l.automation \notin matching
  /\ r.pc = "notify" => l.status = "success"

\* The automations a worker has begun are logged, or the last of them is at hand.
Covered(r, l) ==
  r.pc \notin {"idle", "find"} =>
    \A a \in Automations \ r.left : Logged(a) \/ (r.pc # "next" /\ a = l.automation)

\* The queue job is held only while it is active, and never tried too often.
JobInv ==
  /\ job.holder # Nothing => job.state = "active"
  /\ job.state \in {"waiting", "active"} => job.tries < JobAttempts

LogInv ==
  /\ AutomationsTypeOK /\ JobInv
  /\ \A w \in Workers : Working(worker[w], log[w]) /\ Covered(worker[w], log[w])
  /\ \A l \in past : Honest(l)
  /\ DoneIsLogged

-----------------------------------------------------------------------------
(* Steps of workers.                                                       *)

LEMMA NoLogIsNone == NoLog \notin Log
BY AutomationsAssumption DEF NoLog, Log

LEMMA FieldUpdates ==
  ASSUME NEW r \in WorkerType
  PROVE  /\ \A x \in Steps : [r EXCEPT !.pc = x] \in WorkerType
         /\ \A x \in SUBSET Automations : [r EXCEPT !.left = x] \in WorkerType
         /\ \A x \in Nat : [r EXCEPT !.attempt = x] \in WorkerType
         /\ \A x \in Nat : [r EXCEPT !.done = x] \in WorkerType
BY DEF WorkerType

LEMMA LogUpdates ==
  ASSUME NEW l \in Log
  PROVE  /\ \A x \in AutomationLogStatus :
              /\ [l EXCEPT !.status = x] \in Log /\ [l EXCEPT !.status = x].status = x
              /\ [l EXCEPT !.status = x].automation = l.automation
              /\ [l EXCEPT !.status = x].ran = l.ran
         /\ \A x \in SUBSET Nat :
              /\ [l EXCEPT !.ran = x] \in Log /\ [l EXCEPT !.ran = x].ran = x
              /\ [l EXCEPT !.ran = x].automation = l.automation
              /\ [l EXCEPT !.ran = x].status = l.status
BY DEF Log

\* The log a worker is at becomes l: it is left behind, or it is still the log of
\* its automation, with its outcome if it had it.
Kept(w, l) ==
  \/ past' = past \cup ({log[w]} \ {NoLog})
  \/ /\ past' = past
     /\ log[w] # NoLog =>
          l # NoLog /\ l.automation = log[w].automation /\ (HasOutcome(log[w]) => HasOutcome(l))

\* An automation that has been logged stays logged.
LEMMA LoggedStays ==
  ASSUME AutomationsTypeOK, NEW w \in Workers, NEW l \in Log \cup {NoLog}, UNCHANGED matching,
         log' = [log EXCEPT ![w] = l], Kept(w, l), NEW a \in Automations, Logged(a)
  PROVE  Logged(a)'
<1>1. PICK k \in Logs : k.automation = a /\ HasOutcome(k)
  BY DEF Logged
<1>2. k # NoLog
  BY <1>1, AutomationsAssumption DEF NoLog
<1>3. HasOutcome(k)' /\ (HasOutcome(l) => HasOutcome(l)')
  BY <1>1 DEF HasOutcome
<1>4. log'[w] = l /\ \A v \in Workers \ {w} : log'[v] = log[v]
  BY DEF AutomationsTypeOK
<1>5. CASE k \in past
  BY <1>1, <1>3, <1>5 DEF Logged, Logs, Kept
<1>6. ASSUME NEW v \in Workers, v # w, k = log[v] PROVE Logged(a)'
  BY <1>1, <1>3, <1>4, <1>6 DEF Logged, Logs
<1>7. CASE k = log[w]
  <2>1. CASE past' = past \cup ({log[w]} \ {NoLog})
    BY <1>1, <1>2, <1>3, <1>7, <2>1 DEF Logged, Logs
  <2>2. CASE l.automation = log[w].automation /\ (HasOutcome(log[w]) => HasOutcome(l))
    BY <1>1, <1>3, <1>4, <1>7, <2>2 DEF Logged, Logs
  <2> QED BY <1>2, <1>7, <2>1, <2>2 DEF Kept
<1> QED BY <1>5, <1>6, <1>7 DEF Logs

\* A worker gets the local state r and the log l.
LEMMA WorkerMoves ==
  ASSUME LogInv, NEW w \in Workers, NEW r \in WorkerType, NEW l \in Log \cup {NoLog},
         UNCHANGED matching, worker' = [worker EXCEPT ![w] = r], log' = [log EXCEPT ![w] = l],
         Kept(w, l), Working(r, l),
         r.pc \notin {"idle", "find"} =>
           \A a \in Automations \ r.left :
             Logged(a) \/ (a = l.automation /\ (r.pc = "next" => HasOutcome(l)))
  PROVE  /\ worker' \in [Workers -> WorkerType] /\ log' \in [Workers -> Log \cup {NoLog}]
         /\ past' \in SUBSET Log
         /\ \A v \in Workers : Working(worker[v], log[v])' /\ Covered(worker[v], log[v])'
         /\ \A k \in past' : Honest(k)
         /\ \A a \in Automations : Logged(a) => Logged(a)'
<1> AutomationsTypeOK
  BY DEF LogInv
<1>1. worker' \in [Workers -> WorkerType] /\ log' \in [Workers -> Log \cup {NoLog}]
  BY DEF AutomationsTypeOK
<1>2. worker'[w] = r /\ log'[w] = l
  BY DEF AutomationsTypeOK
<1>3. \A v \in Workers \ {w} : worker'[v] = worker[v] /\ log'[v] = log[v]
  BY DEF AutomationsTypeOK
<1>4. \A a \in Automations : Logged(a) => Logged(a)'
  BY LoggedStays
<1>5. past' \in SUBSET Log /\ \A k \in past' : Honest(k)
  <2>1. past' = past \/ past' = past \cup ({log[w]} \ {NoLog})
    BY DEF Kept
  <2>2. log[w] \in Log \cup {NoLog} /\ (log[w] # NoLog => Honest(log[w]))
    BY DEF AutomationsTypeOK, LogInv, Working
  <2> QED BY <2>1, <2>2 DEF AutomationsTypeOK, LogInv
<1>6. ASSUME NEW v \in Workers PROVE Working(worker[v], log[v])'
  <2>1. CASE v = w
    BY <1>2, <2>1 DEF Working
  <2>2. CASE v # w
    <3>1. worker'[v] = worker[v] /\ log'[v] = log[v] /\ Working(worker[v], log[v])
      BY <1>3, <2>2 DEF LogInv
    <3> QED BY <3>1 DEF Working
  <2> QED BY <2>1, <2>2
<1>7. ASSUME NEW v \in Workers PROVE Covered(worker[v], log[v])'
  <2>1. CASE v # w
    <3>1. worker'[v] = worker[v] /\ log'[v] = log[v] /\ Covered(worker[v], log[v])
      BY <1>3, <2>1 DEF LogInv
    <3> QED BY <1>4, <3>1 DEF Covered
  <2>2. CASE v = w
    <3> SUFFICES ASSUME r.pc \notin {"idle", "find"}, NEW a \in Automations \ r.left
                 PROVE  Logged(a)' \/ (r.pc # "next" /\ a = l.automation)
      BY <1>2, <2>2 DEF Covered
    <3>1. CASE Logged(a)
      BY <1>4, <3>1
    <3>2. CASE a = l.automation /\ HasOutcome(l)
      <4>1. l \in Logs' /\ HasOutcome(l)'
        BY <1>2, <3>2 DEF Logs, HasOutcome
      <4> QED BY <3>2, <4>1 DEF Logged
    <3> QED BY <3>1, <3>2
  <2> QED BY <2>1, <2>2
<1> QED BY <1>1, <1>4, <1>5, <1>6, <1>7

-----------------------------------------------------------------------------
(* The steps one by one.                                                   *)

\* What a step of the worker w establishes.
Moved(w) ==
  \E r \in WorkerType, l \in Log \cup {NoLog} :
    /\ worker' = [worker EXCEPT ![w] = r] /\ log' = [log EXCEPT ![w] = l]
    /\ Kept(w, l) /\ Working(r, l)
    /\ r.pc \notin {"idle", "find"} =>
         \A a \in Automations \ r.left :
           Logged(a) \/ (a = l.automation /\ (r.pc = "next" => HasOutcome(l)))

LEMMA AutomationTypes ==
  ASSUME LogInv, NEW w \in Workers
  PROVE  /\ worker[w] \in WorkerType /\ log[w] \in Log \cup {NoLog}
         /\ worker \in [Workers -> WorkerType] /\ log \in [Workers -> Log \cup {NoLog}]
         /\ Working(worker[w], log[w]) /\ Covered(worker[w], log[w])
         /\ worker[w].pc \notin {"idle", "find", "next"} => log[w] \in Log
BY DEF LogInv, AutomationsTypeOK, Working

\* A worker that stops leaves its log behind.
LEMMA StopMoves ==
  ASSUME LogInv, NEW w \in Workers, worker' = [worker EXCEPT ![w] = Idle], Leave(w, NoLog)
  PROVE  Moved(w)
<1>1. Idle \in WorkerType /\ Idle.pc = "idle"
  BY DEF Idle, WorkerType, Steps
<1>2. Working(Idle, NoLog)
  BY <1>1 DEF Working
<1> QED BY <1>1, <1>2 DEF Moved, Kept, Leave

\* A step that leaves the log alone and changes the local state to r.
LEMMA StayMoves ==
  ASSUME LogInv, NEW w \in Workers, NEW r \in WorkerType, worker' = [worker EXCEPT ![w] = r],
         UNCHANGED <<log, past>>, Working(r, log[w]),
         r.pc \notin {"idle", "find"} =>
           \A a \in Automations \ r.left :
             Logged(a) \/ (a = log[w].automation /\ (r.pc = "next" => HasOutcome(log[w])))
  PROVE  Moved(w)
<1>1. log' = [log EXCEPT ![w] = log[w]] /\ log[w] \in Log \cup {NoLog}
  BY AutomationTypes
<1>2. Kept(w, log[w])
  BY DEF Kept
<1> QED BY <1>1, <1>2 DEF Moved

\* An attempt that fails is followed by the next, from the first action, or by
\* the save of FAILED.
LEMMA AttemptMoves ==
  ASSUME LogInv, NEW w \in Workers, worker[w].pc \in {"act", "saveSuccess", "notify"},
         AttemptFails(w), UNCHANGED <<log, past>>
  PROVE  Moved(w)
<1> DEFINE x == worker[w]
           a == log[w].automation
<1>1. /\ x \in WorkerType /\ log[w] \in Log /\ log[w] # NoLog /\ a \in matching
      /\ Honest(log[w]) /\ Actions[a] \in Nat /\ x.attempt + 1 \in Nat
  BY AutomationTypes, NoLogIsNone, AutomationsAssumption DEF Working, Log, WorkerType
<1>2. \A b \in Automations \ x.left : Logged(b) \/ b = a
  BY AutomationTypes DEF Covered
<1>3. CASE x.attempt < MaxAttempts[a]
  <2> DEFINE r == [x EXCEPT !.attempt = x.attempt + 1, !.done = 0, !.pc = FirstStep(a)]
  <2>1. worker' = [worker EXCEPT ![w] = r]
    BY <1>3, Zenon DEF AttemptFails
  <2>2. FirstStep(a) \in {"act", "saveSuccess"} /\ (FirstStep(a) = "act" <=> Actions[a] # 0)
    BY DEF FirstStep
  <2>3. r \in WorkerType
    BY <1>1, <2>2, FieldUpdates DEF Steps
  <2>4. r.pc = FirstStep(a) /\ r.done = 0 /\ r.left = x.left
    BY <1>1 DEF WorkerType
  <2> HIDE DEF r, x
  <2>5. Working(r, log[w])
    BY <1>1, <2>2, <2>4 DEF Working
  <2> QED BY <1>2, <2>1, <2>2, <2>3, <2>4, <2>5, StayMoves
<1>4. CASE ~(x.attempt < MaxAttempts[a])
  <2> DEFINE r == [x EXCEPT !.pc = "saveFailed"]
  <2>1. worker' = [worker EXCEPT ![w] = r]
    BY <1>4, Zenon DEF AttemptFails, Go
  <2>2. r \in WorkerType
    BY <1>1, FieldUpdates DEF Steps
  <2>3. r.pc = "saveFailed" /\ r.left = x.left
    BY <1>1 DEF WorkerType
  <2> HIDE DEF r, x
  <2>4. Working(r, log[w])
    BY <1>1, <2>3 DEF Working
  <2> QED BY <1>2, <2>1, <2>2, <2>3, <2>4, StayMoves
<1> QED BY <1>3, <1>4

\* A save of an outcome, after which the worker is at its next step.
LEMMA SaveMoves ==
  ASSUME LogInv, NEW w \in Workers, NEW s \in {"skipped", "success", "failed"},
         worker[w].pc = CASE s = "skipped" -> "saveSkipped" [] s = "success" -> "saveSuccess"
                          [] s = "failed" -> "saveFailed",
         SaveStatus(w, s), Go(w, IF s = "success" THEN "notify" ELSE "next")
  PROVE  Moved(w)
<1> DEFINE x  == worker[w]
           pc == IF s = "success" THEN "notify" ELSE "next"
           r  == [x EXCEPT !.pc = pc]
           l  == [log[w] EXCEPT !.status = s]
<1>1. x.pc \in {"saveSkipped", "saveSuccess", "saveFailed"}
  OBVIOUS
<1>2. /\ x \in WorkerType /\ log[w] \in Log /\ Honest(log[w])
      /\ log[w].automation \in matching <=> s # "skipped"
  BY <1>1, AutomationTypes, NoLogIsNone DEF Working
<1>3. worker' = [worker EXCEPT ![w] = r] /\ log' = [log EXCEPT ![w] = l] /\ past' = past
  BY Zenon DEF Go, SaveStatus
<1>4. r \in WorkerType /\ r.pc = pc /\ r.left = x.left
  <2>1. r \in WorkerType
    BY <1>2, FieldUpdates DEF Steps
  <2>2. r.pc = pc /\ r.left = x.left
    BY <1>2 DEF WorkerType
  <2> QED BY <2>1, <2>2
<1>5. s \in AutomationLogStatus
  BY DEF AutomationLogStatus
<1>6. /\ l \in Log /\ l.status = s /\ l.automation = log[w].automation
      /\ l.ran = log[w].ran
  BY <1>2, <1>5, LogUpdates
<1> HIDE DEF r, l
<1>7. HasOutcome(l) /\ l # NoLog
  BY <1>2, <1>6, NoLogIsNone DEF HasOutcome
<1>8. s = "success" => l.ran = 1..Actions[l.automation]
  BY <1>2, <1>6, AutomationTypes DEF Working, Honest
<1>9. Working(r, l)
  <2>1. Honest(l)
    BY <1>2, <1>6, <1>8 DEF Honest
  <2> QED BY <1>2, <1>4, <1>6, <1>7, <2>1 DEF Working
<1>10. \A b \in Automations \ x.left : Logged(b) \/ b = log[w].automation
  BY <1>1, AutomationTypes DEF Covered
<1>11. Kept(w, l)
  BY <1>3, <1>6, <1>7 DEF Kept
<1> QED BY <1>3, <1>4, <1>6, <1>7, <1>9, <1>10, <1>11 DEF Moved

\* The steps of a worker: its queue's, its own, and its failures.
WorkerStep(w) == Take(w) \/ Step(w) \/ CallRejects(w) \/ Crash(w)

LEMMA StepMoves ==
  ASSUME LogInv, NEW w \in Workers, WorkerStep(w)
  PROVE  Moved(w)
<1> DEFINE x == worker[w]
<1> USE DEF history
<1>1. ASSUME NEW pc \in {"find", "next"}, NEW left \in SUBSET Automations,
             worker' = [worker EXCEPT ![w] = [x EXCEPT !.pc = pc, !.left = left]],
             UNCHANGED <<log, past>>,
             pc = "next" => \A a \in Automations \ left :
                              Logged(a) \/ (a = log[w].automation /\ HasOutcome(log[w])),
             x.pc \in {"idle", "find"} \/ log[w] \in Log
      PROVE  Moved(w)
  <2> DEFINE r == [x EXCEPT !.pc = pc, !.left = left]
  <2>1. x \in WorkerType /\ Working(x, log[w])
    BY AutomationTypes
  <2>2. r \in WorkerType
    BY <2>1, FieldUpdates DEF Steps
  <2>3. r.pc = pc /\ r.left = left
    BY <2>1 DEF WorkerType
  <2>4. UNCHANGED <<log, past>> /\ worker' = [worker EXCEPT ![w] = r]
    BY <1>1
  <2> HIDE DEF r, x
  <2>5. Working(r, log[w])
    BY <2>1, <2>3 DEF Working
  <2> QED BY <1>1, <2>2, <2>3, <2>4, <2>5, StayMoves
<1>2. CASE Take(w)
  <2>1. worker' = [worker EXCEPT ![w] = [x EXCEPT !.pc = "find", !.left = x.left]]
    <3>1. worker' = [worker EXCEPT ![w] = [x EXCEPT !.pc = "find"]]
      BY <1>2, Zenon DEF Take, Go
    <3>2. [x EXCEPT !.pc = "find"] = [x EXCEPT !.pc = "find", !.left = x.left]
      BY AutomationTypes DEF WorkerType
    <3> QED BY <3>1, <3>2
  <2>2. x.left \in SUBSET Automations /\ x.pc = "idle" /\ UNCHANGED <<log, past>>
    BY <1>2, AutomationTypes DEF Take, WorkerType
  <2> HIDE DEF x
  <2> QED BY <1>1, <2>1, <2>2
<1>3. CASE Find(w)
  <2>1. worker' = [worker EXCEPT ![w] = [x EXCEPT !.pc = "next", !.left = Automations]]
    BY <1>3, Zenon DEF Find
  <2>2. x.pc = "find" /\ UNCHANGED <<log, past>>
    BY <1>3 DEF Find
  <2> HIDE DEF x
  <2> QED BY <1>1, <2>1, <2>2
<1>4. CASE Finish(w) \/ CallRejects(w) \/ Crash(w)
  <2>1. worker' = [worker EXCEPT ![w] = Idle] /\ Leave(w, NoLog)
    BY <1>4 DEF Finish, CallRejects, Crash, Throw
  <2> QED BY <2>1, StopMoves
<1>5. ASSUME NEW a \in Automations, CreateLog(w, a) PROVE Moved(w)
  <2> DEFINE pc == IF a \in matching THEN FirstStep(a) ELSE "saveSkipped"
             r  == [pc |-> pc, left |-> x.left \ {a}, attempt |-> 1, done |-> 0]
             l  == [automation |-> a, status |-> "running", ran |-> {}]
  <2>1. worker' = [worker EXCEPT ![w] = r] /\ Leave(w, l)
    BY <1>5 DEF CreateLog
  <2>2. l \in Log /\ l # NoLog
    BY AutomationsAssumption DEF Log, NoLog, AutomationLogStatus
  <2>3. /\ pc \in {"act", "saveSuccess", "saveSkipped"}
        /\ pc = "act" => a \in matching /\ Actions[a] # 0
        /\ pc = "saveSuccess" => a \in matching /\ Actions[a] = 0
        /\ pc = "saveSkipped" => a \notin matching
    BY DEF FirstStep
  <2>4. r \in WorkerType
    BY <2>3, AutomationTypes DEF WorkerType, Steps
  <2>5. Actions[a] \in Nat
    BY AutomationsAssumption
  <2>6. Working(r, l)
    <3> HIDE DEF pc
    <3> QED BY <2>2, <2>3, <2>5 DEF Working, Honest
  <2>7. \A b \in Automations \ x.left : Logged(b)
    <3>1. x.pc = "next"
      BY <1>5 DEF CreateLog
    <3> QED BY <3>1, AutomationTypes DEF Covered
  <2>8. Kept(w, l) /\ log' = [log EXCEPT ![w] = l]
    BY <2>1 DEF Leave, Kept
  <2>9. \A b \in Automations \ r.left : Logged(b) \/ b = l.automation
    BY <2>7
  <2>10. r.pc # "next"
    BY <2>3
  <2> HIDE DEF r, l, x
  <2> QED BY <2>1, <2>2, <2>4, <2>6, <2>8, <2>9, <2>10 DEF Moved
<1>6. CASE SaveSkipped(w)
  BY <1>6, SaveMoves DEF SaveSkipped
<1>7. CASE SaveFailed(w)
  BY <1>7, SaveMoves DEF SaveFailed
<1>8. CASE SaveSuccess(w)
  <2>1. CASE SaveStatus(w, "success") /\ Go(w, "notify")
    BY <1>8, <2>1, SaveMoves DEF SaveSuccess
  <2>2. CASE AttemptFails(w) /\ UNCHANGED <<log, past>>
    BY <1>8, <2>2, AttemptMoves DEF SaveSuccess
  <2> QED BY <1>8, <2>1, <2>2 DEF SaveSuccess
<1>9. CASE ActionThrows(w)
  BY <1>9, AttemptMoves DEF ActionThrows
<1>10. CASE Notify(w)
  <2>1. CASE AttemptFails(w)
    BY <1>10, <2>1, AttemptMoves DEF Notify
  <2>2. CASE Go(w, "next")
    <3>1. worker' = [worker EXCEPT ![w] = [x EXCEPT !.pc = "next", !.left = x.left]]
      <4>1. worker' = [worker EXCEPT ![w] = [x EXCEPT !.pc = "next"]]
        BY <2>2, Zenon DEF Go
      <4>2. [x EXCEPT !.pc = "next"] = [x EXCEPT !.pc = "next", !.left = x.left]
        BY AutomationTypes DEF WorkerType
      <4> QED BY <4>1, <4>2
    <3>2. x.left \in SUBSET Automations /\ x.pc = "notify" /\ UNCHANGED <<log, past>>
      BY <1>10, AutomationTypes DEF Notify, WorkerType
    <3>3. log[w] \in Log /\ HasOutcome(log[w])
      BY <3>2, AutomationTypes DEF Working, HasOutcome
    <3>4. \A a \in Automations \ x.left : Logged(a) \/ a = log[w].automation
      BY <3>2, AutomationTypes DEF Covered
    <3> HIDE DEF x
    <3> QED BY <1>1, <3>1, <3>2, <3>3, <3>4
  <2> QED BY <1>10, <2>1, <2>2 DEF Notify
<1>11. CASE ExecuteAction(w)
  <2> DEFINE k  == x.done + 1
             a  == log[w].automation
             pc == IF k = Actions[a] THEN "saveSuccess" ELSE "act"
             r  == [x EXCEPT !.done = k, !.pc = pc]
             l  == [log[w] EXCEPT !.ran = log[w].ran \cup {k}]
  <2>1. worker' = [worker EXCEPT ![w] = r] /\ log' = [log EXCEPT ![w] = l] /\ past' = past
    BY <1>11, Zenon DEF ExecuteAction
  <2>2. /\ x \in WorkerType /\ x.pc = "act" /\ log[w] \in Log /\ Honest(log[w])
        /\ 1..x.done \subseteq log[w].ran /\ x.done < Actions[a] /\ a \in matching
        /\ \A b \in Automations \ x.left : Logged(b) \/ b = a
    BY <1>11, AutomationTypes, NoLogIsNone DEF ExecuteAction, Working, Covered
  <2>3. Actions[a] \in Nat /\ x.done \in Nat /\ log[w].ran \in SUBSET Nat
    BY <2>2, AutomationsAssumption DEF Log, WorkerType
  <2>4. k \in 1..Actions[a] /\ k \in Nat
    BY <2>2, <2>3
  <2>5. r \in WorkerType
    BY <2>2, <2>4, FieldUpdates DEF Steps
  <2>6. r.pc = pc /\ r.done = k /\ r.left = x.left
    BY <2>2 DEF WorkerType
  <2>7. /\ l \in Log /\ l.ran = log[w].ran \cup {k} /\ l.automation = a
        /\ l.status = log[w].status
    BY <2>2, <2>3, <2>4, LogUpdates
  <2>8. 1..k \subseteq l.ran
    BY <2>2, <2>3, <2>7
  <2>9. Honest(l)
    BY <2>2, <2>4, <2>7 DEF Honest
  <2>10. /\ pc \in {"act", "saveSuccess"} /\ (pc = "act" => k < Actions[a])
         /\ (pc = "saveSuccess" => k = Actions[a])
    BY <2>3, <2>4
  <2>11. l # NoLog
    BY <2>7, NoLogIsNone
  <2>12. Kept(w, l)
    BY <2>1, <2>7, <2>11 DEF Kept, HasOutcome
  <2> HIDE DEF r, l, x, k, pc
  <2>13. Working(r, l)
    BY <2>2, <2>6, <2>7, <2>8, <2>9, <2>10, <2>11 DEF Working
  <2> QED BY <2>1, <2>2, <2>5, <2>6, <2>7, <2>10, <2>12, <2>13 DEF Moved
<1> QED
  BY <1>2, <1>3, <1>4, <1>5, <1>6, <1>7, <1>8, <1>9, <1>10, <1>11 DEF WorkerStep, Step

-----------------------------------------------------------------------------
(* The queue job and the rest.                                             *)

LEMMA JobMoves ==
  ASSUME AutomationsTypeOK, JobInv, NEW w \in Workers, WorkerStep(w)
  PROVE  /\ UNCHANGED matching /\ job' \in JobType /\ JobInv'
         /\ job'.state = "done" => job.state = "done" \/ Finish(w)
         /\ saveFailed' \in BOOLEAN /\ crashes' \in Nat
<1> USE DEF history
<1>t. /\ job \in JobType /\ JobAttempts = 3 /\ saveFailed \in BOOLEAN /\ crashes \in Nat
      /\ w # Nothing
  BY AutomationsAssumption DEF AutomationsTypeOK, JobAttempts
<1>1. CASE Take(w)
  <2>1. job' = [job EXCEPT !.state = "active", !.holder = w]
    BY <1>1 DEF Take
  <2>2. job' \in JobType /\ job'.state = "active" /\ JobInv'
    BY <1>1, <1>t, <2>1 DEF Take, JobType, JobInv
  <2> QED BY <1>1, <1>t, <2>2 DEF Take
<1>2. CASE Finish(w)
  <2>1. job' = job \/ job' = [job EXCEPT !.state = "done", !.holder = Nothing]
    BY <1>2 DEF Finish
  <2>2. job' \in JobType /\ JobInv'
    BY <1>t, <2>1 DEF JobType, JobInv
  <2> QED BY <1>2, <1>t, <2>2 DEF Finish
<1>3. CASE CallRejects(w)
  <2> DEFINE s == IF job.tries + 1 < JobAttempts THEN "waiting" ELSE "failed"
  <2>1. \/ job' = job
        \/ /\ job.holder = w
           /\ job' = [job EXCEPT !.tries = job.tries + 1, !.holder = Nothing, !.state = s]
    BY <1>3, Zenon DEF CallRejects, Throw
  <2>2. job.holder = w => job.tries \in Nat /\ job.tries < 3
    BY <1>t DEF JobInv, JobType
  <2>3. /\ s \in {"waiting", "failed"}
        /\ job.holder = w => (s = "waiting" => job.tries + 1 < 3) /\ job.tries + 1 \in 0..3
    BY <1>t, <2>2
  <2> HIDE DEF s
  <2>4. job' \in JobType /\ JobInv' /\ (job'.state = "done" => job.state = "done")
    <3>1. CASE job' = job
      BY <1>t, <3>1 DEF JobInv
    <3>2. CASE /\ job.holder = w
               /\ job' = [job EXCEPT !.tries = job.tries + 1, !.holder = Nothing, !.state = s]
      BY <1>t, <2>3, <3>2 DEF JobType, JobInv
    <3> QED BY <2>1, <3>1, <3>2
  <2> QED BY <1>3, <1>t, <2>4 DEF CallRejects
<1>4. CASE Crash(w)
  <2>1. job' = job \/ job' = [job EXCEPT !.holder = Nothing]
    BY <1>4 DEF Crash
  <2>2. job' \in JobType /\ job'.state = job.state /\ JobInv'
    BY <1>t, <2>1 DEF JobType, JobInv
  <2> QED BY <1>4, <1>t, <2>2, AutomationsAssumption DEF Crash
<1>5. CASE Step(w) /\ ~Finish(w)
  <2>1. UNCHANGED <<matching, job, saveFailed, crashes>>
    BY <1>5, Zenon DEF Step, Find, CreateLog, SaveSkipped, ExecuteAction, ActionThrows,
       SaveSuccess, Notify, SaveFailed
  <2> QED BY <1>t, <2>1 DEF JobInv
<1> QED BY <1>1, <1>2, <1>3, <1>4, <1>5 DEF WorkerStep

LEMMA AsideInv ==
  ASSUME LogInv, LoseLock \/ Stalled \/ UNCHANGED automationVars
  PROVE  LogInv'
<1> USE DEF history
<1>t. AutomationsTypeOK /\ JobInv /\ job \in JobType
  BY DEF LogInv, AutomationsTypeOK
<1>1. UNCHANGED <<matching, worker, log, past, saveFailed>> /\ crashes' \in Nat
  BY AutomationsAssumption DEF LoseLock, Stalled, automationVars, LogInv, AutomationsTypeOK
<1>2. job' \in JobType /\ JobInv' /\ (job'.state = "done" => job.state = "done")
  <2>1. CASE LoseLock
    BY <1>t, <2>1 DEF LoseLock, JobType, JobInv
  <2>2. CASE Stalled
    <3>1. job.state = "active" /\ job.holder = Nothing
      BY <2>2 DEF Stalled
    <3>2. \/ job.stalls < 1 /\ job' = [job EXCEPT !.state = "waiting", !.stalls = job.stalls + 1]
          \/ job' = [job EXCEPT !.state = "failed"]
      BY <2>2, Zenon DEF Stalled, MaxStalls
    <3>3. CASE job' = [job EXCEPT !.state = "failed"]
      BY <1>t, <3>1, <3>3 DEF JobType, JobInv
    <3>4. CASE /\ job.stalls < 1
               /\ job' = [job EXCEPT !.state = "waiting", !.stalls = job.stalls + 1]
      <4>1. job.stalls + 1 \in 0..MaxStalls
        BY <1>t, <3>4 DEF JobType, MaxStalls
      <4> QED BY <1>t, <3>1, <3>4, <4>1 DEF JobType, JobInv
    <3> QED BY <3>2, <3>3, <3>4
  <2>3. CASE UNCHANGED automationVars
    BY <1>t, <2>3 DEF automationVars, JobInv
  <2> QED BY <2>1, <2>2, <2>3
<1>3. AutomationsTypeOK'
  BY <1>t, <1>1, <1>2 DEF AutomationsTypeOK
<1>4. \A w \in Workers : Working(worker[w], log[w])' /\ Covered(worker[w], log[w])'
  BY <1>1 DEF LogInv, Working, Covered, Logged, HasOutcome, Logs
<1>5. (\A l \in past' : Honest(l)) /\ DoneIsLogged'
  BY <1>1, <1>2 DEF LogInv, DoneIsLogged, Logs
<1> QED BY <1>2, <1>3, <1>4, <1>5 DEF LogInv, Honest

LEMMA WorkerInv ==
  ASSUME LogInv, NEW w \in Workers, WorkerStep(w)
  PROVE  LogInv'
<1>1. /\ UNCHANGED matching /\ job' \in JobType /\ JobInv'
      /\ job'.state = "done" => job.state = "done" \/ Finish(w)
      /\ saveFailed' \in BOOLEAN /\ crashes' \in Nat
  BY JobMoves DEF LogInv
<1>2. /\ worker' \in [Workers -> WorkerType] /\ log' \in [Workers -> Log \cup {NoLog}]
      /\ past' \in SUBSET Log
      /\ \A v \in Workers : Working(worker[v], log[v])' /\ Covered(worker[v], log[v])'
      /\ \A k \in past' : Honest(k)
      /\ \A a \in Automations : Logged(a) => Logged(a)'
  BY <1>1, StepMoves, WorkerMoves DEF Moved
<1>3. AutomationsTypeOK'
  BY <1>1, <1>2 DEF LogInv, AutomationsTypeOK
<1>4. ASSUME job'.state = "done", NEW a \in Automations PROVE Logged(a)
  <2>1. CASE job.state = "done"
    BY <2>1 DEF LogInv, DoneIsLogged, Logged, HasOutcome
  <2>2. CASE Finish(w)
    BY <2>2, AutomationTypes DEF Finish, Covered
  <2> QED BY <1>1, <1>4, <2>1, <2>2
<1>5. DoneIsLogged'
  BY <1>2, <1>4 DEF DoneIsLogged, Logged, HasOutcome
<1> QED BY <1>1, <1>2, <1>3, <1>5 DEF LogInv, Honest

LEMMA InitLogInv == AutomationsInit => LogInv
<1> SUFFICES ASSUME AutomationsInit PROVE LogInv
  OBVIOUS
<1>1. AutomationsTypeOK
  <2>1. Idle \in WorkerType
    BY DEF Idle, WorkerType, Steps
  <2>2. job \in JobType
    BY DEF AutomationsInit, JobType, JobAttempts, MaxStalls
  <2> QED BY <2>1, <2>2 DEF AutomationsInit, AutomationsTypeOK
<1>2. \A w \in Workers : worker[w].pc = "idle" /\ log[w] = NoLog
  BY DEF AutomationsInit, Idle
<1>3. \A w \in Workers : Working(worker[w], log[w]) /\ Covered(worker[w], log[w])
  BY <1>2 DEF Working, Covered
<1>4. (\A l \in past : Honest(l)) /\ DoneIsLogged /\ JobInv
  BY DEF AutomationsInit, DoneIsLogged, JobInv, JobAttempts
<1> QED BY <1>1, <1>3, <1>4 DEF LogInv

-----------------------------------------------------------------------------
(* Theorems.                                                               *)

\* handleTrigger and its workers: LogInv holds in every reachable state.
THEOREM InvHolds == AutomationsSpec => []LogInv
<1>1. ASSUME LogInv, [AutomationsNext]_automationVars PROVE LogInv'
  <2>1. LoseLock \/ Stalled \/ UNCHANGED automationVars \/ \E w \in Workers : WorkerStep(w)
    BY <1>1, Zenon DEF AutomationsNext, WorkerStep
  <2> QED BY <1>1, <2>1, AsideInv, WorkerInv
<1> QED BY <1>1, InitLogInv, PTL DEF AutomationsSpec

\* The queue job, its workers and the logs keep their types.
THEOREM AutomationsTypesHold == AutomationsSpec => []AutomationsTypeOK
<1>1. LogInv => AutomationsTypeOK
  BY DEF LogInv
<1> QED BY <1>1, InvHolds, PTL

\* executeAutomation: a log that says SUCCESS has executed every action, and a
\* job that is done has a log of its outcome for every automation - however many
\* attempts, crashes and lost locks it took.
THEOREM TruthOfLogs == AutomationsSpec => []LogsAreTrue
<1>1. ASSUME LogInv PROVE LogsAreTrue
  <2>1. ASSUME NEW l \in Logs, l.status = "success" PROVE l.ran = 1..Actions[l.automation]
    <3>1. CASE l \in past
      BY <1>1, <2>1, <3>1 DEF LogInv, Honest
    <3>2. ASSUME NEW w \in Workers, l = log[w] PROVE l.ran = 1..Actions[l.automation]
      <4>1. l # NoLog
        BY <2>1 DEF NoLog
      <4> QED BY <1>1, <2>1, <3>2, <4>1 DEF LogInv, Working, Honest
    <3> QED BY <3>1, <3>2 DEF Logs
  <2> QED BY <1>1, <2>1 DEF LogInv, LogsAreTrue, SuccessIsComplete
<1>2. LogInv => LogsAreTrue
  BY <1>1
<1> QED BY <1>2, InvHolds, PTL
=============================================================================
