------------------------------ MODULE Tickets ------------------------------
(***************************************************************************)
(* One ticket: its transitions, comments and SLA.  Every handler loads the *)
(* document, works on its copy and saves it; save() writes the fields that *)
(* differ from what was loaded and leaves the others as they are in the    *)
(* collection by then.  So what a handler will write is known when it has  *)
(* loaded the document, but for the time of the save: that is its patch.   *)
(*                                                                         *)
(* Subject, priority, assignee and the like are left out, and so are the   *)
(* notifications and the trigger that follow a save.                       *)
(***************************************************************************)
EXTENDS SlaClock

CONSTANTS
  Handlers,               \* slots for requests
  Policies,               \* SLA policies
  FirstResponseMinutes,   \* of each policy
  ResolutionMinutes,      \* of each policy
  Keep,                   \* "undefined": a field that an update leaves alone
  Now,                    \* the time of the save, in a patch
  Instants,               \* the instants at which anything is observed
  Requested               \* the statuses that requests to update ask for

TicketStatus == {"open", "in_progress", "resolved", "closed", "reopened"}
Finished     == {"resolved", "closed"}

ASSUME TicketsAssumption ==
  /\ FirstResponseMinutes \in [Policies -> Nat \ {0}]
  /\ ResolutionMinutes \in [Policies -> Nat \ {0}]
  /\ Instants \subseteq Nat /\ 0 \in Instants
  /\ Requested \subseteq TicketStatus
  /\ None \notin Policies \cup Int \cup {Now}
  /\ Now \notin Policies \cup Int \cup TicketStatus
  /\ Keep \notin Policies \cup TicketStatus \cup {None}

VARIABLES
  now,            \* the clock
  ticket,         \* the stored document
  handler,        \* the requests under way
  firstComment,   \* history: when the first comment of the staff was stored
  overlapped,     \* history: have two transitions overlapped?
  failed          \* history: has a handler failed?

vars == <<now, ticket, handler, firstComment, overlapped, failed>>

Instant == Instants \cup {None}

Due(p) ==
  [first      |-> IF p = None THEN None ELSE DueAt(FirstResponseMinutes[p], 0),
   resolution |-> IF p = None THEN None ELSE DueAt(ResolutionMinutes[p], 0)]

\* createManual, with any status; the others create OPEN tickets.  The ticket
\* is created at instant 0.
Created(status, p) ==
  [status |-> status, slaPolicyId |-> p,
   firstResponseDueAt |-> Due(p).first, resolutionDueAt |-> Due(p).resolution,
   firstRespondedAt |-> None,
   resolvedAt |-> IF status \in Finished THEN 0 ELSE None,
   closedAt   |-> IF status = "closed" THEN 0 ELSE None]

\* The patch is a function on some of the fields of the ticket.
IdleHandler == [pc |-> "idle", patch |-> <<>>]

Init ==
  /\ now = 0
  /\ \E s \in TicketStatus, p \in Policies \cup {None} : ticket = Created(s, p)
  /\ handler = [h \in Handlers |-> IdleHandler]
  /\ firstComment = None
  /\ overlapped = FALSE /\ failed = FALSE

TimePasses ==
  /\ now' \in {i \in Instants : i > now}
  /\ UNCHANGED <<ticket, handler, firstComment, overlapped, failed>>

\* What Mongoose writes of the copy doc of the document t.
Patch(t, doc) == [f \in {g \in DOMAIN t : doc[g] # t[g]} |-> doc[f]]

Save(patch) ==
  ticket' = [f \in DOMAIN ticket |->
    IF f \notin DOMAIN patch THEN ticket[f]
    ELSE IF patch[f] = Now THEN now ELSE patch[f]]

-----------------------------------------------------------------------------
(* Transitions: update, assign, resolve, close, reopen.                    *)

\* The deadlines of the old policy are kept if there are any.
WithPolicy(t, p) ==
  IF p = Keep THEN t
  ELSE IF p # None /\ t.firstResponseDueAt # None /\ t.resolutionDueAt # None
    THEN [t EXCEPT !.slaPolicyId = p]
    ELSE [t EXCEPT !.slaPolicyId = p, !.firstResponseDueAt = Due(p).first,
                   !.resolutionDueAt = Due(p).resolution]

\* Mutant of ApplyStatusTransition: a reopened ticket keeps its closedAt.
ApplyStatusTransition_KeepClosedAt(t, s) ==
  CASE s = Keep       -> t
    [] s = "reopened" -> [t EXCEPT !.status = s, !.resolvedAt = None]
    [] s = "resolved" -> [t EXCEPT !.status = s, !.resolvedAt = IF @ = None THEN Now ELSE @]
    [] s = "closed"   -> [t EXCEPT !.status = s, !.resolvedAt = IF @ = None THEN Now ELSE @,
                                   !.closedAt = Now]
    [] OTHER          -> [t EXCEPT !.status = s]

\* A ticket may go from any status to any other; only REOPENED takes back the
\* times at which it was finished.
ApplyStatusTransition(t, s) ==
  LET resolvedAt == IF t.resolvedAt = None THEN Now ELSE t.resolvedAt IN
  CASE s = Keep       -> t
    [] s = "reopened" -> [t EXCEPT !.status = s, !.resolvedAt = None, !.closedAt = None]
    [] s = "resolved" -> [t EXCEPT !.status = s, !.resolvedAt = resolvedAt]
    [] s = "closed"   -> [t EXCEPT !.status = s, !.resolvedAt = resolvedAt, !.closedAt = Now]
    [] OTHER          -> [t EXCEPT !.status = s]

Changing(h) == handler[h].pc = "change"

LoadForChange(h, status, policy) ==
  /\ handler[h].pc = "idle"
  /\ handler' = [handler EXCEPT ![h] = [pc |-> "change", patch |->
       Patch(ticket, ApplyStatusTransition(WithPolicy(ticket, policy), status))]]
  /\ overlapped' = (overlapped \/ \E g \in Handlers : Changing(g))
  /\ UNCHANGED <<now, ticket, firstComment, failed>>

\* A request may leave out the policy, or clear it; UpdateTicketDto sets the
\* status to OPEN if the request has none, assign leaves it alone.
Update(h) ==
  \E s \in Requested \cup {Keep}, p \in Policies \cup {None, Keep} : LoadForChange(h, s, p)

Resolve(h) == LoadForChange(h, "resolved", Keep)
Close(h)   == LoadForChange(h, "closed", Keep)
Reopen(h)  == LoadForChange(h, "reopened", Keep)

SaveChange(h) ==
  /\ Changing(h)
  /\ Save(handler[h].patch)
  /\ handler' = [handler EXCEPT ![h] = IdleHandler]
  /\ UNCHANGED <<now, firstComment, overlapped, failed>>

-----------------------------------------------------------------------------
(* Comments                                                                *)

\* Mutants of Response: a status of its own; only a ticket that is OPEN counts
\* the response.
Response_Answered(t) ==
  IF t.firstRespondedAt # None THEN t
  ELSE [t EXCEPT !.firstRespondedAt = Now, !.status = IF @ = "open" THEN "answered" ELSE @]
Response_IfOpen(t) ==
  IF t.firstRespondedAt # None \/ t.status # "open" THEN t
  ELSE [t EXCEPT !.firstRespondedAt = Now, !.status = "in_progress"]

\* The first comment of the staff is the first response.
Response(t) ==
  IF t.firstRespondedAt # None THEN t
  ELSE [t EXCEPT !.firstRespondedAt = Now, !.status = IF @ = "open" THEN "in_progress" ELSE @]

LoadForComment(h) ==
  /\ handler[h].pc = "idle"
  /\ handler' = [handler EXCEPT ![h] =
       [pc |-> "comment", patch |-> Patch(ticket, Response(ticket))]]
  /\ UNCHANGED <<now, ticket, firstComment, overlapped, failed>>

\* The comment is stored; the ticket is saved after it if it is changed.
CreateComment(h) ==
  /\ handler[h].pc = "comment"
  /\ firstComment' = IF firstComment = None THEN now ELSE firstComment
  /\ handler' = [handler EXCEPT ![h] =
       IF @.patch = <<>> THEN IdleHandler ELSE [@ EXCEPT !.pc = "respond"]]
  /\ UNCHANGED <<now, ticket, overlapped, failed>>

SaveResponse(h) ==
  /\ handler[h].pc = "respond"
  /\ Save(handler[h].patch)
  /\ handler' = [handler EXCEPT ![h] = IdleHandler]
  /\ UNCHANGED <<now, firstComment, overlapped, failed>>

\* An awaited call rejects.
HandlerFails(h) ==
  /\ handler[h].pc # "idle"
  /\ handler' = [handler EXCEPT ![h] = IdleHandler]
  /\ failed' = TRUE
  /\ UNCHANGED <<now, ticket, firstComment, overlapped>>

-----------------------------------------------------------------------------
Next ==
  \/ TimePasses
  \/ \E h \in Handlers :
       \/ Update(h) \/ Resolve(h) \/ Close(h) \/ Reopen(h) \/ SaveChange(h)
       \/ LoadForComment(h) \/ CreateComment(h) \/ SaveResponse(h) \/ HandlerFails(h)

Spec == Init /\ [][Next]_vars

-----------------------------------------------------------------------------
(* What a reader of the ticket is shown.                                   *)

Target(minutes) == IF ticket.slaPolicyId = None THEN 0 ELSE minutes[ticket.slaPolicyId]

FinishedAt == IF ticket.resolvedAt # None THEN ticket.resolvedAt ELSE ticket.closedAt

FirstResponseState ==
  ComputeSlaClock(ticket.firstResponseDueAt, ticket.firstRespondedAt,
                  Target(FirstResponseMinutes), now)
ResolutionState ==
  ComputeSlaClock(ticket.resolutionDueAt, FinishedAt, Target(ResolutionMinutes), now)
OverallState == ComputeOverallSlaState(ticket.status, FirstResponseState, ResolutionState)

-----------------------------------------------------------------------------
Deadlines == {Due(p).first : p \in Policies} \cup {Due(p).resolution : p \in Policies} \cup {None}
FieldType ==
  [status |-> TicketStatus, slaPolicyId |-> Policies \cup {None},
   firstResponseDueAt |-> Deadlines, resolutionDueAt |-> Deadlines,
   firstRespondedAt |-> Instant, resolvedAt |-> Instant, closedAt |-> Instant]

\* Type invariant.
TypeOK ==
  /\ now \in Instants
  /\ DOMAIN ticket = DOMAIN FieldType
  /\ \A f \in DOMAIN ticket : ticket[f] \in FieldType[f]
  /\ DOMAIN handler = Handlers
  /\ \A h \in Handlers :
       /\ handler[h].pc \in {"idle", "change", "comment", "respond"}
       /\ \A f \in DOMAIN handler[h].patch :
            f \in DOMAIN ticket /\ handler[h].patch[f] \in FieldType[f] \cup {Now}
  /\ firstComment \in Instant
  /\ overlapped \in BOOLEAN /\ failed \in BOOLEAN

\* Status and times agree: a finished ticket has its times, a reopened one has
\* none - whatever stale copies the comments save.  (Two overlapping transitions
\* mix their fields.)
TimesAgree ==
  ~overlapped =>
    /\ ticket.status \in Finished => ticket.resolvedAt # None
    /\ ticket.status = "closed"   => ticket.closedAt # None
    /\ ticket.status = "reopened" => ticket.resolvedAt = None /\ ticket.closedAt = None

\* The first response is shown as met only if the staff had commented by the
\* deadline; and once they have, it is settled, whatever the handlers overlap.
AnswersCount ==
  /\ FirstResponseState = "met" =>
       firstComment # None /\ firstComment <= ticket.firstResponseDueAt
  /\ (firstComment # None /\ ~failed /\ \A h \in Handlers : handler[h].pc # "respond")
       => ticket.firstRespondedAt # None

\* The stamps of a ticket, those of its transitions and that of its first answer,
\* tell what has happened to it.
StampsAreTrue == TimesAgree /\ AnswersCount

\* A breach stays visible: no comment and no transition hides it, unless the
\* ticket is reopened or its policy is cleared.  (Overlapping transitions mix their
\* deadlines and times.)
BreachStays ==
  [][~overlapped /\ OverallState = "breached" =>
       \/ OverallState' = "breached"
       \/ ticket.resolutionDueAt # None /\ ticket.resolutionDueAt' = None
       \/ FinishedAt # None /\ FinishedAt' = None]_vars
=============================================================================
