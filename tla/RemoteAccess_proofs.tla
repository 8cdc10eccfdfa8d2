------------------------ MODULE RemoteAccess_proofs -------------------------
(***************************************************************************)
(* Theorems about RemoteAccess, for any sessions with or without consent,  *)
(* any number of polls, lock requests and dialogs, and any bounds.         *)
(***************************************************************************)
EXTENDS RemoteAccess, WellFoundedInduction, TLAPS

-----------------------------------------------------------------------------
(* The inductive invariant.                                                *)

\* The agent connects again only after a failure or a restart.
Links ==
  /\ link = "up" => conn >= 1 /\ conn =< faults + 1
  /\ link # "up" => conn =< faults

\* The sessions a poll was told of exist.
Heard == \A p \in Polls : poll[p].next # None => session[poll[p].next].status # "none"

\* Nothing the agent holds or has sent speaks of a consent that was not given.
Consent ==
  /\ inputLocked => allowed
  /\ agent.consent = "granted" \/ agent.session \in Unattended => allowed
  /\ \A c \in Calls : call[c].pc = "sent" /\ call[c].enabled => allowed

Inv == TypeOK /\ Links /\ Heard /\ Consent

\* The parts of the type invariant, and what steps of the agent rest on.
ServerTypes ==
  /\ session \in [Sessions -> DocumentType]
  /\ entry \in [Connections -> MaybeSession]
  /\ rooms \subseteq Sessions
  /\ authorizing \subseteq Connections \X Sessions
  /\ link \in {"none", "down", "up"}
  /\ conn \in 0..(MaxFaults + 1)
  /\ inbox \in Seq(EventType)
  /\ operations \in 0..MaxOperations /\ faults \in 0..MaxFaults
  /\ Links

AgentTypes ==
  /\ agent \in AgentType
  /\ poll \in [Polls -> PollType]
  /\ call \in [Calls -> CallType]
  /\ dialogs \in 0..MaxDialogs /\ inventories \in Nat
  /\ inputLocked \in BOOLEAN /\ allowed \in BOOLEAN

Waited == \A p \in Polls : poll[p].pc = "releasing" => \E c \in Calls : p \in call[c].for
Known  == agent.session # None => session[agent.session].status # "none"

LEMMA Parts == Inv <=> ServerTypes /\ AgentTypes /\ Waited /\ Known /\ Heard /\ Consent
BY DEF Inv, TypeOK, ServerTypes, AgentTypes, Waited, Known

LEMMA PartsNext ==
  Inv' <=> ServerTypes' /\ AgentTypes' /\ Waited' /\ Known' /\ Heard' /\ Consent'
BY DEF Inv, TypeOK, ServerTypes, AgentTypes, Waited, Known

-----------------------------------------------------------------------------
(* Values.                                                                 *)

LEMMA LeastExists ==
  ASSUME NEW T \in SUBSET Nat, T # {}
  PROVE  \E x \in T : \A y \in T : x =< y
<1>1. PICK x \in T : \A y \in T : <<y, x>> \notin OpToRel(<, Nat)
  BY NatLessThanWellFounded, WFMin, Zenon
<1>2. \A y \in T : ~(y < x)
  BY <1>1 DEF OpToRel
<1> QED BY <1>2

LEMMA MaxIsIn ==
  ASSUME NEW S \in SUBSET Sessions, S # {}
  PROVE  Max(S) \in S
<1> DEFINE T == {MaxSessions - x : x \in S}
<1>1. \A x \in S : x \in Nat /\ MaxSessions - x \in Nat
  BY RemoteAccessAssumption DEF Sessions
<1>2. T \in SUBSET Nat
  BY <1>1
<1>3. T # {}
  OBVIOUS
<1>4. PICK t \in T : \A y \in T : t =< y
  BY <1>2, <1>3, LeastExists
<1>5. PICK x \in S : t = MaxSessions - x
  BY <1>4
<1>6. \A y \in S : x >= y
  BY <1>1, <1>4, <1>5, RemoteAccessAssumption
<1> QED BY <1>6, Zenon DEF Max

LEMMA Room ==
  ASSUME NEW n \in Int, NEW f \in Int, NEW g \in Int, f =< g
  PROVE  (n =< f => n =< g) /\ (n =< f + 1 => n =< g + 1)
OBVIOUS

LEMMA Constants ==
  /\ None \in MaybeSession /\ None \notin Sessions /\ Sessions \subseteq MaybeSession
  /\ \A s \in MaybeSession : s # None => s \in Sessions
  /\ "view-only" \in InteractionModes /\ Modes \subseteq InteractionModes
  /\ Unattended \subseteq Sessions
BY RemoteAccessAssumption DEF None, MaybeSession, Sessions, InteractionModes

LEMMA FreshValues ==
  /\ FreshAgent \in AgentType /\ FreshAgent.session = None /\ FreshAgent.consent = "pending"
  /\ IdlePoll \in PollType /\ IdlePoll.pc = "idle" /\ IdlePoll.next = None
  /\ NoCall \in CallType /\ NoCall.pc = "none" /\ NoCall.for = {}
BY Constants DEF FreshAgent, AgentType, IdlePoll, PollType, NoCall, CallType

\* The newest open session exists.
LEMMA NextExists ==
  ASSUME ServerTypes
  PROVE  /\ NextSession \in MaybeSession
         /\ NextSession # None => NextSession \in Sessions /\ session[NextSession].status # "none"
<1> DEFINE open == IF WithStatus("active") # {} THEN WithStatus("active")
                                                ELSE WithStatus("requested")
<1>1. open \subseteq Sessions /\ \A s \in open : session[s].status # "none"
  BY DEF WithStatus
<1>2. NextSession = IF open = {} THEN None ELSE Max(open)
  BY DEF NextSession
<1> HIDE DEF open
<1>3. open # {} => Max(open) \in open
  BY <1>1, MaxIsIn
<1> QED BY <1>1, <1>2, <1>3, Constants

LEMMA CallUpdates ==
  ASSUME NEW r \in CallType, NEW x \in {"done", "failed"}
  PROVE  /\ [r EXCEPT !.pc = x] \in CallType /\ [r EXCEPT !.pc = x].pc = x
         /\ [r EXCEPT !.pc = x].for = r.for
BY DEF CallType

\* The agent's variables are updated one by one.
LEMMA AgentUpdates ==
  ASSUME NEW a \in AgentType
  PROVE  /\ \A m \in InteractionModes : LET n == [a EXCEPT !.mode = m] IN
              n \in AgentType /\ n.consent = a.consent /\ n.session = a.session
         /\ \A s \in MaybeSession : LET n == [a EXCEPT !.joined = s] IN
              n \in AgentType /\ n.consent = a.consent /\ n.session = a.session
         /\ \A b \in BOOLEAN : LET n == [a EXCEPT !.locked = b] IN
              n \in AgentType /\ n.consent = a.consent /\ n.session = a.session
<1>1. ASSUME NEW m \in InteractionModes
      PROVE  LET n == [a EXCEPT !.mode = m] IN
               n \in AgentType /\ n.consent = a.consent /\ n.session = a.session
  BY DEF AgentType
<1>2. ASSUME NEW s \in MaybeSession
      PROVE  LET n == [a EXCEPT !.joined = s] IN
               n \in AgentType /\ n.consent = a.consent /\ n.session = a.session
  BY DEF AgentType
<1>3. ASSUME NEW b \in BOOLEAN
      PROVE  LET n == [a EXCEPT !.locked = b] IN
               n \in AgentType /\ n.consent = a.consent /\ n.session = a.session
  BY DEF AgentType
<1> QED BY <1>1, <1>2, <1>3, Zenon

LEMMA AnswerUpdates ==
  ASSUME NEW a \in AgentType, NEW x \in {"granted", "denied"},
         NEW n, n = [a EXCEPT !.consent = x, !.asking = FALSE]
  PROVE  n \in AgentType /\ n.consent = x /\ n.session = a.session
BY DEF AgentType

LEMMA AskingUpdates ==
  ASSUME NEW a \in AgentType, NEW n, n = [a EXCEPT !.asking = TRUE, !.consent = "pending"]
  PROVE  n \in AgentType /\ n.consent = "pending" /\ n.session = a.session
BY DEF AgentType

\* A lock request that is sent takes a slot nobody waits for.
LEMMA SentCalls ==
  ASSUME AgentTypes, NEW e \in BOOLEAN, NEW y \in BOOLEAN, NEW f \in SUBSET Polls,
         setLocalInputLock(e, y, f)
  PROVE  /\ call' \in [Calls -> CallType]
         /\ \A c \in Calls : call[c].for \subseteq call'[c].for
         /\ \E c \in Calls : call'[c].for = f
         /\ \A c \in Calls : call'[c] = call[c] \/ call'[c].enabled = e
<1> DEFINE r == [pc |-> "sent", enabled |-> e, sync |-> y, for |-> f]
<1>1. PICK c \in Calls : call[c] = NoCall /\ call' = [call EXCEPT ![c] = r]
  BY DEF setLocalInputLock
<1>2. r \in CallType /\ r.for = f /\ r.enabled = e
  BY DEF CallType
<1> HIDE DEF r
<1>3. call'[c] = r /\ \A d \in Calls \ {c} : call'[d] = call[d]
  BY <1>1 DEF AgentTypes
<1>4. call' \in [Calls -> CallType]
  BY <1>1, <1>2 DEF AgentTypes
<1> QED BY <1>1, <1>2, <1>3, <1>4, FreshValues

\* What syncLocalInputLock sends has the consent of the agent's new state.
LEMMA SyncedCalls ==
  ASSUME AgentTypes, Consent, NEW a \in AgentType, syncLocalInputLock(a),
         allowed' \in BOOLEAN, allowed => allowed',
         a.consent = "granted" \/ a.session \in Unattended => allowed'
  PROVE  /\ agent' = a /\ call' \in [Calls -> CallType]
         /\ \A c \in Calls : call[c].for \subseteq call'[c].for
         /\ \A c \in Calls : call'[c].pc = "sent" /\ call'[c].enabled => allowed'
<1>1. shouldLockLocalInput(a) \in BOOLEAN /\ (shouldLockLocalInput(a) => allowed')
  BY DEF shouldLockLocalInput
<1>2. CASE UNCHANGED call /\ agent' = a
  BY <1>2 DEF AgentTypes, Consent
<1>3. CASE setLocalInputLock(shouldLockLocalInput(a), TRUE, {}) /\ agent' = a
  <2>1. /\ call' \in [Calls -> CallType]
        /\ \A c \in Calls : call[c].for \subseteq call'[c].for
        /\ \A c \in Calls : call'[c] = call[c] \/ call'[c].enabled = shouldLockLocalInput(a)
    BY <1>1, <1>3, SentCalls
  <2> QED BY <1>1, <1>3, <2>1 DEF Consent
<1> QED BY <1>2, <1>3 DEF syncLocalInputLock

-----------------------------------------------------------------------------
(* Operators and the gateway.                                              *)

LEMMA OperatorStep ==
  ASSUME Inv, NEW s \in Sessions, OperatorRequests(s)
  PROVE  Inv'
<1>0. ServerTypes /\ AgentTypes /\ Waited /\ Known /\ Heard /\ Consent
  BY Parts
<1>1. /\ UNCHANGED <<entry, rooms, authorizing, link, conn, inbox, agent, poll, call,
                     inputLocked, dialogs, inventories, allowed, faults>>
      /\ operations' \in 0..MaxOperations
  BY <1>0, RemoteAccessAssumption
    DEF OperatorRequests, Operation, agentSide, gateway, waits, ServerTypes
<1>2. /\ session' \in [Sessions -> DocumentType]
      /\ \A r \in Sessions : session[r].status # "none" => session'[r].status # "none"
  <2>1. ASSUME NEW mode \in Modes \cup {"view-only"}, requestSession(s, mode)
        PROVE  <1>2!1 /\ <1>2!2
    BY <1>0, <2>1, Constants DEF requestSession, ServerTypes, DocumentType
  <2>2. ASSUME NEW status \in {"active", "ended"}, Transition(s, status)
        PROVE  <1>2!1 /\ <1>2!2
    BY <1>0, <2>2 DEF Transition, ServerTypes, DocumentType
  <2>3. ASSUME NEW mode \in Modes, updateInteractionMode(s, mode)
        PROVE  <1>2!1 /\ <1>2!2
    BY <1>0, <2>3, Constants DEF updateInteractionMode, ServerTypes, DocumentType
  <2> QED BY <2>1, <2>2, <2>3 DEF OperatorRequests
<1>3. ServerTypes'
  BY <1>0, <1>1, <1>2 DEF ServerTypes, Links
<1>4. AgentTypes' /\ Waited' /\ Consent'
  BY <1>0, <1>1 DEF AgentTypes, Waited, Consent
<1>5. Known' /\ Heard'
  BY <1>0, <1>1, <1>2, Constants DEF Known, Heard, AgentTypes, AgentType, PollType
<1> QED BY <1>3, <1>4, <1>5, PartsNext

LEMMA GatewayStep ==
  ASSUME Inv, NEW s \in Sessions,
         \/ \E event \in ControlEvents : handleOperatorControl(s, event)
         \/ \E c \in Connections : AgentAuthorized(c, s) \/ AgentRefused(c, s)
  PROVE  Inv'
<1>0. ServerTypes /\ AgentTypes /\ Waited /\ Known /\ Heard /\ Consent
  BY Parts
<1>1. UNCHANGED <<session, link, conn, agent, poll, call, inputLocked, dialogs, inventories,
                  allowed, faults>>
  BY DEF handleOperatorControl, AgentAuthorized, AgentRefused, gateway, waits, bounds
<1>2. ServerTypes'
  <2>1. ASSUME NEW event \in ControlEvents, handleOperatorControl(s, event)
        PROVE  ServerTypes'
    <3>1. event \in EventType
      BY Constants DEF ControlEvents, EventType
    <3>2. inbox' \in Seq(EventType)
      BY <1>0, <2>1, <3>1 DEF handleOperatorControl, ServerTypes
    <3>3. operations' \in 0..MaxOperations /\ UNCHANGED <<entry, rooms, authorizing>>
      BY <1>0, <2>1, RemoteAccessAssumption
        DEF handleOperatorControl, Operation, gateway, ServerTypes
    <3> QED BY <1>0, <1>1, <3>2, <3>3 DEF ServerTypes, Links
  <2>2. ASSUME NEW c \in Connections, AgentAuthorized(c, s) PROVE ServerTypes'
    <3>1. [type |-> "joined", mode |-> "view-only"] \in EventType
      BY Constants DEF EventType
    <3>2. inbox' \in {inbox, Append(inbox, [type |-> "joined", mode |-> "view-only"])}
      BY <2>2 DEF AgentAuthorized
    <3>4. inbox' \in Seq(EventType)
      BY <1>0, <3>1, <3>2 DEF ServerTypes
    <3>5. rooms' \subseteq Sessions
      BY <1>0, <2>2 DEF AgentAuthorized, ServerTypes
    <3>3. /\ authorizing' \subseteq Connections \X Sessions
          /\ entry' \in [Connections -> MaybeSession] /\ UNCHANGED operations
      BY <1>0, <2>2, Constants DEF AgentAuthorized, bounds, ServerTypes
    <3> QED BY <1>0, <1>1, <3>3, <3>4, <3>5 DEF ServerTypes, Links
  <2>3. ASSUME NEW c \in Connections, AgentRefused(c, s) PROVE ServerTypes'
    BY <1>0, <1>1, <2>3 DEF AgentRefused, bounds, ServerTypes, Links
  <2> QED BY <2>1, <2>2, <2>3
<1>3. AgentTypes' /\ Waited' /\ Consent' /\ Known' /\ Heard'
  BY <1>0, <1>1 DEF AgentTypes, Waited, Consent, Known, Heard
<1> QED BY <1>2, <1>3, PartsNext

-----------------------------------------------------------------------------
(* The input lock.                                                         *)

LEMMA BridgeStep ==
  ASSUME Inv, NEW c \in Calls, BridgeAnswers(c)
  PROVE  Inv'
<1>0. ServerTypes /\ AgentTypes /\ Waited /\ Known /\ Heard /\ Consent
  BY Parts
<1>1. /\ UNCHANGED <<session, entry, rooms, authorizing, link, conn, inbox, agent, poll,
                     dialogs, inventories, allowed, operations>>
      /\ call[c].pc = "sent" /\ inputLocked' \in {inputLocked, call[c].enabled}
      /\ faults' \in {faults, faults + 1} /\ faults' =< MaxFaults
  BY <1>0, RemoteAccessAssumption
    DEF BridgeAnswers, Fault, gateway, waits, ServerTypes
<1>2. PICK pc \in {"done", "failed"} : call' = [call EXCEPT ![c].pc = pc]
  BY DEF BridgeAnswers
<1>3. /\ call' \in [Calls -> CallType] /\ call[c].enabled \in BOOLEAN
      /\ \A d \in Calls : call'[d].for = call[d].for
      /\ \A d \in Calls : call'[d] = call[d] \/ call'[d].pc # "sent"
  <2> DEFINE r == [call[c] EXCEPT !.pc = pc]
  <2>1. call' = [call EXCEPT ![c] = r]
    BY <1>2, Zenon
  <2>2. call[c] \in CallType
    BY <1>0 DEF AgentTypes
  <2>3. r \in CallType /\ r.pc = pc /\ r.for = call[c].for
    BY <2>2, CallUpdates
  <2>4. call[c].enabled \in BOOLEAN
    BY <2>2 DEF CallType
  <2> HIDE DEF r
  <2> QED BY <1>0, <2>1, <2>3, <2>4 DEF AgentTypes
<1>4. ServerTypes'
  <2>1. faults' \in 0..MaxFaults /\ Links'
    <3>1. conn \in 0..(MaxFaults + 1) /\ faults \in 0..MaxFaults /\ Links
      BY <1>0 DEF ServerTypes
    <3>2. faults' \in {faults, faults + 1} /\ faults' =< MaxFaults /\ MaxFaults \in Nat
      BY <1>1, RemoteAccessAssumption
    <3>3. faults' \in 0..MaxFaults /\ faults =< faults'
      BY <3>1, <3>2
    <3>4. link' = link /\ conn' = conn
      BY <1>1
    <3>5. conn \in Int /\ faults \in Int /\ faults' \in Int
      BY <3>1, <3>3, RemoteAccessAssumption
    <3> QED BY <3>1, <3>3, <3>4, <3>5, Room, Zenon DEF Links
  <2> QED BY <1>0, <1>1, <2>1 DEF ServerTypes
<1>5. AgentTypes' /\ Waited'
  BY <1>0, <1>1, <1>3 DEF AgentTypes, Waited
<1>6. Consent'
  BY <1>0, <1>1, <1>3 DEF Consent
<1>7. Known' /\ Heard'
  BY <1>0, <1>1 DEF Known, Heard
<1> QED BY <1>4, <1>5, <1>6, <1>7, PartsNext

LEMMA LockStep ==
  ASSUME Inv, NEW c \in Calls, LockAnswered(c)
  PROVE  Inv'
<1>0. ServerTypes /\ AgentTypes /\ Waited /\ Known /\ Heard /\ Consent
  BY Parts
<1>1. /\ UNCHANGED <<session, entry, rooms, authorizing, link, conn, inbox, inputLocked,
                     dialogs, inventories, allowed, operations, faults>>
      /\ call[c].pc \in {"done", "failed"} /\ call' = [call EXCEPT ![c] = NoCall]
      /\ poll' = [p \in Polls |-> IF p \in call[c].for THEN IdlePoll ELSE poll[p]]
      /\ agent' \in {[agent EXCEPT !.locked = LockAfter(c)], FreshAgent}
  BY DEF LockAnswered, gateway, waits, bounds, resetRemoteSessionState
<1>2. LockAfter(c) \in BOOLEAN
  <2>1. call[c].enabled \in BOOLEAN /\ call[c].sync \in BOOLEAN /\ agent.locked \in BOOLEAN
    BY <1>0 DEF AgentTypes, CallType, AgentType
  <2> QED BY <1>1, <2>1 DEF LockAfter
<1>3. /\ agent' \in AgentType /\ agent'.session \in {agent.session, None}
      /\ agent'.session = None => agent' = FreshAgent \/ agent.session = None
      /\ agent'.consent \in {agent.consent, "pending"}
  <2> DEFINE a == [agent EXCEPT !.locked = LockAfter(c)]
  <2>1. a \in AgentType /\ a.consent = agent.consent /\ a.session = agent.session
    BY <1>0, <1>2, AgentUpdates DEF AgentTypes
  <2>2. agent' = a \/ agent' = FreshAgent
    BY <1>1
  <2> HIDE DEF a
  <2> QED BY <2>1, <2>2, FreshValues
<1>4. /\ call' \in [Calls -> CallType]
      /\ \A d \in Calls : d # c => call'[d] = call[d]
      /\ call'[c].pc = "none"
  BY <1>0, <1>1, FreshValues DEF AgentTypes
<1>5. poll' \in [Polls -> PollType] /\ Waited' /\ Heard'
  <2>1. poll' \in [Polls -> PollType]
    BY <1>0, <1>1, FreshValues DEF AgentTypes
  <2>2. Waited'
    BY <1>0, <1>1, <1>4, FreshValues DEF Waited
  <2>3. Heard'
    BY <1>0, <1>1, FreshValues DEF Heard
  <2> QED BY <2>1, <2>2, <2>3
<1>6. ServerTypes'
  BY <1>0, <1>1 DEF ServerTypes, Links
<1>7. AgentTypes'
  BY <1>0, <1>1, <1>3, <1>4, <1>5 DEF AgentTypes
<1>8. Consent'
  BY <1>0, <1>1, <1>3, <1>4, Constants DEF Consent
<1>9. Known'
  BY <1>0, <1>1, <1>3 DEF Known
<1> QED BY <1>5, <1>6, <1>7, <1>8, <1>9, PartsNext

-----------------------------------------------------------------------------
(* The agent: syncRemoteSessions.                                          *)

LEMMA ListStep ==
  ASSUME Inv, NEW p \in Polls, listRemoteSessionsForDevice(p)
  PROVE  Inv'
<1>0. ServerTypes /\ AgentTypes /\ Waited /\ Known /\ Heard /\ Consent
  BY Parts
<1>1. UNCHANGED <<session, entry, rooms, authorizing, link, conn, inbox, agent, call,
                  inputLocked, dialogs, inventories, allowed, operations, faults>>
  BY DEF listRemoteSessionsForDevice, gateway, waits, bounds
<1> DEFINE r == [pc |-> "told", next |-> NextSession,
                 mode |-> IF NextSession = None THEN "view-only"
                          ELSE session[NextSession].mode]
<1>2. poll' = [poll EXCEPT ![p] = r]
  BY DEF listRemoteSessionsForDevice
<1>3. r.pc = "told" /\ (r.next # None => session[r.next].status # "none")
  BY <1>0, NextExists
<1>4. r \in PollType
  <2>1. NextSession # None => session[NextSession].mode \in InteractionModes
    BY <1>0, NextExists DEF ServerTypes, DocumentType
  <2> QED BY <1>0, <2>1, NextExists, Constants DEF PollType
<1> HIDE DEF r
<1>5. poll' \in [Polls -> PollType] /\ Waited' /\ Heard'
  BY <1>0, <1>1, <1>2, <1>3, <1>4 DEF AgentTypes, Waited, Heard
<1>6. ServerTypes' /\ AgentTypes' /\ Known' /\ Consent'
  BY <1>0, <1>1, <1>5 DEF ServerTypes, Links, AgentTypes, Known, Consent
<1> QED BY <1>5, <1>6, PartsNext

\* What a step of the agent does to its own state.
AgentKeeps ==
  /\ agent' \in AgentType /\ call' \in [Calls -> CallType]
  /\ \A c \in Calls : call[c].for \subseteq call'[c].for
  /\ allowed' \in BOOLEAN
  /\ Known' /\ Consent'

LEMMA AttachKeeps ==
  ASSUME Inv, NEW p \in Polls, poll[p].next # None,
         attachRemoteSession(poll[p].next, poll[p].mode),
         UNCHANGED <<session, inputLocked, conn>>
  PROVE  /\ AgentKeeps
         /\ authorizing' \subseteq Connections \X Sessions
         /\ link' = link \/ (link = "none" /\ link' = "down")
<1>0. ServerTypes /\ AgentTypes /\ Waited /\ Known /\ Heard /\ Consent
  BY Parts
<1>s. PICK s : s = poll[p].next
  OBVIOUS
<1>m. PICK m : m = poll[p].mode
  OBVIOUS
<1>1. s \in Sessions /\ m \in InteractionModes /\ session[s].status # "none"
  BY <1>0, <1>s, <1>m, Constants DEF AgentTypes, PollType, Heard
<1>2. agent \in AgentType /\ allowed \in BOOLEAN /\ inputLocked \in BOOLEAN
  BY <1>0 DEF AgentTypes
<1>3. CASE RefreshSession(m)
  <2> DEFINE a == [agent EXCEPT !.mode = m]
  <2>1. a \in AgentType /\ a.consent = agent.consent /\ a.session = agent.session
    BY <1>1, <1>2, AgentUpdates
  <2>2. syncLocalInputLock(a) /\ UNCHANGED <<authorizing, link, allowed>>
    BY <1>3 DEF RefreshSession
  <2> HIDE DEF a
  <2>3. a.consent = "granted" \/ a.session \in Unattended => allowed'
    BY <1>0, <2>1, <2>2 DEF Consent
  <2>4. /\ agent' = a /\ call' \in [Calls -> CallType]
        /\ \A c \in Calls : call[c].for \subseteq call'[c].for
        /\ \A c \in Calls : call'[c].pc = "sent" /\ call'[c].enabled => allowed'
    BY <1>0, <1>2, <2>1, <2>2, <2>3, SyncedCalls
  <2>5. Known' /\ Consent'
    BY <1>0, <2>1, <2>2, <2>3, <2>4 DEF Known, Consent
  <2> QED BY <1>0, <1>2, <2>1, <2>2, <2>4, <2>5 DEF AgentKeeps, ServerTypes
<1>4. CASE SwitchSession(s, m)
  <2>1. /\ agent' = [agent EXCEPT
                       !.session = s, !.joined = None,
                       !.consent = IF s \in Unattended THEN "granted" ELSE "pending",
                       !.mode = m, !.locked = FALSE]
        /\ setLocalInputLock(FALSE, FALSE, {}) \/ UNCHANGED call
        /\ link' = IF link = "none" THEN "down" ELSE link
        /\ Join(s)
        /\ allowed' = (allowed \/ s \in Unattended)
    BY <1>4 DEF SwitchSession
  <2>2. s \in MaybeSession /\ None \in MaybeSession
    BY <1>1, Constants
  <2>3. /\ agent' \in AgentType /\ agent'.session = s
        /\ agent'.consent = IF s \in Unattended THEN "granted" ELSE "pending"
    BY <1>1, <1>2, <2>1, <2>2 DEF AgentType
  <2>4. /\ call' \in [Calls -> CallType]
        /\ \A c \in Calls : call[c].for \subseteq call'[c].for
        /\ \A c \in Calls : call'[c] = call[c] \/ call'[c].enabled = FALSE
    <3>1. CASE UNCHANGED call
      BY <1>0, <3>1 DEF AgentTypes
    <3>2. CASE setLocalInputLock(FALSE, FALSE, {})
      BY <1>0, <3>2, SentCalls
    <3> QED BY <2>1, <3>1, <3>2
  <2>5. authorizing' \subseteq Connections \X Sessions
    BY <1>0, <1>1, <2>1 DEF Join, ServerTypes, Links, Connections
  <2>6. allowed' \in BOOLEAN /\ (allowed \/ s \in Unattended => allowed')
    BY <1>2, <2>1
  <2>7. Known'
    BY <1>1, <2>3 DEF Known
  <2>8. Consent'
    <3>1. agent'.consent = "granted" \/ agent'.session \in Unattended => allowed'
      BY <2>3, <2>6
    <3>2. \A c \in Calls : call'[c].pc = "sent" /\ call'[c].enabled => allowed'
      BY <1>0, <2>4, <2>6 DEF Consent
    <3> QED BY <1>0, <2>6, <3>1, <3>2 DEF Consent
  <2> QED BY <1>0, <2>1, <2>3, <2>4, <2>5, <2>6, <2>7, <2>8 DEF AgentKeeps, ServerTypes
<1> QED BY <1>3, <1>4, <1>s, <1>m DEF attachRemoteSession

LEMMA SyncStep ==
  ASSUME Inv, NEW p \in Polls, syncRemoteSessions(p)
  PROVE  Inv'
<1>0. ServerTypes /\ AgentTypes /\ Waited /\ Known /\ Heard /\ Consent
  BY Parts
<1>1. UNCHANGED <<session, entry, rooms, conn, inbox, inputLocked, dialogs, inventories,
                  operations, faults>>
  BY DEF syncRemoteSessions, waits, bounds
<1>2. CASE /\ poll[p].next # None /\ attachRemoteSession(poll[p].next, poll[p].mode)
           /\ poll' = [poll EXCEPT ![p] = IdlePoll]
  <2>1. /\ AgentKeeps /\ authorizing' \subseteq Connections \X Sessions
        /\ link' = link \/ (link = "none" /\ link' = "down")
    BY <1>1, <1>2, AttachKeeps
  <2>2. poll' \in [Polls -> PollType] /\ Waited' /\ Heard'
    BY <1>0, <1>1, <1>2, <2>1, FreshValues DEF AgentTypes, AgentKeeps, Waited, Heard
  <2>3. ServerTypes' /\ AgentTypes'
    BY <1>0, <1>1, <2>1, <2>2 DEF ServerTypes, Links, AgentTypes, AgentKeeps
  <2> QED BY <2>1, <2>2, <2>3, PartsNext DEF AgentKeeps
<1>3. CASE ReleaseAndReset(p) /\ UNCHANGED <<authorizing, link, allowed>>
  <2> DEFINE r == [IdlePoll EXCEPT !.pc = "releasing"]
  <2>1. r \in PollType /\ r.next = None
    BY Constants DEF IdlePoll, PollType
  <2>2. poll' = [poll EXCEPT ![p] = r] /\ UNCHANGED agent
    BY <1>3 DEF ReleaseAndReset
  <2> HIDE DEF r
  <2>3. /\ call' \in [Calls -> CallType]
        /\ \A c \in Calls : call[c].for \subseteq call'[c].for
        /\ \E c \in Calls : call'[c].for = {p}
        /\ \A c \in Calls : call'[c] = call[c] \/ call'[c].enabled = FALSE
    BY <1>0, <1>3, SentCalls DEF ReleaseAndReset
  <2>4. poll' \in [Polls -> PollType] /\ Waited' /\ Heard'
    BY <1>0, <1>1, <2>1, <2>2, <2>3 DEF AgentTypes, Waited, Heard
  <2>5. ServerTypes' /\ AgentTypes'
    BY <1>0, <1>1, <1>3, <2>2, <2>3, <2>4 DEF ServerTypes, Links, AgentTypes
  <2>6. Known' /\ Consent'
    BY <1>0, <1>1, <1>3, <2>2, <2>3 DEF Known, Consent
  <2> QED BY <2>4, <2>5, <2>6, PartsNext
<1>4. CASE NothingToRelease(p) /\ UNCHANGED <<authorizing, link, allowed>>
  <2>1. /\ agent' = agent \/ agent' = FreshAgent
        /\ poll' = [poll EXCEPT ![p] = IdlePoll] /\ UNCHANGED call
    BY <1>4 DEF NothingToRelease, resetRemoteSessionState
  <2>2. poll' \in [Polls -> PollType] /\ Waited' /\ Heard'
    BY <1>0, <1>1, <2>1, FreshValues DEF AgentTypes, Waited, Heard
  <2>3. ServerTypes' /\ AgentTypes'
    BY <1>0, <1>1, <1>4, <2>1, <2>2, FreshValues DEF ServerTypes, Links, AgentTypes
  <2>4. Known' /\ Consent'
    BY <1>0, <1>1, <1>4, <2>1, FreshValues, Constants DEF Known, Consent
  <2> QED BY <2>2, <2>3, <2>4, PartsNext
<1> QED BY <1>2, <1>3, <1>4 DEF syncRemoteSessions

-----------------------------------------------------------------------------
(* The agent: its socket, consent, and restarts.                           *)

\* A step of the agent alone: nobody waits more, and nothing is heard.
LEMMA OwnStep ==
  ASSUME Inv, AgentKeeps, ServerTypes',
         UNCHANGED <<session, poll>>, inputLocked' \in BOOLEAN,
         dialogs' \in 0..MaxDialogs, inventories' \in Nat
  PROVE  Inv'
<1>0. ServerTypes /\ AgentTypes /\ Waited /\ Known /\ Heard /\ Consent
  BY Parts
<1>1. AgentTypes'
  BY <1>0 DEF AgentTypes, AgentKeeps
<1>2. Waited' /\ Heard'
  BY <1>0 DEF AgentKeeps, Waited, Heard
<1> QED BY <1>1, <1>2, PartsNext DEF AgentKeeps

\* The agent looks at the lock again with the state a.
LEMMA SyncKeeps ==
  ASSUME Inv, NEW a \in AgentType, syncLocalInputLock(a), a.session = agent.session,
         UNCHANGED <<session, inputLocked>>, allowed' \in BOOLEAN, allowed => allowed',
         a.consent = "granted" => allowed'
  PROVE  AgentKeeps
<1>0. AgentTypes /\ Known /\ Consent
  BY Parts
<1>1. a.consent = "granted" \/ a.session \in Unattended => allowed'
  BY <1>0 DEF Consent
<1>2. /\ agent' = a /\ call' \in [Calls -> CallType]
      /\ \A c \in Calls : call[c].for \subseteq call'[c].for
      /\ \A c \in Calls : call'[c].pc = "sent" /\ call'[c].enabled => allowed'
  BY <1>0, <1>1, SyncedCalls
<1>3. Known' /\ Consent'
  BY <1>0, <1>1, <1>2 DEF Known, Consent
<1> QED BY <1>2, <1>3 DEF AgentKeeps

\* The agent's variables become a, and no lock request is sent.
LEMMA PlainKeeps ==
  ASSUME Inv, NEW a \in AgentType, agent' = a, UNCHANGED call, a.session = agent.session,
         a.consent \in {agent.consent, "pending"}, UNCHANGED <<session, inputLocked, allowed>>
  PROVE  AgentKeeps
<1>0. AgentTypes /\ Known /\ Consent
  BY Parts
<1>1. Known'
  BY <1>0 DEF Known
<1>2. Consent'
  BY <1>0 DEF Consent
<1> QED BY <1>0, <1>1, <1>2 DEF AgentKeeps, AgentTypes

LEMMA ConnectStep == Inv /\ Connect => Inv'
<1> SUFFICES ASSUME Inv, Connect PROVE Inv'
  OBVIOUS
<1>0. ServerTypes /\ AgentTypes /\ Waited /\ Known /\ Heard /\ Consent
  BY Parts
<1>1. /\ UNCHANGED <<session, entry, rooms, inbox, agent, poll, call, inputLocked, dialogs,
                     inventories, allowed, operations, faults>>
      /\ link = "down" /\ link' = "up" /\ conn' = conn + 1
  BY DEF Connect, waits, bounds
<1>2. conn \in Nat /\ conn =< faults /\ faults =< MaxFaults /\ faults \in Nat
  BY <1>0, <1>1, RemoteAccessAssumption DEF ServerTypes, Links
<1>3. conn' \in 0..(MaxFaults + 1) /\ conn + 1 \in Connections /\ Links'
  BY <1>1, <1>2, RemoteAccessAssumption DEF Connections, Links
<1>4. authorizing' \subseteq Connections \X Sessions
  <2>1. agent.session # None => agent.session \in Sessions
    BY <1>0, Constants DEF AgentTypes, AgentType
  <2> QED BY <1>0, <1>3, <2>1 DEF Connect, ServerTypes
<1>5. ServerTypes'
  BY <1>0, <1>1, <1>3, <1>4 DEF ServerTypes
<1>6. AgentTypes' /\ Waited' /\ Known' /\ Heard' /\ Consent'
  BY <1>0, <1>1 DEF AgentTypes, Waited, Known, Heard, Consent
<1> QED BY <1>5, <1>6, PartsNext

\* The socket is gone: what the gateway forgets, and how the link stands.
LEMMA LinkLost ==
  ASSUME ServerTypes, handleDisconnect, Fault, link' \in {"none", "down"},
         UNCHANGED <<session, operations>>
  PROVE  ServerTypes'
<1>1. /\ rooms' = {} /\ inbox' = <<>> /\ UNCHANGED <<authorizing, conn>>
      /\ faults' = faults + 1 /\ faults < MaxFaults
  BY DEF handleDisconnect, Fault
<1>2. entry' \in [Connections -> MaybeSession]
  <2>1. entry' = entry \/ entry' = [entry EXCEPT ![conn] = None]
    BY DEF handleDisconnect
  <2> QED BY <2>1, Constants DEF ServerTypes
<1>5. inbox' \in Seq(EventType) /\ link' \in {"none", "down", "up"}
  BY <1>1
<1>3. conn \in Nat /\ faults \in Nat /\ conn =< faults + 1
  BY RemoteAccessAssumption DEF ServerTypes, Links
<1>4. faults' \in 0..MaxFaults /\ Links'
  BY <1>1, <1>3, RemoteAccessAssumption DEF Links
<1> QED BY <1>1, <1>2, <1>4, <1>5 DEF ServerTypes

LEMMA DisconnectStep == Inv /\ Disconnect => Inv'
<1> SUFFICES ASSUME Inv, Disconnect PROVE Inv'
  OBVIOUS
<1>0. ServerTypes /\ AgentTypes
  BY Parts
<1> DEFINE a == [agent EXCEPT !.joined = None]
<1>1. /\ UNCHANGED <<session, poll, inputLocked, dialogs, inventories, allowed, operations>>
      /\ handleDisconnect /\ Fault /\ link' = "down" /\ syncLocalInputLock(a)
  BY DEF Disconnect, waits
<1>2. a \in AgentType /\ a.session = agent.session /\ a.consent = agent.consent
  BY <1>0, AgentUpdates, Constants DEF AgentTypes
<1> HIDE DEF a
<1>3. agent.consent = "granted" => allowed
  BY Parts DEF Consent
<1>4. AgentKeeps
  BY <1>0, <1>1, <1>2, <1>3, SyncKeeps DEF AgentTypes
<1>5. ServerTypes'
  BY <1>0, <1>1, LinkLost
<1> QED BY <1>0, <1>1, <1>4, <1>5, OwnStep DEF AgentTypes

LEMMA RestartStep == Inv /\ Restart => Inv'
<1> SUFFICES ASSUME Inv, Restart PROVE Inv'
  OBVIOUS
<1>1. ServerTypes'
  BY Parts, LinkLost DEF Restart
<1>2. /\ agent' = FreshAgent /\ poll' = [p \in Polls |-> IdlePoll]
      /\ call' = [c \in Calls |-> NoCall]
      /\ dialogs' = 0 /\ inventories' = 0 /\ inputLocked' = FALSE /\ allowed' = FALSE
  BY DEF Restart
<1>5. \A p \in Polls : poll'[p] = IdlePoll
  BY <1>2
<1>6. 0 \in 0..MaxDialogs
  BY RemoteAccessAssumption
<1>7. AgentTypes'
  BY <1>2, <1>6, FreshValues DEF AgentTypes
<1>3. Waited' /\ Known' /\ Heard'
  BY <1>2, <1>5, FreshValues DEF Waited, Known, Heard
<1>4. Consent'
  BY <1>2, FreshValues, Constants DEF Consent
<1> QED BY <1>1, <1>3, <1>4, <1>7, PartsNext

LEMMA LookStep ==
  ASSUME Inv, InventoryRead \/ \E consent \in {"granted", "denied"} : DialogAnswered(consent)
  PROVE  Inv'
<1>0. ServerTypes /\ AgentTypes /\ Consent
  BY Parts
<1>1. UNCHANGED <<session, entry, rooms, authorizing, link, conn, inbox, poll, inputLocked,
                  operations, faults>>
  BY DEF InventoryRead, DialogAnswered, gateway, bounds
<1>2. ServerTypes' /\ inputLocked' \in BOOLEAN
  BY <1>0, <1>1 DEF ServerTypes, Links, AgentTypes
<1>3. dialogs' \in 0..MaxDialogs /\ inventories' \in Nat
  BY <1>0, RemoteAccessAssumption DEF InventoryRead, DialogAnswered, AgentTypes
<1>4. CASE InventoryRead
  <2>1. syncLocalInputLock(agent) /\ UNCHANGED allowed
    BY <1>4 DEF InventoryRead
  <2>2. AgentKeeps
    BY <1>0, <1>1, <2>1, SyncKeeps DEF AgentTypes, Consent
  <2> QED BY <1>1, <1>2, <1>3, <2>2, OwnStep
<1>5. ASSUME NEW consent \in {"granted", "denied"}, DialogAnswered(consent) PROVE Inv'
  <2>a. PICK a : a = [agent EXCEPT !.consent = consent, !.asking = FALSE]
    OBVIOUS
  <2>b. agent \in AgentType
    BY <1>0 DEF AgentTypes
  <2>1. a \in AgentType /\ a.session = agent.session /\ a.consent = consent
    BY <2>a, <2>b, AnswerUpdates, Zenon
  <2>2. syncLocalInputLock(a) /\ allowed' = (allowed \/ consent = "granted")
    BY <1>5, <2>a DEF DialogAnswered
  <2>3. allowed' \in BOOLEAN /\ (allowed \/ consent = "granted" => allowed')
    BY <1>0, <2>2 DEF AgentTypes
  <2>4. AgentKeeps
    BY <1>1, <2>1, <2>2, <2>3, SyncKeeps
  <2> QED BY <1>1, <1>2, <1>3, <2>4, OwnStep
<1> QED BY <1>4, <1>5

LEMMA ReceiveStep == Inv /\ Receive => Inv'
<1> SUFFICES ASSUME Inv, Receive PROVE Inv'
  OBVIOUS
<1>0. ServerTypes /\ AgentTypes /\ Consent
  BY Parts
<1> DEFINE event == Head(inbox)
<1>1. /\ UNCHANGED <<session, entry, rooms, authorizing, link, conn, poll, inputLocked,
                     allowed, operations, faults>>
      /\ inbox # <<>> /\ inbox' = Tail(inbox)
  BY DEF Receive, gateway, bounds
<1>2. event \in EventType /\ inbox' \in Seq(EventType)
  BY <1>0, <1>1 DEF ServerTypes
<1>3. event.type \in {"joined", "mode", "consent"} /\ event.mode \in InteractionModes
  BY <1>2 DEF EventType
<1>4. RemoteJoined \/ SetInteractionMode(event.mode) \/ handleConsentRequest
  BY <1>3 DEF Receive
<1> HIDE DEF event
<1>5. ServerTypes' /\ inputLocked' \in BOOLEAN
  BY <1>0, <1>1, <1>2 DEF ServerTypes, Links, AgentTypes
<1>6. dialogs' \in 0..MaxDialogs /\ inventories' \in Nat
  BY <1>0, <1>4, RemoteAccessAssumption
    DEF RemoteJoined, SetInteractionMode, handleConsentRequest, AgentTypes
<1>7. agent \in AgentType /\ agent.session \in MaybeSession
  BY <1>0 DEF AgentTypes, AgentType
<1>8. CASE RemoteJoined
  <2> DEFINE a == [agent EXCEPT !.joined = agent.session]
  <2>1. a \in AgentType /\ a.session = agent.session /\ a.consent = agent.consent
    BY <1>7, AgentUpdates
  <2>2. (agent' = a \/ agent' = agent) /\ UNCHANGED call
    BY <1>8 DEF RemoteJoined
  <2> HIDE DEF a
  <2> QED BY <1>1, <1>5, <1>6, <1>7, <2>1, <2>2, PlainKeeps, OwnStep
<1>9. CASE SetInteractionMode(event.mode)
  <2> DEFINE a == [agent EXCEPT !.mode = event.mode]
  <2>1. a \in AgentType /\ a.session = agent.session /\ a.consent = agent.consent
    BY <1>3, <1>7, AgentUpdates
  <2>2. syncLocalInputLock(a)
    BY <1>9 DEF SetInteractionMode
  <2> HIDE DEF a
  <2>3. AgentKeeps
    BY <1>0, <1>1, <2>1, <2>2, SyncKeeps DEF AgentTypes, Consent
  <2> QED BY <1>1, <1>5, <1>6, <2>3, OwnStep
<1>10. CASE handleConsentRequest
  <2>a. PICK a : a = [agent EXCEPT !.asking = TRUE, !.consent = "pending"]
    OBVIOUS
  <2>1. a \in AgentType /\ a.session = agent.session /\ a.consent = "pending"
    BY <1>7, <2>a, AskingUpdates, Zenon
  <2>2. (agent' = a \/ agent' = agent) /\ UNCHANGED call
    BY <1>10, <2>a DEF handleConsentRequest
  <2> QED BY <1>1, <1>5, <1>6, <1>7, <2>1, <2>2, PlainKeeps, OwnStep
<1> QED BY <1>4, <1>8, <1>9, <1>10

-----------------------------------------------------------------------------
(* Every step.                                                             *)

LEMMA InitInv == Init => Inv
<1> SUFFICES ASSUME Init PROVE Inv
  OBVIOUS
<1>1. ServerTypes
  BY Constants, RemoteAccessAssumption
    DEF Init, ServerTypes, Links, DocumentType, NoDocument, Connections
<1>5. 0 \in 0..MaxDialogs
  BY RemoteAccessAssumption
<1>6. AgentTypes
  BY <1>5, FreshValues DEF Init, AgentTypes
<1>7. agent = FreshAgent /\ \A p \in Polls : poll[p] = IdlePoll
  BY DEF Init
<1>2. Waited /\ Known /\ Heard
  BY <1>7, FreshValues DEF Waited, Known, Heard
<1>3. Consent
  BY FreshValues, Constants DEF Init, Consent
<1> QED BY <1>1, <1>2, <1>3, <1>6, Parts

LEMMA NextInv == Inv /\ [Next]_vars => Inv'
<1>1. ASSUME Inv, UNCHANGED vars PROVE Inv'
  <2>1. ServerTypes' /\ AgentTypes' /\ Waited' /\ Known' /\ Heard' /\ Consent'
    BY <1>1, Parts DEF vars, gateway, waits, bounds, ServerTypes, Links, AgentTypes, Waited,
      Known, Heard, Consent
  <2> QED BY <2>1, PartsNext
<1> QED
  BY <1>1, OperatorStep, GatewayStep, BridgeStep, LockStep, ListStep, SyncStep, ConnectStep,
    DisconnectStep, RestartStep, LookStep, ReceiveStep DEF Next

\* The inductive invariant: no consent is made up, sent or kept without one.
THEOREM ConsentHolds == Spec => []Inv
BY InitInv, NextInv, PTL DEF Spec

\* Documents, the gateway's maps, the agent and its requests have their types;
\* in particular the agent is attached to sessions that exist.
THEOREM TypesHold == Spec => []TypeOK
<1>1. Inv => TypeOK
  BY DEF Inv
<1> QED BY <1>1, ConsentHolds, PTL

\* shouldLockLocalInput: the workstation is locked only after somebody has allowed
\* access or a session that needs no consent was attached, however many polls,
\* lock requests and dialogs overlap, and whatever fails or is answered late.
THEOREM LocksAreAllowed == Spec => []LockNeedsConsent
<1>1. Inv => LockNeedsConsent
  BY DEF Inv, Consent, LockNeedsConsent
<1> QED BY <1>1, ConsentHolds, PTL
=============================================================================
