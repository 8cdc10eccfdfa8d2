---------------------------- MODULE RemoteAccess ----------------------------
(***************************************************************************)
(* Remote access to one device: its session documents, the requests on     *)
(* them, the gateway that joins the agent and routes controls, the Windows *)
(* agent, and the local bridge that locks the workstation's input.         *)
(*                                                                         *)
(* The agent is one thread whose handlers wait for HTTP answers: a list of *)
(* sessions, an input lock, a consent dialog, a display inventory.  What   *)
(* it had decided before such a wait is not decided again after it.        *)
(* localBridgeRequestWithRetry makes one request only: its retry branch    *)
(* calls a function "log" that the agent does not define.                  *)
(***************************************************************************)
EXTENDS Naturals, Sequences, FiniteSetsExt

CONSTANTS
  Unattended,    \* the sessions whose metadata says consentRequired: false
  MaxSessions,   \* sessions requested for the device, numbered in that order
  Modes,         \* the interaction modes the operators use
  MaxPolls,      \* calls of syncRemoteSessions that may overlap
  MaxCalls,      \* input-lock requests that may overlap
  MaxDialogs,    \* consent dialogs that may be open at a time
  MaxOperations, \* the bound on requests and control events of operators
  MaxFaults      \* the bound on failures and restarts

Sessions         == 1..MaxSessions
Polls            == 1..MaxPolls
Calls            == 1..MaxCalls
None             == 0
InteractionModes == {"view-only", "shared-control", "remote-only"}

ASSUME RemoteAccessAssumption ==
  /\ MaxSessions \in Nat /\ MaxPolls \in Nat /\ MaxCalls \in Nat /\ MaxDialogs \in Nat
  /\ MaxOperations \in Nat /\ MaxFaults \in Nat
  /\ Unattended \subseteq Sessions
  /\ Modes \subseteq InteractionModes

VARIABLES
  session,       \* the remote_sessions documents
  entry,         \* socketState: the session of each of the agent's sockets
  rooms,         \* the sessions whose agentRoom the agent's live socket is in
  authorizing,   \* agent.join handlers at work: a socket and a session
  link,          \* the agent's socket: "none", "down" or "up"
  conn,          \* the number of the last connection of the agent
  inbox,         \* events on their way to the agent
  agent,         \* the agent's own variables
  poll,          \* where each call of syncRemoteSessions is
  call,          \* input-lock requests to the bridge
  dialogs,       \* consent dialogs open on the workstation
  inventories,   \* remote.joined handlers that wait for the displays
  inputLocked,   \* has the bridge locked keyboard and mouse?
  allowed,       \* history: has somebody allowed access, or an unattended session
                 \* been attached, since the agent started?
  operations,    \* operators' steps so far
  faults         \* failures and restarts so far

gateway == <<entry, rooms, authorizing, link, conn>>
waits   == <<dialogs, inventories>>
bounds  == <<operations, faults>>
vars    == <<session, gateway, inbox, agent, poll, call, inputLocked, waits,
             allowed, bounds>>

-----------------------------------------------------------------------------
Connections == 1..(MaxFaults + 1)
MaybeSession == Sessions \cup {None}

NoDocument == [status |-> "none", mode |-> "view-only"]

FreshAgent == [session |-> None, joined |-> None, consent |-> "pending",
               mode |-> "view-only", locked |-> FALSE, asking |-> FALSE]

IdlePoll == [pc |-> "idle", next |-> None, mode |-> "view-only"]
NoCall   == [pc |-> "none", enabled |-> FALSE, sync |-> FALSE, for |-> {}]

Init ==
  /\ session = [s \in Sessions |-> NoDocument]
  /\ entry = [c \in Connections |-> None]
  /\ rooms = {} /\ authorizing = {}
  /\ link = "none" /\ conn = 0
  /\ inbox = <<>>
  /\ agent = FreshAgent
  /\ poll = [p \in Polls |-> IdlePoll]
  /\ call = [c \in Calls |-> NoCall]
  /\ dialogs = 0 /\ inventories = 0
  /\ inputLocked = FALSE
  /\ allowed = FALSE
  /\ operations = 0 /\ faults = 0

Operation == operations < MaxOperations /\ operations' = operations + 1
Fault     == faults < MaxFaults /\ faults' = faults + 1

WithStatus(status) == {s \in Sessions : session[s].status = status}

\* The newest active session, else the newest one requested: the list comes
\* with the newest first.
NextSession ==
  LET open == IF WithStatus("active") # {} THEN WithStatus("active")
                                           ELSE WithStatus("requested")
  IN  IF open = {} THEN None ELSE Max(open)

-----------------------------------------------------------------------------
(* The operators' requests to RemoteAccessService.                         *)

agentSide == <<gateway, inbox, agent, poll, call, inputLocked, waits, allowed>>

requestSession(s, mode) ==
  /\ session[s].status = "none"
  /\ \A r \in 1..(s - 1) : session[r].status # "none"
  /\ session' = [session EXCEPT ![s] = [status |-> "requested", mode |-> mode]]

Transition(s, status) ==
  /\ session[s].status # "none"
  /\ session' = [session EXCEPT ![s].status = status]

updateInteractionMode(s, mode) ==
  /\ session[s].status # "none"
  /\ session' = [session EXCEPT ![s].mode = mode]

OperatorRequests(s) ==
  /\ Operation
  /\ \/ \E mode \in Modes \cup {"view-only"} : requestSession(s, mode)
     \/ Transition(s, "active")
     \/ Transition(s, "ended")
     \/ \E mode \in Modes : updateInteractionMode(s, mode)
  /\ session' # session
  /\ UNCHANGED <<agentSide, faults>>

-----------------------------------------------------------------------------
(* The gateway.                                                            *)

ControlEvents == [type : {"mode"}, mode : Modes] \cup [type : {"consent"}, mode : {"view-only"}]

\* An operator's socket may join any session that exists, whatever its status.
\* The control goes to the room, whichever of its members the entry is of.
handleOperatorControl(s, event) ==
  /\ Operation
  /\ session[s].status # "none"
  /\ \E c \in Connections : entry[c] = s
  /\ inbox' = IF s \in rooms THEN Append(inbox, event) ELSE inbox
  /\ UNCHANGED <<session, gateway, agent, poll, call, inputLocked, waits, allowed, faults>>

\* authorizeAgentSession has accepted the agent; the socket may be gone.
AgentAuthorized(c, s) ==
  /\ <<c, s>> \in authorizing
  /\ session[s].status \in {"active", "requested"}
  /\ authorizing' = authorizing \ {<<c, s>>}
  /\ entry' = [entry EXCEPT ![c] = s]
  /\ IF link = "up" /\ c = conn
     THEN /\ rooms' = rooms \cup {s}
          /\ inbox' = Append(inbox, [type |-> "joined", mode |-> "view-only"])
     ELSE UNCHANGED <<rooms, inbox>>
  /\ UNCHANGED <<session, link, conn, agent, poll, call, inputLocked, waits, allowed, bounds>>

\* An unknown or stale agent, another device, a failed read, a closed session.
AgentRefused(c, s) ==
  /\ <<c, s>> \in authorizing
  /\ authorizing' = authorizing \ {<<c, s>>}
  /\ UNCHANGED <<session, entry, rooms, link, conn, inbox, agent, poll, call,
                 inputLocked, waits, allowed, bounds>>

-----------------------------------------------------------------------------
(* The agent: the input lock.                                              *)

shouldLockLocalInput_NoConsent(a) == a.mode = "remote-only" /\ a.joined # None

\* Desired only in remote-only mode, joined, and with consent if it is needed.
shouldLockLocalInput(a) ==
  /\ a.mode = "remote-only"
  /\ a.joined # None
  /\ a.session \in Unattended \/ a.consent = "granted"

\* setLocalInputLock, for syncLocalInputLock or for releaseLocalInputLock;
\* "for" holds the call of syncRemoteSessions that waits for it, if one does.
setLocalInputLock(enabled, sync, for) ==
  LET free == {c \in Calls : call[c] = NoCall}
  IN  \E c \in free :
    /\ c = Min(free)
    /\ call' = [call EXCEPT ![c] = [pc |-> "sent", enabled |-> enabled,
                                    sync |-> sync, for |-> for]]

\* The agent's variables become a, and syncLocalInputLock begins.
syncLocalInputLock(a) ==
  /\ agent' = a
  /\ IF shouldLockLocalInput(a) = a.locked
     THEN UNCHANGED call
     ELSE setLocalInputLock(shouldLockLocalInput(a), TRUE, {})

resetRemoteSessionState == FreshAgent

\* The bridge does it, or fails before or after it has done it.
BridgeAnswers(c) ==
  /\ call[c].pc = "sent"
  /\ \/ /\ call' = [call EXCEPT ![c].pc = "done"]
        /\ inputLocked' = call[c].enabled
        /\ UNCHANGED faults
     \/ /\ Fault
        /\ call' = [call EXCEPT ![c].pc = "failed"]
        /\ inputLocked' \in {inputLocked, call[c].enabled}
  /\ UNCHANGED <<session, gateway, inbox, agent, poll, waits, allowed, operations>>

LockAfter(c) ==
  CASE call[c].pc = "done" -> call[c].enabled
    [] call[c].pc # "done" /\ call[c].sync -> FALSE
    [] OTHER -> agent.locked

\* The answer is back; if syncRemoteSessions waits for it, it resets the agent.
LockAnswered(c) ==
  /\ call[c].pc \in {"done", "failed"}
  /\ call' = [call EXCEPT ![c] = NoCall]
  /\ poll' = [p \in Polls |-> IF p \in call[c].for THEN IdlePoll ELSE poll[p]]
  /\ agent' = IF call[c].for = {} THEN [agent EXCEPT !.locked = LockAfter(c)]
                                  ELSE resetRemoteSessionState
  /\ UNCHANGED <<session, gateway, inbox, inputLocked, waits, allowed, bounds>>

-----------------------------------------------------------------------------
(* The agent: syncRemoteSessions, on an interval that does not wait.       *)

IdlePolls == {p \in Polls : poll[p].pc = "idle"}

\* The interval fires and the list is answered; one that fails changes nothing.
listRemoteSessionsForDevice(p) ==
  /\ p \in IdlePolls /\ p = Min(IdlePolls)
  /\ poll' = [poll EXCEPT ![p] =
                [pc |-> "told", next |-> NextSession,
                 mode |-> IF NextSession = None THEN "view-only"
                          ELSE session[NextSession].mode]]
  /\ UNCHANGED <<session, gateway, inbox, agent, call, inputLocked, waits, allowed, bounds>>

Join(s) ==
  authorizing' = IF link = "up" THEN authorizing \cup {<<conn, s>>} ELSE authorizing

RefreshSession_KeepsMode(mode) ==
  /\ syncLocalInputLock(agent)
  /\ UNCHANGED <<authorizing, link, allowed>>

\* The session it is attached to, listed again.
RefreshSession(mode) ==
  /\ syncLocalInputLock([agent EXCEPT !.mode = mode])
  /\ UNCHANGED <<authorizing, link, allowed>>

\* Another session: nobody waits for the lock of the one before to be released.
SwitchSession(s, mode) ==
  /\ IF agent.session # None /\ agent.locked
     THEN setLocalInputLock(FALSE, FALSE, {})
     ELSE UNCHANGED call
  /\ agent' = [agent EXCEPT
                 !.session = s,
                 !.joined  = None,
                 !.consent = IF s \in Unattended THEN "granted" ELSE "pending",
                 !.mode    = mode,
                 !.locked  = FALSE]
  /\ link' = IF link = "none" THEN "down" ELSE link
  /\ Join(s)
  /\ allowed' = (allowed \/ s \in Unattended)

attachRemoteSession(s, mode) ==
  \/ agent.session = s /\ RefreshSession(mode)
  \/ agent.session # s /\ SwitchSession(s, mode)

ReleaseAndReset_NoWait(p) ==
  /\ setLocalInputLock(FALSE, FALSE, {})
  /\ poll' = [poll EXCEPT ![p] = [IdlePoll EXCEPT !.pc = "releasing"]]
  /\ UNCHANGED agent

\* The reset follows when the release is answered.
ReleaseAndReset(p) ==
  /\ setLocalInputLock(FALSE, FALSE, {p})
  /\ poll' = [poll EXCEPT ![p] = [IdlePoll EXCEPT !.pc = "releasing"]]
  /\ UNCHANGED agent

NothingToRelease(p) ==
  /\ agent' = IF agent.session = None THEN agent ELSE resetRemoteSessionState
  /\ poll' = [poll EXCEPT ![p] = IdlePoll]
  /\ UNCHANGED call

syncRemoteSessions(p) ==
  /\ poll[p].pc = "told"
  /\ \/ /\ poll[p].next # None
        /\ attachRemoteSession(poll[p].next, poll[p].mode)
        /\ poll' = [poll EXCEPT ![p] = IdlePoll]
     \/ /\ poll[p].next = None
        /\ IF agent.session # None /\ agent.locked
           THEN ReleaseAndReset(p)
           ELSE NothingToRelease(p)
        /\ UNCHANGED <<authorizing, link, allowed>>
  /\ UNCHANGED <<session, entry, rooms, conn, inbox, inputLocked, waits, bounds>>

-----------------------------------------------------------------------------
(* The agent: its socket, consent, and restarts.                           *)

Connect ==
  /\ link = "down"
  /\ link' = "up"
  /\ conn' = conn + 1
  /\ authorizing' = IF agent.session = None THEN authorizing
                    ELSE authorizing \cup {<<conn + 1, agent.session>>}
  /\ UNCHANGED <<session, entry, rooms, inbox, agent, poll, call, inputLocked,
                 waits, allowed, bounds>>

\* What the gateway's handleDisconnect forgets of the agent's live socket.
handleDisconnect ==
  /\ entry' = IF link = "up" THEN [entry EXCEPT ![conn] = None] ELSE entry
  /\ rooms' = {} /\ inbox' = <<>>
  /\ UNCHANGED <<authorizing, conn>>

Disconnect ==
  /\ link = "up" /\ Fault
  /\ link' = "down"
  /\ handleDisconnect
  /\ syncLocalInputLock([agent EXCEPT !.joined = None])
  /\ UNCHANGED <<session, poll, inputLocked, waits, allowed, operations>>

RemoteJoined ==
  /\ IF agent.session = None
     THEN UNCHANGED <<agent, inventories>>
     ELSE /\ agent' = [agent EXCEPT !.joined = agent.session]
          /\ inventories' = inventories + 1
  /\ UNCHANGED <<call, dialogs>>

SetInteractionMode(mode) ==
  /\ syncLocalInputLock([agent EXCEPT !.mode = mode])
  /\ UNCHANGED <<dialogs, inventories>>

handleConsentRequest ==
  /\ IF agent.asking
     THEN UNCHANGED <<agent, dialogs>>
     ELSE /\ dialogs < MaxDialogs
          /\ agent' = [agent EXCEPT !.asking = TRUE, !.consent = "pending"]
          /\ dialogs' = dialogs + 1
  /\ UNCHANGED <<call, inventories>>

Receive ==
  /\ inbox # <<>>
  /\ inbox' = Tail(inbox)
  /\ CASE Head(inbox).type = "joined"  -> RemoteJoined
       [] Head(inbox).type = "mode"    -> SetInteractionMode(Head(inbox).mode)
       [] Head(inbox).type = "consent" -> handleConsentRequest
  /\ UNCHANGED <<session, gateway, poll, inputLocked, allowed, bounds>>

\* The displays are known, or are not: either way the lock is looked at again.
InventoryRead ==
  /\ inventories > 0
  /\ inventories' = inventories - 1
  /\ syncLocalInputLock(agent)
  /\ UNCHANGED <<session, gateway, inbox, poll, inputLocked, dialogs, allowed, bounds>>

\* The user allows or denies, the dialog times out or cannot be shown.
DialogAnswered(consent) ==
  /\ dialogs > 0
  /\ dialogs' = dialogs - 1
  /\ allowed' = (allowed \/ consent = "granted")
  /\ syncLocalInputLock([agent EXCEPT !.consent = consent, !.asking = FALSE])
  /\ UNCHANGED <<session, gateway, inbox, poll, inputLocked, inventories, bounds>>

\* The agent stops, its launcher ends the bridge, and they are started again.
Restart ==
  /\ Fault
  /\ link' = "none"
  /\ handleDisconnect
  /\ agent' = FreshAgent
  /\ poll' = [p \in Polls |-> IdlePoll]
  /\ call' = [c \in Calls |-> NoCall]
  /\ dialogs' = 0 /\ inventories' = 0
  /\ inputLocked' = FALSE
  /\ allowed' = FALSE
  /\ UNCHANGED <<session, operations>>

-----------------------------------------------------------------------------
Next ==
  \/ \E s \in Sessions :
       \/ OperatorRequests(s)
       \/ \E event \in ControlEvents : handleOperatorControl(s, event)
       \/ \E c \in Connections : AgentAuthorized(c, s) \/ AgentRefused(c, s)
  \/ \E c \in Calls : BridgeAnswers(c) \/ LockAnswered(c)
  \/ \E p \in Polls :
       listRemoteSessionsForDevice(p) \/ syncRemoteSessions(p)
  \/ Connect \/ Disconnect \/ Receive \/ InventoryRead
  \/ \E consent \in {"granted", "denied"} : DialogAnswered(consent)
  \/ Restart

Spec == Init /\ [][Next]_vars

\* The interval keeps firing, requests are answered or fail, events arrive,
\* the socket reconnects, a dialog nobody answers times out as denied.  No
\* operator has to ask for anything.
FairSpec ==
  /\ Spec
  /\ \A p \in Polls : /\ WF_vars(listRemoteSessionsForDevice(p))
                      /\ WF_vars(syncRemoteSessions(p))
  /\ \A c \in Calls : WF_vars(BridgeAnswers(c)) /\ WF_vars(LockAnswered(c))
  /\ WF_vars(Connect) /\ WF_vars(Receive) /\ WF_vars(InventoryRead)
  /\ WF_vars(DialogAnswered("denied"))

-----------------------------------------------------------------------------
(* Properties.                                                             *)

DocumentType == [status : {"none", "requested", "active", "ended"}, mode : InteractionModes]
EventType    == [type : {"joined", "mode", "consent"}, mode : InteractionModes]
AgentType    == [session : MaybeSession, joined : MaybeSession,
                 consent : {"pending", "granted", "denied"},
                 mode : InteractionModes, locked : BOOLEAN, asking : BOOLEAN]
PollType     == [pc : {"idle", "told", "releasing"}, next : MaybeSession,
                 mode : InteractionModes]
CallType     == [pc : {"none", "sent", "done", "failed"}, enabled : BOOLEAN,
                 sync : BOOLEAN, for : SUBSET Polls]

\* Types; a call of syncRemoteSessions that waits has a request to wait for, and
\* the agent is attached to sessions that exist.
TypeOK ==
  /\ session \in [Sessions -> DocumentType]
  /\ entry \in [Connections -> MaybeSession]
  /\ rooms \subseteq Sessions
  /\ authorizing \subseteq Connections \X Sessions
  /\ link \in {"none", "down", "up"}
  /\ conn \in 0..(MaxFaults + 1)
  /\ inbox \in Seq(EventType)
  /\ agent \in AgentType
  /\ poll \in [Polls -> PollType]
  /\ call \in [Calls -> CallType]
  /\ dialogs \in 0..MaxDialogs /\ inventories \in Nat
  /\ inputLocked \in BOOLEAN /\ allowed \in BOOLEAN
  /\ operations \in 0..MaxOperations /\ faults \in 0..MaxFaults
  /\ \A p \in Polls : poll[p].pc = "releasing" => \E c \in Calls : p \in call[c].for
  /\ agent.session # None => session[agent.session].status # "none"

\* The workstation is locked only if somebody at it has allowed access, or a
\* session that needs no consent was attached, since the agent started: whatever
\* is answered late, resets and re-attachments never make up a consent.
LockNeedsConsent == inputLocked => allowed

\* Once the operators leave the sessions alone, the agent comes to follow the one
\* the server would give it, in its stored mode and with the lock it believes in
\* being the one it wants: the next polls undo what stale lists, late resets,
\* control events overtaken by others and answers out of order have done.
AgentSettles ==
  <>[](/\ agent.session = NextSession
       /\ agent.session # None =>
            /\ agent.mode = session[agent.session].mode
            /\ agent.locked = shouldLockLocalInput(agent))

\* README.md of the Windows agent: remote-only locks the workstation "until the
\* session mode changes, the session ends, or the agent stops".  Once no session
\* is open, the workstation is unlocked, or a session is opened again.
LockEndsWithSession ==
  NextSession = None ~> ~ inputLocked \/ NextSession # None
=============================================================================
