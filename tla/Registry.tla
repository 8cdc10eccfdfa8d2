------------------------------ MODULE Registry ------------------------------
(***************************************************************************)
(* The documents a tenant keeps and the references between them.  The      *)
(* service of every collection creates, reads, updates and removes its     *)
(* documents; where one refers to another collection, its handler asks     *)
(* that collection's service for the document first and writes afterwards, *)
(* one document in one operation.  Nothing holds the document it found in  *)
(* place meanwhile, and removing a document leaves those that name it      *)
(* alone.                                                                  *)
(*                                                                         *)
(* A behaviour follows one document of any collection (record), the        *)
(* request that works on it, and the documents it may refer to: one of     *)
(* each collection in each tenant.  A list of devices is represented by    *)
(* one of them, the fields that are no references by whether one of them   *)
(* has been given a value of its own (chosen).                             *)
(***************************************************************************)
EXTENDS ApiValues

CONSTANTS
  Tenants,
  Requesters,   \* users of the customer portal
  Absent,       \* a field the request does not carry
  NoDocument,   \* an id that belongs to no document
  MaxRemovals,  \* bound: removals of the documents referred to
  MaxGiven      \* bound: references one request carries, or a document it changes


VARIABLES
  record,    \* the document followed, or None
  request,   \* the request being handled, or None
  removed,   \* the documents referred to that are gone
  told       \* history: the answer to a read, until the next step

regVars == <<record, request, removed, told>>

-----------------------------------------------------------------------------
(* The collections: the fields that name documents of others.              *)
(* The body a document is created with carries the references every        *)
(* document has, and other fields; some of those have a default.           *)

Body(required, presets) == [required |-> required, presets |-> presets]

CreateClientDto       == Body({}, FALSE)
CreateContactDto      == Body({"clientId"}, FALSE)
CreateContractDto     == Body({"clientId"}, TRUE)
CreateInvoiceDto      == Body({"clientId"}, TRUE)
CreateSubscriptionDto == Body({"clientId"}, TRUE)
CreateDeviceDto       == Body({}, FALSE)
CreateSlaPolicyDto    == Body({}, TRUE)
CreateDeviceGroupDto  == Body({}, FALSE)
CreatePatchPolicyDto  == Body({}, TRUE)
SimulatePatchScanDto  == Body({"deviceId"}, FALSE)
CreateScriptDto       == Body({}, FALSE)
CreateAutomationDto   == Body({}, FALSE)
CreateAlertRuleDto    == Body({}, TRUE)
CreateArticleDto      == Body({}, TRUE)
CreateIntegrationDto  == Body({}, TRUE)
CreateRemoteSessionDto == Body({"deviceId"}, FALSE)
CreateTicketDto       == Body({}, TRUE)

ToClient   == [clientId |-> "client"]
ToContract == [clientId |-> "client", contractId |-> "contract"]
NoRefs     == [f \in {} |-> "client"]

Collection(refs, body) == [refs |-> refs, body |-> body]

client       == Collection(NoRefs, CreateClientDto)
contact      == Collection(ToClient, CreateContactDto)
contract     == Collection(ToClient, CreateContractDto)
invoice      == Collection(ToContract, CreateInvoiceDto)
subscription == Collection(ToContract, CreateSubscriptionDto)
device       == Collection(ToClient, CreateDeviceDto)
slaPolicy    == Collection(ToClient, CreateSlaPolicyDto)
deviceGroup  == Collection([deviceIds |-> "device"], CreateDeviceGroupDto)
patchPolicy  == Collection(NoRefs, CreatePatchPolicyDto)
patch        == Collection([deviceId |-> "device", policyId |-> "patchPolicy"], SimulatePatchScanDto)
script       == Collection(NoRefs, CreateScriptDto)
automation   == Collection(NoRefs, CreateAutomationDto)
alertRule    == Collection(NoRefs, CreateAlertRuleDto)
article      == Collection(NoRefs, CreateArticleDto)
integration  == Collection(NoRefs, CreateIntegrationDto)
remoteSession == Collection([deviceId |-> "device"], CreateRemoteSessionDto)
ticket       == Collection([clientId |-> "client", deviceId |-> "device", assigneeId |-> "user",
                            slaPolicyId |-> "slaPolicy"], CreateTicketDto)

Collections ==
  [client |-> client, contact |-> contact, contract |-> contract, invoice |-> invoice,
   subscription |-> subscription, device |-> device, slaPolicy |-> slaPolicy,
   deviceGroup |-> deviceGroup, patchPolicy |-> patchPolicy, patch |-> patch,
   script |-> script, automation |-> automation, alertRule |-> alertRule,
   article |-> article, integration |-> integration, remoteSession |-> remoteSession,
   ticket |-> ticket]

Refs(in)     == Collections[in].refs
Fields(in)   == DOMAIN Refs(in)
Required(in) == Collections[in].body.required

Document(in, of) == [in |-> in, of |-> of]
Targets == [in : {"client", "contract", "device", "patchPolicy", "slaPolicy", "user"},
            of : Tenants]

ASSUME RegistryAssumption ==
  /\ MaxRemovals \in Nat /\ MaxGiven \in Nat
  /\ None \notin Tenants /\ {None, Absent, NoDocument} \cap Targets = {}
  /\ None # Absent /\ NoDocument \notin {None, Absent}

-----------------------------------------------------------------------------
(* The operations of the services.  A handler looks up the references in   *)
(* the order of `checks'.                                                  *)

Operation(does, in, checks) == [does |-> does, in |-> in, checks |-> checks]

clients_create   == Operation("create", "client", <<>>)
clients_findById == Operation("read", "client", <<>>)
clients_update   == Operation("update", "client", <<>>)
clients_remove   == Operation("remove", "client", <<>>)

contacts_create   == Operation("create", "contact", <<"clientId">>)
contacts_findById == Operation("read", "contact", <<>>)
contacts_update   == Operation("update", "contact", <<"clientId">>)
contacts_remove   == Operation("remove", "contact", <<>>)

contracts_create   == Operation("create", "contract", <<"clientId">>)
contracts_findById == Operation("read", "contract", <<>>)
contracts_update   == Operation("update", "contract", <<"clientId">>)
contracts_remove   == Operation("remove", "contract", <<>>)

createInvoice   == Operation("create", "invoice", <<"clientId", "contractId">>)
findInvoiceById == Operation("read", "invoice", <<>>)
updateInvoice   == Operation("update", "invoice", <<"clientId", "contractId">>)

createSubscription   == Operation("create", "subscription", <<"clientId", "contractId">>)
findSubscriptionById == Operation("read", "subscription", <<>>)
updateSubscription   == Operation("update", "subscription", <<"clientId", "contractId">>)

devices_create   == Operation("create", "device", <<"clientId">>)
devices_findById == Operation("read", "device", <<>>)
devices_update   == Operation("update", "device", <<"clientId">>)
devices_remove   == Operation("remove", "device", <<>>)

sla_create   == Operation("create", "slaPolicy", <<"clientId">>)
sla_findById == Operation("read", "slaPolicy", <<>>)
sla_update   == Operation("update", "slaPolicy", <<"clientId">>)
sla_remove   == Operation("remove", "slaPolicy", <<>>)

deviceGroups_create   == Operation("create", "deviceGroup", <<"deviceIds">>)
deviceGroups_findById == Operation("read", "deviceGroup", <<>>)
deviceGroups_update   == Operation("update", "deviceGroup", <<"deviceIds">>)
deviceGroups_remove   == Operation("remove", "deviceGroup", <<>>)

createPolicy      == Operation("create", "patchPolicy", <<>>)
updatePolicy      == Operation("update", "patchPolicy", <<>>)
removePolicy      == Operation("remove", "patchPolicy", <<>>)
simulatePatchScan == Operation("create", "patch", <<"deviceId", "policyId">>)
findPatchById     == Operation("read", "patch", <<>>)

scripts_create   == Operation("create", "script", <<>>)
scripts_findById == Operation("read", "script", <<>>)
scripts_update   == Operation("update", "script", <<>>)
scripts_remove   == Operation("remove", "script", <<>>)

automations_create   == Operation("create", "automation", <<>>)
automations_findById == Operation("read", "automation", <<>>)
automations_update   == Operation("update", "automation", <<>>)
automations_remove   == Operation("remove", "automation", <<>>)

createRule   == Operation("create", "alertRule", <<>>)
findRuleById == Operation("read", "alertRule", <<>>)
removeRule   == Operation("remove", "alertRule", <<>>)

articles_create   == Operation("create", "article", <<>>)
articles_findById == Operation("read", "article", <<>>)
articles_remove   == Operation("remove", "article", <<>>)

integrations_create   == Operation("create", "integration", <<>>)
integrations_findById == Operation("read", "integration", <<>>)
integrations_update   == Operation("update", "integration", <<>>)
integrations_remove   == Operation("remove", "integration", <<>>)

requestSession        == Operation("create", "remoteSession", <<"deviceId">>)
sessions_findById     == Operation("read", "remoteSession", <<>>)

\* The device is not looked up when a client is given: see Due.
createManual       == Operation("create", "ticket", <<"clientId", "deviceId", "assigneeId", "slaPolicyId">>)
createPortalTicket == Operation("createForPortal", "ticket", <<"clientId", "deviceId", "slaPolicyId">>)
tickets_findById   == Operation("read", "ticket", <<>>)
findByIdForPortal  == Operation("readForPortal", "ticket", <<>>)
tickets_update     == Operation("update", "ticket", <<"clientId", "deviceId", "assigneeId", "slaPolicyId">>)
tickets_assign     == Operation("update", "ticket", <<"assigneeId">>)

Operations ==
  {clients_create, clients_findById, clients_update, clients_remove,
   contacts_create, contacts_findById, contacts_update, contacts_remove,
   contracts_create, contracts_findById, contracts_update, contracts_remove,
   createInvoice, findInvoiceById, updateInvoice,
   createSubscription, findSubscriptionById, updateSubscription,
   devices_create, devices_findById, devices_update, devices_remove,
   sla_create, sla_findById, sla_update, sla_remove,
   deviceGroups_create, deviceGroups_findById, deviceGroups_update, deviceGroups_remove,
   createPolicy, updatePolicy, removePolicy, simulatePatchScan, findPatchById,
   scripts_create, scripts_findById, scripts_update, scripts_remove,
   automations_create, automations_findById, automations_update, automations_remove,
   createRule, findRuleById, removeRule,
   articles_create, articles_findById, articles_remove,
   integrations_create, integrations_findById, integrations_update, integrations_remove,
   requestSession, sessions_findById,
   createManual, createPortalTicket, tickets_findById, findByIdForPortal,
   tickets_update, tickets_assign}


\* The update of every collection takes the body of its creation with all fields
\* optional: what has a default there has it here too.  Assigning a ticket does
\* not read a body.
Presets(op) == Collections[op.in].body.presets /\ op # tickets_assign

Creates(op) == op.does \in {"create", "createForPortal"}
Reads(op)   == op.does \in {"read", "readForPortal"}

-----------------------------------------------------------------------------
RegistryInit ==
  /\ record = None
  /\ request = None
  /\ removed = {}
  /\ told = None

Live == Targets \ removed

\* Mutant of Found: findOne by _id alone.
Found_AnyTenant(tenant, id) == id \in Live

\* findById of a service, as the others call it: findOne by _id and tenantId.
Found(tenant, id) == id \in Live /\ id.of = tenant

\* resolveClientForTicket looks at the device only if there is no client.
SkipsDevice(op, given) ==
  op.in = "ticket" /\ Creates(op) /\ given.clientId \notin {None, Absent}

Looked(op) == {op.checks[i] : i \in DOMAIN op.checks}

\* The references a handler has to look up.
Due(op, given) ==
  {f \in Looked(op) : /\ given[f] \notin {None, Absent}
                      /\ ~(f = "deviceId" /\ SkipsDevice(op, given))}

\* The body of a request: it names a document of either tenant, or null, in
\* some fields.  A document is created with what it must have.
Carried(op) ==
  {g \in SUBSET Looked(op) : /\ Cardinality(g) <= MaxGiven
                             /\ Creates(op) => Required(op.in) \subseteq g}

BodyOf(op, of) ==
  [f \in Fields(op.in) |->
     IF f \notin DOMAIN of THEN IF Creates(op) THEN None ELSE Absent
     ELSE IF of[f] = None THEN None ELSE Document(Refs(op.in)[f], of[f])]

Bodies(op) ==
  {BodyOf(op, of) :
     of \in UNION {[g -> IF Creates(op) THEN Tenants ELSE Tenants \cup {None}] : g \in Carried(op)}}

\* What a request may find.
Applies(op) == IF Creates(op) THEN record = None ELSE record # None /\ record.in = op.in

Handle(op, tenant, by, given, chosen) ==
  request' = [op |-> op, tenant |-> tenant, by |-> by, given |-> given, chosen |-> chosen,
              left |-> Due(op, given), seen |-> Live]

\* A request that writes references: its body has passed validation.
Receive(op, tenant, given, chosen) ==
  /\ request = None
  /\ op.does \in {"create", "update"}
  /\ Applies(op)
  /\ ~Creates(op) => Cardinality({f \in Fields(op.in) : record.refs[f] # None}) <= MaxGiven
  /\ Handle(op, tenant, None, given, chosen)
  /\ told' = None /\ UNCHANGED <<record, removed>>

\* CustomerPortalService.createTicket: the user may have clients; if it is one,
\* a ticket without a client is for that one.
portal_createTicket(tenant, by, clients, given) ==
  LET id == IF given.clientId = None /\ Cardinality(clients) = 1
              THEN CHOOSE c \in clients : TRUE ELSE given.clientId IN
  /\ request = None /\ record = None
  /\ (id # None /\ clients # {}) => id \in clients
  /\ Handle(createPortalTicket, tenant, by, [given EXCEPT !.clientId = id], FALSE)
  /\ told' = None /\ UNCHANGED <<record, removed>>

\* The client of a ticket that has only a device: the one populated there.
ClientOf(f, client_) ==
  IF f = "deviceId" /\ request.op.in = "ticket" /\ Creates(request.op)
    THEN [request.given EXCEPT !.clientId = client_] ELSE request.given

\* What comes before it has been looked up.
Turn(f) ==
  \E i \in DOMAIN request.op.checks :
    request.op.checks[i] = f /\ \A j \in 1..i - 1 : request.op.checks[j] \notin request.left

CheckReference ==
  /\ request # None
  /\ \E f \in request.left :
       /\ Turn(f)
       /\ IF Found(request.tenant, request.given[f])
            THEN \E c \in {None} \cup {d \in Live : d.in = "client" /\ d.of = request.tenant} :
                   request' = [request EXCEPT !.left = @ \ {f}, !.given = ClientOf(f, c)]
            ELSE request' = None
  /\ told' = None /\ UNCHANGED <<record, removed>>

\* A ticket created without a policy gets an enabled one of its client or of
\* the tenant.
resolvePolicyForClient ==
  /\ request # None /\ request.left = {}
  /\ request.op.in = "ticket" /\ Creates(request.op) /\ request.given.slaPolicyId = None
  /\ \E p \in {d \in Live : d.in = "slaPolicy" /\ d.of = request.tenant} :
       request' = [request EXCEPT !.given.slaPolicyId = p]
  /\ told' = None /\ UNCHANGED <<record, removed>>

\* `new Types.ObjectId(null)' is a new id.
Stored(f) ==
  IF request.given[f] = None /\ f \in Required(request.op.in) THEN NoDocument
  ELSE request.given[f]

Created ==
  [in |-> request.op.in, of |-> request.tenant, requester |-> request.by,
   refs |-> [f \in Fields(request.op.in) |-> request.given[f]], chosen |-> request.chosen]

\* Fields the request does not carry stay, but those with a default.
Updated ==
  [record EXCEPT
     !.refs = [f \in Fields(record.in) |-> IF request.given[f] = Absent THEN @[f] ELSE Stored(f)],
     !.chosen = request.chosen \/ (@ /\ ~Presets(request.op))]

\* Mutant of StoreDocument: an update finds its document by _id alone.
StoreDocument_AnyTenant ==
  /\ request # None /\ request.left = {}
  /\ record' = IF Creates(request.op) THEN Created
               ELSE IF record # None THEN Updated ELSE record
  /\ request' = None
  /\ told' = None /\ UNCHANGED removed

\* create, or findOneAndUpdate by _id and tenantId: 404 if there is none.
StoreDocument ==
  /\ request # None /\ request.left = {}
  /\ record' = IF Creates(request.op) THEN Created
               ELSE IF record # None /\ record.of = request.tenant THEN Updated ELSE record
  /\ request' = None
  /\ told' = None /\ UNCHANGED removed

\* deleteOne by _id and tenantId.
RemoveRecord(op, tenant) ==
  /\ op.does = "remove" /\ Applies(op)
  /\ record.of = tenant
  /\ record' = None
  /\ told' = None /\ UNCHANGED <<request, removed>>

\* findOne by _id and tenantId, and for the portal by the requester.
ReadRecord(op, tenant, by) ==
  /\ Reads(op) /\ Applies(op)
  /\ request = None
  /\ record.of = tenant
  /\ op.does = "readForPortal" => record.requester = by
  /\ told' = [tenant |-> tenant, by |-> IF op.does = "readForPortal" THEN by ELSE None,
              of |-> record.of, requester |-> record.requester]
  /\ UNCHANGED <<record, request, removed>>

InUse == IF request # None THEN request.op.in ELSE record.in

OwnerInUse == IF request # None THEN request.tenant ELSE record.of

\* The same removals, of a document others refer to.  Users are not removed, and
\* what another tenant removes no request of this one would have found.
RemoveTarget(id) ==
  /\ Cardinality(removed) < MaxRemovals
  /\ request # None \/ record # None
  /\ id.of = OwnerInUse
  /\ \E f \in Fields(InUse) : id.in = Refs(InUse)[f]
  /\ id \in Live /\ id.in # "user"
  /\ removed' = removed \cup {id}
  /\ told' = None /\ UNCHANGED <<record, request>>

RegistryNext ==
  \/ /\ request = None
     /\ \E op \in {op \in Operations : Applies(op)}, t \in Tenants :
          \/ /\ op.does \in {"create", "update"}
             /\ \E given \in Bodies(op), chosen \in BOOLEAN :
                  /\ chosen => \A f \in Fields(op.in) \ Required(op.in) : given[f] \in {None, Absent}
                  /\ Receive(op, t, given, chosen)
          \/ RemoveRecord(op, t)
          \/ \E by \in Requesters : ReadRecord(op, t, by)
          \/ /\ op = createPortalTicket
             /\ \E by \in Requesters, given \in Bodies(op), clients \in {{}, {Document("client", t)}} :
                  portal_createTicket(t, by, clients, given)
  \/ CheckReference \/ resolvePolicyForClient \/ StoreDocument
  \/ \E id \in Targets : RemoveTarget(id)

-----------------------------------------------------------------------------
Ids == Targets \cup {None, Absent, NoDocument}

RegistryTypeOK ==
  /\ record # None =>
       /\ record.in \in DOMAIN Collections /\ record.of \in Tenants
       /\ record.requester \in Requesters \cup {None} /\ record.chosen \in BOOLEAN
       /\ record.refs \in [Fields(record.in) -> Ids \ {Absent}]
       /\ \A f \in Required(record.in) : record.refs[f] # None
  /\ request # None =>
       /\ request.op \in Operations /\ request.tenant \in Tenants
       /\ request.given \in [Fields(request.op.in) -> Ids] /\ request.seen \subseteq Targets
  /\ removed \subseteq Targets

\* A reference nobody looks up: the device of a ticket created with a client,
\* and null for a reference every document has.
NotLookedUp(f) ==
  \/ f = "deviceId" /\ SkipsDevice(request.op, request.given)
  \/ request.given[f] = None /\ f \in Required(request.op.in)

Current(f) == IF record = None THEN None ELSE record.refs[f]

\* The finders of the services and the removals that come between: a reference
\* that is written names a document of the writer's tenant which was there when
\* the request came in, wherever the handler looks it up.
WrittenReferencesHold ==
  (record' # None /\ record' # record) =>
    \A f \in Fields(record'.in) :
      LET id == record'.refs[f] IN
      \/ id = Current(f) \/ id = None
      \/ NotLookedUp(f)
      \/ id \in request.seen /\ id.of = record'.of

\* A document is changed and shown by its own tenant's requests only, and in
\* the portal shown to the user who asked for it.
TenantsApart ==
  /\ (record # None /\ record' # None /\ record' # record) => request.tenant = record.of
  /\ told' # None => /\ told'.tenant = told'.of
                     /\ told'.by # None => told'.by = told'.requester

\* What a request does not carry stays as it is, unless its body has a default.
UncarriedFieldsStay ==
  (record # None /\ record' # None /\ record' # record /\ record.chosen) =>
    record'.chosen \/ Presets(request.op)

\* All three, of every step.
ReferencesHold == [][WrittenReferencesHold /\ TenantsApart /\ UncarriedFieldsStay]_regVars
=============================================================================
