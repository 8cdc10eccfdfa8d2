------------------------------- MODULE Records -------------------------------
(***************************************************************************)
(* Documents whose fields depend on each other, changed by handlers that   *)
(* first load the document and later write what they made of it: patches,  *)
(* knowledge base articles, API keys and alert rules.  A save writes the   *)
(* fields whose values the handler changed, whatever the others have       *)
(* become, and never fails for what it finds.                              *)
(*                                                                         *)
(* A behaviour follows one document (kept).  What a handler is going to    *)
(* write is its patch, a function on some of the document's fields.        *)
(***************************************************************************)
EXTENDS ApiValues

CONSTANT Handlers

VARIABLES
  kept,      \* the document
  hands,     \* what each handler is going to write, and what it does next
  mishaps    \* history: what happened that a property makes an exception of

recVars == <<kept, hands, mishaps>>

-----------------------------------------------------------------------------
PatchStatus == {"available", "approved", "scheduled", "installing", "installed", "failed"}

\* Documents.  Of a date only whether it is set is kept; an alert rule has the
\* conditions that are not null, and operator goes as metricType does.
Patch(status) == [kind |-> "patch", status |-> status, scheduledAt |-> FALSE,
                  installedAt |-> FALSE, result |-> None]
Article(visibility, published) ==
  [kind |-> "article", visibility |-> visibility, publishedAt |-> published]
ApiKey(expiresAt) ==
  [kind |-> "apiKey", revokedAt |-> FALSE, expiresAt |-> expiresAt, lastUsedAt |-> FALSE]
AlertRule(targetType, conditions) ==
  [kind |-> "alertRule", targetType |-> targetType, conditions |-> conditions]

TargetTypes == {"metric", "device_status"}
Conditions  == {"metricType", "threshold", "status"}

PatchType     == [kind : {"patch"}, status : PatchStatus, scheduledAt : BOOLEAN,
                  installedAt : BOOLEAN, result : {None, "installed", "failed"}]
ArticleType   == [kind : {"article"}, visibility : {"public", "internal"}, publishedAt : BOOLEAN]
ApiKeyType    == [kind : {"apiKey"}, revokedAt : BOOLEAN, expiresAt : {None, "later", "past"},
                  lastUsedAt : BOOLEAN]
AlertRuleType == [kind : {"alertRule"}, targetType : TargetTypes, conditions : SUBSET Conditions]

Documents == PatchType \cup ArticleType \cup ApiKeyType \cup AlertRuleType

ASSUME RecordsAssumption ==
  None \notin Documents \cup BOOLEAN \cup {"SaveInstalling", "Save"}

\* What ensureRuleConditions asks for.
ensureRuleConditions(targetType, conditions) ==
  IF targetType = "metric" THEN {"metricType", "threshold"} \subseteq conditions
                           ELSE "status" \in conditions

Idle == [next |-> None, patch |-> <<>>]
Going(next, patch) == [next |-> next, patch |-> patch]

RecordsInit ==
  /\ kept = None
  /\ hands = [h \in Handlers |-> Idle]
  /\ mishaps = {}

-----------------------------------------------------------------------------
Holds(kind) == kept # None /\ kept.kind = kind
Busy     == {h \in Handlers : hands[h] # Idle}

Seen(what) == mishaps' = mishaps \cup what

\* Handler h has loaded the document and goes on to its first write.
Begin(h, hand) ==
  /\ hands[h] = Idle
  /\ hands' = [hands EXCEPT ![h] = hand]
  /\ UNCHANGED kept

\* The fields of two patches.
Both(p, q) == [f \in DOMAIN p \cup DOMAIN q |-> IF f \in DOMAIN p THEN p[f] ELSE q[f]]

\* A write of the fields in patch, in one operation.
Write(patch) == kept' = [f \in DOMAIN kept |-> IF f \in DOMAIN patch THEN patch[f] ELSE kept[f]]

Crossing == IF Busy = {} THEN {} ELSE {"overlap"}

\* A handler that answers without loading anything first.
AtOnce(patch) == Write(patch) /\ UNCHANGED hands

\* What the services create: the document that the behaviour follows.
CreateRecord ==
  /\ kept = None
  /\ \/ kept' = Patch("available")
     \/ \E v \in {"public", "internal"}, p \in BOOLEAN :
          (v = "public" => p) /\ kept' = Article(v, p)
     \/ \E x \in {None, "later"} : kept' = ApiKey(x)
     \/ \E t \in TargetTypes, c \in SUBSET Conditions :
          ensureRuleConditions(t, c) /\ kept' = AlertRule(t, c)
  /\ UNCHANGED <<hands, mishaps>>

-----------------------------------------------------------------------------
(* Patches.                                                                *)

approvePatch ==
  /\ Holds("patch")
  /\ AtOnce([status |-> "approved"]) /\ Seen({})

schedulePatch ==
  /\ Holds("patch")
  /\ AtOnce([status |-> "scheduled", scheduledAt |-> TRUE]) /\ Seen({})

\* save() writes nothing if the loaded status was installing already.
executePatch(h) ==
  /\ Holds("patch")
  /\ Begin(h, [next |-> "SaveInstalling", dated |-> kept.installedAt,
               patch |-> IF kept.status = "installing" THEN <<>> ELSE [status |-> "installing"]])
  /\ Seen(Crossing)

\* Mutant of Outcome: the time of an earlier installation is kept.
Outcome_KeepsTime(success, dated) ==
  Both([status |-> IF success THEN "installed" ELSE "failed",
        result |-> IF success THEN "installed" ELSE "failed"],
       IF success THEN [installedAt |-> TRUE] ELSE <<>>)

\* installedAt is written if it differs from the one that was loaded.
Outcome(success, dated) ==
  Both([status |-> IF success THEN "installed" ELSE "failed",
        result |-> IF success THEN "installed" ELSE "failed"],
       IF success THEN [installedAt |-> TRUE]
       ELSE IF dated THEN [installedAt |-> FALSE] ELSE <<>>)

SaveInstalling(h) ==
  /\ hands[h].next = "SaveInstalling"
  /\ Write(hands[h].patch)
  /\ \E success \in BOOLEAN :
       hands' = [hands EXCEPT ![h] = Going("Save", Outcome(success, hands[h].dated))]
  /\ Seen({})

-----------------------------------------------------------------------------
(* Articles: the body of an update always has a visibility, internal where *)
(* the request has none; publishedAt may be absent, null or a date.        *)

updateArticle(h) ==
  /\ Holds("article")
  /\ \E visibility \in {"public", "internal"}, publishedAt \in {None, FALSE, TRUE} :
       /\ Begin(h, Going("Save", Both([visibility |-> visibility],
            IF publishedAt # None THEN [publishedAt |-> publishedAt]
            ELSE IF visibility = "public" /\ ~kept.publishedAt THEN [publishedAt |-> TRUE]
            ELSE <<>>)))
       /\ Seen(IF publishedAt = FALSE THEN {"unpublished"} ELSE {})

-----------------------------------------------------------------------------
(* API keys.                                                               *)

revoke ==
  /\ Holds("apiKey")
  /\ AtOnce([revokedAt |-> TRUE]) /\ Seen({"revoked"})

KeyExpires ==
  /\ Holds("apiKey") /\ kept.expiresAt = "later"
  /\ AtOnce([expiresAt |-> "past"]) /\ Seen({})

authenticate(h) ==
  /\ Holds("apiKey") /\ ~kept.revokedAt /\ kept.expiresAt # "past"
  /\ Begin(h, Going("Save", [lastUsedAt |-> TRUE]))
  /\ Seen({})

-----------------------------------------------------------------------------
(* Alert rules: an update merges its conditions into those it loaded.      *)

updateRule(h) ==
  /\ Holds("alertRule")
  /\ \E targetType \in TargetTypes \cup {None}, conditions \in (SUBSET Conditions) \cup {None} :
       LET mergedTargetType == IF targetType = None THEN kept.targetType ELSE targetType
           mergedConditions == IF conditions = None THEN kept.conditions
                                                    ELSE kept.conditions \cup conditions
       IN /\ ensureRuleConditions(mergedTargetType, mergedConditions)
          /\ Begin(h, Going("Save", Both(
               IF targetType = None THEN <<>> ELSE [targetType |-> targetType],
               IF conditions = None THEN <<>> ELSE [conditions |-> mergedConditions])))
  /\ Seen(Crossing)

-----------------------------------------------------------------------------
\* The last write of a handler.
Save(h) ==
  /\ hands[h].next = "Save"
  /\ Write(hands[h].patch)
  /\ hands' = [hands EXCEPT ![h] = Idle]
  /\ Seen({})

\* A write fails, or the process dies with all its handlers.
SaveFails(h) ==
  /\ hands[h] # Idle
  /\ hands' = [hands EXCEPT ![h] = Idle]
  /\ Seen({"failure"}) /\ UNCHANGED kept

ProcessDies ==
  /\ Busy # {}
  /\ hands' = [h \in Handlers |-> Idle]
  /\ Seen({"failure"}) /\ UNCHANGED kept

RecordsNext ==
  \/ CreateRecord \/ approvePatch \/ schedulePatch \/ revoke \/ KeyExpires \/ ProcessDies
  \/ \E h \in Handlers :
       \/ executePatch(h) \/ SaveInstalling(h)
       \/ updateArticle(h) \/ authenticate(h) \/ updateRule(h)
       \/ Save(h) \/ SaveFails(h)

-----------------------------------------------------------------------------
RecordsTypeOK ==
  /\ kept \in Documents \cup {None}
  /\ \A h \in Handlers : hands[h].next \in {None, "SaveInstalling", "Save"}
  /\ mishaps \subseteq {"overlap", "unpublished", "revoked", "failure"}

\* A patch says it is installing only while somebody installs it or after a
\* failure; its outcome, its time and its result agree, but that overlapping
\* executions may leave a failed one the time of the other.
PatchesAreTrue == Holds("patch") =>
  /\ kept.status = "installing" =>
       "failure" \in mishaps \/ \E h \in Handlers : hands[h].next = "Save"
  /\ kept.status = "installed" => kept.installedAt /\ kept.result = "installed"
  /\ kept.status = "failed" =>
       kept.result = "failed" /\ (kept.installedAt => "overlap" \in mishaps)

\* A public article has a date unless a request took it away; a key that was
\* revoked stays so while it is being used; the conditions of a rule fit its
\* target, so that it can fire, unless two updates overlapped.
RecordsAgree ==
  /\ PatchesAreTrue
  /\ Holds("article") /\ kept.visibility = "public" /\ "unpublished" \notin mishaps => kept.publishedAt
  /\ Holds("apiKey") /\ "revoked" \in mishaps => kept.revokedAt
  /\ Holds("alertRule") /\ "overlap" \notin mishaps =>
       ensureRuleConditions(kept.targetType, kept.conditions)
=============================================================================
