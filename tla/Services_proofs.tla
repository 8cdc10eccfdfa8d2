--------------------------- MODULE Services_proofs ---------------------------
(***************************************************************************)
(* Theorems about Services: what its parts keep true.  Each part has an    *)
(* inductive invariant of its own (RecordsInv, WebInv, NoticesInv,         *)
(* RegistryInv, ListingInv, SeedInv) over its own variables; a step of     *)
(* Services is a step of one part and leaves the variables of the others   *)
(* alone.                                                                  *)
(***************************************************************************)
EXTENDS Services, TLAPS, FiniteSetTheorems, SequenceTheorems

-----------------------------------------------------------------------------
(* Records: the inductive invariant.                                       *)

Held(h, f) == IF f \in DOMAIN hands[h].patch THEN hands[h].patch[f] ELSE kept[f]
Sets(h, f, S) == f \in DOMAIN hands[h].patch => hands[h].patch[f] \in S

InstallHand(h) ==
  /\ hands[h].next = "SaveInstalling" =>
       /\ DOMAIN hands[h].patch \subseteq {"status"} /\ Sets(h, "status", {"installing"})
       /\ hands[h].dated \in BOOLEAN
       /\ "overlap" \notin mishaps => hands[h].dated = kept.installedAt
  /\ hands[h].next = "Save" =>
       /\ {"status", "result"} \subseteq DOMAIN hands[h].patch
       /\ DOMAIN hands[h].patch \subseteq {"status", "result", "installedAt"}
       /\ hands[h].patch["status"] \in {"installed", "failed"}
       /\ hands[h].patch["result"] = hands[h].patch["status"]
       /\ Sets(h, "installedAt", BOOLEAN)
       /\ hands[h].patch["status"] = "installed" =>
            "installedAt" \in DOMAIN hands[h].patch /\ Held(h, "installedAt")
       /\ hands[h].patch["status"] = "failed" /\ "overlap" \notin mishaps => ~Held(h, "installedAt")

EditHand(h) ==
  /\ hands[h].next = "Save"
  /\ DOMAIN hands[h].patch \subseteq {"visibility", "publishedAt"}
  /\ Sets(h, "visibility", {"public", "internal"}) /\ Sets(h, "publishedAt", BOOLEAN)
  /\ "unpublished" \notin mishaps =>
       /\ Sets(h, "publishedAt", {TRUE})
       /\ Held(h, "visibility") = "public" => Held(h, "publishedAt")

UseHand(h) ==
  /\ hands[h].next = "Save"
  /\ DOMAIN hands[h].patch \subseteq {"lastUsedAt"} /\ Sets(h, "lastUsedAt", BOOLEAN)

RuleHand(h) ==
  /\ hands[h].next = "Save"
  /\ DOMAIN hands[h].patch \subseteq {"targetType", "conditions"}
  /\ Sets(h, "targetType", TargetTypes) /\ Sets(h, "conditions", SUBSET Conditions)
  /\ "overlap" \notin mishaps =>
       ensureRuleConditions(Held(h, "targetType"), Held(h, "conditions"))

Hand(h) ==
  /\ hands[h].next \in {"SaveInstalling", "Save"}
  /\ Holds("patch") => InstallHand(h)
  /\ Holds("article") => EditHand(h)
  /\ Holds("apiKey") => UseHand(h)
  /\ Holds("alertRule") => RuleHand(h)

Alone ==
  (Holds("patch") \/ Holds("alertRule")) /\ "overlap" \notin mishaps =>
    \A h, g \in Busy : h = g

RecordsInv ==
  /\ kept \in Documents \cup {None}
  /\ hands = [h \in Handlers |-> hands[h]]
  /\ mishaps \subseteq {"overlap", "unpublished", "revoked", "failure"}
  /\ kept = None => Busy = {} /\ mishaps = {}
  /\ \A h \in Busy : Hand(h)
  /\ Alone
  /\ RecordsAgree

-----------------------------------------------------------------------------
(* Records: documents and what is written to them.                         *)

LEMMA BothOf ==
  ASSUME NEW p, NEW q
  PROVE  /\ DOMAIN Both(p, q) = DOMAIN p \cup DOMAIN q
         /\ \A f \in DOMAIN p : Both(p, q)[f] = p[f]
         /\ \A f \in DOMAIN q \ DOMAIN p : Both(p, q)[f] = q[f]
BY DEF Both

\* A document has the fields of its kind.
LEMMA Kinds ==
  ASSUME kept \in Documents
  PROVE  /\ kept # None
         /\ kept \in PatchType \/ kept \in ArticleType \/ kept \in ApiKeyType \/ kept \in AlertRuleType
         /\ Holds("patch") <=> kept \in PatchType
         /\ Holds("article") <=> kept \in ArticleType
         /\ Holds("apiKey") <=> kept \in ApiKeyType
         /\ Holds("alertRule") <=> kept \in AlertRuleType
<1>1. kept # None
  BY RecordsAssumption
<1> QED BY <1>1 DEF Documents, Holds, PatchType, ArticleType, ApiKeyType, AlertRuleType

LEMMA Writing ==
  ASSUME NEW p, Write(p)
  PROVE  /\ DOMAIN kept' = DOMAIN kept
         /\ \A f \in DOMAIN kept : kept'[f] = IF f \in DOMAIN p THEN p[f] ELSE kept[f]
BY DEF Write

LEMMA PatchWritten ==
  ASSUME Holds("patch"), kept \in Documents, NEW p, Write(p),
         DOMAIN p \subseteq {"status", "scheduledAt", "installedAt", "result"},
         "status" \in DOMAIN p => p["status"] \in PatchStatus,
         "scheduledAt" \in DOMAIN p => p["scheduledAt"] \in BOOLEAN,
         "installedAt" \in DOMAIN p => p["installedAt"] \in BOOLEAN,
         "result" \in DOMAIN p => p["result"] \in {"installed", "failed"}
  PROVE  /\ kept' \in PatchType /\ kept' \in Documents
         /\ kept'.status = IF "status" \in DOMAIN p THEN p["status"] ELSE kept.status
         /\ kept'.installedAt = IF "installedAt" \in DOMAIN p THEN p["installedAt"] ELSE kept.installedAt
         /\ kept'.result = IF "result" \in DOMAIN p THEN p["result"] ELSE kept.result
<1>1. kept \in PatchType
  BY Kinds
<1>2. kept' = [f \in {"kind", "status", "scheduledAt", "installedAt", "result"} |->
                 IF f \in DOMAIN p THEN p[f] ELSE kept[f]]
  BY <1>1 DEF PatchType, Write
<1>3. kept' \in PatchType
  BY <1>1, <1>2 DEF PatchType
<1> QED BY <1>2, <1>3 DEF Documents

LEMMA ArticleWritten ==
  ASSUME Holds("article"), kept \in Documents, NEW p, Write(p),
         DOMAIN p \subseteq {"visibility", "publishedAt"},
         "visibility" \in DOMAIN p => p["visibility"] \in {"public", "internal"},
         "publishedAt" \in DOMAIN p => p["publishedAt"] \in BOOLEAN
  PROVE  /\ kept' \in ArticleType /\ kept' \in Documents
         /\ kept'.visibility = IF "visibility" \in DOMAIN p THEN p["visibility"] ELSE kept.visibility
         /\ kept'.publishedAt = IF "publishedAt" \in DOMAIN p THEN p["publishedAt"] ELSE kept.publishedAt
<1>1. kept \in ArticleType
  BY Kinds
<1>2. kept' = [f \in {"kind", "visibility", "publishedAt"} |->
                 IF f \in DOMAIN p THEN p[f] ELSE kept[f]]
  BY <1>1 DEF ArticleType, Write
<1>3. kept' \in ArticleType
  BY <1>1, <1>2 DEF ArticleType
<1> QED BY <1>2, <1>3 DEF Documents

LEMMA ApiKeyWritten ==
  ASSUME Holds("apiKey"), kept \in Documents, NEW p, Write(p),
         DOMAIN p \subseteq {"revokedAt", "expiresAt", "lastUsedAt"},
         "revokedAt" \in DOMAIN p => p["revokedAt"] = TRUE,
         "expiresAt" \in DOMAIN p => p["expiresAt"] = "past",
         "lastUsedAt" \in DOMAIN p => p["lastUsedAt"] \in BOOLEAN
  PROVE  /\ kept' \in ApiKeyType /\ kept' \in Documents
         /\ kept'.revokedAt = ("revokedAt" \in DOMAIN p \/ kept.revokedAt)
<1>1. kept \in ApiKeyType
  BY Kinds
<1>2. kept' = [f \in {"kind", "revokedAt", "expiresAt", "lastUsedAt"} |->
                 IF f \in DOMAIN p THEN p[f] ELSE kept[f]]
  BY <1>1 DEF ApiKeyType, Write
<1>3. kept' \in ApiKeyType
  BY <1>1, <1>2 DEF ApiKeyType
<1>4. kept.revokedAt \in BOOLEAN
  BY <1>1 DEF ApiKeyType
<1> QED BY <1>2, <1>3, <1>4 DEF Documents

LEMMA AlertRuleWritten ==
  ASSUME Holds("alertRule"), kept \in Documents, NEW p, Write(p),
         DOMAIN p \subseteq {"targetType", "conditions"},
         "targetType" \in DOMAIN p => p["targetType"] \in TargetTypes,
         "conditions" \in DOMAIN p => p["conditions"] \in SUBSET Conditions
  PROVE  /\ kept' \in AlertRuleType /\ kept' \in Documents
         /\ kept'.targetType = IF "targetType" \in DOMAIN p THEN p["targetType"] ELSE kept.targetType
         /\ kept'.conditions = IF "conditions" \in DOMAIN p THEN p["conditions"] ELSE kept.conditions
<1>1. kept \in AlertRuleType
  BY Kinds
<1>2. kept' = [f \in {"kind", "targetType", "conditions"} |->
                 IF f \in DOMAIN p THEN p[f] ELSE kept[f]]
  BY <1>1 DEF AlertRuleType, Write
<1>3. kept' \in AlertRuleType
  BY <1>1, <1>2 DEF AlertRuleType
<1> QED BY <1>2, <1>3 DEF Documents

-----------------------------------------------------------------------------
(* Records: the steps, kind by kind.                                       *)

LEMMA SaidNothing == ASSUME Seen({}) PROVE mishaps' = mishaps
BY DEF Seen

\* What the invariant says of the hands of a patch.
LEMMA PatchHands ==
  ASSUME RecordsInv, Holds("patch")
  PROVE  /\ kept \in PatchType /\ kept \in Documents
         /\ \A h \in Busy : hands[h].next \in {"SaveInstalling", "Save"} /\ InstallHand(h)
BY Kinds DEF RecordsInv, Hand, Holds

LEMMA PatchInv ==
  ASSUME kept' \in PatchType, kept' \in Documents, hands' = [h \in Handlers |-> hands'[h]],
         mishaps' \subseteq {"overlap", "unpublished", "revoked", "failure"},
         \A h \in Busy' : hands'[h].next \in {"SaveInstalling", "Save"} /\ InstallHand(h)',
         "overlap" \notin mishaps' => \A h, g \in Busy' : h = g,
         PatchesAreTrue'
  PROVE  RecordsInv'
<1>1. kept' # None /\ ~Holds("article")' /\ ~Holds("apiKey")' /\ ~Holds("alertRule")'
  BY RecordsAssumption DEF Holds, PatchType
<1>2. RecordsAgree'
  BY <1>1 DEF RecordsAgree
<1>3. \A h \in Busy' : Hand(h)'
  BY <1>1 DEF Hand
<1>4. Alone'
  BY DEF Alone
<1> QED BY <1>1, <1>2, <1>3, <1>4 DEF RecordsInv

LEMMA PatchAtOnce ==
  ASSUME RecordsInv, approvePatch \/ schedulePatch
  PROVE  RecordsInv'
<1>1. Holds("patch") /\ mishaps' = mishaps /\ hands' = hands
  BY SaidNothing DEF approvePatch, schedulePatch, AtOnce
<1>2. PICK p \in {[status |-> "approved"], [status |-> "scheduled", scheduledAt |-> TRUE]} : Write(p)
  BY DEF approvePatch, schedulePatch, AtOnce
<1>3. /\ DOMAIN p \subseteq {"status", "scheduledAt", "installedAt", "result"}
      /\ "status" \in DOMAIN p /\ p["status"] \in {"approved", "scheduled"}
      /\ "scheduledAt" \in DOMAIN p => p["scheduledAt"] = TRUE
      /\ "installedAt" \notin DOMAIN p /\ "result" \notin DOMAIN p
  OBVIOUS
<1>4. /\ kept' \in PatchType /\ kept' \in Documents
      /\ kept'.status \in {"approved", "scheduled"} /\ kept'.installedAt = kept.installedAt
  BY <1>1, <1>2, <1>3, PatchWritten, PatchHands DEF PatchStatus
<1>5. PatchesAreTrue'
  BY <1>4 DEF PatchesAreTrue
<1>6. \A h \in Busy' : hands'[h].next \in {"SaveInstalling", "Save"} /\ InstallHand(h)'
  <2> SUFFICES ASSUME NEW h \in Busy
               PROVE  hands[h].next \in {"SaveInstalling", "Save"} /\ InstallHand(h)'
    BY <1>1 DEF Busy
  <2>1. hands[h].next \in {"SaveInstalling", "Save"} /\ InstallHand(h)
    BY <1>1, PatchHands
  <2> QED BY <2>1, <1>1, <1>4 DEF InstallHand, Held, Sets
<1>7. "overlap" \notin mishaps' => \A h, g \in Busy' : h = g
  BY <1>1 DEF RecordsInv, Alone, Busy
<1> QED BY <1>1, <1>4, <1>5, <1>6, <1>7, PatchInv DEF RecordsInv

\* A handler that begins or ends, the others staying where they are.
LEMMA BusyNow ==
  ASSUME RecordsInv, NEW h \in Handlers, NEW hand, hands' = [hands EXCEPT ![h] = hand]
  PROVE  /\ hands' = [g \in Handlers |-> hands'[g]] /\ hands'[h] = hand
         /\ Busy' \subseteq Busy \cup {h}
         /\ \A g \in Busy' \ {h} : g \in Busy /\ hands'[g] = hands[g]
         /\ hand = Idle => h \notin Busy'
BY DEF RecordsInv, Busy

LEMMA executePatchInv ==
  ASSUME RecordsInv, NEW h \in Handlers, executePatch(h)
  PROVE  RecordsInv'
<1> DEFINE new == [next |-> "SaveInstalling", dated |-> kept.installedAt,
                   patch |-> IF kept.status = "installing" THEN <<>> ELSE [status |-> "installing"]]
<1>1. /\ Holds("patch") /\ kept' = kept /\ hands[h] = Idle /\ hands' = [hands EXCEPT ![h] = new]
      /\ mishaps' = mishaps \cup Crossing
  BY DEF executePatch, Begin, Seen
<1>2. kept \in PatchType /\ kept \in Documents
  BY <1>1, PatchHands
<1>3. mishaps \subseteq mishaps' /\ mishaps' \subseteq {"overlap", "unpublished", "revoked", "failure"}
  BY <1>1 DEF Crossing, RecordsInv
<1>4. /\ new.next = "SaveInstalling" /\ new.dated = kept.installedAt
      /\ DOMAIN new.patch \subseteq {"status"}
      /\ "status" \in DOMAIN new.patch => new.patch["status"] = "installing"
  OBVIOUS
<1> HIDE DEF new
<1>5. hands'[h] = new
  BY <1>1, BusyNow
<1>6. InstallHand(h)'
  BY <1>1, <1>2, <1>4, <1>5 DEF InstallHand, Sets, Held, PatchType
<1>7. ASSUME NEW g \in Busy', g # h
      PROVE  hands'[g].next \in {"SaveInstalling", "Save"} /\ InstallHand(g)'
  <2>1. g \in Busy /\ hands'[g] = hands[g]
    BY <1>1, <1>7, BusyNow
  <2>2. hands[g].next \in {"SaveInstalling", "Save"} /\ InstallHand(g)
    BY <1>1, <2>1, PatchHands
  <2> QED BY <1>1, <1>3, <2>1, <2>2 DEF InstallHand, Sets, Held
<1>8. "overlap" \notin mishaps' => \A f, g \in Busy' : f = g
  <2>1. "overlap" \notin mishaps' => Busy = {}
    BY <1>1 DEF Crossing
  <2> QED BY <2>1, <1>1, BusyNow
<1>9. PatchesAreTrue'
  <2>1. PatchesAreTrue
    BY DEF RecordsInv, RecordsAgree
  <2>2. \A g \in Handlers : hands[g].next = "Save" => hands'[g].next = "Save"
    BY <1>1, RecordsAssumption DEF Idle, RecordsInv
  <2> QED BY <1>1, <1>3, <2>1, <2>2 DEF PatchesAreTrue, Holds
<1> QED BY <1>1, <1>2, <1>3, <1>4, <1>5, <1>6, <1>7, <1>8, <1>9, BusyNow, PatchInv

\* The outcome of an installation.
LEMMA OutcomeIs ==
  ASSUME NEW success \in BOOLEAN, NEW dated \in BOOLEAN
  PROVE  LET p == Outcome(success, dated) IN
         /\ {"status", "result"} \subseteq DOMAIN p
         /\ DOMAIN p \subseteq {"status", "result", "installedAt"}
         /\ p["status"] = IF success THEN "installed" ELSE "failed"
         /\ p["result"] = p["status"]
         /\ success => "installedAt" \in DOMAIN p /\ p["installedAt"] = TRUE
         /\ ~success => /\ "installedAt" \in DOMAIN p <=> dated
                        /\ dated => p["installedAt"] = FALSE
<1> DEFINE a == [status |-> IF success THEN "installed" ELSE "failed",
                 result |-> IF success THEN "installed" ELSE "failed"]
           b == IF success THEN [installedAt |-> TRUE]
                ELSE IF dated THEN [installedAt |-> FALSE] ELSE <<>>
<1>1. /\ DOMAIN a = {"status", "result"}
      /\ a["status"] = IF success THEN "installed" ELSE "failed"
      /\ a["result"] = IF success THEN "installed" ELSE "failed"
  OBVIOUS
<1>2. /\ success => DOMAIN b = {"installedAt"} /\ b["installedAt"] = TRUE
      /\ ~success /\ dated => DOMAIN b = {"installedAt"} /\ b["installedAt"] = FALSE
      /\ ~success /\ ~dated => DOMAIN b = {}
  OBVIOUS
<1>3. Outcome(success, dated) = Both(a, b)
  BY DEF Outcome
<1> HIDE DEF a, b
<1> DEFINE p == Both(a, b)
<1>4. /\ DOMAIN p = DOMAIN a \cup DOMAIN b
      /\ \A f \in DOMAIN a : p[f] = a[f]
      /\ \A f \in DOMAIN b \ DOMAIN a : p[f] = b[f]
  BY BothOf
<1> HIDE DEF p
<1>5. DOMAIN p \subseteq {"status", "result", "installedAt"} /\ {"status", "result"} \subseteq DOMAIN p
  BY <1>1, <1>2, <1>4
<1>6. p["status"] = a["status"] /\ p["result"] = a["result"]
  BY <1>1, <1>4
<1>7. success => "installedAt" \in DOMAIN p /\ p["installedAt"] = TRUE
  BY <1>1, <1>2, <1>4
<1>8. ~success => ("installedAt" \in DOMAIN p <=> dated) /\ (dated => p["installedAt"] = FALSE)
  BY <1>1, <1>2, <1>4
<1> QED BY <1>1, <1>3, <1>5, <1>6, <1>7, <1>8 DEF p

LEMMA SaveInstallingInv ==
  ASSUME RecordsInv, Holds("patch"), NEW h \in Handlers, SaveInstalling(h)
  PROVE  RecordsInv'
<1>1. PICK success \in BOOLEAN :
        hands' = [hands EXCEPT ![h] = Going("Save", Outcome(success, hands[h].dated))]
  BY DEF SaveInstalling
<1> DEFINE new == Going("Save", Outcome(success, hands[h].dated))
           p   == hands[h].patch
<1>2. hands[h].next = "SaveInstalling" /\ Write(p) /\ mishaps' = mishaps
  BY SaidNothing DEF SaveInstalling
<1>3. h \in Busy
  BY <1>2, RecordsAssumption DEF Busy, Idle
<1>4. /\ DOMAIN p \subseteq {"status"}
      /\ "status" \in DOMAIN p => p["status"] = "installing"
      /\ hands[h].dated \in BOOLEAN
      /\ "overlap" \notin mishaps => hands[h].dated = kept.installedAt
  BY <1>2, <1>3, PatchHands DEF InstallHand, Sets
<1> HIDE DEF p
<1>5. /\ kept' \in PatchType /\ kept' \in Documents /\ kept'.installedAt = kept.installedAt
      /\ kept'.result = kept.result /\ kept'.status \in {kept.status, "installing"}
  <2>1. kept \in Documents /\ Write(p)
    BY <1>2, PatchHands
  <2>2. /\ DOMAIN p \subseteq {"status", "scheduledAt", "installedAt", "result"}
        /\ "status" \in DOMAIN p => p["status"] \in PatchStatus
        /\ "scheduledAt" \notin DOMAIN p /\ "installedAt" \notin DOMAIN p /\ "result" \notin DOMAIN p
    BY <1>4 DEF PatchStatus
  <2> QED BY <1>4, <2>1, <2>2, PatchWritten
<1>6. new.next = "Save" /\ new.patch = Outcome(success, hands[h].dated)
  BY DEF Going
<1>7. hands'[h] = new
  BY <1>1, BusyNow
<1> DEFINE q == new.patch
<1>8. /\ {"status", "result"} \subseteq DOMAIN q
      /\ DOMAIN q \subseteq {"status", "result", "installedAt"}
      /\ q["status"] \in {"installed", "failed"} /\ q["result"] = q["status"]
      /\ "installedAt" \in DOMAIN q => q["installedAt"] \in BOOLEAN
      /\ q["status"] = "installed" => "installedAt" \in DOMAIN q /\ q["installedAt"] = TRUE
      /\ q["status"] = "failed" => /\ "installedAt" \in DOMAIN q <=> hands[h].dated
                                   /\ hands[h].dated => q["installedAt"] = FALSE
  <2> DEFINE o == Outcome(success, hands[h].dated)
  <2>1. /\ {"status", "result"} \subseteq DOMAIN o
        /\ DOMAIN o \subseteq {"status", "result", "installedAt"}
        /\ o["status"] = IF success THEN "installed" ELSE "failed"
        /\ o["result"] = o["status"]
        /\ success => "installedAt" \in DOMAIN o /\ o["installedAt"] = TRUE
        /\ ~success => /\ "installedAt" \in DOMAIN o <=> hands[h].dated
                       /\ hands[h].dated => o["installedAt"] = FALSE
    BY <1>4, OutcomeIs
  <2>2. q = o
    BY <1>6
  <2> HIDE DEF o, q
  <2> QED BY <2>1, <2>2
<1> HIDE DEF new, q
<1>9. InstallHand(h)'
  <2>1. hands'[h].next = "Save" /\ hands'[h].patch = q
    BY <1>6, <1>7 DEF q
  <2>2. kept'.installedAt = kept.installedAt
    BY <1>5
  <2> QED BY <2>1, <2>2, <1>2, <1>4, <1>8 DEF InstallHand, Sets, Held
<1>10. ASSUME NEW g \in Busy', g # h
       PROVE  hands'[g].next \in {"SaveInstalling", "Save"} /\ InstallHand(g)'
  <2>1. g \in Busy /\ hands'[g] = hands[g]
    BY <1>1, <1>10, BusyNow
  <2>2. hands[g].next \in {"SaveInstalling", "Save"} /\ InstallHand(g)
    BY <2>1, PatchHands
  <2> QED BY <1>2, <1>5, <2>1, <2>2 DEF InstallHand, Sets, Held
<1>11. "overlap" \notin mishaps' => \A f, g \in Busy' : f = g
  <2>1. Busy' \subseteq Busy
    BY <1>1, <1>3, BusyNow
  <2>2. "overlap" \notin mishaps => \A f, g \in Busy : f = g
    BY DEF RecordsInv, Alone
  <2> QED BY <1>2, <2>1, <2>2
<1>12. PatchesAreTrue'
  <2>1. PatchesAreTrue
    BY DEF RecordsInv, RecordsAgree
  <2>2. hands'[h].next = "Save"
    BY <1>6, <1>7
  <2> QED BY <1>2, <1>5, <2>1, <2>2 DEF PatchesAreTrue
<1>13. \A g \in Busy' : hands'[g].next \in {"SaveInstalling", "Save"} /\ InstallHand(g)'
  BY <1>6, <1>7, <1>9, <1>10
<1>14. hands' = [g \in Handlers |-> hands'[g]]
  BY <1>1, BusyNow
<1> QED BY <1>2, <1>5, <1>11, <1>12, <1>13, <1>14, PatchInv DEF RecordsInv

LEMMA SaveOutcomeInv ==
  ASSUME RecordsInv, Holds("patch"), NEW h \in Handlers, Save(h)
  PROVE  RecordsInv'
<1> DEFINE p == hands[h].patch
<1>1. /\ hands[h].next = "Save" /\ Write(p) /\ hands' = [hands EXCEPT ![h] = Idle]
      /\ mishaps' = mishaps
  BY SaidNothing DEF Save
<1>2. h \in Busy
  BY <1>1, RecordsAssumption DEF Busy, Idle
<1>3. InstallHand(h)
  BY <1>2, PatchHands
<1>4. /\ {"status", "result"} \subseteq DOMAIN p
      /\ DOMAIN p \subseteq {"status", "result", "installedAt"}
      /\ p["status"] \in {"installed", "failed"} /\ p["result"] = p["status"]
      /\ "installedAt" \in DOMAIN p => p["installedAt"] \in BOOLEAN
      /\ p["status"] = "installed" => "installedAt" \in DOMAIN p /\ p["installedAt"]
      /\ p["status"] = "failed" /\ "overlap" \notin mishaps =>
           ~(IF "installedAt" \in DOMAIN p THEN p["installedAt"] ELSE kept.installedAt)
  BY <1>1, <1>3 DEF InstallHand, Sets, Held
<1>5. /\ kept' \in PatchType /\ kept' \in Documents
      /\ kept'.status = p["status"] /\ kept'.result = p["result"]
      /\ kept'.installedAt = IF "installedAt" \in DOMAIN p THEN p["installedAt"] ELSE kept.installedAt
  BY <1>1, <1>4, PatchWritten, PatchHands DEF PatchStatus
<1> HIDE DEF p
<1>6. PatchesAreTrue'
  BY <1>1, <1>4, <1>5 DEF PatchesAreTrue
<1>7. \A g \in Busy' : g \in Busy /\ g # h /\ hands'[g] = hands[g]
  BY <1>1, <1>2, BusyNow
<1>8. ASSUME NEW g \in Busy'
      PROVE  hands'[g].next \in {"SaveInstalling", "Save"} /\ InstallHand(g)'
  <2>1. g \in Busy /\ g # h /\ hands'[g] = hands[g]
    BY <1>7
  <2>2. hands[g].next \in {"SaveInstalling", "Save"} /\ InstallHand(g)
    BY <2>1, PatchHands
  <2>3. "overlap" \in mishaps
    BY <1>2, <2>1 DEF RecordsInv, Alone
  <2> QED BY <1>1, <2>1, <2>2, <2>3 DEF InstallHand, Sets, Held
<1>9. "overlap" \notin mishaps' => \A f, g \in Busy' : f = g
  BY <1>1, <1>7 DEF RecordsInv, Alone
<1>10. hands' = [g \in Handlers |-> hands'[g]]
  BY <1>1, BusyNow
<1> QED BY <1>1, <1>5, <1>6, <1>8, <1>9, <1>10, PatchInv DEF RecordsInv

\* An article.
LEMMA ArticleInv ==
  ASSUME kept' \in ArticleType, kept' \in Documents, hands' = [h \in Handlers |-> hands'[h]],
         mishaps' \subseteq {"overlap", "unpublished", "revoked", "failure"},
         \A h \in Busy' : EditHand(h)',
         kept'.visibility = "public" /\ "unpublished" \notin mishaps' => kept'.publishedAt
  PROVE  RecordsInv'
<1>1. kept' # None /\ ~Holds("patch")' /\ ~Holds("apiKey")' /\ ~Holds("alertRule")'
  BY RecordsAssumption DEF Holds, ArticleType
<1>2. RecordsAgree'
  BY <1>1 DEF RecordsAgree, PatchesAreTrue
<1>3. \A h \in Busy' : Hand(h)'
  BY <1>1 DEF Hand, EditHand
<1>4. Alone'
  BY <1>1 DEF Alone
<1> QED BY <1>1, <1>2, <1>3, <1>4 DEF RecordsInv

LEMMA ArticleHands ==
  ASSUME RecordsInv, Holds("article")
  PROVE  /\ kept \in ArticleType /\ kept \in Documents
         /\ \A h \in Busy : EditHand(h)
         /\ kept.visibility = "public" /\ "unpublished" \notin mishaps => kept.publishedAt
BY Kinds DEF RecordsInv, Hand, Holds, RecordsAgree

LEMMA updateArticleInv ==
  ASSUME RecordsInv, NEW h \in Handlers, updateArticle(h)
  PROVE  RecordsInv'
<1>1. Holds("article") /\ hands[h] = Idle /\ kept' = kept
  BY DEF updateArticle, Begin
<1>2. PICK v \in {"public", "internal"}, x \in {None, FALSE, TRUE} :
        /\ Begin(h, Going("Save", Both([visibility |-> v],
             IF x # None THEN [publishedAt |-> x]
             ELSE IF v = "public" /\ ~kept.publishedAt THEN [publishedAt |-> TRUE] ELSE <<>>)))
        /\ Seen(IF x = FALSE THEN {"unpublished"} ELSE {})
  BY DEF updateArticle
<1> DEFINE a == [visibility |-> v]
           b == IF x # None THEN [publishedAt |-> x]
                ELSE IF v = "public" /\ ~kept.publishedAt THEN [publishedAt |-> TRUE] ELSE <<>>
           p == Both(a, b)
<1>3. hands' = [hands EXCEPT ![h] = Going("Save", p)]
  BY <1>2 DEF Begin
<1>4. DOMAIN a = {"visibility"} /\ a["visibility"] = v
  OBVIOUS
<1>5. kept \in ArticleType
  BY <1>1, ArticleHands
<1>6. /\ DOMAIN b \subseteq {"publishedAt"}
      /\ "publishedAt" \in DOMAIN b => b["publishedAt"] \in BOOLEAN /\ (x # FALSE => b["publishedAt"] = TRUE)
      /\ x # FALSE /\ v = "public" => "publishedAt" \in DOMAIN b \/ kept.publishedAt
  <2>1. CASE x # None
    <3>1. DOMAIN b = {"publishedAt"} /\ b["publishedAt"] = x
      BY <2>1
    <3> QED BY <2>1, <3>1
  <2>2. CASE x = None /\ v = "public" /\ ~kept.publishedAt
    <3>1. DOMAIN b = {"publishedAt"} /\ b["publishedAt"] = TRUE
      BY <2>2
    <3> QED BY <2>2, <3>1
  <2>3. CASE x = None /\ ~(v = "public" /\ ~kept.publishedAt)
    <3>1. DOMAIN b = {}
      BY <2>3
    <3> QED BY <2>3, <3>1
  <2> QED BY <2>1, <2>2, <2>3
<1> HIDE DEF a, b
<1>7. /\ DOMAIN p = DOMAIN a \cup DOMAIN b
      /\ \A f \in DOMAIN a : p[f] = a[f]
      /\ \A f \in DOMAIN b \ DOMAIN a : p[f] = b[f]
  BY BothOf
<1> HIDE DEF p
<1>8. hands'[h].next = "Save" /\ hands'[h].patch = p
  BY <1>3, BusyNow DEF Going
<1>9. /\ mishaps' = IF x = FALSE THEN mishaps \cup {"unpublished"} ELSE mishaps
      /\ mishaps' \subseteq {"overlap", "unpublished", "revoked", "failure"}
  BY <1>2 DEF Seen, RecordsInv
<1>10. EditHand(h)'
  <2>1. /\ DOMAIN p \subseteq {"visibility", "publishedAt"}
        /\ "visibility" \in DOMAIN p /\ p["visibility"] = v
        /\ "publishedAt" \in DOMAIN p <=> "publishedAt" \in DOMAIN b
        /\ "publishedAt" \in DOMAIN p => p["publishedAt"] = b["publishedAt"]
    BY <1>4, <1>6, <1>7
  <2> QED BY <2>1, <1>1, <1>6, <1>8, <1>9 DEF EditHand, Sets, Held
<1>11. ASSUME NEW g \in Busy', g # h PROVE EditHand(g)'
  <2>1. g \in Busy /\ hands'[g] = hands[g]
    BY <1>3, <1>11, BusyNow
  <2>2. EditHand(g)
    BY <1>1, <2>1, ArticleHands
  <2> QED BY <1>1, <1>9, <2>1, <2>2 DEF EditHand, Sets, Held
<1>12. hands' = [g \in Handlers |-> hands'[g]]
  BY <1>3, BusyNow
<1>13. kept'.visibility = "public" /\ "unpublished" \notin mishaps' => kept'.publishedAt
  BY <1>1, <1>9, ArticleHands
<1>14. kept' \in ArticleType /\ kept' \in Documents
  BY <1>1, ArticleHands
<1> QED BY <1>9, <1>10, <1>11, <1>12, <1>13, <1>14, ArticleInv

LEMMA SaveArticleInv ==
  ASSUME RecordsInv, Holds("article"), NEW h \in Handlers, Save(h)
  PROVE  RecordsInv'
<1> DEFINE p == hands[h].patch
<1>1. /\ hands[h].next = "Save" /\ Write(p) /\ hands' = [hands EXCEPT ![h] = Idle]
      /\ mishaps' = mishaps
  BY SaidNothing DEF Save
<1>2. h \in Busy
  BY <1>1, RecordsAssumption DEF Busy, Idle
<1>3. EditHand(h)
  BY <1>2, ArticleHands
<1>4. /\ DOMAIN p \subseteq {"visibility", "publishedAt"}
      /\ "visibility" \in DOMAIN p => p["visibility"] \in {"public", "internal"}
      /\ "publishedAt" \in DOMAIN p => p["publishedAt"] \in BOOLEAN
  BY <1>3 DEF EditHand, Sets
<1>5. "unpublished" \notin mishaps =>
        /\ "publishedAt" \in DOMAIN p => p["publishedAt"] = TRUE
        /\ (IF "visibility" \in DOMAIN p THEN p["visibility"] ELSE kept.visibility) = "public"
             => IF "publishedAt" \in DOMAIN p THEN p["publishedAt"] ELSE kept.publishedAt
  BY <1>3 DEF EditHand, Sets, Held
<1> HIDE DEF p
<1>6. /\ kept' \in ArticleType /\ kept' \in Documents
      /\ kept'.visibility = IF "visibility" \in DOMAIN p THEN p["visibility"] ELSE kept.visibility
      /\ kept'.publishedAt = IF "publishedAt" \in DOMAIN p THEN p["publishedAt"] ELSE kept.publishedAt
  <2>1. kept \in Documents
    BY ArticleHands
  <2> QED BY <1>1, <1>4, <2>1, ArticleWritten
<1>7. kept'.visibility = "public" /\ "unpublished" \notin mishaps' => kept'.publishedAt
  BY <1>1, <1>5, <1>6
<1>8. ASSUME NEW g \in Busy' PROVE EditHand(g)'
  <2>1. g \in Busy /\ hands'[g] = hands[g]
    BY <1>1, <1>2, BusyNow
  <2>2. EditHand(g)
    BY <2>1, ArticleHands
  <2>3. kept \in ArticleType
    BY ArticleHands
  <2>4. "unpublished" \notin mishaps' /\ Held(g, "visibility")' = "public" => Held(g, "publishedAt")'
    <3>1. CASE "visibility" \in DOMAIN hands[g].patch
      <4>1. "unpublished" \notin mishaps /\ kept.publishedAt => kept'.publishedAt
        BY <1>5, <1>6
      <4> QED BY <3>1, <4>1, <1>1, <2>1, <2>2 DEF EditHand, Sets, Held
    <3>2. CASE "visibility" \notin DOMAIN hands[g].patch
      BY <3>2, <1>1, <1>7, <2>1, <2>2 DEF EditHand, Sets, Held
    <3> QED BY <3>1, <3>2
  <2> QED BY <1>1, <2>1, <2>2, <2>4 DEF EditHand, Sets
<1>9. hands' = [g \in Handlers |-> hands'[g]]
  BY <1>1, BusyNow
<1> QED BY <1>1, <1>6, <1>7, <1>8, <1>9, ArticleInv DEF RecordsInv

\* An API key.
LEMMA ApiKeyInv ==
  ASSUME kept' \in ApiKeyType, kept' \in Documents, hands' = [h \in Handlers |-> hands'[h]],
         mishaps' \subseteq {"overlap", "unpublished", "revoked", "failure"},
         \A h \in Busy' : UseHand(h)',
         "revoked" \in mishaps' => kept'.revokedAt
  PROVE  RecordsInv'
<1>1. kept' # None /\ ~Holds("patch")' /\ ~Holds("article")' /\ ~Holds("alertRule")'
  BY RecordsAssumption DEF Holds, ApiKeyType
<1>2. RecordsAgree'
  BY <1>1 DEF RecordsAgree, PatchesAreTrue
<1>3. \A h \in Busy' : Hand(h)'
  BY <1>1 DEF Hand, UseHand
<1>4. Alone'
  BY <1>1 DEF Alone
<1> QED BY <1>1, <1>2, <1>3, <1>4 DEF RecordsInv

LEMMA ApiKeyHands ==
  ASSUME RecordsInv, Holds("apiKey")
  PROVE  /\ kept \in ApiKeyType /\ kept \in Documents
         /\ \A h \in Busy : UseHand(h)
         /\ "revoked" \in mishaps => kept.revokedAt
BY Kinds DEF RecordsInv, Hand, Holds, RecordsAgree

LEMMA KeyAtOnce ==
  ASSUME RecordsInv, revoke \/ KeyExpires
  PROVE  RecordsInv'
<1>1. Holds("apiKey") /\ hands' = hands
  BY DEF revoke, KeyExpires, AtOnce
<1>2. PICK p \in {[revokedAt |-> TRUE], [expiresAt |-> "past"]} :
        Write(p) /\ mishaps' = IF p = [revokedAt |-> TRUE] THEN mishaps \cup {"revoked"} ELSE mishaps
  <2>1. CASE revoke
    BY <2>1 DEF revoke, AtOnce, Seen
  <2>2. CASE KeyExpires
    <3>1. DOMAIN [expiresAt |-> "past"] # DOMAIN [revokedAt |-> TRUE]
      OBVIOUS
    <3> QED BY <2>2, <3>1, SaidNothing DEF KeyExpires, AtOnce
  <2> QED BY <2>1, <2>2
<1>3. /\ DOMAIN p \subseteq {"revokedAt", "expiresAt", "lastUsedAt"}
      /\ "revokedAt" \in DOMAIN p => p["revokedAt"] = TRUE
      /\ "expiresAt" \in DOMAIN p => p["expiresAt"] = "past"
      /\ "lastUsedAt" \notin DOMAIN p
      /\ p = [revokedAt |-> TRUE] => "revokedAt" \in DOMAIN p
  BY <1>2
<1>4. kept \in Documents /\ kept \in ApiKeyType /\ ("revoked" \in mishaps => kept.revokedAt)
  BY <1>1, ApiKeyHands
<1>5. /\ kept' \in ApiKeyType /\ kept' \in Documents
      /\ kept'.revokedAt = ("revokedAt" \in DOMAIN p \/ kept.revokedAt)
  BY <1>1, <1>2, <1>3, <1>4, ApiKeyWritten
<1>6. "revoked" \in mishaps' => kept'.revokedAt
  BY <1>2, <1>3, <1>4, <1>5
<1>7. mishaps' \subseteq {"overlap", "unpublished", "revoked", "failure"}
  BY <1>2 DEF RecordsInv
<1>8. \A h \in Busy' : UseHand(h)'
  <2>1. \A h \in Busy : UseHand(h)
    BY <1>1, ApiKeyHands
  <2> QED BY <1>1, <2>1 DEF Busy, UseHand, Sets
<1> QED BY <1>1, <1>5, <1>6, <1>7, <1>8, ApiKeyInv DEF RecordsInv

LEMMA authenticateInv ==
  ASSUME RecordsInv, NEW h \in Handlers, authenticate(h)
  PROVE  RecordsInv'
<1>1. /\ Holds("apiKey") /\ hands' = [hands EXCEPT ![h] = Going("Save", [lastUsedAt |-> TRUE])]
      /\ kept' = kept /\ mishaps' = mishaps
  BY SaidNothing DEF authenticate, Begin
<1>2. \A g \in Busy' : UseHand(g)'
  <2>1. UseHand(h)'
    BY <1>1, BusyNow DEF UseHand, Sets, Going
  <2>2. \A g \in Busy' \ {h} : g \in Busy /\ hands'[g] = hands[g]
    BY <1>1, BusyNow
  <2>3. \A g \in Busy : UseHand(g)
    BY <1>1, ApiKeyHands
  <2> QED BY <2>1, <2>2, <2>3 DEF UseHand, Sets
<1>3. hands' = [g \in Handlers |-> hands'[g]]
  BY <1>1, BusyNow
<1> QED BY <1>1, <1>2, <1>3, ApiKeyHands, ApiKeyInv DEF RecordsInv

LEMMA SaveKeyInv ==
  ASSUME RecordsInv, Holds("apiKey"), NEW h \in Handlers, Save(h)
  PROVE  RecordsInv'
<1> DEFINE p == hands[h].patch
<1>1. /\ hands[h].next = "Save" /\ Write(p) /\ hands' = [hands EXCEPT ![h] = Idle]
      /\ mishaps' = mishaps
  BY SaidNothing DEF Save
<1>2. h \in Busy
  BY <1>1, RecordsAssumption DEF Busy, Idle
<1>3. UseHand(h)
  BY <1>2, ApiKeyHands
<1>4. /\ DOMAIN p \subseteq {"lastUsedAt"}
      /\ "lastUsedAt" \in DOMAIN p => p["lastUsedAt"] \in BOOLEAN
  BY <1>3 DEF UseHand, Sets
<1> HIDE DEF p
<1>5. kept' \in ApiKeyType /\ kept' \in Documents /\ kept'.revokedAt = kept.revokedAt
  <2>1. kept \in Documents /\ kept \in ApiKeyType
    BY ApiKeyHands
  <2>2. /\ kept' \in ApiKeyType /\ kept' \in Documents
        /\ kept'.revokedAt = ("revokedAt" \in DOMAIN p \/ kept.revokedAt)
    BY <1>1, <1>4, <2>1, ApiKeyWritten
  <2>3. kept.revokedAt \in BOOLEAN
    BY <2>1 DEF ApiKeyType
  <2> QED BY <1>4, <2>2, <2>3
<1>6. \A g \in Busy' : UseHand(g)'
  <2>1. \A g \in Busy' : g \in Busy /\ hands'[g] = hands[g]
    BY <1>1, <1>2, BusyNow
  <2> QED BY <2>1, ApiKeyHands DEF UseHand, Sets
<1>7. hands' = [g \in Handlers |-> hands'[g]]
  BY <1>1, BusyNow
<1> QED BY <1>1, <1>5, <1>6, <1>7, ApiKeyHands, ApiKeyInv DEF RecordsInv

\* An alert rule.
LEMMA AlertRuleInv ==
  ASSUME kept' \in AlertRuleType, kept' \in Documents, hands' = [h \in Handlers |-> hands'[h]],
         mishaps' \subseteq {"overlap", "unpublished", "revoked", "failure"},
         \A h \in Busy' : RuleHand(h)',
         "overlap" \notin mishaps' => \A h, g \in Busy' : h = g,
         "overlap" \notin mishaps' => ensureRuleConditions(kept'.targetType, kept'.conditions)
  PROVE  RecordsInv'
<1>1. kept' # None /\ ~Holds("patch")' /\ ~Holds("article")' /\ ~Holds("apiKey")'
  BY RecordsAssumption DEF Holds, AlertRuleType
<1>2. RecordsAgree'
  BY <1>1 DEF RecordsAgree, PatchesAreTrue
<1>3. \A h \in Busy' : Hand(h)'
  BY <1>1 DEF Hand, RuleHand
<1>4. Alone'
  BY DEF Alone
<1> QED BY <1>1, <1>2, <1>3, <1>4 DEF RecordsInv

LEMMA AlertRuleHands ==
  ASSUME RecordsInv, Holds("alertRule")
  PROVE  /\ kept \in AlertRuleType /\ kept \in Documents
         /\ \A h \in Busy : RuleHand(h)
         /\ "overlap" \notin mishaps =>
              /\ \A h, g \in Busy : h = g
              /\ ensureRuleConditions(kept.targetType, kept.conditions)
BY Kinds DEF RecordsInv, Hand, Holds, RecordsAgree, Alone

LEMMA updateRuleInv ==
  ASSUME RecordsInv, NEW h \in Handlers, updateRule(h)
  PROVE  RecordsInv'
<1>1. Holds("alertRule") /\ mishaps' = mishaps \cup Crossing
  BY DEF updateRule, Seen
<1>2. kept \in AlertRuleType
  BY <1>1, AlertRuleHands
<1>3. PICK t \in TargetTypes \cup {None}, c \in (SUBSET Conditions) \cup {None} :
        LET type == IF t = None THEN kept.targetType ELSE t
            cond == IF c = None THEN kept.conditions ELSE kept.conditions \cup c
        IN /\ ensureRuleConditions(type, cond)
           /\ Begin(h, Going("Save", Both(IF t = None THEN <<>> ELSE [targetType |-> t],
                                          IF c = None THEN <<>> ELSE [conditions |-> cond])))
  BY DEF updateRule
<1> DEFINE type == IF t = None THEN kept.targetType ELSE t
           cond == IF c = None THEN kept.conditions ELSE kept.conditions \cup c
           a == IF t = None THEN <<>> ELSE [targetType |-> t]
           b == IF c = None THEN <<>> ELSE [conditions |-> cond]
           p == Both(a, b)
<1>4. /\ ensureRuleConditions(type, cond) /\ kept' = kept
      /\ hands[h] = Idle /\ hands' = [hands EXCEPT ![h] = Going("Save", p)]
  BY <1>3 DEF Begin
<1>5. type \in TargetTypes /\ cond \in SUBSET Conditions
  BY <1>2 DEF AlertRuleType
<1>6. /\ DOMAIN a \subseteq {"targetType"} /\ DOMAIN b \subseteq {"conditions"}
      /\ "targetType" \in DOMAIN a => a["targetType"] = type
      /\ "targetType" \notin DOMAIN a => type = kept.targetType
      /\ "conditions" \in DOMAIN b => b["conditions"] = cond
      /\ "conditions" \notin DOMAIN b => cond = kept.conditions
  <2>1. /\ t = None => DOMAIN a = {} /\ type = kept.targetType
        /\ t # None => DOMAIN a = {"targetType"} /\ a["targetType"] = type
    OBVIOUS
  <2>2. /\ c = None => DOMAIN b = {} /\ cond = kept.conditions
        /\ c # None => DOMAIN b = {"conditions"} /\ b["conditions"] = cond
    <3> HIDE DEF cond
    <3>1. CASE c = None
      BY <3>1 DEF cond
    <3>2. CASE c # None
      BY <3>2
    <3> QED BY <3>1, <3>2
  <2> HIDE DEF type, cond, a, b
  <2> QED BY <2>1, <2>2
<1> HIDE DEF type, cond, a, b
<1>7. /\ DOMAIN p = DOMAIN a \cup DOMAIN b
      /\ \A f \in DOMAIN a : p[f] = a[f]
      /\ \A f \in DOMAIN b \ DOMAIN a : p[f] = b[f]
  BY BothOf
<1> HIDE DEF p
<1>8. hands'[h].next = "Save" /\ hands'[h].patch = p
  BY <1>4, BusyNow DEF Going
<1>9. RuleHand(h)'
  <2>1. /\ DOMAIN p \subseteq {"targetType", "conditions"}
        /\ (IF "targetType" \in DOMAIN p THEN p["targetType"] ELSE kept.targetType) = type
        /\ (IF "conditions" \in DOMAIN p THEN p["conditions"] ELSE kept.conditions) = cond
    BY <1>6, <1>7
  <2> QED BY <2>1, <1>4, <1>5, <1>8 DEF RuleHand, Sets, Held
<1>10. ASSUME NEW g \in Busy', g # h PROVE RuleHand(g)'
  <2>1. g \in Busy /\ hands'[g] = hands[g]
    BY <1>4, <1>10, BusyNow
  <2>2. RuleHand(g)
    BY <1>1, <2>1, AlertRuleHands
  <2> QED BY <1>1, <1>4, <2>1, <2>2 DEF RuleHand, Sets, Held
<1>11. "overlap" \notin mishaps' => \A f, g \in Busy' : f = g
  <2>1. "overlap" \notin mishaps' => Busy = {}
    BY <1>1 DEF Crossing
  <2> QED BY <2>1, <1>4, BusyNow
<1>12. mishaps' \subseteq {"overlap", "unpublished", "revoked", "failure"}
  BY <1>1 DEF Crossing, RecordsInv
<1>13. "overlap" \notin mishaps' => ensureRuleConditions(kept'.targetType, kept'.conditions)
  BY <1>1, <1>4, AlertRuleHands
<1>14. /\ hands' = [g \in Handlers |-> hands'[g]]
       /\ kept' \in AlertRuleType /\ kept' \in Documents
  BY <1>1, <1>4, BusyNow, AlertRuleHands
<1> QED BY <1>9, <1>10, <1>11, <1>12, <1>13, <1>14, AlertRuleInv

LEMMA SaveRuleInv ==
  ASSUME RecordsInv, Holds("alertRule"), NEW h \in Handlers, Save(h)
  PROVE  RecordsInv'
<1> DEFINE p == hands[h].patch
<1>1. /\ hands[h].next = "Save" /\ Write(p) /\ hands' = [hands EXCEPT ![h] = Idle]
      /\ mishaps' = mishaps
  BY SaidNothing DEF Save
<1>2. h \in Busy
  BY <1>1, RecordsAssumption DEF Busy, Idle
<1>3. RuleHand(h)
  BY <1>2, AlertRuleHands
<1>4. /\ DOMAIN p \subseteq {"targetType", "conditions"}
      /\ "targetType" \in DOMAIN p => p["targetType"] \in TargetTypes
      /\ "conditions" \in DOMAIN p => p["conditions"] \in SUBSET Conditions
      /\ "overlap" \notin mishaps => ensureRuleConditions(
           IF "targetType" \in DOMAIN p THEN p["targetType"] ELSE kept.targetType,
           IF "conditions" \in DOMAIN p THEN p["conditions"] ELSE kept.conditions)
  BY <1>3 DEF RuleHand, Sets, Held
<1> HIDE DEF p
<1>5. /\ kept' \in AlertRuleType /\ kept' \in Documents
      /\ kept'.targetType = IF "targetType" \in DOMAIN p THEN p["targetType"] ELSE kept.targetType
      /\ kept'.conditions = IF "conditions" \in DOMAIN p THEN p["conditions"] ELSE kept.conditions
  <2>1. kept \in Documents
    BY AlertRuleHands
  <2> QED BY <1>1, <1>4, <2>1, AlertRuleWritten
<1>6. "overlap" \notin mishaps' => ensureRuleConditions(kept'.targetType, kept'.conditions)
  BY <1>1, <1>4, <1>5
<1>7. \A g \in Busy' : g \in Busy /\ g # h /\ hands'[g] = hands[g]
  BY <1>1, <1>2, BusyNow
<1>8. ASSUME NEW g \in Busy' PROVE RuleHand(g)'
  <2>1. g \in Busy /\ g # h /\ hands'[g] = hands[g]
    BY <1>7
  <2>2. RuleHand(g)
    BY <2>1, AlertRuleHands
  <2>3. "overlap" \in mishaps
    BY <1>2, <2>1, AlertRuleHands
  <2> QED BY <1>1, <2>1, <2>2, <2>3 DEF RuleHand, Sets
<1>9. "overlap" \notin mishaps' => \A f, g \in Busy' : f = g
  BY <1>1, <1>7, AlertRuleHands
<1>10. hands' = [g \in Handlers |-> hands'[g]]
  BY <1>1, BusyNow
<1> QED BY <1>1, <1>5, <1>6, <1>8, <1>9, <1>10, AlertRuleInv DEF RecordsInv

\* What is said of a handler stays true where nothing happens to it.
LEMMA HandStays ==
  ASSUME kept' = kept, mishaps \subseteq mishaps', NEW h, hands'[h] = hands[h], Hand(h)
  PROVE  Hand(h)'
<1>1. /\ hands'[h].next \in {"SaveInstalling", "Save"}
      /\ \A k \in {"patch", "article", "apiKey", "alertRule"} : Holds(k)' <=> Holds(k)
  BY DEF Hand, Holds
<1>2. InstallHand(h) => InstallHand(h)'
  BY DEF InstallHand, Sets, Held
<1>3. EditHand(h) => EditHand(h)'
  BY DEF EditHand, Sets, Held
<1>4. UseHand(h) => UseHand(h)'
  BY DEF UseHand, Sets, Held
<1>5. RuleHand(h) => RuleHand(h)'
  BY DEF RuleHand, Sets, Held
<1> QED BY <1>1, <1>2, <1>3, <1>4, <1>5 DEF Hand

\* Handlers that give up.
LEMMA GivingUpInv ==
  ASSUME RecordsInv, Busy # {}, UNCHANGED kept, mishaps' = mishaps \cup {"failure"},
         hands' = [h \in Handlers |-> hands'[h]],
         \A h \in Handlers : hands'[h] \in {hands[h], Idle}
  PROVE  RecordsInv'
<1>1. \A h \in Busy' : h \in Busy /\ hands'[h] = hands[h]
  BY DEF Busy
<1>2. kept' = kept /\ kept \in Documents
  BY DEF RecordsInv
<1>3. \A h \in Busy' : Hand(h)'
  BY <1>1, <1>2, HandStays DEF RecordsInv
<1>4. Alone'
  BY <1>1, <1>2 DEF RecordsInv, Alone, Holds
<1>5. RecordsAgree'
  BY <1>2 DEF RecordsInv, RecordsAgree, PatchesAreTrue, Holds
<1>6. kept' # None
  BY <1>2, RecordsAssumption
<1> QED BY <1>2, <1>3, <1>4, <1>5, <1>6 DEF RecordsInv

LEMMA CreateRecordInv ==
  ASSUME RecordsInv, CreateRecord
  PROVE  RecordsInv'
<1>1. Busy = {} /\ mishaps = {} /\ hands' = hands /\ mishaps' = mishaps
  BY DEF CreateRecord, RecordsInv
<1>2. Busy' = {}
  BY <1>1 DEF Busy
<1>3. hands' = [h \in Handlers |-> hands'[h]]
  BY <1>1 DEF RecordsInv
<1>4. CASE kept' = Patch("available")
  <2>1. kept' \in PatchType /\ kept' \in Documents /\ kept'.status = "available"
    BY <1>4 DEF Patch, PatchType, PatchStatus, Documents
  <2>2. PatchesAreTrue'
    BY <2>1 DEF PatchesAreTrue
  <2> QED BY <1>1, <1>2, <1>3, <2>1, <2>2, PatchInv
<1>5. ASSUME NEW v \in {"public", "internal"}, NEW p \in BOOLEAN, v = "public" => p,
             kept' = Article(v, p)
      PROVE  RecordsInv'
  <2>1. /\ kept' \in ArticleType /\ kept' \in Documents
        /\ kept'.visibility = "public" => kept'.publishedAt
    BY <1>5 DEF Article, ArticleType, Documents
  <2> QED BY <1>1, <1>2, <1>3, <2>1, ArticleInv
<1>6. ASSUME NEW x \in {None, "later"}, kept' = ApiKey(x) PROVE RecordsInv'
  <2>1. kept' \in ApiKeyType /\ kept' \in Documents
    BY <1>6 DEF ApiKey, ApiKeyType, Documents
  <2> QED BY <1>1, <1>2, <1>3, <2>1, ApiKeyInv
<1>7. ASSUME NEW t \in TargetTypes, NEW c \in SUBSET Conditions, ensureRuleConditions(t, c),
             kept' = AlertRule(t, c)
      PROVE  RecordsInv'
  <2>1. /\ kept' \in AlertRuleType /\ kept' \in Documents
        /\ kept'.targetType = t /\ kept'.conditions = c
    BY <1>7 DEF AlertRule, AlertRuleType, Documents
  <2> QED BY <1>1, <1>2, <1>3, <1>7, <2>1, AlertRuleInv
<1> QED BY <1>4, <1>5, <1>6, <1>7 DEF CreateRecord

LEMMA RecordsInit_Inv == RecordsInit => RecordsInv
<1> SUFFICES ASSUME RecordsInit PROVE RecordsInv
  OBVIOUS
<1>1. Busy = {} /\ kept = None /\ mishaps = {} /\ hands = [h \in Handlers |-> hands[h]]
  BY DEF RecordsInit, Busy
<1>2. RecordsAgree
  BY <1>1 DEF RecordsAgree, PatchesAreTrue, Holds
<1> QED BY <1>1, <1>2 DEF RecordsInv, Alone

LEMMA RecordsNext_Inv ==
  ASSUME RecordsInv, [RecordsNext]_recVars
  PROVE  RecordsInv'
<1>1. CASE UNCHANGED recVars
  <2>1. kept' = kept /\ hands' = hands /\ mishaps' = mishaps
    BY <1>1 DEF recVars
  <2>2. Busy' = Busy /\ Alone' /\ RecordsAgree'
    BY <2>1 DEF RecordsInv, Busy, Alone, RecordsAgree, PatchesAreTrue, Holds
  <2>3. \A h \in Busy : Hand(h)'
    BY <2>1, HandStays DEF RecordsInv
  <2> QED BY <2>1, <2>2, <2>3 DEF RecordsInv
<1>2. CASE ProcessDies
  BY <1>2, GivingUpInv DEF ProcessDies, Seen
<1>3. ASSUME NEW h \in Handlers, SaveFails(h) PROVE RecordsInv'
  <2>1. h \in Busy
    BY <1>3 DEF SaveFails, Busy
  <2>2. /\ UNCHANGED kept /\ mishaps' = mishaps \cup {"failure"}
        /\ hands' = [hands EXCEPT ![h] = Idle]
    BY <1>3 DEF SaveFails, Seen
  <2>3. /\ hands' = [g \in Handlers |-> hands'[g]]
        /\ \A g \in Handlers : hands'[g] \in {hands[g], Idle}
    BY <2>2 DEF RecordsInv
  <2> QED BY <2>1, <2>2, <2>3, GivingUpInv
<1>4. ASSUME NEW h \in Handlers, SaveInstalling(h) \/ Save(h) PROVE RecordsInv'
  <2>1. h \in Busy
    BY <1>4, RecordsAssumption DEF Busy, Idle, SaveInstalling, Save
  <2>2. kept \in Documents /\ Hand(h)
    BY <2>1 DEF RecordsInv
  <2>3. Holds("patch") \/ Holds("article") \/ Holds("apiKey") \/ Holds("alertRule")
    BY <2>2, Kinds
  <2>4. CASE SaveInstalling(h)
    <3>1. Holds("patch")
      BY <2>2, <2>3, <2>4 DEF SaveInstalling, Hand, EditHand, UseHand, RuleHand
    <3> QED BY <2>4, <3>1, SaveInstallingInv
  <2>5. CASE Save(h)
    BY <2>3, <2>5, SaveOutcomeInv, SaveArticleInv, SaveKeyInv, SaveRuleInv
  <2> QED BY <1>4, <2>4, <2>5
<1>5. CASE CreateRecord
  BY <1>5, CreateRecordInv
<1>6. CASE approvePatch \/ schedulePatch
  BY <1>6, PatchAtOnce
<1>7. CASE revoke \/ KeyExpires
  BY <1>7, KeyAtOnce
<1>8. ASSUME NEW h \in Handlers,
             executePatch(h) \/ updateArticle(h) \/ authenticate(h) \/ updateRule(h)
      PROVE  RecordsInv'
  BY <1>8, executePatchInv, updateArticleInv, authenticateInv, updateRuleInv
<1> QED BY <1>1, <1>2, <1>3, <1>4, <1>5, <1>6, <1>7, <1>8 DEF RecordsNext

-----------------------------------------------------------------------------
(* WebQueries: the pages.  What a page changes of what it shows, it names. *)

\* A change names what it changes.
Fits(c, q) == c # EmailTest /\ c.changes \cap q.shows # {} => Names(c.names, q)

\* The keys a name stands before, and those with the document between.
Keys(n) == {<<n>>, <<n, "id">>, <<n, "filters">>, <<n, "topbar">>, <<n, "id", "filters">>}
OfKeys(n) == {<<n, "id">>, <<n, "id", "filters">>}

\* What the answers of the queries show, by the first name of their keys.
Shown(n) ==
  CASE n \in {"client", "billing-clients", "contracts-clients", "client-options",
              "ticket-clients-options"} -> {"clients"}
    [] n = "billing-contracts" -> {"contracts"}
    [] n = "billing-invoices" -> {"invoices"}
    [] n = "billing-subscriptions" -> {"subscriptions"}
    [] n \in {"billing-summary", "dashboard-billing-summary", "reports-revenue"} ->
           {"invoices", "subscriptions"}
    [] n = "device" -> api_getDevice
    [] n = "device-metrics" -> {"metrics"}
    [] n \in {"patch-devices", "remote-devices", "script-device-options",
           "ticket-devices-options"} -> {"devices"}
    [] n = "knowledge-base" -> {"articles"}
    [] n \in {"remote-session", "dashboard-remote-sessions"} -> {"remote-sessions"}
    [] n = "reports-assets" -> {"clients", "devices", "contacts"}
    [] n = "reports-alerts" -> {"alerts"}
    [] n \in {"ticket", "portal-ticket", "portal-tickets", "reports-tickets",
           "reports-sla"} -> {"tickets"}
    [] n = "portal-ticket-comments" -> {"ticket-comments"}
    [] n = "script-options" -> {"scripts"}
    [] n = "script-group-options" -> {"device-groups"}
    [] n = "reports-scripts" -> {"script-executions"}
    [] n = "script-scheduled" -> {"scheduled-jobs"}
    [] n \in {"ticket-detail-users", "ticket-users-options"} -> {"users"}
    [] n = "ticket-sla-options" -> {"sla-policies"}
    [] n = "dashboard-overview" -> api_getDashboardOverview
    [] n = "dashboard-patches" -> {"patches"}
    [] n = "portal-me" -> {"me"}
    [] n = "alerts" -> {"alerts"}
    [] n = "alert-rules" -> {"alert-rules"}
    [] n = "api-keys" -> {"api-keys"}
    [] n = "audit-logs" -> {"audit-logs"}
    [] n = "automations" -> {"automations"}
    [] n = "automation-logs" -> {"automation-logs"}
    [] n = "contacts" -> {"contacts"}
    [] n = "clients" -> {"clients"}
    [] n = "contracts" -> {"contracts"}
    [] n = "devices" -> {"devices"}
    [] n = "integrations" -> {"integrations"}
    [] n = "patch-policies" -> {"patch-policies"}
    [] n = "patches" -> {"patches"}
    [] n = "remote-sessions" -> {"remote-sessions"}
    [] n = "script-executions" -> {"script-executions"}
    [] n = "scripts" -> {"scripts"}
    [] n = "settings" -> {"settings"}
    [] n = "ticket-comments" -> {"ticket-comments"}
    [] n = "tickets" -> {"tickets"}
    [] n = "me" -> {"me"}
    [] n = "notifications" -> {"notifications"}

LEMMA ShownIs ==
  /\ Shown("client") = {"clients"}
  /\ Shown("billing-clients") = {"clients"}
  /\ Shown("contracts-clients") = {"clients"}
  /\ Shown("client-options") = {"clients"}
  /\ Shown("ticket-clients-options") = {"clients"}
  /\ Shown("clients") = {"clients"}
  /\ Shown("billing-contracts") = {"contracts"} /\ Shown("contracts") = {"contracts"}
  /\ Shown("billing-invoices") = {"invoices"}
  /\ Shown("billing-subscriptions") = {"subscriptions"}
  /\ Shown("billing-summary") = {"invoices", "subscriptions"}
  /\ Shown("dashboard-billing-summary") = {"invoices", "subscriptions"}
  /\ Shown("reports-revenue") = {"invoices", "subscriptions"}
  /\ Shown("device") = api_getDevice
  /\ Shown("device-metrics") = {"metrics"}
  /\ Shown("patch-devices") = {"devices"}
  /\ Shown("remote-devices") = {"devices"}
  /\ Shown("script-device-options") = {"devices"}
  /\ Shown("ticket-devices-options") = {"devices"}
  /\ Shown("devices") = {"devices"}
  /\ Shown("knowledge-base") = {"articles"}
  /\ Shown("remote-session") = {"remote-sessions"}
  /\ Shown("dashboard-remote-sessions") = {"remote-sessions"}
  /\ Shown("remote-sessions") = {"remote-sessions"}
  /\ Shown("reports-assets") = {"clients", "devices", "contacts"}
  /\ Shown("reports-alerts") = {"alerts"} /\ Shown("alerts") = {"alerts"}
  /\ Shown("ticket") = {"tickets"}
  /\ Shown("portal-ticket") = {"tickets"}
  /\ Shown("portal-tickets") = {"tickets"}
  /\ Shown("reports-tickets") = {"tickets"}
  /\ Shown("reports-sla") = {"tickets"}
  /\ Shown("tickets") = {"tickets"}
  /\ Shown("portal-ticket-comments") = {"ticket-comments"}
  /\ Shown("ticket-comments") = {"ticket-comments"}
  /\ Shown("script-options") = {"scripts"} /\ Shown("scripts") = {"scripts"}
  /\ Shown("script-group-options") = {"device-groups"}
  /\ Shown("reports-scripts") = {"script-executions"}
  /\ Shown("script-executions") = {"script-executions"}
  /\ Shown("script-scheduled") = {"scheduled-jobs"}
  /\ Shown("ticket-detail-users") = {"users"}
  /\ Shown("ticket-users-options") = {"users"}
  /\ Shown("ticket-sla-options") = {"sla-policies"}
  /\ Shown("dashboard-overview") = api_getDashboardOverview
  /\ Shown("dashboard-patches") = {"patches"} /\ Shown("patches") = {"patches"}
  /\ Shown("portal-me") = {"me"} /\ Shown("me") = {"me"}
  /\ Shown("alert-rules") = {"alert-rules"}
  /\ Shown("api-keys") = {"api-keys"}
  /\ Shown("audit-logs") = {"audit-logs"}
  /\ Shown("automations") = {"automations"}
  /\ Shown("automation-logs") = {"automation-logs"}
  /\ Shown("contacts") = {"contacts"}
  /\ Shown("integrations") = {"integrations"}
  /\ Shown("patch-policies") = {"patch-policies"}
  /\ Shown("settings") = {"settings"}
  /\ Shown("notifications") = {"notifications"}
BY DEF Shown

\* Queries with the same first name show the same, on whichever page.
QueryOK(q) == q.shows = Shown(q.key[1])

LEMMA QueryHolds ==
  ASSUME NEW n, NEW s, Shown(n) = s
  PROVE  /\ QueryOK(Query(Key1(n), s)) /\ QueryOK(Query(Of(n), s))
         /\ QueryOK(Query(ByFilter(n), s)) /\ QueryOK(Query(<<n, "id", "filters">>, s))
BY DEF QueryOK, Query, Key1, Of, ByFilter

\* A page names what it changes of what it shows.
PageOK(p) ==
  /\ \A q \in p.queries : QueryOK(q)
  /\ \A q \in p.queries, c \in p.changes : Fits(c, q)

LEMMA NamesFirst ==
  ASSUME NEW q, NEW names, NEW n, <<n>> \in names, q.key \in Keys(n)
  PROVE  Names(names, q)
BY DEF Names, Keys
LEMMA NamesOf ==
  ASSUME NEW q, NEW names, NEW n, <<n, "id">> \in names, q.key \in OfKeys(n)
  PROVE  Names(names, q)
BY DEF Names, OfKeys

LEMMA QueryOf == \A k, s : Query(k, s).key = k /\ Query(k, s).shows = s
BY DEF Query
LEMMA ChangeIs ==
  \A ch, ns, is : Change(ch, ns).changes = ch /\ ChangeOf(ch, ns, is).changes = ch
BY DEF Change, ChangeOf

LEMMA FitsChange ==
  ASSUME NEW ch, NEW ns, NEW sh, NEW k,
     (\A x \in ch : x \notin sh) \/ \E n \in ns : k \in Keys(n)
  PROVE  Fits(Change(ch, ns), Query(k, sh))
<1>1. CASE \A x \in ch : x \notin sh
  BY <1>1, QueryOf, ChangeIs DEF Fits
<1>2. ASSUME NEW n \in ns, k \in Keys(n) PROVE  Fits(Change(ch, ns), Query(k, sh))
  <2>1. <<n>> \in Change(ch, ns).names
    BY DEF Change, Key1
  <2>. QED BY <2>1, <1>2, NamesFirst, QueryOf DEF Fits
<1> QED BY <1>1, <1>2

LEMMA FitsEmailTest == \A q : Fits(EmailTest, q)
BY DEF Fits

LEMMA FitsOf ==
  ASSUME NEW ch, NEW ns, NEW is, NEW sh, NEW k,
     \/ \A x \in ch : x \notin sh
     \/ \E n \in ns : k \in Keys(n)
     \/ \E i \in is : k \in OfKeys(i)
  PROVE Fits(ChangeOf(ch, ns, is), Query(k, sh))
<1>1. CASE \A x \in ch : x \notin sh
  BY <1>1, QueryOf, ChangeIs DEF Fits
<1>2. ASSUME NEW n \in ns, k \in Keys(n) PROVE Fits(ChangeOf(ch, ns, is), Query(k, sh))
  <2>1. <<n>> \in ChangeOf(ch, ns, is).names
    BY DEF ChangeOf, Key1
  <2>. QED BY <2>1, <1>2, NamesFirst, QueryOf DEF Fits
<1>3. ASSUME NEW n \in is, k \in OfKeys(n) PROVE Fits(ChangeOf(ch, ns, is), Query(k, sh))
  <2>1. <<n, "id">> \in ChangeOf(ch, ns, is).names
    BY DEF ChangeOf, Of
  <2>. QED BY <2>1, <1>3, NamesOf, QueryOf DEF Fits
<1> QED BY <1>1, <1>2, <1>3

\* The queries and changes every page of the application has.
Bell == [Query(<<"notifications", "topbar">>, api_listNotifications) EXCEPT !.polls = TRUE]
BellChanges == {Change(api_markNotificationRead, {"notifications"}),
   Change(api_markAllNotificationsRead, {"notifications"})}

LEMMA AppPageOK ==
  ASSUME NEW Q, NEW C, NEW S, \A q \in Q, c \in C : Fits(c, q),
         \A q \in Q : QueryOK(q),
         \A q \in Q : "notifications" \notin q.shows,
         \A c \in C : "me" \notin c.changes /\ "notifications" \notin c.changes
  PROVE  PageOK(AppPage(Q, C, S))
<1>1. /\ notification_center.queries = {Bell} /\ notification_center.changes = BellChanges
      /\ protected_shell.queries = {me}
   BY DEF notification_center, Page, Bell, BellChanges, protected_shell
<1>2. /\ me.shows = {"me"} /\ me.key = <<"me">>
      /\ Bell.shows = {"notifications"} /\ Bell.key = <<"notifications", "topbar">>
   BY DEF Bell, Query, me, api_getMe, api_listNotifications, Key1
<1>3. \A c \in BellChanges :
        c.changes = {"notifications"} /\ c.names = {<<"notifications">>}
   BY DEF Change, BellChanges, api_markNotificationRead, api_markAllNotificationsRead, Key1
<1>4. \A c \in BellChanges : Fits(c, Bell)
   BY <1>2, <1>3, NamesFirst DEF Fits, Keys
<1>5. \A c \in BellChanges, q \in Q \cup {me}: Fits(c, q)
   BY <1>2, <1>3 DEF Fits
<1>6. \A c \in C : Fits(c, me) /\ Fits(c, Bell)
   BY <1>2 DEF Fits
<1>7. /\ AppPage(Q, C, S).queries = Q \cup {me} \cup {Bell}
      /\ AppPage(Q, C, S).changes = C \cup BellChanges
   BY <1>1 DEF AppPage, Page
<1>8. QueryOK(me) /\ QueryOK(Bell)
   BY <1>2 DEF Shown, QueryOK
<1> QED BY <1>4, <1>5, <1>6, <1>7, <1>8 DEF PageOK

LEMMA alerts_page_OK == PageOK(alerts_page)
<1> DEFINE Q == {Query(ByFilter("alerts"), api_listAlerts)}
           C ==
             {Change(api_acknowledgeAlert, {"alerts", "dashboard-overview"}),
              Change(api_resolveAlert, {"alerts", "dashboard-overview"}),
              Change(api_createTicketFromAlert,
                     {"alerts", "tickets", "dashboard-overview", "notifications"})}
<1>1. Shown("alerts") = api_listAlerts
  BY ShownIs DEF api_listAlerts
<1>2. \A q \in Q : QueryOK(q)
  BY <1>1, QueryHolds
<1>3. \A q \in Q : "notifications" \notin q.shows
  BY QueryOf DEF api_listAlerts
<1>4. \A q \in Q, c \in C : Fits(c, q)
  BY FitsChange
  DEF Keys, ByFilter, api_acknowledgeAlert, api_createTicketFromAlert, api_listAlerts,
      api_resolveAlert
<1>5. \A c \in C : "me" \notin c.changes /\ "notifications" \notin c.changes
  BY ChangeIs DEF api_acknowledgeAlert, api_createTicketFromAlert, api_resolveAlert
<1> HIDE DEF Q, C
<1>6. PageOK(AppPage(Q, C, NoSocket))
  BY <1>2, <1>3, <1>4, <1>5, AppPageOK
<1> QED BY <1>6 DEF alerts_page, Q, C

LEMMA alert_rules_page_OK == PageOK(alert_rules_page)
<1> DEFINE Q == {Query(ByFilter("alert-rules"), api_listAlertRules)}
           C ==
             {Change(r, {"alert-rules"}) :
               r \in {api_createAlertRule, api_updateAlertRule, api_deleteAlertRule}}
<1>1. Shown("alert-rules") = api_listAlertRules
  BY ShownIs DEF api_listAlertRules
<1>2. \A q \in Q : QueryOK(q)
  BY <1>1, QueryHolds
<1>3. \A q \in Q : "notifications" \notin q.shows
  BY QueryOf DEF api_listAlertRules
<1>4. \A q \in Q, c \in C : Fits(c, q)
  BY FitsChange
  DEF Keys, ByFilter, api_createAlertRule, api_deleteAlertRule, api_listAlertRules,
      api_updateAlertRule
<1>5. \A c \in C : "me" \notin c.changes /\ "notifications" \notin c.changes
  BY ChangeIs DEF api_createAlertRule, api_deleteAlertRule, api_updateAlertRule
<1> HIDE DEF Q, C
<1>6. PageOK(AppPage(Q, C, NoSocket))
  BY <1>2, <1>3, <1>4, <1>5, AppPageOK
<1> QED BY <1>6 DEF alert_rules_page, Q, C

LEMMA api_keys_page_OK == PageOK(api_keys_page)
<1> DEFINE Q == {Query(Key1("api-keys"), api_listApiKeys)}
           C == {Change(r, {"api-keys"}) : r \in {api_createApiKey, api_revokeApiKey}}
<1>1. Shown("api-keys") = api_listApiKeys
  BY ShownIs DEF api_listApiKeys
<1>2. \A q \in Q : QueryOK(q)
  BY <1>1, QueryHolds
<1>3. \A q \in Q : "notifications" \notin q.shows
  BY QueryOf DEF api_listApiKeys
<1>4. \A q \in Q, c \in C : Fits(c, q)
  BY FitsChange DEF Keys, Key1, api_createApiKey, api_listApiKeys, api_revokeApiKey
<1>5. \A c \in C : "me" \notin c.changes /\ "notifications" \notin c.changes
  BY ChangeIs DEF api_createApiKey, api_revokeApiKey
<1> HIDE DEF Q, C
<1>6. PageOK(AppPage(Q, C, NoSocket))
  BY <1>2, <1>3, <1>4, <1>5, AppPageOK
<1> QED BY <1>6 DEF api_keys_page, Q, C

LEMMA audit_page_OK == PageOK(audit_page)
<1> DEFINE Q == {Query(ByFilter("audit-logs"), api_listAuditLogs)}
<1>1. Shown("audit-logs") = api_listAuditLogs
  BY ShownIs DEF api_listAuditLogs
<1>2. \A q \in Q : QueryOK(q)
  BY <1>1, QueryHolds
<1>3. \A q \in Q : "notifications" \notin q.shows
  BY QueryOf DEF api_listAuditLogs
<1> HIDE DEF Q
<1>4. PageOK(AppPage(Q, {}, NoSocket))
  BY <1>2, <1>3, AppPageOK
<1> QED BY <1>4 DEF audit_page, Q

LEMMA automations_page_OK == PageOK(automations_page)
<1> DEFINE Q ==
             {Query(ByFilter("automations"), api_listAutomations),
              Query(Key1("automation-logs"), api_listAutomationLogs)}
           C ==
             {Change(r, {"automations", "automation-logs", "dashboard-overview"}) :
               r \in {api_createAutomation, api_updateAutomation}}
               \cup {Change(api_deleteAutomation, {"automations"})}
<1>1. /\ Shown("automations") = api_listAutomations
      /\ Shown("automation-logs") = api_listAutomationLogs
  BY ShownIs DEF api_listAutomationLogs, api_listAutomations
<1>2. \A q \in Q : QueryOK(q)
  BY <1>1, QueryHolds
<1>3. \A q \in Q : "notifications" \notin q.shows
  BY QueryOf DEF api_listAutomationLogs, api_listAutomations
<1>4. \A q \in Q, c \in C : Fits(c, q)
  BY FitsChange
  DEF Keys, ByFilter, Key1, api_createAutomation, api_deleteAutomation,
      api_listAutomationLogs, api_listAutomations, api_updateAutomation
<1>5. \A c \in C : "me" \notin c.changes /\ "notifications" \notin c.changes
  BY ChangeIs DEF api_createAutomation, api_deleteAutomation, api_updateAutomation
<1> HIDE DEF Q, C
<1>6. PageOK(AppPage(Q, C, NoSocket))
  BY <1>2, <1>3, <1>4, <1>5, AppPageOK
<1> QED BY <1>6 DEF automations_page, Q, C

LEMMA billing_page_OK == PageOK(billing_page)
<1> DEFINE Q ==
             {Query(Key1("billing-clients"), api_listClients),
              Query(Key1("billing-contracts"), api_listContracts),
              Query(Key1("billing-invoices"), api_listInvoices),
              Query(Key1("billing-subscriptions"), api_listSubscriptions),
              Query(Of("billing-summary"), api_billingMonthlySummary)}
           C ==
             {Change(api_createInvoice, {"billing-invoices", "billing-summary"}),
              Change(api_createSubscription, {"billing-subscriptions", "billing-summary"})}
<1>1. /\ Shown("billing-clients") = api_listClients
      /\ Shown("billing-contracts") = api_listContracts
      /\ Shown("billing-invoices") = api_listInvoices
      /\ Shown("billing-subscriptions") = api_listSubscriptions
      /\ Shown("billing-summary") = api_billingMonthlySummary
  BY ShownIs
  DEF api_billingMonthlySummary, api_listClients, api_listContracts, api_listInvoices,
      api_listSubscriptions
<1>2. \A q \in Q : QueryOK(q)
  BY <1>1, QueryHolds
<1>3. \A q \in Q : "notifications" \notin q.shows
  BY QueryOf
  DEF api_billingMonthlySummary, api_listClients, api_listContracts, api_listInvoices,
      api_listSubscriptions
<1>4. \A q \in Q, c \in C : Fits(c, q)
  BY FitsChange
  DEF Keys, Key1, Of, api_billingMonthlySummary, api_createInvoice,
      api_createSubscription, api_listClients, api_listContracts, api_listInvoices,
      api_listSubscriptions
<1>5. \A c \in C : "me" \notin c.changes /\ "notifications" \notin c.changes
  BY ChangeIs DEF api_createInvoice, api_createSubscription
<1> HIDE DEF Q, C
<1>6. PageOK(AppPage(Q, C, NoSocket))
  BY <1>2, <1>3, <1>4, <1>5, AppPageOK
<1> QED BY <1>6 DEF billing_page, Q, C

LEMMA client_page_OK == PageOK(client_page)
<1> DEFINE Q ==
             {Query(Of("client"), api_getClient),
              Query(<<"contacts", "id", "filters">>, api_listContacts)}
           C ==
             {ChangeOf(r, {}, {"contacts"}) :
               r \in {api_createContact, api_updateContact, api_deleteContact}}
<1>1. /\ Shown("client") = api_getClient
      /\ Shown("contacts") = api_listContacts
  BY ShownIs DEF api_getClient, api_listContacts
<1>2. \A q \in Q : QueryOK(q)
  BY <1>1, QueryHolds
<1>3. \A q \in Q : "notifications" \notin q.shows
  BY QueryOf DEF api_getClient, api_listContacts
<1>4. \A q \in Q, c \in C : Fits(c, q)
  BY FitsChange, FitsOf
  DEF Keys, OfKeys, Of, api_createContact, api_deleteContact, api_getClient,
      api_listContacts, api_updateContact
<1>5. \A c \in C : "me" \notin c.changes /\ "notifications" \notin c.changes
  BY ChangeIs DEF api_createContact, api_deleteContact, api_updateContact
<1> HIDE DEF Q, C
<1>6. PageOK(AppPage(Q, C, NoSocket))
  BY <1>2, <1>3, <1>4, <1>5, AppPageOK
<1> QED BY <1>6 DEF client_page, Q, C

LEMMA clients_page_OK == PageOK(clients_page)
<1> DEFINE Q == {Query(ByFilter("clients"), api_listClients)}
           C == {Change(r, {"clients"}) : r \in {api_createClient, api_updateClient}}
<1>1. Shown("clients") = api_listClients
  BY ShownIs DEF api_listClients
<1>2. \A q \in Q : QueryOK(q)
  BY <1>1, QueryHolds
<1>3. \A q \in Q : "notifications" \notin q.shows
  BY QueryOf DEF api_listClients
<1>4. \A q \in Q, c \in C : Fits(c, q)
  BY FitsChange DEF Keys, ByFilter, api_createClient, api_listClients, api_updateClient
<1>5. \A c \in C : "me" \notin c.changes /\ "notifications" \notin c.changes
  BY ChangeIs DEF api_createClient, api_updateClient
<1> HIDE DEF Q, C
<1>6. PageOK(AppPage(Q, C, NoSocket))
  BY <1>2, <1>3, <1>4, <1>5, AppPageOK
<1> QED BY <1>6 DEF clients_page, Q, C

LEMMA contracts_page_OK == PageOK(contracts_page)
<1> DEFINE Q ==
             {Query(Key1("contracts"), api_listContracts),
              Query(Key1("contracts-clients"), api_listClients)}
           C == {Change(api_createContract, {"contracts"})}
<1>1. /\ Shown("contracts") = api_listContracts
      /\ Shown("contracts-clients") = api_listClients
  BY ShownIs DEF api_listClients, api_listContracts
<1>2. \A q \in Q : QueryOK(q)
  BY <1>1, QueryHolds
<1>3. \A q \in Q : "notifications" \notin q.shows
  BY QueryOf DEF api_listClients, api_listContracts
<1>4. \A q \in Q, c \in C : Fits(c, q)
  BY FitsChange DEF Keys, Key1, api_createContract, api_listClients, api_listContracts
<1>5. \A c \in C : "me" \notin c.changes /\ "notifications" \notin c.changes
  BY ChangeIs DEF api_createContract
<1> HIDE DEF Q, C
<1>6. PageOK(AppPage(Q, C, NoSocket))
  BY <1>2, <1>3, <1>4, <1>5, AppPageOK
<1> QED BY <1>6 DEF contracts_page, Q, C

LEMMA device_page_OK == PageOK(device_page)
<1> DEFINE Q ==
             {Query(Of("device"), api_getDevice),
              Query(<<"device-metrics", "id", "filters">>, api_getDeviceMetrics)}
           C == {ChangeOf(api_updateDevice, {"devices"}, {"device"})}
<1>1. /\ Shown("device") = api_getDevice
      /\ Shown("device-metrics") = api_getDeviceMetrics
  BY ShownIs DEF api_getDevice, api_getDeviceMetrics
<1>2. \A q \in Q : QueryOK(q)
  BY <1>1, QueryHolds
<1>3. \A q \in Q : "notifications" \notin q.shows
  BY QueryOf DEF api_getDevice, api_getDeviceMetrics
<1>4. \A q \in Q, c \in C : Fits(c, q)
  BY FitsChange, FitsOf
  DEF Keys, OfKeys, Of, api_getDevice, api_getDeviceMetrics, api_updateDevice
<1>5. \A c \in C : "me" \notin c.changes /\ "notifications" \notin c.changes
  BY ChangeIs DEF api_updateDevice
<1> HIDE DEF Q, C
<1>6. PageOK(AppPage(Q, C, {Socket({Of("device")}, {"dashboard-overview"})}))
  BY <1>2, <1>3, <1>4, <1>5, AppPageOK
<1> QED BY <1>6 DEF device_page, Q, C

LEMMA devices_page_OK == PageOK(devices_page)
<1> DEFINE Q ==
             {Query(Key1("client-options"), api_listClients),
              Query(ByFilter("devices"), api_listDevices)}
           C ==
             {Change(r, {"devices", "dashboard-overview"}) :
               r \in {api_createDevice, api_updateDevice}}
<1>1. /\ Shown("client-options") = api_listClients
      /\ Shown("devices") = api_listDevices
  BY ShownIs DEF api_listClients, api_listDevices
<1>2. \A q \in Q : QueryOK(q)
  BY <1>1, QueryHolds
<1>3. \A q \in Q : "notifications" \notin q.shows
  BY QueryOf DEF api_listClients, api_listDevices
<1>4. \A q \in Q, c \in C : Fits(c, q)
  BY FitsChange
  DEF Keys, ByFilter, Key1, api_createDevice, api_listClients, api_listDevices,
      api_updateDevice
<1>5. \A c \in C : "me" \notin c.changes /\ "notifications" \notin c.changes
  BY ChangeIs DEF api_createDevice, api_updateDevice
<1> HIDE DEF Q, C
<1>6. PageOK(AppPage(Q, C, {Socket({Key1("devices"), Key1("device")},
      {"dashboard-overview"})}))
  BY <1>2, <1>3, <1>4, <1>5, AppPageOK
<1> QED BY <1>6 DEF devices_page, Q, C

LEMMA integrations_page_OK == PageOK(integrations_page)
<1> DEFINE Q == {Query(Key1("integrations"), api_listIntegrations)}
           C ==
             {Change(r, {"integrations"}) :
               r \in {api_createIntegration, api_deleteIntegration, api_testWebhookIntegration}}
              \cup {Change(api_testEmailIntegration, {})}
<1>1. Shown("integrations") = api_listIntegrations
  BY ShownIs DEF api_listIntegrations
<1>2. \A q \in Q : QueryOK(q)
  BY <1>1, QueryHolds
<1>3. \A q \in Q : "notifications" \notin q.shows
  BY QueryOf DEF api_listIntegrations
<1>4. \A q \in Q, c \in C : Fits(c, q)
  BY FitsChange, FitsEmailTest
  DEF Keys, Key1, api_createIntegration, api_deleteIntegration, api_listIntegrations,
      api_testEmailIntegration, api_testWebhookIntegration, EmailTest
<1>5. \A c \in C : "me" \notin c.changes /\ "notifications" \notin c.changes
  BY ChangeIs
  DEF api_createIntegration, api_deleteIntegration, api_testEmailIntegration,
      api_testWebhookIntegration, EmailTest
<1> HIDE DEF Q, C
<1>6. PageOK(AppPage(Q, C, NoSocket))
  BY <1>2, <1>3, <1>4, <1>5, AppPageOK
<1> QED BY <1>6 DEF integrations_page, Q, C

LEMMA article_page_OK == PageOK(article_page)
<1> DEFINE Q == {Query(Of("knowledge-base"), api_getKnowledgeBaseArticle)}
           C ==
             {ChangeOf(api_updateKnowledgeBaseArticle, {"knowledge-base"}, {"knowledge-base"}),
              Change(api_deleteKnowledgeBaseArticle, {"knowledge-base"})}
<1>1. Shown("knowledge-base") = api_getKnowledgeBaseArticle
  BY ShownIs DEF api_getKnowledgeBaseArticle
<1>2. \A q \in Q : QueryOK(q)
  BY <1>1, QueryHolds
<1>3. \A q \in Q : "notifications" \notin q.shows
  BY QueryOf DEF api_getKnowledgeBaseArticle
<1>4. \A q \in Q, c \in C : Fits(c, q)
  BY FitsChange, FitsOf
  DEF Keys, OfKeys, Of, api_deleteKnowledgeBaseArticle, api_getKnowledgeBaseArticle,
      api_updateKnowledgeBaseArticle
<1>5. \A c \in C : "me" \notin c.changes /\ "notifications" \notin c.changes
  BY ChangeIs DEF api_deleteKnowledgeBaseArticle, api_updateKnowledgeBaseArticle
<1> HIDE DEF Q, C
<1>6. PageOK(AppPage(Q, C, NoSocket))
  BY <1>2, <1>3, <1>4, <1>5, AppPageOK
<1> QED BY <1>6 DEF article_page, Q, C

LEMMA knowledge_base_page_OK == PageOK(knowledge_base_page)
<1> DEFINE Q == {Query(ByFilter("knowledge-base"), api_listKnowledgeBaseArticles)}
           C == {Change(api_createKnowledgeBaseArticle, {"knowledge-base"})}
<1>1. Shown("knowledge-base") = api_listKnowledgeBaseArticles
  BY ShownIs DEF api_listKnowledgeBaseArticles
<1>2. \A q \in Q : QueryOK(q)
  BY <1>1, QueryHolds
<1>3. \A q \in Q : "notifications" \notin q.shows
  BY QueryOf DEF api_listKnowledgeBaseArticles
<1>4. \A q \in Q, c \in C : Fits(c, q)
  BY FitsChange
  DEF Keys, ByFilter, api_createKnowledgeBaseArticle, api_listKnowledgeBaseArticles
<1>5. \A c \in C : "me" \notin c.changes /\ "notifications" \notin c.changes
  BY ChangeIs DEF api_createKnowledgeBaseArticle
<1> HIDE DEF Q, C
<1>6. PageOK(AppPage(Q, C, NoSocket))
  BY <1>2, <1>3, <1>4, <1>5, AppPageOK
<1> QED BY <1>6 DEF knowledge_base_page, Q, C

LEMMA patch_management_page_OK == PageOK(patch_management_page)
<1> DEFINE Q ==
             {Query(Key1("patch-policies"), api_listPatchPolicies),
              Query(Key1("patches"), api_listPatches),
              Query(Key1("patch-devices"), api_listDevices)}
           C ==
             {Change(r, {"patches"}) :
               r \in {api_simulatePatchScan, api_approvePatch, api_schedulePatch, api_executePatch}}
              \cup {Change(api_createPatchPolicy, {"patch-policies"})}
<1>1. /\ Shown("patch-policies") = api_listPatchPolicies
      /\ Shown("patches") = api_listPatches
      /\ Shown("patch-devices") = api_listDevices
  BY ShownIs DEF api_listDevices, api_listPatchPolicies, api_listPatches
<1>2. \A q \in Q : QueryOK(q)
  BY <1>1, QueryHolds
<1>3. \A q \in Q : "notifications" \notin q.shows
  BY QueryOf DEF api_listDevices, api_listPatchPolicies, api_listPatches
<1>4. \A q \in Q, c \in C : Fits(c, q)
  BY FitsChange
  DEF Keys, Key1, api_approvePatch, api_createPatchPolicy, api_executePatch,
      api_listDevices, api_listPatchPolicies, api_listPatches, api_schedulePatch,
      api_simulatePatchScan
<1>5. \A c \in C : "me" \notin c.changes /\ "notifications" \notin c.changes
  BY ChangeIs
  DEF api_approvePatch, api_createPatchPolicy, api_executePatch, api_schedulePatch,
      api_simulatePatchScan
<1> HIDE DEF Q, C
<1>6. PageOK(AppPage(Q, C, NoSocket))
  BY <1>2, <1>3, <1>4, <1>5, AppPageOK
<1> QED BY <1>6 DEF patch_management_page, Q, C

LEMMA remote_session_page_OK == PageOK(remote_session_page)
<1> DEFINE Q == {Query(Of("remote-session"), api_getRemoteSession)}
           C ==
             {ChangeOf(r, {"remote-sessions"}, {"remote-session"}) :
               r \in {api_startRemoteSession, api_endRemoteSession}}
               \cup live_bridge.changes
<1>1. Shown("remote-session") = api_getRemoteSession
  BY ShownIs DEF api_getRemoteSession
<1>2. \A q \in Q : QueryOK(q)
  BY <1>1, QueryHolds
<1>3. \A q \in Q : "notifications" \notin q.shows
  BY QueryOf DEF api_getRemoteSession
<1>4. \A q \in Q, c \in C : Fits(c, q)
  BY FitsChange, FitsOf
  DEF Keys, OfKeys, Of, api_endRemoteSession, api_getRemoteSession,
      api_startRemoteSession, api_updateRemoteSessionInteractionMode, live_bridge, Page
<1>5. \A c \in C : "me" \notin c.changes /\ "notifications" \notin c.changes
  BY ChangeIs
  DEF api_endRemoteSession, api_startRemoteSession,
      api_updateRemoteSessionInteractionMode, live_bridge, Page
<1> HIDE DEF Q, C
<1>6. PageOK(AppPage(Q, C, NoSocket))
  BY <1>2, <1>3, <1>4, <1>5, AppPageOK
<1> QED BY <1>6 DEF remote_session_page, Q, C

LEMMA remote_access_page_OK == PageOK(remote_access_page)
<1> DEFINE Q ==
             {Query(Key1("remote-devices"), api_listDevices),
              Query(Key1("remote-sessions"), api_listRemoteSessions)}
           C ==
             {Change(r, {"remote-sessions"}) :
               r \in {api_createRemoteSession, api_startRemoteSession, api_endRemoteSession}}
<1>1. /\ Shown("remote-devices") = api_listDevices
      /\ Shown("remote-sessions") = api_listRemoteSessions
  BY ShownIs DEF api_listDevices, api_listRemoteSessions
<1>2. \A q \in Q : QueryOK(q)
  BY <1>1, QueryHolds
<1>3. \A q \in Q : "notifications" \notin q.shows
  BY QueryOf DEF api_listDevices, api_listRemoteSessions
<1>4. \A q \in Q, c \in C : Fits(c, q)
  BY FitsChange
  DEF Keys, Key1, api_createRemoteSession, api_endRemoteSession, api_listDevices,
      api_listRemoteSessions, api_startRemoteSession
<1>5. \A c \in C : "me" \notin c.changes /\ "notifications" \notin c.changes
  BY ChangeIs DEF api_createRemoteSession, api_endRemoteSession, api_startRemoteSession
<1> HIDE DEF Q, C
<1>6. PageOK(AppPage(Q, C, NoSocket))
  BY <1>2, <1>3, <1>4, <1>5, AppPageOK
<1> QED BY <1>6 DEF remote_access_page, Q, C

LEMMA reports_page_OK == PageOK(reports_page)
<1> DEFINE Q ==
             {Query(Key1("reports-tickets"), api_reportTicketsByPeriod),
              Query(Key1("reports-alerts"), api_reportAlertsBySeverity),
              Query(Key1("reports-assets"), api_reportAssetsByClient),
              Query(Key1("reports-sla"), api_reportSlaCompliance),
              Query(Key1("reports-scripts"), api_reportScriptExecutionStats),
              Query(Key1("reports-revenue"), api_reportRevenueSummary)}
<1>1. /\ Shown("reports-tickets") = api_reportTicketsByPeriod
      /\ Shown("reports-alerts") = api_reportAlertsBySeverity
      /\ Shown("reports-assets") = api_reportAssetsByClient
      /\ Shown("reports-sla") = api_reportSlaCompliance
      /\ Shown("reports-scripts") = api_reportScriptExecutionStats
      /\ Shown("reports-revenue") = api_reportRevenueSummary
  BY ShownIs
  DEF api_reportAlertsBySeverity, api_reportAssetsByClient, api_reportRevenueSummary,
      api_reportScriptExecutionStats, api_reportSlaCompliance, api_reportTicketsByPeriod
<1>2. \A q \in Q : QueryOK(q)
  BY <1>1, QueryHolds
<1>3. \A q \in Q : "notifications" \notin q.shows
  BY QueryOf
  DEF api_reportAlertsBySeverity, api_reportAssetsByClient, api_reportRevenueSummary,
      api_reportScriptExecutionStats, api_reportSlaCompliance, api_reportTicketsByPeriod
<1> HIDE DEF Q
<1>4. PageOK(AppPage(Q, {}, NoSocket))
  BY <1>2, <1>3, AppPageOK
<1> QED BY <1>4 DEF reports_page, Q

LEMMA executions_page_OK == PageOK(executions_page)
<1> DEFINE Q ==
             {Query(Key1("script-options"), api_listScripts),
              Query(Key1("script-device-options"), api_listDevices),
              Query(Key1("script-group-options"), api_listDeviceGroups),
              Query(ByFilter("script-executions"), api_listScriptExecutions),
              Query(Key1("script-scheduled"), api_listScheduledScriptJobs)}
           C ==
             {Change(r, {"script-executions", "dashboard-overview"}) :
               r \in {api_runScriptOnDevice, api_runScriptOnGroup}}
               \cup {Change(api_scheduleScript, {"script-scheduled"})}
<1>1. /\ Shown("script-options") = api_listScripts
      /\ Shown("script-device-options") = api_listDevices
      /\ Shown("script-group-options") = api_listDeviceGroups
      /\ Shown("script-executions") = api_listScriptExecutions
      /\ Shown("script-scheduled") = api_listScheduledScriptJobs
  BY ShownIs
  DEF api_listDeviceGroups, api_listDevices, api_listScheduledScriptJobs,
      api_listScriptExecutions, api_listScripts
<1>2. \A q \in Q : QueryOK(q)
  BY <1>1, QueryHolds
<1>3. \A q \in Q : "notifications" \notin q.shows
  BY QueryOf
  DEF api_listDeviceGroups, api_listDevices, api_listScheduledScriptJobs,
      api_listScriptExecutions, api_listScripts
<1>4. \A q \in Q, c \in C : Fits(c, q)
  BY FitsChange
  DEF Keys, ByFilter, Key1, api_listDeviceGroups, api_listDevices,
      api_listScheduledScriptJobs, api_listScriptExecutions, api_listScripts,
      api_runScriptOnDevice, api_runScriptOnGroup, api_scheduleScript
<1>5. \A c \in C : "me" \notin c.changes /\ "notifications" \notin c.changes
  BY ChangeIs DEF api_runScriptOnDevice, api_runScriptOnGroup, api_scheduleScript
<1> HIDE DEF Q, C
<1>6. PageOK(AppPage(Q, C, {Socket({Key1("script-executions")}, {"dashboard-overview"})}))
  BY <1>2, <1>3, <1>4, <1>5, AppPageOK
<1> QED BY <1>6 DEF executions_page, Q, C

LEMMA scripts_page_OK == PageOK(scripts_page)
<1> DEFINE Q == {Query(ByFilter("scripts"), api_listScripts)}
           C ==
             {Change(r, {"scripts", "dashboard-overview"}) :
               r \in {api_createScript, api_updateScript}}
               \cup {Change(api_deleteScript, {"scripts"})}
<1>1. Shown("scripts") = api_listScripts
  BY ShownIs DEF api_listScripts
<1>2. \A q \in Q : QueryOK(q)
  BY <1>1, QueryHolds
<1>3. \A q \in Q : "notifications" \notin q.shows
  BY QueryOf DEF api_listScripts
<1>4. \A q \in Q, c \in C : Fits(c, q)
  BY FitsChange
  DEF Keys, ByFilter, api_createScript, api_deleteScript, api_listScripts,
      api_updateScript
<1>5. \A c \in C : "me" \notin c.changes /\ "notifications" \notin c.changes
  BY ChangeIs DEF api_createScript, api_deleteScript, api_updateScript
<1> HIDE DEF Q, C
<1>6. PageOK(AppPage(Q, C, NoSocket))
  BY <1>2, <1>3, <1>4, <1>5, AppPageOK
<1> QED BY <1>6 DEF scripts_page, Q, C

LEMMA settings_page_OK == PageOK(settings_page)
<1> DEFINE Q == {Query(Key1("settings"), api_listSettings)}
           C == {Change(api_upsertSetting, {"settings"})}
<1>1. Shown("settings") = api_listSettings
  BY ShownIs DEF api_listSettings
<1>2. \A q \in Q : QueryOK(q)
  BY <1>1, QueryHolds
<1>3. \A q \in Q : "notifications" \notin q.shows
  BY QueryOf DEF api_listSettings
<1>4. \A q \in Q, c \in C : Fits(c, q)
  BY FitsChange DEF Keys, Key1, api_listSettings, api_upsertSetting
<1>5. \A c \in C : "me" \notin c.changes /\ "notifications" \notin c.changes
  BY ChangeIs DEF api_upsertSetting
<1> HIDE DEF Q, C
<1>6. PageOK(AppPage(Q, C, NoSocket))
  BY <1>2, <1>3, <1>4, <1>5, AppPageOK
<1> QED BY <1>6 DEF settings_page, Q, C

LEMMA ticket_page_OK == PageOK(ticket_page)
<1> DEFINE Q ==
             {Query(Of("ticket"), api_getTicket),
              Query(Of("ticket-comments"), api_listTicketComments),
              Query(Key1("ticket-detail-users"), api_listUsers)}
           C ==
             {ChangeOf(api_assignTicket, {"tickets", "notifications"}, {"ticket"}),
              ChangeOf(api_addTicketComment, {"tickets"}, {"ticket-comments", "ticket"})}
              \cup {ChangeOf(r, {"tickets", "dashboard-overview"}, {"ticket"}) :
                       r \in {api_resolveTicket, api_closeTicket, api_reopenTicket}}
<1>1. /\ Shown("ticket") = api_getTicket
      /\ Shown("ticket-comments") = api_listTicketComments
      /\ Shown("ticket-detail-users") = api_listUsers
  BY ShownIs DEF api_getTicket, api_listTicketComments, api_listUsers
<1>2. \A q \in Q : QueryOK(q)
  BY <1>1, QueryHolds
<1>3. \A q \in Q : "notifications" \notin q.shows
  BY QueryOf DEF api_getTicket, api_listTicketComments, api_listUsers
<1>4. \A q \in Q, c \in C : Fits(c, q)
  BY FitsChange, FitsOf
  DEF Keys, OfKeys, Key1, Of, api_addTicketComment, api_assignTicket, api_closeTicket,
      api_getTicket, api_listTicketComments, api_listUsers, api_reopenTicket,
      api_resolveTicket
<1>5. \A c \in C : "me" \notin c.changes /\ "notifications" \notin c.changes
  BY ChangeIs
  DEF api_addTicketComment, api_assignTicket, api_closeTicket, api_reopenTicket,
      api_resolveTicket
<1> HIDE DEF Q, C
<1>6. PageOK(AppPage(Q, C, NoSocket))
  BY <1>2, <1>3, <1>4, <1>5, AppPageOK
<1> QED BY <1>6 DEF ticket_page, Q, C

LEMMA tickets_page_OK == PageOK(tickets_page)
<1> DEFINE Q ==
             {Query(ByFilter("tickets"), api_listTickets),
              Query(Key1("ticket-clients-options"), api_listClients),
              Query(Key1("ticket-devices-options"), api_listDevices),
              Query(Key1("ticket-users-options"), api_listUsers),
              Query(Key1("ticket-sla-options"), api_listSlaPolicies)}
           C ==
             {Change(api_createTicket, {"tickets", "dashboard-overview", "notifications"})}
<1>1. /\ Shown("tickets") = api_listTickets
      /\ Shown("ticket-clients-options") = api_listClients
      /\ Shown("ticket-devices-options") = api_listDevices
      /\ Shown("ticket-users-options") = api_listUsers
      /\ Shown("ticket-sla-options") = api_listSlaPolicies
  BY ShownIs
  DEF api_listClients, api_listDevices, api_listSlaPolicies, api_listTickets,
      api_listUsers
<1>2. \A q \in Q : QueryOK(q)
  BY <1>1, QueryHolds
<1>3. \A q \in Q : "notifications" \notin q.shows
  BY QueryOf
  DEF api_listClients, api_listDevices, api_listSlaPolicies, api_listTickets,
      api_listUsers
<1>4. \A q \in Q, c \in C : Fits(c, q)
  BY FitsChange
  DEF Keys, ByFilter, Key1, api_createTicket, api_listClients, api_listDevices,
      api_listSlaPolicies, api_listTickets, api_listUsers
<1>5. \A c \in C : "me" \notin c.changes /\ "notifications" \notin c.changes
  BY ChangeIs DEF api_createTicket
<1> HIDE DEF Q, C
<1>6. PageOK(AppPage(Q, C, NoSocket))
  BY <1>2, <1>3, <1>4, <1>5, AppPageOK
<1> QED BY <1>6 DEF tickets_page, Q, C

LEMMA dashboard_page_OK == PageOK(dashboard_page)
<1> DEFINE Q ==
             {Query(Key1("dashboard-overview"), api_getDashboardOverview),
              Query(Key1("dashboard-billing-summary"), api_billingMonthlySummary),
              Query(Key1("dashboard-patches"), api_listPatches),
              Query(Key1("dashboard-remote-sessions"), api_listRemoteSessions)}
<1>1. /\ Shown("dashboard-overview") = api_getDashboardOverview
      /\ Shown("dashboard-billing-summary") = api_billingMonthlySummary
      /\ Shown("dashboard-patches") = api_listPatches
      /\ Shown("dashboard-remote-sessions") = api_listRemoteSessions
  BY ShownIs
  DEF api_billingMonthlySummary, api_getDashboardOverview, api_listPatches,
      api_listRemoteSessions
<1>2. \A q \in Q : QueryOK(q)
  BY <1>1, QueryHolds
<1>3. \A q \in Q : "notifications" \notin q.shows
  BY QueryOf
  DEF api_billingMonthlySummary, api_getDashboardOverview, api_listPatches,
      api_listRemoteSessions
<1> HIDE DEF Q
<1>4. PageOK(AppPage(Q, {}, {Socket({}, {"dashboard-overview", "devices"})}))
  BY <1>2, <1>3, AppPageOK
<1> QED BY <1>4 DEF dashboard_page, Q
LEMMA PortalPageOK ==
  ASSUME NEW Q, NEW C, \A q \in Q, c \in C : Fits(c, q),
         \A q \in Q : QueryOK(q),
         \A c \in C : "me" \notin c.changes
  PROVE  PageOK(PortalPage(Q, C))
<1> DEFINE portal == Query(Key1("portal-me"), api_portalMe)
<1>1. /\ PortalPage(Q, C).queries = Q \cup {portal} /\ PortalPage(Q, C).changes = C
      /\ portal.shows = {"me"} /\ portal.key[1] = "portal-me"
  BY QueryOf DEF PortalPage, portal_shell, Page, api_portalMe, Key1
<1>2. QueryOK(portal) /\ \A c \in C : Fits(c, portal)
  BY <1>1 DEF Shown, QueryOK, Fits
<1> QED BY <1>1, <1>2 DEF PageOK

LEMMA portal_ticket_page_OK == PageOK(portal_ticket_page)
<1> DEFINE Q ==
             {Query(Of("portal-ticket"), api_portalGetTicket),
              Query(Of("portal-ticket-comments"), api_portalListTicketComments)}
           C == {ChangeOf(api_portalAddTicketComment, {}, {"portal-ticket-comments"})}
<1>1. /\ Shown("portal-ticket") = api_portalGetTicket
      /\ Shown("portal-ticket-comments") = api_portalListTicketComments
  BY ShownIs DEF api_portalGetTicket, api_portalListTicketComments
<1>2. \A q \in Q : QueryOK(q)
  BY <1>1, QueryHolds
<1>3. \A q \in Q, c \in C : Fits(c, q)
  BY FitsOf
  DEF OfKeys, Of, api_portalGetTicket, api_portalListTicketComments,
        api_portalAddTicketComment
<1>4. \A c \in C : "me" \notin c.changes
  BY ChangeIs DEF api_portalAddTicketComment
<1> HIDE DEF Q, C
<1>5. PageOK(PortalPage(Q, C))
  BY <1>2, <1>3, <1>4, PortalPageOK
<1> QED BY <1>5 DEF portal_ticket_page, Q, C

LEMMA portal_tickets_page_OK == PageOK(portal_tickets_page)
<1> DEFINE Q == {Query(Key1("portal-tickets"), api_portalListTickets)}
           C == {Change(api_portalCreateTicket, {"portal-tickets"})}
<1>1. Shown("portal-tickets") = api_portalListTickets
  BY ShownIs DEF api_portalListTickets
<1>2. \A q \in Q : QueryOK(q)
  BY <1>1, QueryHolds
<1>3. \A q \in Q, c \in C : Fits(c, q)
  BY FitsChange DEF Keys, Key1, api_portalListTickets, api_portalCreateTicket
<1>4. \A c \in C : "me" \notin c.changes
  BY ChangeIs DEF api_portalCreateTicket
<1> HIDE DEF Q, C
<1>5. PageOK(PortalPage(Q, C))
  BY <1>2, <1>3, <1>4, PortalPageOK
<1> QED BY <1>5 DEF portal_tickets_page, Q, C

LEMMA PagesOK == \A p \in WebPages : PageOK(p)
BY alerts_page_OK, alert_rules_page_OK, api_keys_page_OK, audit_page_OK,
    automations_page_OK, billing_page_OK, client_page_OK, clients_page_OK,
          contracts_page_OK,
    device_page_OK, devices_page_OK, integrations_page_OK, article_page_OK,
    knowledge_base_page_OK, patch_management_page_OK, remote_session_page_OK,
    remote_access_page_OK, reports_page_OK, executions_page_OK, scripts_page_OK,
    settings_page_OK, ticket_page_OK, tickets_page_OK, dashboard_page_OK,
    portal_ticket_page_OK, portal_tickets_page_OK
DEF WebPages

\* A request as it concerns one query is named when it was made where it shows.
OwnIsNamed(r) == r.own /\ r.changes /\ r.promised => r.names

LEMMA ConcernsOK ==
  ASSUME NEW p \in WebPages, NEW d \in WebPages, NEW q \in d.queries, NEW c \in p.changes
  PROVE  OwnIsNamed(Concerns(p, c, q))
<1> SUFFICES ASSUME Shows(p, q), c.changes \cap q.shows # {}, c # EmailTest
             PROVE  Names(c.names, q)
  BY DEF OwnIsNamed, Concerns
<1>1. PICK r \in p.queries : r.key = q.key
  BY DEF Shows
<1>2. r.shows = q.shows /\ Fits(c, r)
  BY <1>1, PagesOK DEF PageOK, QueryOK
<1> QED BY <1>1, <1>2 DEF Fits, Names

-----------------------------------------------------------------------------
(* WebQueries: the steps.                                                  *)

Entries == [data : 0..MaxVersion \cup {None}, invalid : BOOLEAN, fresh : BOOLEAN,
            fetch : Fetches \cup {None}]

\* A request under way that the page it was made on accounts for.
Request(x, last) ==
  x # None => /\ x = [of |-> x.of, version |-> x.version]
              /\ x.version \in 0..last \cup {None} /\ OwnIsNamed(x.of)

\* The entry has what was promised, is going to have it, or is known not to.
Promised(e) ==
  /\ e \in Entries
  /\ e.fetch # NoFetch /\ e.fetch.read # None => e.fetch.read \in due..stored
  /\ e.fetch = NoFetch /\ ~e.invalid => /\ e.data # None => e.data >= due
                                        /\ mounted => e.data # None

WebInv ==
  /\ mounted \in BOOLEAN /\ stored \in 0..MaxVersion /\ due \in 0..stored
  /\ query # None => \A r \in query.clicks : OwnIsNamed(r)
  /\ pressed = [b \in Buttons |-> pressed[b]]
  /\ \A b \in Buttons : Request(pressed[b], stored)
  /\ Promised(entry)

LEMMA WebInit_Inv == WebInit => WebInv
<1> SUFFICES ASSUME WebInit PROVE WebInv
  OBVIOUS
<1>1. NoEntry \in Entries /\ NoEntry.fetch = NoFetch /\ NoEntry.data = None
  BY DEF NoEntry, NoFetch, Entries
<1>2. Promised(entry)
  BY <1>1 DEF WebInit, Promised
<1>3. \A b \in Buttons : pressed[b] = None
  BY DEF WebInit
<1>4. pressed = [b \in Buttons |-> pressed[b]]
  BY DEF WebInit
<1>5. mounted \in BOOLEAN /\ stored \in 0..MaxVersion /\ due \in 0..stored /\ query = None
  <2>1. mounted = FALSE /\ query = None
    BY DEF WebInit
  <2>2. stored = 0 /\ due = 0
    BY DEF WebInit
  <2>3. stored \in 0..MaxVersion /\ due \in 0..stored
    BY <2>2, WebAssumption
  <2>4. mounted \in BOOLEAN
    BY <2>1, Zenon
  <2> QED BY <2>1, <2>3, <2>4
<1> QED BY <1>2, <1>3, <1>4, <1>5 DEF WebInv, Request

LEMMA FollowQueryInv ==
  ASSUME WebInv, NEW p \in WebPages, NEW q \in p.queries, FollowQuery(p, q)
  PROVE  WebInv'
<1>1. \A r \in query'.clicks : OwnIsNamed(r)
  <2>1. query'.clicks \subseteq UNION {{Concerns(d, c, q) : c \in d.changes} : d \in WebPages}
    BY DEF FollowQuery, Followed
  <2> QED BY <2>1, ConcernsOK
<1> QED BY <1>1 DEF FollowQuery, WebInv, Request, Promised

\* The fetching actions leave the requests and what they changed alone.
LEMMA FetchingInv ==
  ASSUME WebInv, Following, UNCHANGED <<stored, pressed, due>>, mounted' \in BOOLEAN,
         Promised(entry)'
  PROVE  WebInv'
BY DEF WebInv, Following, Request

LEMMA FetchingHolds ==
  ASSUME WebInv
  PROVE  LET e == Fetching(entry) IN
         /\ e \in Entries /\ e.fetch # NoFetch /\ e.data = entry.data /\ e.invalid = entry.invalid
         /\ e.fetch.read # None => e.fetch.read \in due..stored
<1>1. NewFetch \in Fetches /\ NewFetch.read = None
  BY DEF NewFetch, Fetches
<1>2. \A f \in Fetches : f # NoFetch
  BY WebAssumption DEF NoFetch
<1> QED BY <1>1, <1>2 DEF Fetching, WebInv, Promised, Entries

LEMMA MountInv == ASSUME WebInv, Mount PROVE WebInv'
<1>1. CASE NeedsFetch(entry)
  <2>1. entry' = Fetching(entry)
    BY <1>1 DEF Mount
  <2>2. Promised(entry)'
    BY <2>1, FetchingHolds DEF Promised, Mount
  <2> QED BY <2>2, FetchingInv DEF Mount
<1>2. CASE ~NeedsFetch(entry)
  <2>1. entry' = entry /\ entry.data # None
    BY <1>2 DEF Mount, NeedsFetch
  <2>2. Promised(entry)'
    BY <2>1 DEF Promised, Mount, WebInv
  <2> QED BY <2>2, FetchingInv DEF Mount
<1> QED BY <1>1, <1>2

LEMMA UnmountInv == ASSUME WebInv, Unmount PROVE WebInv'
BY FetchingInv DEF Unmount, WebInv, Promised

LEMMA RefetchInv == ASSUME WebInv, Refetch PROVE WebInv'
<1>1. Promised(entry)'
  BY FetchingHolds DEF Refetch, Promised
<1> QED BY <1>1, FetchingInv DEF Refetch, WebInv

LEMMA ServerReadsInv == ASSUME WebInv, ServerReads PROVE WebInv'
<1>1. entry \in Entries /\ entry.fetch \in Fetches /\ stored \in 0..MaxVersion /\ due \in 0..stored
  BY DEF WebInv, Promised, ServerReads, Entries, NoFetch
<1>2. /\ entry' \in Entries /\ entry'.fetch \in Fetches /\ entry'.fetch.read = stored
      /\ entry'.data = entry.data /\ entry'.invalid = entry.invalid
  BY <1>1 DEF ServerReads, Entries, Fetches
<1>3. entry'.fetch # NoFetch
  BY <1>2, WebAssumption DEF NoFetch
<1>4. Promised(entry)'
  BY <1>1, <1>2, <1>3 DEF Promised, ServerReads
<1> QED BY <1>4, FetchingInv DEF ServerReads, WebInv

LEMMA AnswerFetchInv == ASSUME WebInv, AnswerFetch PROVE WebInv'
<1>1. entry.fetch.read \in due..stored /\ entry.fetch.read # None
  BY DEF AnswerFetch, WebInv, Promised
<1>2. entry.fetch.read \in 0..MaxVersion
  <2>1. stored \in 0..MaxVersion /\ due \in 0..stored
    BY DEF WebInv
  <2> QED BY <1>1, <2>1, WebAssumption
<1>3. /\ entry' \in Entries /\ entry'.fetch = NoFetch /\ entry'.data = entry.fetch.read
  BY <1>2 DEF AnswerFetch, Entries, NoFetch
<1>4. Promised(entry)'
  BY <1>1, <1>3 DEF Promised, AnswerFetch, WebInv
<1> QED BY <1>4, FetchingInv DEF AnswerFetch, WebInv

LEMMA FetchFailsInv == ASSUME WebInv, FetchFails PROVE WebInv'
<1> DEFINE retry == [read |-> None, again |-> TRUE]
<1>1. retry \in Fetches /\ retry.read = None
  BY DEF Fetches
<1>5. retry # NoFetch
  BY <1>1, WebAssumption DEF NoFetch
<1>2. entry \in Entries
  BY DEF WebInv, Promised
<1> HIDE DEF retry
<1>3. CASE mounted /\ ~entry.fetch.again
  <2>1. entry' = [entry EXCEPT !.fetch = retry]
    BY <1>3 DEF FetchFails, retry
  <2>2. entry' \in Entries /\ entry'.fetch = retry
    BY <1>1, <1>2, <2>1 DEF Entries
  <2>3. Promised(entry)'
    BY <1>1, <1>5, <2>2 DEF Promised
  <2> QED BY <2>3, FetchingInv DEF FetchFails, WebInv
<1>4. CASE ~(mounted /\ ~entry.fetch.again)
  <2>1. entry' = [entry EXCEPT !.fetch = NoFetch, !.invalid = TRUE]
    BY <1>4 DEF FetchFails
  <2>2. entry' \in Entries /\ entry'.invalid = TRUE /\ entry'.fetch = NoFetch
    BY <1>2, <2>1 DEF Entries, NoFetch
  <2>3. Promised(entry)'
    BY <2>2 DEF Promised
  <2> QED BY <2>3, FetchingInv DEF FetchFails, WebInv
<1> QED BY <1>3, <1>4

LEMMA AgesInv == ASSUME WebInv, Ages PROVE WebInv'
<1>1. /\ entry' \in Entries /\ entry'.fetch = entry.fetch /\ entry'.data = entry.data
      /\ entry'.invalid = entry.invalid
  BY DEF WebInv, Promised, Ages, Entries
<1>2. Promised(entry)'
  BY <1>1 DEF Promised, Ages, WebInv
<1> QED BY <1>2, FetchingInv DEF Ages, WebInv

\* An entry that is dropped.
LEMMA DroppedInv ==
  ASSUME WebInv, entry' = NoEntry, ~mounted', UNCHANGED due PROVE Promised(entry)'
<1>1. NoEntry \in Entries /\ NoEntry.fetch = NoFetch /\ NoEntry.data = None
  BY DEF NoEntry, NoFetch, Entries
<1> QED BY <1>1 DEF Promised

LEMMA CollectInv == ASSUME WebInv, Collect PROVE WebInv'
BY DroppedInv, FetchingInv DEF Collect, WebInv

LEMMA ReloadInv == ASSUME WebInv, Reload PROVE WebInv'
<1>1. Promised(entry)'
  BY DroppedInv DEF Reload
<1>2. /\ pressed' = [b \in Buttons |-> pressed'[b]]
      /\ \A b \in Buttons : pressed'[b] = None
  BY DEF Reload
<1> QED BY <1>1, <1>2 DEF Reload, WebInv, Following, Request

\* What is pressed, and what is not any more.
LEMMA PressedNow ==
  ASSUME WebInv, NEW b \in Buttons, NEW x, pressed' = [pressed EXCEPT ![b] = x],
         Request(x, stored'), stored \in 0..stored', stored' \in 0..MaxVersion
  PROVE  /\ pressed' = [a \in Buttons |-> pressed'[a]]
         /\ \A a \in Buttons : Request(pressed'[a], stored')
<1>1. /\ pressed' = [a \in Buttons |-> pressed'[a]]
      /\ pressed'[b] = x /\ \A a \in Buttons \ {b} : pressed'[a] = pressed[a]
  BY DEF WebInv
<1>2. \A a \in Buttons : Request(pressed[a], stored) => Request(pressed[a], stored')
  <2>1. 0..stored \subseteq 0..stored'
    BY WebAssumption
  <2> QED BY <2>1 DEF Request
<1> QED BY <1>1, <1>2 DEF WebInv

LEMMA ClickInv ==
  ASSUME WebInv, NEW b \in Buttons, query # None, NEW r \in query.clicks, Click(b, r)
  PROVE  WebInv'
<1> DEFINE x == [of |-> r, version |-> None]
<1>1. Request(x, stored')
  BY DEF WebInv, Request
<1>2. /\ pressed' = [a \in Buttons |-> pressed'[a]]
      /\ \A a \in Buttons : Request(pressed'[a], stored')
  <2> HIDE DEF x
  <2>1. stored' = stored /\ stored \in 0..stored' /\ stored' \in 0..MaxVersion
    BY WebAssumption DEF Click, WebInv
  <2>2. pressed' = [pressed EXCEPT ![b] = x]
    BY DEF Click, x
  <2> QED BY <1>1, <2>1, <2>2, PressedNow
<1>3. Promised(entry)'
  BY DEF Click, WebInv, Promised
<1> QED BY <1>2, <1>3 DEF Click, WebInv, Following

LEMMA ServerChangesInv ==
  ASSUME WebInv, NEW b \in Buttons, ServerChanges(b)
  PROVE  WebInv'
<1>1. /\ stored' \in 0..MaxVersion /\ stored \in 0..stored' /\ stored' \in 0..stored'
      /\ stored \in Nat
  BY WebAssumption DEF ServerChanges, WebInv
<1> DEFINE x == [of |-> pressed[b].of, version |-> stored']
<1>2. pressed[b] = [of |-> pressed[b].of, version |-> pressed[b].version] /\ OwnIsNamed(pressed[b].of)
  BY DEF ServerChanges, WebInv, Request
<1>3. pressed' = [pressed EXCEPT ![b] = x]
  <2>1. pressed' = [pressed EXCEPT ![b] = [pressed[b] EXCEPT !.version = stored']]
    BY DEF ServerChanges
  <2>2. [pressed[b] EXCEPT !.version = stored'] = x
    BY <1>2
  <2> QED BY <2>1, <2>2
<1>4. Request(x, stored')
  BY <1>1, <1>2 DEF Request, OwnIsNamed
<1> HIDE DEF x
<1>5. /\ pressed' = [a \in Buttons |-> pressed'[a]]
      /\ \A a \in Buttons : Request(pressed'[a], stored')
  BY <1>1, <1>3, <1>4, PressedNow
<1>6. Promised(entry)'
  BY <1>1 DEF ServerChanges, WebInv, Promised
<1> QED BY <1>1, <1>5, <1>6 DEF ServerChanges, WebInv, Following

LEMMA RequestFailsInv ==
  ASSUME WebInv, NEW b \in Buttons, RequestFails(b)
  PROVE  WebInv'
<1>1. stored' = stored /\ stored \in 0..stored' /\ stored' \in 0..MaxVersion
  BY WebAssumption DEF RequestFails, WebInv
<1>2. Request(None, stored')
  BY DEF Request
<1>3. /\ pressed' = [a \in Buttons |-> pressed'[a]]
      /\ \A a \in Buttons : Request(pressed'[a], stored')
  BY <1>1, <1>2, PressedNow DEF RequestFails
<1>4. Promised(entry)'
  BY DEF RequestFails, WebInv, Promised
<1> QED BY <1>3, <1>4 DEF RequestFails, WebInv, Following

LEMMA InvalidateHolds ==
  ASSUME NEW e \in Entries
  PROVE  /\ Invalidate(e) \in Entries /\ Invalidate(e).data = e.data
         /\ Invalidate(e).invalid = TRUE
         /\ Invalidate(e).fetch = IF Cancels(e) \/ (mounted /\ e.fetch = NoFetch)
                                    THEN NewFetch ELSE e.fetch
<1>1. NewFetch \in Fetches
  BY DEF NewFetch, Fetches
<1>2. e.fetch \in Fetches \cup {None}
  BY DEF Entries
<1> DEFINE f == IF Cancels(e) \/ (mounted /\ e.fetch = NoFetch) THEN NewFetch ELSE e.fetch
<1>3. Invalidate(e) = [e EXCEPT !.invalid = TRUE, !.fetch = f]
  BY DEF Invalidate, Entries
<1>4. f \in Fetches \cup {None}
  BY <1>1, <1>2
<1> HIDE DEF f
<1>5. /\ Invalidate(e) \in Entries /\ Invalidate(e).data = e.data
      /\ Invalidate(e).invalid = TRUE /\ Invalidate(e).fetch = f
  BY <1>3, <1>4 DEF Entries
<1> QED BY <1>5 DEF f

\* What is asked for anew has nothing read yet.
LEMMA InvalidatedFetch ==
  ASSUME NEW e \in Entries, Invalidate(e).fetch # NoFetch, Invalidate(e).fetch.read # None
  PROVE  Invalidate(e).fetch = e.fetch /\ ~Cancels(e)
<1>1. NewFetch.read = None
  BY DEF NewFetch
<1>2. Invalidate(e).fetch = IF Cancels(e) \/ (mounted /\ e.fetch = NoFetch)
                              THEN NewFetch ELSE e.fetch
  BY InvalidateHolds
<1>3. ~(Cancels(e) \/ (mounted /\ e.fetch = NoFetch))
  BY <1>1, <1>2
<1> QED BY <1>2, <1>3

\* A page that promises more than before has what it shows asked for.
LEMMA AnswerPromised ==
  ASSUME WebInv, NEW b \in Buttons, AnswerRequest(b)
  PROVE  due' \in 0..stored /\ Promised(entry)'
<1> DEFINE r == pressed[b].of
           v == pressed[b].version
<1>1. v \in 0..stored /\ OwnIsNamed(r)
  BY DEF AnswerRequest, WebInv, Request
<1>2. entry \in Entries /\ stored \in Nat /\ due \in 0..stored
  BY WebAssumption DEF WebInv, Promised
<1>3. entry' = IF r.names THEN Invalidate(entry) ELSE entry
  BY DEF AnswerRequest
<1>4. \/ due' = due
      \/ /\ r.changes /\ r.promised /\ (r.own \/ r.names)
         /\ v > due /\ ~Overtaken(v) /\ due' = v
  BY DEF AnswerRequest
<1>5. mounted' = mounted /\ stored' = stored
  BY DEF AnswerRequest
<1> HIDE DEF r, v
<1>6. CASE due' = due
  <2>1. CASE r.names
    <3>1. entry' \in Entries /\ entry'.invalid = TRUE
      BY <1>2, <1>3, <2>1, InvalidateHolds
    <3>2. ASSUME entry'.fetch # NoFetch, entry'.fetch.read # None
          PROVE  entry'.fetch.read \in due..stored
      <4>1. entry'.fetch = entry.fetch
        BY <1>2, <1>3, <2>1, <3>2, InvalidatedFetch
      <4> QED BY <3>2, <4>1 DEF WebInv, Promised
    <3> QED BY <1>2, <1>5, <1>6, <3>1, <3>2 DEF Promised
  <2>2. CASE ~r.names
    BY <1>2, <1>3, <1>5, <1>6, <2>2 DEF WebInv, Promised
  <2> QED BY <2>1, <2>2
<1>7. CASE /\ r.changes /\ r.promised /\ (r.own \/ r.names)
           /\ v > due /\ ~Overtaken(v) /\ due' = v
  <2>1. r.names
    BY <1>1, <1>7 DEF OwnIsNamed
  <2>2. entry' \in Entries /\ entry'.invalid = TRUE
    BY <1>2, <1>3, <2>1, InvalidateHolds
  <2>3. ASSUME entry'.fetch # NoFetch, entry'.fetch.read # None
        PROVE  entry'.fetch.read \in v..stored
    <3>1. entry'.fetch = entry.fetch /\ ~Cancels(entry)
      BY <1>2, <1>3, <2>1, <2>3, InvalidatedFetch
    <3>2. entry.fetch.read \in due..stored
      BY <2>3, <3>1 DEF WebInv, Promised
    <3>3. ~(entry.fetch.read < v)
      BY <1>7, <2>3, <3>1 DEF Overtaken
    <3> QED BY <1>1, <1>2, <2>3, <3>1, <3>2, <3>3
  <2> QED BY <1>1, <1>2, <1>5, <1>7, <2>2, <2>3 DEF Promised
<1> QED BY <1>4, <1>6, <1>7

LEMMA AnswerRequestInv ==
  ASSUME WebInv, NEW b \in Buttons, AnswerRequest(b)
  PROVE  WebInv'
<1>1. stored' = stored /\ stored \in 0..stored' /\ stored' \in 0..MaxVersion
  BY WebAssumption DEF AnswerRequest, WebInv
<1>2. Request(None, stored')
  BY DEF Request
<1>3. pressed' = [pressed EXCEPT ![b] = None]
  BY DEF AnswerRequest
<1>4. /\ pressed' = [a \in Buttons |-> pressed'[a]]
      /\ \A a \in Buttons : Request(pressed'[a], stored')
  BY <1>1, <1>2, <1>3, PressedNow
<1> QED BY <1>1, <1>4, AnswerPromised DEF AnswerRequest, WebInv, Following

\* An event takes back a promise rather than break it.
LEMMA EventInv ==
  ASSUME WebInv, NEW r, Event(r)
  PROVE  WebInv'
<1> DEFINE written == r.writes /\ entry.data # None
           e == IF written THEN [entry EXCEPT !.invalid = FALSE, !.fresh = TRUE] ELSE entry
<1>1. /\ entry' = IF r.names THEN Invalidate(e) ELSE e
      /\ due' = IF written /\ entry.invalid /\ entry.fetch = NoFetch /\ entry.data < due
                  THEN entry.data ELSE due
      /\ UNCHANGED <<query, mounted, stored, pressed>>
  BY DEF Event, Following
<1>2. entry \in Entries /\ stored \in Nat /\ due \in 0..stored /\ MaxVersion \in Nat
  BY WebAssumption DEF WebInv, Promised
<1>3. /\ e \in Entries /\ e.data = entry.data /\ e.fetch = entry.fetch
      /\ written => e.invalid = FALSE /\ entry.data \in 0..MaxVersion
      /\ ~written => e = entry
  BY <1>2 DEF Entries
<1>4. due' \in 0..due
  BY <1>1, <1>2, <1>3
<1>5. entry' \in Entries
  BY <1>1, <1>3, InvalidateHolds
<1> HIDE DEF e
<1>6. ASSUME entry'.fetch # NoFetch, entry'.fetch.read # None
      PROVE  entry'.fetch.read \in due'..stored'
  <2>1. entry'.fetch = entry.fetch
    BY <1>1, <1>3, <1>6, InvalidatedFetch
  <2>2. entry.fetch.read \in due..stored
    BY <1>6, <2>1 DEF WebInv, Promised
  <2> QED BY <1>1, <1>2, <1>4, <2>1, <2>2
<1>7. ASSUME entry'.fetch = NoFetch, ~entry'.invalid
      PROVE  /\ entry'.data # None => entry'.data >= due'
             /\ mounted' => entry'.data # None
  <2>1. entry' = e
    BY <1>1, <1>3, <1>7, InvalidateHolds
  <2>2. CASE written
    <3>1. entry.fetch = NoFetch /\ entry'.data = entry.data /\ entry.data \in 0..MaxVersion
      BY <1>3, <1>7, <2>1, <2>2
    <3>2. ~entry.invalid => entry.data >= due
      BY <2>2, <3>1 DEF WebInv, Promised
    <3> QED BY <1>1, <1>2, <2>2, <3>1, <3>2
  <2>3. CASE ~written
    BY <1>1, <1>3, <1>7, <2>1, <2>3 DEF WebInv, Promised
  <2> QED BY <2>2, <2>3
<1>8. Promised(entry)'
  BY <1>5, <1>6, <1>7 DEF Promised
<1>9. due' \in 0..stored'
  BY <1>1, <1>2, <1>4
<1> QED BY <1>1, <1>8, <1>9 DEF WebInv, Request

LEMMA WebNext_Inv == ASSUME WebInv, [WebNext]_webVars PROVE WebInv'
<1>1. CASE UNCHANGED webVars
  BY <1>1 DEF WebInv, webVars, Request, Promised
<1>2. CASE WebNext
  BY <1>2, FollowQueryInv, MountInv, UnmountInv, RefetchInv, ServerReadsInv, AnswerFetchInv,
     FetchFailsInv, AgesInv, CollectInv, ReloadInv, ClickInv, ServerChangesInv, AnswerRequestInv,
     RequestFailsInv, EventInv
  DEF WebNext
<1> QED BY <1>1, <1>2

LEMMA WebInv_Shows == WebInv => PagesShowTheirChanges
BY DEF WebInv, Promised, PagesShowTheirChanges

LEMMA WebInv_Type == WebInv => WebTypeOK
<1> SUFFICES ASSUME WebInv PROVE WebTypeOK
  OBVIOUS
<1>1. entry \in Entries /\ stored \in Nat /\ due \in 0..stored
  BY WebAssumption DEF WebInv, Promised
<1>2. /\ entry.data \in 0..MaxVersion \cup {None} /\ {entry.invalid, entry.fresh} \subseteq BOOLEAN
      /\ entry.fetch \in Fetches \cup {None}
  BY <1>1 DEF Entries
<1>3. entry.fetch # NoFetch =>
        entry.fetch \in Fetches /\ entry.fetch.read \in 0..stored \cup {None}
  BY <1>1, <1>2 DEF WebInv, Promised, NoFetch
<1> QED BY <1>1, <1>2, <1>3 DEF WebInv, WebTypeOK, Request

-----------------------------------------------------------------------------
(* Notices: the inductive invariant.                                       *)

TroubleKinds == {"insert", "update", "death", "lockLost"}
CallRecords == [at : {"find", "next", "saveDelivered", "saveError", "done", "dead"},
                hook : Hooks \cup {None}, left : SUBSET Hooks, delivered : Nat, failed : Nat]
DeliveryRecords == [process : Processes, at : {"storing", "stored", "broken", "over"},
                    left : SUBSET Users, call : {None} \cup CallRecords]
NoticeRecords == [at : {"none", "waiting", "active", "completed", "failed"}, valid : BOOLEAN,
                  queued : BOOLEAN, attempts : 0..MaxAttempts - 1, stalls : 0..MaxStalls,
                  holder : Nat]
HookRecords == [lastDeliveryAt : BOOLEAN, lastError : BOOLEAN, calls : Nat]

NoticesHold ==
  /\ inbox \in [Users -> [all : Nat, unread : Nat]]
  /\ \A u \in Users : inbox[u].unread <= inbox[u].all
  /\ notice \in NoticeRecords /\ notice.holder \in 0..Len(deliveries)
  /\ deliveries \in Seq(DeliveryRecords)
  /\ hook \in [Hooks -> HookRecords]
  /\ troubles \in [TroubleKinds -> Nat]

\* A webhook call counts the hooks it has worked through and the deliveries that
\* were not noted.
CallCounts(c, updates) ==
  /\ c.at = "find" => c.delivered = 0 /\ c.failed = 0
  /\ c.at = "done" => c.left = {}
  /\ c.at \in {"saveDelivered", "saveError"} => c.hook \in Hooks
  /\ c.at \notin {"find", "dead"} =>
       LET through == Cardinality(Hooks \ c.left)
       IN through <= c.delivered + c.failed /\ c.delivered + c.failed <= through + updates

\* A delivery that has ended has no documents left, and only such a one has called.
DeliverySound(r, valid, updates) ==
  /\ ~valid \/ r.at \in {"stored", "over"} => r.left = {}
  /\ r.call # None => r.at \in {"stored", "over"} /\ CallCounts(r.call, updates)

DeliveriesSound ==
  \A d \in DOMAIN deliveries : DeliverySound(deliveries[d], notice.valid, troubles["update"])

\* The job and its deliveries.
JobSound ==
  /\ notice.holder # 0 =>
       notice.at = "active" /\ deliveries[notice.holder].at \in {"storing", "stored"}
  /\ notice.at = "none" => Len(deliveries) = 0
  /\ notice.at = "completed" => \E d \in DOMAIN deliveries : deliveries[d].at = "over"

\* The deliveries that have told a user, that did not break, that passed a hook.
ToldIn(u) == {d \in DOMAIN deliveries : u \notin deliveries[d].left}
Unbroken  == {d \in DOMAIN deliveries : deliveries[d].at # "broken"}
PastHook(h) == {d \in DOMAIN deliveries :
                  /\ deliveries[d].at \in {"stored", "over"} /\ deliveries[d].call.at # "find"
                  /\ h \notin deliveries[d].call.left}

\* A user has at most one document of each delivery, and none only if all of
\* those that ended were refused by the schema.
InboxSound ==
  \A u \in Users : /\ inbox[u].all <= Cardinality(ToldIn(u))
                   /\ ~notice.valid => inbox[u].all = 0
                   /\ notice.valid /\ ToldIn(u) # {} => inbox[u].all > 0

\* Every delivery but the first, and the one still to come, was brought about by
\* a failure, a death or a lost lock; a failure breaks the delivery it follows.
ToCome == IF notice.at \in {"none", "waiting"} \/ (notice.at = "active" /\ notice.holder = 0)
            THEN 1 ELSE 0

Redelivered ==
  /\ Len(deliveries) + ToCome <= 1 + troubles["insert"] + troubles["death"] + troubles["lockLost"]
  /\ Cardinality(Unbroken) + ToCome <= 1 + troubles["death"] + troubles["lockLost"]

CalledOnce == \A h \in Hooks : hook[h].calls <= Cardinality(PastHook(h))

NoticesInv ==
  /\ NoticesHold /\ DeliveriesSound /\ JobSound /\ InboxSound /\ Redelivered /\ CalledOnce

LEMMA DeliveriesAre ==
  ASSUME deliveries \in Seq(DeliveryRecords)
  PROVE  /\ Len(deliveries) \in Nat /\ DOMAIN deliveries = 1..Len(deliveries)
         /\ \A d \in DOMAIN deliveries : deliveries[d] \in DeliveryRecords
OBVIOUS

\* The counted sets are finite.
LEMMA CountedSets ==
  ASSUME deliveries \in Seq(DeliveryRecords)
  PROVE  /\ IsFiniteSet(DOMAIN deliveries) /\ Cardinality(DOMAIN deliveries) = Len(deliveries)
         /\ \A S : S \subseteq DOMAIN deliveries =>
              IsFiniteSet(S) /\ Cardinality(S) \in Nat /\ Cardinality(S) <= Len(deliveries)
<1>1. Len(deliveries) \in Nat /\ DOMAIN deliveries = 1..Len(deliveries)
  BY DeliveriesAre
<1>2. IsFiniteSet(1..Len(deliveries)) /\ Cardinality(1..Len(deliveries)) = Len(deliveries)
  <2>1. 1 \in Int /\ Len(deliveries) \in Int
    BY <1>1
  <2>2. /\ IsFiniteSet(1..Len(deliveries))
        /\ Cardinality(1..Len(deliveries)) =
             IF 1 > Len(deliveries) THEN 0 ELSE Len(deliveries) - 1 + 1
    BY <2>1, FS_Interval
  <2> QED BY <1>1, <2>2
<1> QED BY <1>1, <1>2, FS_Subset, FS_CardinalityType

\* One delivery changes.
LEMMA OneDelivery ==
  ASSUME deliveries \in Seq(DeliveryRecords), NEW d \in DOMAIN deliveries,
         NEW r \in DeliveryRecords, deliveries' = [deliveries EXCEPT ![d] = r]
  PROVE  /\ deliveries' \in Seq(DeliveryRecords) /\ Len(deliveries') = Len(deliveries)
         /\ DOMAIN deliveries' = DOMAIN deliveries /\ deliveries'[d] = r
         /\ \A e \in DOMAIN deliveries : e # d => deliveries'[e] = deliveries[e]
<1>1. d \in 1..Len(deliveries)
  BY DeliveriesAre
<1>2. deliveries' \in Seq(DeliveryRecords) /\ Len(deliveries') = Len(deliveries)
  BY <1>1, ExceptSeq
<1> QED BY <1>2

LEMMA MoreUpdates ==
  ASSUME NEW c \in CallRecords, NEW n \in Nat, NEW m \in Nat, n <= m, CallCounts(c, n)
  PROVE  CallCounts(c, m)
<1>1. /\ Cardinality(Hooks \ c.left) \in Nat /\ c.delivered \in Nat /\ c.failed \in Nat
  BY NoticesAssumption, FS_Subset, FS_CardinalityType DEF CallRecords
<1> QED BY <1>1 DEF CallCounts

\* The others stay as they are, though there may have been another failed update.
LEMMA OneSound ==
  ASSUME NoticesInv, NEW d \in DOMAIN deliveries, NEW r \in DeliveryRecords,
         deliveries' = [deliveries EXCEPT ![d] = r], notice'.valid = notice.valid,
         troubles'["update"] \in Nat, troubles["update"] <= troubles'["update"],
         DeliverySound(r, notice.valid, troubles'["update"])
  PROVE  DeliveriesSound'
<1>1. /\ deliveries \in Seq(DeliveryRecords) /\ troubles["update"] \in Nat
  BY DEF NoticesInv, NoticesHold, TroubleKinds
<1>2. /\ DOMAIN deliveries' = DOMAIN deliveries /\ deliveries'[d] = r
      /\ \A e \in DOMAIN deliveries : e # d => deliveries'[e] = deliveries[e]
  BY <1>1, OneDelivery
<1>3. ASSUME NEW e \in DOMAIN deliveries
      PROVE  DeliverySound(deliveries[e], notice.valid, troubles'["update"])
  <2>1. /\ DeliverySound(deliveries[e], notice.valid, troubles["update"])
        /\ deliveries[e].call \in {None} \cup CallRecords
    BY <1>1, <1>3, DeliveriesAre DEF NoticesInv, DeliveriesSound, DeliveryRecords
  <2> QED BY <1>1, <2>1, MoreUpdates DEF DeliverySound
<1> QED BY <1>2, <1>3 DEF DeliveriesSound

\* The steps of a webhook call leave the users, the job and the documents alone.
LEMMA CallStep ==
  ASSUME NoticesInv, NEW d \in DOMAIN deliveries, NEW c \in CallRecords,
         deliveries[d].call # None, UNCHANGED <<inbox, notice>>,
         deliveries' = [deliveries EXCEPT ![d].call = c],
         hook' \in [Hooks -> HookRecords], troubles' \in [TroubleKinds -> Nat],
         troubles'["insert"] = troubles["insert"], troubles'["death"] = troubles["death"],
         troubles'["lockLost"] = troubles["lockLost"],
         troubles["update"] <= troubles'["update"],
         c.at # "find", CallCounts(c, troubles'["update"]),
         \A h \in Hooks :
           \/ /\ hook'[h].calls = hook[h].calls
              /\ deliveries[d].call.at = "find" \/ c.left \subseteq deliveries[d].call.left
           \/ /\ hook'[h].calls = hook[h].calls + 1
              /\ h \in deliveries[d].call.left \ c.left
              /\ c.left \subseteq deliveries[d].call.left
  PROVE  NoticesInv'
<1> DEFINE r == [deliveries[d] EXCEPT !.call = c]
<1>0. deliveries \in Seq(DeliveryRecords) /\ deliveries[d] \in DeliveryRecords
  BY DeliveriesAre DEF NoticesInv, NoticesHold
<1>1. /\ r \in DeliveryRecords /\ deliveries' = [deliveries EXCEPT ![d] = r]
      /\ r.at = deliveries[d].at /\ r.left = deliveries[d].left /\ r.call = c
  BY <1>0 DEF DeliveryRecords
<1>2. DeliverySound(deliveries[d], notice.valid, troubles["update"])
  BY DEF NoticesInv, DeliveriesSound
<1>3. r.at \in {"stored", "over"}
  BY <1>1, <1>2 DEF DeliverySound
<1>4. DeliverySound(r, notice.valid, troubles'["update"])
  BY <1>1, <1>2, <1>3 DEF DeliverySound
<1> HIDE DEF r
<1>5. /\ deliveries' \in Seq(DeliveryRecords) /\ Len(deliveries') = Len(deliveries)
      /\ DOMAIN deliveries' = DOMAIN deliveries /\ deliveries'[d] = r
      /\ \A e \in DOMAIN deliveries : e # d => deliveries'[e] = deliveries[e]
  BY <1>0, <1>1, OneDelivery
<1>6. \A e \in DOMAIN deliveries :
        deliveries'[e].at = deliveries[e].at /\ deliveries'[e].left = deliveries[e].left
  BY <1>1, <1>5
<1>7. DeliveriesSound'
  <2>1. troubles'["update"] \in Nat
    BY DEF TroubleKinds
  <2> QED BY <1>1, <1>4, <2>1, OneSound
<1>8. NoticesHold'
  BY <1>5 DEF NoticesInv, NoticesHold
<1>9. JobSound'
  <2>1. notice.holder # 0 => notice.holder \in DOMAIN deliveries
    BY <1>0, DeliveriesAre DEF NoticesInv, NoticesHold
  <2> QED BY <1>5, <1>6, <2>1 DEF NoticesInv, JobSound
<1>10. InboxSound'
  <2>1. \A u \in Users : ToldIn(u)' = ToldIn(u)
    BY <1>5, <1>6 DEF ToldIn
  <2> QED BY <2>1 DEF NoticesInv, InboxSound
<1>11. Redelivered'
  <2>1. Unbroken' = Unbroken
    BY <1>5, <1>6 DEF Unbroken
  <2> QED BY <1>5, <2>1 DEF NoticesInv, Redelivered, ToCome
<1>12. CalledOnce'
  <2> SUFFICES ASSUME NEW h \in Hooks PROVE hook'[h].calls <= Cardinality(PastHook(h)')
    BY DEF CalledOnce
  <2>1. /\ hook[h].calls \in Nat /\ hook[h].calls <= Cardinality(PastHook(h))
        /\ PastHook(h) \subseteq DOMAIN deliveries
    BY DEF NoticesInv, NoticesHold, CalledOnce, HookRecords, PastHook
  <2>2. /\ IsFiniteSet(PastHook(h)) /\ Cardinality(PastHook(h)) \in Nat
        /\ IsFiniteSet(PastHook(h)')
    <3>1. PastHook(h)' \subseteq DOMAIN deliveries
      BY <1>5 DEF PastHook
    <3> QED BY <1>0, <2>1, <3>1, CountedSets
  <2>3. \A e \in DOMAIN deliveries : e # d => (e \in PastHook(h)' <=> e \in PastHook(h))
    BY <1>5 DEF PastHook
  <2>4. CASE /\ hook'[h].calls = hook[h].calls
             /\ deliveries[d].call.at = "find" \/ c.left \subseteq deliveries[d].call.left
    <3>1. d \in PastHook(h) => d \in PastHook(h)'
      BY <1>1, <1>3, <1>5, <2>4 DEF PastHook
    <3>2. PastHook(h) \subseteq PastHook(h)'
      BY <2>1, <2>3, <3>1
    <3>3. Cardinality(PastHook(h)) <= Cardinality(PastHook(h)') /\ Cardinality(PastHook(h)') \in Nat
      BY <2>2, <3>2, FS_Subset, FS_CardinalityType
    <3> QED BY <2>1, <2>2, <2>4, <3>3
  <2>5. CASE /\ hook'[h].calls = hook[h].calls + 1
             /\ h \in deliveries[d].call.left \ c.left
    <3>1. d \notin PastHook(h) /\ d \in PastHook(h)'
      BY <1>1, <1>3, <1>5, <2>5 DEF PastHook
    <3>2. PastHook(h)' = PastHook(h) \cup {d}
      <4>1. PastHook(h)' \subseteq DOMAIN deliveries
        BY <1>5 DEF PastHook
      <4> QED BY <2>1, <2>3, <3>1, <4>1
    <3>3. Cardinality(PastHook(h)') = Cardinality(PastHook(h)) + 1
      BY <2>2, <3>1, <3>2, FS_AddElement
    <3> QED BY <2>1, <2>2, <2>5, <3>3
  <2> QED BY <2>4, <2>5
<1> QED BY <1>7, <1>8, <1>9, <1>10, <1>11, <1>12 DEF NoticesInv

\* What the inductive invariant says of a call under way.
LEMMA CallUnderWay ==
  ASSUME NoticesInv, NEW d \in DOMAIN deliveries, deliveries[d].call # None
  PROVE  /\ deliveries[d].call \in CallRecords
         /\ CallCounts(deliveries[d].call, troubles["update"])
         /\ deliveries[d].call.delivered \in Nat /\ deliveries[d].call.failed \in Nat
         /\ deliveries[d].call.left \in SUBSET Hooks
         /\ hook \in [Hooks -> HookRecords] /\ troubles \in [TroubleKinds -> Nat]
         /\ \A w \in {"insert", "update", "death", "lockLost"} : troubles[w] \in Nat
<1>1. deliveries[d] \in DeliveryRecords
  BY DeliveriesAre DEF NoticesInv, NoticesHold
<1>2. DeliverySound(deliveries[d], notice.valid, troubles["update"])
  BY DEF NoticesInv, DeliveriesSound
<1>3. deliveries[d].call \in CallRecords
  BY <1>1 DEF DeliveryRecords
<1> QED BY <1>2, <1>3 DEF DeliverySound, CallRecords, NoticesInv, NoticesHold, TroubleKinds

LEMMA FindHooksInv ==
  ASSUME NoticesInv, NEW d \in DOMAIN deliveries, FindHooks(d) PROVE NoticesInv'
<1> DEFINE old == deliveries[d].call
           c   == [old EXCEPT !.at = "next", !.left = Hooks]
<1>1. /\ UNCHANGED <<inbox, notice, hook, troubles>> /\ old # None /\ old.at = "find"
      /\ deliveries' = [deliveries EXCEPT ![d].call = c]
  BY DEF FindHooks, CallAt, Goes
<1>2. old \in CallRecords /\ CallCounts(old, troubles["update"]) /\ troubles["update"] \in Nat
  BY <1>1, CallUnderWay
<1>3. /\ c \in CallRecords /\ c.at = "next" /\ c.left = Hooks
      /\ c.delivered = 0 /\ c.failed = 0
  BY <1>1, <1>2 DEF CallRecords, CallCounts
<1> HIDE DEF c
<1>4. CallCounts(c, troubles["update"])
  <2>1. Cardinality(Hooks \ Hooks) = 0
    BY FS_EmptySet
  <2> QED BY <1>2, <1>3, <2>1 DEF CallCounts
<1>5. /\ hook \in [Hooks -> HookRecords] /\ troubles \in [TroubleKinds -> Nat]
  BY <1>1, CallUnderWay
<1> HIDE DEF old
<1>6. hook' = hook /\ troubles' = troubles /\ deliveries[d].call # None
      /\ deliveries[d].call.at = "find"
  BY <1>1 DEF old
<1>7. /\ hook' \in [Hooks -> HookRecords] /\ troubles' \in [TroubleKinds -> Nat]
      /\ troubles["update"] <= troubles'["update"] /\ c.at # "find"
      /\ CallCounts(c, troubles'["update"])
  BY <1>2, <1>3, <1>4, <1>5, <1>6
<1> QED BY <1>1, <1>3, <1>6, <1>7, CallStep

LEMMA CallHookInv ==
  ASSUME NoticesInv, NEW d \in DOMAIN deliveries, NEW h \in Hooks, CallHook(d, h)
  PROVE  NoticesInv'
<1> DEFINE old  == deliveries[d].call
           left == old.left \ {h}
           c    == deliveries'[d].call
<1>1. /\ UNCHANGED <<inbox, notice, troubles>> /\ old # None /\ old.at = "next"
      /\ h \in old.left
  BY DEF CallHook, CallAt
<1>2. /\ old \in CallRecords /\ CallCounts(old, troubles["update"])
      /\ troubles["update"] \in Nat /\ troubles \in [TroubleKinds -> Nat]
      /\ hook \in [Hooks -> HookRecords]
      /\ old.delivered \in Nat /\ old.failed \in Nat /\ old.left \in SUBSET Hooks
  BY <1>1, CallUnderWay
<1>3. PICK new \in CallRecords :
        /\ deliveries' = [deliveries EXCEPT ![d].call = new]
        /\ new.left = left /\ new.at \in {"next", "saveDelivered", "saveError"}
        /\ new.at \in {"saveDelivered", "saveError"} => new.hook \in Hooks
        /\ new.delivered + new.failed = old.delivered + old.failed + 1
        /\ \/ hook' = hook
           \/ hook' = [hook EXCEPT ![h].calls = hook[h].calls + 1]
  <2> DEFINE n1 == [[old EXCEPT !.left = left] EXCEPT !.failed = old.failed + 1]
             n2 == [[old EXCEPT !.left = left] EXCEPT !.at = "saveDelivered", !.hook = h,
                               !.delivered = old.delivered + 1]
             n3 == [[old EXCEPT !.left = left] EXCEPT !.at = "saveError", !.hook = h,
                               !.failed = old.failed + 1]
  <2>1. left \in SUBSET Hooks /\ old.delivered + 1 \in Nat /\ old.failed + 1 \in Nat
    BY <1>2
  <2>2. CASE deliveries' = [deliveries EXCEPT ![d].call = n1] /\ hook' = hook
    <3>1. n1 \in CallRecords /\ n1.left = left /\ n1.at = "next" /\ n1.delivered = old.delivered
          /\ n1.failed = old.failed + 1
      BY <1>1, <1>2, <2>1 DEF CallRecords
    <3>2. n1.delivered + n1.failed = old.delivered + old.failed + 1
      BY <1>2, <3>1
    <3> HIDE DEF n1, left
    <3> QED BY <1>2, <2>2, <3>1, <3>2
  <2>3. CASE /\ deliveries' = [deliveries EXCEPT ![d].call = n2]
             /\ hook' = [hook EXCEPT ![h].calls = hook[h].calls + 1]
    <3>1. n2 \in CallRecords /\ n2.left = left /\ n2.at = "saveDelivered" /\ n2.hook = h
          /\ n2.delivered = old.delivered + 1 /\ n2.failed = old.failed
      BY <1>1, <1>2, <2>1 DEF CallRecords
    <3>2. n2.delivered + n2.failed = old.delivered + old.failed + 1
      BY <1>2, <3>1
    <3> HIDE DEF n2, left
    <3> QED BY <1>2, <2>3, <3>1, <3>2
  <2>4. CASE /\ deliveries' = [deliveries EXCEPT ![d].call = n3]
             /\ hook' = [hook EXCEPT ![h].calls = hook[h].calls + 1]
    <3>1. n3 \in CallRecords /\ n3.left = left /\ n3.at = "saveError" /\ n3.hook = h
          /\ n3.delivered = old.delivered /\ n3.failed = old.failed + 1
      BY <1>1, <1>2, <2>1 DEF CallRecords
    <3>2. n3.delivered + n3.failed = old.delivered + old.failed + 1
      BY <1>2, <3>1
    <3> HIDE DEF n3, left
    <3> QED BY <1>2, <2>4, <3>1, <3>2
  <2>5. \/ deliveries' = [deliveries EXCEPT ![d].call = n1] /\ hook' = hook
        \/ /\ deliveries' = [deliveries EXCEPT ![d].call = n2]
           /\ hook' = [hook EXCEPT ![h].calls = hook[h].calls + 1]
        \/ /\ deliveries' = [deliveries EXCEPT ![d].call = n3]
           /\ hook' = [hook EXCEPT ![h].calls = hook[h].calls + 1]
    BY DEF CallHook, Called, Goes
  <2> HIDE DEF n1, n2, n3
  <2> QED BY <2>2, <2>3, <2>4, <2>5
<1> HIDE DEF old, left, c
<1>4. CallCounts(new, troubles["update"])
  <2>1. Hooks \ new.left = (Hooks \ old.left) \cup {h}
    BY <1>1, <1>2, <1>3 DEF left
  <2>2. IsFiniteSet(Hooks \ old.left) /\ h \notin Hooks \ old.left
    BY <1>1, NoticesAssumption, FS_Subset
  <2>3. /\ Cardinality(Hooks \ new.left) = Cardinality(Hooks \ old.left) + 1
        /\ Cardinality(Hooks \ old.left) \in Nat
    BY <2>1, <2>2, FS_AddElement, FS_CardinalityType
  <2>4. /\ Cardinality(Hooks \ old.left) <= old.delivered + old.failed
        /\ old.delivered + old.failed <= Cardinality(Hooks \ old.left) + troubles["update"]
    BY <1>1, <1>2 DEF CallCounts
  <2>5. /\ Cardinality(Hooks \ new.left) <= new.delivered + new.failed
        /\ new.delivered + new.failed <= Cardinality(Hooks \ new.left) + troubles["update"]
    BY <1>2, <1>3, <2>3, <2>4
  <2> QED BY <1>3, <2>5 DEF CallCounts
<1>5. /\ hook' \in [Hooks -> HookRecords]
      /\ \A k \in Hooks : \/ hook'[k].calls = hook[k].calls
                          \/ k = h /\ hook'[k].calls = hook[k].calls + 1
  <2>1. CASE hook' = hook
    BY <1>2, <2>1
  <2>2. CASE hook' = [hook EXCEPT ![h].calls = hook[h].calls + 1]
    <3>1. hook[h] \in HookRecords /\ hook[h].calls + 1 \in Nat
      BY <1>2 DEF HookRecords
    <3> QED BY <1>2, <2>2, <3>1 DEF HookRecords
  <2> QED BY <1>3, <2>1, <2>2
<1>6. /\ new.left \subseteq deliveries[d].call.left /\ h \in deliveries[d].call.left \ new.left
      /\ deliveries[d].call # None /\ new.at # "find"
  BY <1>1, <1>3 DEF old, left
<1>7. /\ troubles' = troubles /\ troubles' \in [TroubleKinds -> Nat]
      /\ troubles["update"] <= troubles'["update"] /\ CallCounts(new, troubles'["update"])
  BY <1>1, <1>2, <1>4
<1>8. \A k \in Hooks :
        \/ /\ hook'[k].calls = hook[k].calls
           /\ deliveries[d].call.at = "find" \/ new.left \subseteq deliveries[d].call.left
        \/ /\ hook'[k].calls = hook[k].calls + 1
           /\ k \in deliveries[d].call.left \ new.left
           /\ new.left \subseteq deliveries[d].call.left
  BY <1>5, <1>6
<1> QED BY <1>1, <1>3, <1>5, <1>6, <1>7, <1>8, CallStep

\* Those that go on with the hooks called.
LEMMA NotingStep ==
  ASSUME NoticesInv, NEW d \in DOMAIN deliveries, NEW c \in CallRecords,
         deliveries[d].call # None, deliveries[d].call.at \notin {"find", "dead"},
         UNCHANGED <<inbox, notice>>,
         deliveries' = [deliveries EXCEPT ![d].call = c],
         hook' \in [Hooks -> HookRecords], \A h \in Hooks : hook'[h].calls = hook[h].calls,
         troubles' \in [TroubleKinds -> Nat],
         troubles'["insert"] = troubles["insert"], troubles'["death"] = troubles["death"],
         troubles'["lockLost"] = troubles["lockLost"],
         c.left = deliveries[d].call.left, c.at \in {"next", "saveError", "done"},
         c.at = "done" => c.left = {}, c.at = "saveError" => c.hook \in Hooks,
         \/ /\ troubles'["update"] = troubles["update"]
            /\ c.delivered + c.failed = deliveries[d].call.delivered + deliveries[d].call.failed
         \/ /\ troubles'["update"] = troubles["update"] + 1
            /\ c.delivered + c.failed = deliveries[d].call.delivered + deliveries[d].call.failed + 1
  PROVE  NoticesInv'
<1> DEFINE old == deliveries[d].call
           n   == Cardinality(Hooks \ old.left)
<1>1. /\ CallCounts(old, troubles["update"]) /\ troubles["update"] \in Nat
      /\ old.delivered + old.failed \in Nat
  <2>1. old.delivered \in Nat /\ old.failed \in Nat
    BY CallUnderWay
  <2> QED BY <2>1, CallUnderWay
<1>2. n <= old.delivered + old.failed /\ old.delivered + old.failed <= n + troubles["update"]
  BY <1>1 DEF CallCounts
<1>3. n \in Nat
  BY NoticesAssumption, FS_Subset, FS_CardinalityType
<1>4. n <= c.delivered + c.failed /\ c.delivered + c.failed <= n + troubles'["update"]
  <2> HIDE DEF n, old
  <2>1. \/ /\ troubles'["update"] = troubles["update"]
           /\ c.delivered + c.failed = old.delivered + old.failed
        \/ /\ troubles'["update"] = troubles["update"] + 1
           /\ c.delivered + c.failed = old.delivered + old.failed + 1
    BY DEF old
  <2> QED BY <1>1, <1>2, <1>3, <2>1
<1>5. Cardinality(Hooks \ c.left) = n
  OBVIOUS
<1> HIDE DEF n
<1>6. CallCounts(c, troubles'["update"])
  BY <1>4, <1>5 DEF CallCounts
<1>7. troubles["update"] <= troubles'["update"]
  BY <1>1
<1>8. \A h \in Hooks :
        /\ hook'[h].calls = hook[h].calls
        /\ deliveries[d].call.at = "find" \/ c.left \subseteq deliveries[d].call.left
  OBVIOUS
<1>9. c.at # "find"
  OBVIOUS
<1> QED BY <1>6, <1>7, <1>8, <1>9, CallStep

LEMMA SaveDeliveredInv ==
  ASSUME NoticesInv, NEW d \in DOMAIN deliveries, SaveDelivered(d) PROVE NoticesInv'
<1> DEFINE old == deliveries[d].call
           c   == [old EXCEPT !.at = "next"]
<1>1. /\ UNCHANGED <<inbox, notice, troubles>> /\ old # None /\ old.at = "saveDelivered"
      /\ deliveries' = [deliveries EXCEPT ![d].call = c]
      /\ hook' = [hook EXCEPT ![old.hook].lastDeliveryAt = TRUE, ![old.hook].lastError = FALSE]
  BY DEF SaveDelivered, CallAt, Goes
<1>2. /\ old \in CallRecords /\ old.hook \in Hooks /\ troubles \in [TroubleKinds -> Nat]
      /\ hook \in [Hooks -> HookRecords]
  BY <1>1, CallUnderWay DEF CallCounts
<1>3. hook' \in [Hooks -> HookRecords] /\ \A h \in Hooks : hook'[h].calls = hook[h].calls
  BY <1>1, <1>2 DEF HookRecords
<1>4. /\ c \in CallRecords /\ c.at = "next" /\ c.left = old.left
      /\ c.delivered = old.delivered /\ c.failed = old.failed
  BY <1>1, <1>2 DEF CallRecords
<1> HIDE DEF c
<1> QED BY <1>1, <1>2, <1>3, <1>4, NotingStep

LEMMA SaveErrorInv ==
  ASSUME NoticesInv, NEW d \in DOMAIN deliveries, SaveError(d) PROVE NoticesInv'
<1> DEFINE old == deliveries[d].call
           c   == [old EXCEPT !.at = "next"]
<1>1. /\ UNCHANGED <<inbox, notice, troubles>> /\ old # None /\ old.at = "saveError"
      /\ deliveries' = [deliveries EXCEPT ![d].call = c]
      /\ hook' = [hook EXCEPT ![old.hook].lastError = TRUE]
  BY DEF SaveError, CallAt, Goes
<1>2. /\ old \in CallRecords /\ old.hook \in Hooks /\ troubles \in [TroubleKinds -> Nat]
      /\ hook \in [Hooks -> HookRecords]
  BY <1>1, CallUnderWay DEF CallCounts
<1>3. hook' \in [Hooks -> HookRecords] /\ \A h \in Hooks : hook'[h].calls = hook[h].calls
  BY <1>1, <1>2 DEF HookRecords
<1>4. /\ c \in CallRecords /\ c.at = "next" /\ c.left = old.left
      /\ c.delivered = old.delivered /\ c.failed = old.failed
  BY <1>1, <1>2 DEF CallRecords
<1> HIDE DEF c
<1> QED BY <1>1, <1>2, <1>3, <1>4, NotingStep

LEMMA DispatchEndsInv ==
  ASSUME NoticesInv, NEW d \in DOMAIN deliveries, DispatchEnds(d) PROVE NoticesInv'
<1> DEFINE old == deliveries[d].call
           c   == [old EXCEPT !.at = "done"]
<1>1. /\ UNCHANGED <<inbox, notice, hook, troubles>> /\ old # None /\ old.at = "next"
      /\ old.left = {} /\ deliveries' = [deliveries EXCEPT ![d].call = c]
  BY DEF DispatchEnds, CallAt, Goes
<1>2. /\ old \in CallRecords /\ troubles \in [TroubleKinds -> Nat]
      /\ hook \in [Hooks -> HookRecords]
  BY <1>1, CallUnderWay
<1>3. hook' \in [Hooks -> HookRecords] /\ \A h \in Hooks : hook'[h].calls = hook[h].calls
  BY <1>1, <1>2
<1>4. /\ c \in CallRecords /\ c.at = "done" /\ c.left = old.left
      /\ c.delivered = old.delivered /\ c.failed = old.failed
  BY <1>1, <1>2 DEF CallRecords
<1> HIDE DEF c
<1> QED BY <1>1, <1>2, <1>3, <1>4, NotingStep

\* A trouble counts once, as what it is.
LEMMA TroubleCounts ==
  ASSUME troubles \in [TroubleKinds -> Nat], NEW w \in TroubleKinds, Trouble(w)
  PROVE  /\ troubles' \in [TroubleKinds -> Nat] /\ troubles'[w] = troubles[w] + 1
         /\ \A v \in TroubleKinds : v # w => troubles'[v] = troubles[v]
BY DEF Trouble

LEMMA SaveDeliveredFailsInv ==
  ASSUME NoticesInv, NEW d \in DOMAIN deliveries, SaveDeliveredFails(d) PROVE NoticesInv'
<1> DEFINE old == deliveries[d].call
           c   == [old EXCEPT !.at = "saveError", !.failed = old.failed + 1]
<1>1. /\ UNCHANGED <<inbox, notice, hook>> /\ old # None /\ old.at = "saveDelivered"
      /\ deliveries' = [deliveries EXCEPT ![d].call = c] /\ Trouble("update")
  BY DEF SaveDeliveredFails, CallAt, Goes
<1>2. /\ old \in CallRecords /\ old.hook \in Hooks /\ troubles \in [TroubleKinds -> Nat]
      /\ hook \in [Hooks -> HookRecords] /\ old.delivered \in Nat /\ old.failed \in Nat
  BY <1>1, CallUnderWay DEF CallCounts
<1>3. hook' \in [Hooks -> HookRecords] /\ \A h \in Hooks : hook'[h].calls = hook[h].calls
  BY <1>1, <1>2
<1>4. /\ c \in CallRecords /\ c.at = "saveError" /\ c.left = old.left /\ c.hook = old.hook
      /\ c.delivered = old.delivered /\ c.failed = old.failed + 1
  <2>1. old.failed + 1 \in Nat
    BY <1>2
  <2> QED BY <1>1, <1>2, <2>1 DEF CallRecords
<1>5. /\ troubles' \in [TroubleKinds -> Nat]
      /\ troubles'["update"] = troubles["update"] + 1
      /\ troubles'["insert"] = troubles["insert"] /\ troubles'["death"] = troubles["death"]
      /\ troubles'["lockLost"] = troubles["lockLost"]
  BY <1>1, <1>2, TroubleCounts DEF TroubleKinds
<1>6. c.delivered + c.failed = old.delivered + old.failed + 1
  BY <1>2, <1>4
<1> HIDE DEF c
<1> QED BY <1>1, <1>2, <1>3, <1>4, <1>5, <1>6, NotingStep

\* The job alone changes.
LEMMA JobStep ==
  ASSUME NoticesInv, UNCHANGED <<inbox, deliveries, hook>>,
         notice' \in NoticeRecords, notice'.holder \in 0..Len(deliveries),
         notice'.valid = notice.valid \/ Len(deliveries) = 0,
         troubles' \in [TroubleKinds -> Nat], troubles'["update"] = troubles["update"],
         JobSound', Redelivered'
  PROVE  NoticesInv'
<1>1. /\ deliveries \in Seq(DeliveryRecords)
      /\ inbox \in [Users -> [all : Nat, unread : Nat]]
  BY DEF NoticesInv, NoticesHold
<1>2. NoticesHold'
  BY DEF NoticesInv, NoticesHold
<1>3. CalledOnce'
  BY DEF NoticesInv, CalledOnce, PastHook
<1>4. \A u \in Users : ToldIn(u)' = ToldIn(u)
  BY DEF ToldIn
<1>5. CASE notice'.valid = notice.valid
  BY <1>2, <1>3, <1>4, <1>5 DEF NoticesInv, DeliveriesSound, InboxSound
<1>6. CASE Len(deliveries) = 0
  <2>1. DOMAIN deliveries = {}
    BY <1>1, <1>6, DeliveriesAre
  <2>2. \A u \in Users : ToldIn(u) = {}
    BY <2>1 DEF ToldIn
  <2>3. ASSUME NEW u \in Users
        PROVE  inbox[u].all = 0 /\ Cardinality(ToldIn(u)') = 0 /\ ToldIn(u)' = {}
    <3>1. Cardinality(ToldIn(u)) = 0 /\ ToldIn(u)' = {}
      BY <1>4, <2>2, FS_EmptySet
    <3>2. inbox[u].all <= Cardinality(ToldIn(u)) /\ inbox[u].all \in Nat
      BY <1>1 DEF NoticesInv, InboxSound
    <3> QED BY <2>2, <3>1, <3>2, FS_EmptySet
  <2>4. InboxSound'
    BY <2>3 DEF InboxSound
  <2>5. DeliveriesSound'
    BY <2>1 DEF DeliveriesSound
  <2> QED BY <1>2, <1>3, <2>4, <2>5 DEF NoticesInv
<1> QED BY <1>5, <1>6

\* What the inductive invariant says of the job.
LEMMA JobIs ==
  ASSUME NoticesInv
  PROVE  /\ notice \in NoticeRecords /\ notice.holder \in 0..Len(deliveries)
         /\ notice.attempts \in Nat /\ notice.stalls \in Nat
         /\ troubles \in [TroubleKinds -> Nat]
         /\ troubles["insert"] \in Nat /\ troubles["death"] \in Nat
         /\ troubles["lockLost"] \in Nat /\ troubles["update"] \in Nat
         /\ Len(deliveries) \in Nat /\ DOMAIN deliveries = 1..Len(deliveries)
         /\ Cardinality(Unbroken) \in Nat /\ IsFiniteSet(Unbroken) /\ ToCome \in {0, 1}
<1>1. deliveries \in Seq(DeliveryRecords)
  BY DEF NoticesInv, NoticesHold
<1>2. Len(deliveries) \in Nat /\ DOMAIN deliveries = 1..Len(deliveries)
  BY <1>1, DeliveriesAre
<1>3. Cardinality(Unbroken) \in Nat /\ IsFiniteSet(Unbroken)
  BY <1>1, CountedSets DEF Unbroken
<1> QED BY <1>2, <1>3
    DEF NoticesInv, NoticesHold, NoticeRecords, TroubleKinds, ToCome, MaxAttempts, MaxStalls

\* No delivery begins, and no more are to come than deaths and lost locks account for.
LEMMA StillRedelivered ==
  ASSUME NoticesInv, Len(deliveries') = Len(deliveries), ToCome' \in {0, 1},
         Cardinality(Unbroken') \in Nat, Cardinality(Unbroken') <= Cardinality(Unbroken),
         troubles'["insert"] \in Nat, troubles'["death"] \in Nat, troubles'["lockLost"] \in Nat,
         troubles["insert"] <= troubles'["insert"],
         troubles["death"] + troubles["lockLost"] + ToCome'
           <= troubles'["death"] + troubles'["lockLost"] + ToCome
  PROVE  Redelivered'
<1>1. /\ Len(deliveries) + ToCome
           <= 1 + troubles["insert"] + troubles["death"] + troubles["lockLost"]
      /\ Cardinality(Unbroken) + ToCome <= 1 + troubles["death"] + troubles["lockLost"]
  BY DEF NoticesInv, Redelivered
<1>2. Len(deliveries) \in Nat /\ Cardinality(Unbroken) \in Nat /\ ToCome \in {0, 1}
  BY JobIs
<1>3. troubles["insert"] \in Nat /\ troubles["death"] \in Nat /\ troubles["lockLost"] \in Nat
  BY JobIs
<1> DEFINE n  == Len(deliveries)        b  == Cardinality(Unbroken)
           b2 == Cardinality(Unbroken') c  == ToCome
           c2 == ToCome'                i  == troubles["insert"]
           i2 == troubles'["insert"]    t  == troubles["death"]
           t2 == troubles'["death"]     k  == troubles["lockLost"]
           k2 == troubles'["lockLost"]
<1>4. /\ n \in Nat /\ b \in Nat /\ b2 \in Nat /\ c \in {0, 1} /\ c2 \in {0, 1} /\ b2 <= b
      /\ i \in Nat /\ i2 \in Nat /\ t \in Nat /\ t2 \in Nat /\ k \in Nat /\ k2 \in Nat
      /\ i <= i2 /\ t + k + c2 <= t2 + k2 + c
      /\ n + c <= 1 + i + t + k /\ b + c <= 1 + t + k
  BY <1>1, <1>2, <1>3
<1>5. n + c2 <= 1 + i2 + t2 + k2 /\ b2 + c2 <= 1 + t2 + k2
  <2> HIDE DEF n, b, b2, c, c2, i, i2, t, t2, k, k2
  <2> QED BY <1>4
<1> QED BY <1>5 DEF Redelivered

LEMMA SameUnbroken ==
  ASSUME NoticesInv, UNCHANGED deliveries
  PROVE  /\ Len(deliveries') = Len(deliveries) /\ Cardinality(Unbroken') \in Nat
         /\ Cardinality(Unbroken') <= Cardinality(Unbroken)
<1>1. Cardinality(Unbroken') = Cardinality(Unbroken)
  BY DEF Unbroken
<1> QED BY <1>1, JobIs

LEMMA CreateRejectsInv == ASSUME NoticesInv, CreateRejects PROVE NoticesInv'
<1>1. /\ notice.at = "none" /\ notice' = [notice EXCEPT !.at = "failed"]
      /\ UNCHANGED <<inbox, deliveries, hook, troubles>>
  BY DEF CreateRejects
<1>2. /\ notice' \in NoticeRecords /\ notice'.at = "failed" /\ notice'.holder = notice.holder
      /\ notice'.valid = notice.valid
  BY <1>1, JobIs DEF NoticeRecords
<1>3. JobSound'
  BY <1>1, <1>2 DEF NoticesInv, JobSound
<1>4. Redelivered'
  <2>1. ToCome = 1 /\ ToCome' = 0
    BY <1>1, <1>2 DEF ToCome
  <2> QED BY <1>1, <2>1, JobIs, SameUnbroken, StillRedelivered
<1> QED BY <1>1, <1>2, <1>3, <1>4, JobIs, JobStep

LEMMA LoseLockInv == ASSUME NoticesInv, LoseLock PROVE NoticesInv'
<1>1. /\ notice.holder # 0 /\ notice' = [notice EXCEPT !.holder = 0]
      /\ UNCHANGED <<inbox, deliveries, hook>> /\ Trouble("lockLost")
  BY DEF LoseLock
<1>2. /\ notice' \in NoticeRecords /\ notice'.at = notice.at /\ notice'.holder = 0
      /\ notice'.valid = notice.valid /\ notice.at = "active"
  BY <1>1, JobIs DEF NoticeRecords, NoticesInv, JobSound
<1>3. /\ troubles' \in [TroubleKinds -> Nat] /\ troubles'["lockLost"] = troubles["lockLost"] + 1
      /\ troubles'["insert"] = troubles["insert"] /\ troubles'["death"] = troubles["death"]
      /\ troubles'["update"] = troubles["update"]
  BY <1>1, JobIs, TroubleCounts DEF TroubleKinds
<1>4. JobSound'
  BY <1>1, <1>2 DEF NoticesInv, JobSound
<1>5. Redelivered'
  <2>1. ToCome = 0 /\ ToCome' = 1
    BY <1>1, <1>2 DEF ToCome
  <2> QED BY <1>1, <1>3, <2>1, JobIs, SameUnbroken, StillRedelivered
<1> QED BY <1>1, <1>2, <1>3, <1>4, <1>5, JobIs, JobStep

LEMMA StalledInv == ASSUME NoticesInv, Stalled PROVE NoticesInv'
<1>1. /\ notice.at = "active" /\ notice.holder = 0
      /\ UNCHANGED <<inbox, deliveries, hook, troubles>>
  BY DEF Stalled
<1>2. /\ notice' \in NoticeRecords /\ notice'.at \in {"waiting", "failed"} /\ notice'.holder = 0
      /\ notice'.valid = notice.valid
  <2>1. CASE notice.stalls < MaxStalls
    <3>1. notice' = [notice EXCEPT !.at = "waiting", !.stalls = notice.stalls + 1]
      BY <2>1 DEF Stalled
    <3>2. notice.stalls + 1 \in 0..MaxStalls
      BY <2>1, JobIs DEF MaxStalls
    <3> QED BY <1>1, <3>1, <3>2, JobIs DEF NoticeRecords
  <2>2. CASE ~(notice.stalls < MaxStalls)
    <3>1. notice' = [notice EXCEPT !.at = "failed"]
      BY <2>2 DEF Stalled
    <3> QED BY <1>1, <3>1, JobIs DEF NoticeRecords
  <2> QED BY <2>1, <2>2
<1>3. JobSound'
  BY <1>1, <1>2 DEF JobSound
<1>4. Redelivered'
  <2>1. ToCome = 1 /\ ToCome' \in {0, 1}
    BY <1>1, <1>2 DEF ToCome
  <2> QED BY <1>1, <2>1, JobIs, SameUnbroken, StillRedelivered
<1> QED BY <1>1, <1>2, <1>3, <1>4, JobIs, JobStep

\* A delivery begins.
LEMMA BeginStep ==
  ASSUME NoticesInv, NEW p \in Processes, NEW v \in BOOLEAN,
         notice.at = "none" \/ (notice.at = "waiting" /\ v = notice.valid),
         deliveries' = Append(deliveries, Delivery(p, v)),
         notice' \in NoticeRecords, notice'.at = "active", notice'.valid = v,
         notice'.holder = Len(deliveries) + 1, UNCHANGED <<inbox, hook, troubles>>
  PROVE  NoticesInv'
<1> DEFINE n == Len(deliveries)
           r == Delivery(p, v)
<1>1. /\ deliveries \in Seq(DeliveryRecords) /\ n \in Nat /\ DOMAIN deliveries = 1..n
  BY JobIs DEF NoticesInv, NoticesHold
<1>2. /\ r \in DeliveryRecords /\ r.at = "storing" /\ r.call = None
      /\ r.left = IF v THEN Users ELSE {}
  BY DEF Delivery, DeliveryRecords
<1> HIDE DEF r
<1>3. /\ deliveries' \in Seq(DeliveryRecords) /\ Len(deliveries') = n + 1
      /\ DOMAIN deliveries' = 1..(n + 1) /\ deliveries'[n + 1] = r
      /\ \A e \in 1..n : deliveries'[e] = deliveries[e]
  <2>1. deliveries' = Append(deliveries, r)
    BY DEF r
  <2>2. /\ deliveries' \in Seq(DeliveryRecords) /\ Len(deliveries') = n + 1
        /\ deliveries'[n + 1] = r /\ \A e \in 1..n : deliveries'[e] = deliveries[e]
    BY <1>1, <1>2, <2>1, AppendProperties
  <2> QED BY <2>2
<1> HIDE DEF n
<1>4. /\ 1..(n + 1) = 1..n \cup {n + 1} /\ n + 1 \notin 1..n /\ n + 1 \in 0..(n + 1)
      /\ n + 1 # 0
  BY <1>1
<1>5. NoticesHold'
  BY <1>3, <1>4 DEF NoticesInv, NoticesHold, n
<1>6. JobSound'
  BY <1>2, <1>3, <1>4 DEF JobSound, n
<1>7. notice.at = "none" => n = 0
  BY DEF NoticesInv, JobSound, n
<1>8. DeliveriesSound'
  <2> SUFFICES ASSUME NEW e \in 1..(n + 1)
               PROVE  DeliverySound(deliveries'[e], v, troubles["update"])
    BY <1>3 DEF DeliveriesSound
  <2>1. CASE e = n + 1
    BY <1>2, <1>3, <2>1 DEF DeliverySound
  <2>2. CASE e \in 1..n
    <3>1. v = notice.valid
      BY <1>1, <1>7, <2>2
    <3> QED BY <1>1, <1>3, <2>2, <3>1 DEF NoticesInv, DeliveriesSound
  <2> QED BY <1>4, <2>1, <2>2
<1>9. InboxSound'
  <2> SUFFICES ASSUME NEW u \in Users
               PROVE  /\ inbox[u].all <= Cardinality(ToldIn(u)')
                      /\ ~v => inbox[u].all = 0
                      /\ v /\ ToldIn(u)' # {} => inbox[u].all > 0
    BY DEF InboxSound
  <2>1. ToldIn(u)' = ToldIn(u) \cup IF v THEN {} ELSE {n + 1}
    BY <1>1, <1>2, <1>3, <1>4 DEF ToldIn
  <2>2. /\ IsFiniteSet(ToldIn(u)) /\ Cardinality(ToldIn(u)) \in Nat
        /\ inbox[u].all <= Cardinality(ToldIn(u)) /\ inbox[u].all \in Nat
    BY <1>1, CountedSets DEF ToldIn, NoticesInv, InboxSound, NoticesHold
  <2>3. n = 0 => ToldIn(u) = {} /\ inbox[u].all = 0
    <3>1. n = 0 => ToldIn(u) = {}
      BY <1>1 DEF ToldIn
    <3> QED BY <2>2, <3>1, FS_EmptySet
  <2>4. inbox[u].all <= Cardinality(ToldIn(u)')
    <3>1. ToldIn(u) \subseteq ToldIn(u)' /\ IsFiniteSet(ToldIn(u)')
      <4>1. CASE v
        BY <2>1, <2>2, <4>1
      <4>2. CASE ~v
        <5>1. ToldIn(u)' = ToldIn(u) \cup {n + 1}
          BY <2>1, <4>2
        <5> HIDE DEF n
        <5>2. IsFiniteSet(ToldIn(u) \cup {n + 1})
          BY <2>2, FS_AddElement
        <5> QED BY <5>1, <5>2
      <4> QED BY <4>1, <4>2
    <3>2. Cardinality(ToldIn(u)) <= Cardinality(ToldIn(u)') /\ Cardinality(ToldIn(u)') \in Nat
      BY <3>1, FS_Subset, FS_CardinalityType
    <3> QED BY <2>2, <3>2
  <2>5. ~v => inbox[u].all = 0
    BY <1>7, <2>3 DEF NoticesInv, InboxSound
  <2>6. v /\ ToldIn(u)' # {} => inbox[u].all > 0
    BY <1>7, <2>1, <2>3 DEF NoticesInv, InboxSound
  <2> QED BY <2>4, <2>5, <2>6
<1>10. Redelivered'
  <2>1. Unbroken' = Unbroken \cup {n + 1} /\ n + 1 \notin Unbroken
    BY <1>1, <1>2, <1>3, <1>4 DEF Unbroken
  <2>2. Cardinality(Unbroken') = Cardinality(Unbroken) + 1
    BY <2>1, JobIs, FS_AddElement
  <2>3. ToCome = 1 /\ ToCome' = 0
    BY <1>3, <1>4 DEF ToCome, n
  <2> QED BY <1>1, <1>3, <2>2, <2>3, JobIs DEF NoticesInv, Redelivered, n
<1>11. CalledOnce'
  <2>1. \A h \in Hooks : PastHook(h)' = PastHook(h)
    BY <1>1, <1>2, <1>3, <1>4 DEF PastHook
  <2> QED BY <2>1 DEF NoticesInv, CalledOnce
<1> QED BY <1>5, <1>6, <1>8, <1>9, <1>10, <1>11 DEF NoticesInv

LEMMA CreateForUsersInv ==
  ASSUME NoticesInv, NEW p \in Processes, NEW v \in BOOLEAN, createForUsers(p, v)
  PROVE  NoticesInv'
<1>1. notice.at = "none" /\ UNCHANGED <<inbox, hook, troubles>> /\ Len(deliveries) = 0
  BY DEF createForUsers, NoticesInv, JobSound
<1>2. CASE /\ notice' = [notice EXCEPT !.at = "waiting", !.valid = v, !.queued = TRUE]
           /\ UNCHANGED deliveries
  <2>1. /\ notice' \in NoticeRecords /\ notice'.at = "waiting" /\ notice'.holder = notice.holder
    BY <1>2, JobIs DEF NoticeRecords
  <2>2. JobSound'
    BY <1>1, <1>2, <2>1 DEF NoticesInv, JobSound
  <2>3. Redelivered'
    <3>1. ToCome = 1 /\ ToCome' = 1 /\ Unbroken' = Unbroken
      BY <1>1, <1>2, <2>1 DEF ToCome, Unbroken
    <3> QED BY <1>1, <1>2, <3>1 DEF NoticesInv, Redelivered
  <2> QED BY <1>1, <1>2, <2>1, <2>2, <2>3, JobIs, JobStep
<1>3. CASE /\ notice' = [notice EXCEPT !.at = "active", !.valid = v, !.holder = 1]
           /\ deliveries' = Append(deliveries, Delivery(p, v))
  <2>1. /\ notice' \in NoticeRecords /\ notice'.at = "active" /\ notice'.valid = v
        /\ notice'.holder = 1
    BY <1>3, JobIs DEF NoticeRecords
  <2> QED BY <1>1, <1>3, <2>1, BeginStep
<1> QED BY <1>2, <1>3 DEF createForUsers

LEMMA ProcessInv == ASSUME NoticesInv, NEW p \in Processes, process(p) PROVE NoticesInv'
<1>1. /\ notice.at = "waiting" /\ UNCHANGED <<inbox, hook, troubles>>
      /\ notice' = [notice EXCEPT !.at = "active", !.holder = Len(deliveries) + 1]
      /\ deliveries' = Append(deliveries, Delivery(p, notice.valid))
  BY DEF process
<1>2. notice.valid \in BOOLEAN /\ Len(deliveries) + 1 \in Nat
  BY JobIs DEF NoticeRecords
<1>3. /\ notice' \in NoticeRecords /\ notice'.at = "active" /\ notice'.valid = notice.valid
      /\ notice'.holder = Len(deliveries) + 1
  BY <1>1, <1>2, JobIs DEF NoticeRecords
<1> QED BY <1>1, <1>2, <1>3, BeginStep

\* A delivery changes, and with it perhaps the job and the users' documents.
LEMMA DeliveryStep ==
  ASSUME NoticesInv, NEW d \in DOMAIN deliveries, NEW r \in DeliveryRecords,
         deliveries' = [deliveries EXCEPT ![d] = r], UNCHANGED hook,
         notice' \in NoticeRecords, notice'.holder \in 0..Len(deliveries),
         notice'.valid = notice.valid,
         inbox' \in [Users -> [all : Nat, unread : Nat]],
         \A u \in Users : inbox'[u].unread <= inbox'[u].all,
         troubles' \in [TroubleKinds -> Nat], troubles'["update"] = troubles["update"],
         DeliverySound(r, notice.valid, troubles["update"]),
         deliveries[d].at \in {"stored", "over"} =>
           r.at \in {"stored", "over"} /\ r.call = deliveries[d].call,
         JobSound', InboxSound', Redelivered'
  PROVE  NoticesInv'
<1>1. deliveries \in Seq(DeliveryRecords)
  BY DEF NoticesInv, NoticesHold
<1>2. /\ deliveries' \in Seq(DeliveryRecords) /\ Len(deliveries') = Len(deliveries)
      /\ DOMAIN deliveries' = DOMAIN deliveries /\ deliveries'[d] = r
      /\ \A e \in DOMAIN deliveries : e # d => deliveries'[e] = deliveries[e]
  BY <1>1, OneDelivery
<1>3. NoticesHold'
  BY <1>2 DEF NoticesInv, NoticesHold
<1>4. DeliveriesSound'
  <2>1. troubles["update"] \in Nat /\ troubles["update"] <= troubles'["update"]
    BY JobIs
  <2> QED BY <2>1, OneSound
<1>5. CalledOnce'
  <2> SUFFICES ASSUME NEW h \in Hooks PROVE hook[h].calls <= Cardinality(PastHook(h)')
    BY DEF CalledOnce
  <2>1. PastHook(h) \subseteq PastHook(h)' /\ PastHook(h)' \subseteq DOMAIN deliveries
    BY <1>2 DEF PastHook
  <2>2. IsFiniteSet(PastHook(h)') /\ IsFiniteSet(PastHook(h))
    BY <1>1, <2>1, CountedSets DEF PastHook
  <2>3. /\ Cardinality(PastHook(h)) <= Cardinality(PastHook(h)')
        /\ Cardinality(PastHook(h)) \in Nat /\ Cardinality(PastHook(h)') \in Nat
    BY <2>1, <2>2, FS_Subset, FS_CardinalityType
  <2>4. hook[h].calls <= Cardinality(PastHook(h)) /\ hook[h].calls \in Nat
    BY DEF NoticesInv, NoticesHold, CalledOnce, HookRecords
  <2> QED BY <2>3, <2>4
<1> QED BY <1>3, <1>4, <1>5 DEF NoticesInv

LEMMA SameTold ==
  ASSUME NoticesInv, NEW d \in DOMAIN deliveries, NEW r \in DeliveryRecords,
         deliveries' = [deliveries EXCEPT ![d] = r], r.left = deliveries[d].left,
         UNCHANGED inbox, notice'.valid = notice.valid
  PROVE  InboxSound'
<1>1. deliveries \in Seq(DeliveryRecords)
  BY DEF NoticesInv, NoticesHold
<1>2. /\ DOMAIN deliveries' = DOMAIN deliveries
      /\ \A e \in DOMAIN deliveries : deliveries'[e].left = deliveries[e].left
  BY <1>1, OneDelivery
<1>3. \A u \in Users : ToldIn(u)' = ToldIn(u)
  BY <1>2 DEF ToldIn
<1> QED BY <1>3 DEF NoticesInv, InboxSound

\* A delivery that goes on breaks none.
LEMMA UnbrokenStays ==
  ASSUME NoticesInv, NEW d \in DOMAIN deliveries, NEW r \in DeliveryRecords,
         deliveries' = [deliveries EXCEPT ![d] = r], deliveries[d].at # "broken"
  PROVE  /\ Len(deliveries') = Len(deliveries)
         /\ r.at # "broken" =>
              Cardinality(Unbroken') \in Nat /\ Cardinality(Unbroken') <= Cardinality(Unbroken)
         /\ r.at = "broken" => Cardinality(Unbroken') + 1 = Cardinality(Unbroken)
                               /\ Cardinality(Unbroken') \in Nat
<1>1. deliveries \in Seq(DeliveryRecords)
  BY DEF NoticesInv, NoticesHold
<1>2. /\ DOMAIN deliveries' = DOMAIN deliveries /\ deliveries'[d] = r
      /\ Len(deliveries') = Len(deliveries)
      /\ \A e \in DOMAIN deliveries : e # d => deliveries'[e] = deliveries[e]
  BY <1>1, OneDelivery
<1>3. IsFiniteSet(Unbroken) /\ Cardinality(Unbroken) \in Nat /\ d \in Unbroken
  BY JobIs DEF Unbroken
<1>4. CASE r.at # "broken"
  <2>1. Unbroken' = Unbroken
    BY <1>2, <1>4 DEF Unbroken
  <2>2. Cardinality(Unbroken') = Cardinality(Unbroken)
    BY <2>1
  <2> QED BY <1>2, <1>3, <1>4, <2>2
<1>5. CASE r.at = "broken"
  <2>1. Unbroken' = Unbroken \ {d}
    BY <1>2, <1>5 DEF Unbroken
  <2>2. Cardinality(Unbroken \ {d}) = Cardinality(Unbroken) - 1
    BY <1>3, FS_RemoveElement
  <2>3. IsFiniteSet(Unbroken') /\ Cardinality(Unbroken') = Cardinality(Unbroken) - 1
    BY <1>3, <2>1, <2>2, FS_RemoveElement
  <2>4. Cardinality(Unbroken') \in Nat
    BY <2>3, FS_CardinalityType
  <2> QED BY <1>2, <1>3, <1>5, <2>3, <2>4
<1> QED BY <1>4, <1>5

LEMMA DeliveryIs ==
  ASSUME NoticesInv, NEW d \in DOMAIN deliveries
  PROVE  /\ deliveries[d] \in DeliveryRecords
         /\ DeliverySound(deliveries[d], notice.valid, troubles["update"])
         /\ deliveries \in Seq(DeliveryRecords) /\ d \in 1..Len(deliveries) /\ d # 0
BY DeliveriesAre DEF NoticesInv, NoticesHold, DeliveriesSound

\* The job's part of a step that changes the delivery d.
LEMMA SameJob ==
  ASSUME NoticesInv, NEW d \in DOMAIN deliveries, NEW r \in DeliveryRecords,
         deliveries' = [deliveries EXCEPT ![d] = r], UNCHANGED notice,
         deliveries[d].at # "broken", deliveries[d].at = "over" => r.at = "over",
         notice.holder = d => r.at \in {"storing", "stored"}
  PROVE  JobSound' /\ ToCome' = ToCome
<1>1. deliveries \in Seq(DeliveryRecords)
  BY DEF NoticesInv, NoticesHold
<1>2. /\ DOMAIN deliveries' = DOMAIN deliveries /\ deliveries'[d] = r
      /\ Len(deliveries') = Len(deliveries)
      /\ \A e \in DOMAIN deliveries : e # d => deliveries'[e] = deliveries[e]
  BY <1>1, OneDelivery
<1>3. notice.holder # 0 => notice.holder \in DOMAIN deliveries
  BY JobIs
<1> QED BY <1>2, <1>3 DEF NoticesInv, JobSound, ToCome

\* Nothing went wrong, and no more is to come.
LEMMA NothingWrong ==
  ASSUME NoticesInv, UNCHANGED troubles, ToCome' \in {0, 1}, ToCome' <= ToCome,
         Len(deliveries') = Len(deliveries), Cardinality(Unbroken') \in Nat,
         Cardinality(Unbroken') <= Cardinality(Unbroken)
  PROVE  Redelivered'
<1>1. /\ troubles["insert"] \in Nat /\ troubles["death"] \in Nat
      /\ troubles["lockLost"] \in Nat /\ ToCome \in {0, 1}
  BY JobIs
<1>2. /\ troubles["insert"] <= troubles["insert"]
      /\ troubles["death"] + troubles["lockLost"] + ToCome'
           <= troubles["death"] + troubles["lockLost"] + ToCome
  BY <1>1
<1>3. /\ troubles'["insert"] = troubles["insert"] /\ troubles'["death"] = troubles["death"]
      /\ troubles'["lockLost"] = troubles["lockLost"]
  OBVIOUS
<1> QED BY <1>1, <1>2, <1>3, StillRedelivered

LEMMA InsertEndsInv ==
  ASSUME NoticesInv, NEW d \in DOMAIN deliveries, InsertEnds(d) PROVE NoticesInv'
<1> DEFINE r == [deliveries[d] EXCEPT !.at = "stored", !.call = FirstCall]
<1>1. /\ deliveries[d].at = "storing" /\ deliveries[d].left = {}
      /\ deliveries' = [deliveries EXCEPT ![d] = r]
      /\ UNCHANGED <<inbox, notice, hook, troubles>>
  BY DEF InsertEnds
<1>2. FirstCall \in CallRecords /\ CallCounts(FirstCall, troubles["update"])
  BY DEF FirstCall, CallRecords, CallCounts
<1>3. r \in DeliveryRecords /\ r.at = "stored" /\ r.left = {} /\ r.call = FirstCall
  BY <1>1, <1>2, DeliveryIs DEF DeliveryRecords
<1> HIDE DEF r
<1>4. DeliverySound(r, notice.valid, troubles["update"])
  BY <1>2, <1>3 DEF DeliverySound
<1>5. InboxSound'
  BY <1>1, <1>3, SameTold
<1>6. JobSound' /\ ToCome' = ToCome
  BY <1>1, <1>3, SameJob
<1>7. Redelivered'
  <2>1. ToCome' \in {0, 1} /\ ToCome' <= ToCome
    BY <1>6, JobIs
  <2> QED BY <1>1, <1>3, <2>1, UnbrokenStays, NothingWrong
<1>8. /\ inbox \in [Users -> [all : Nat, unread : Nat]]
      /\ \A u \in Users : inbox[u].unread <= inbox[u].all
  BY DEF NoticesInv, NoticesHold
<1> QED BY <1>1, <1>3, <1>4, <1>5, <1>6, <1>7, <1>8, JobIs, DeliveryStep

LEMMA CompleteInv ==
  ASSUME NoticesInv, NEW d \in DOMAIN deliveries, Complete(d) PROVE NoticesInv'
<1> DEFINE r == [deliveries[d] EXCEPT !.at = "over"]
<1>1. /\ deliveries[d].at = "stored" /\ deliveries' = [deliveries EXCEPT ![d] = r]
      /\ UNCHANGED <<inbox, hook, troubles>>
      /\ notice' = IF notice.holder = d
                     THEN [notice EXCEPT !.at = "completed", !.holder = 0] ELSE notice
  BY DEF Complete
<1>2. /\ r \in DeliveryRecords /\ r.at = "over" /\ r.left = deliveries[d].left
      /\ r.call = deliveries[d].call
  BY <1>1, DeliveryIs DEF DeliveryRecords
<1> HIDE DEF r
<1>3. DeliverySound(r, notice.valid, troubles["update"])
  BY <1>1, <1>2, DeliveryIs DEF DeliverySound
<1>6. /\ inbox \in [Users -> [all : Nat, unread : Nat]]
      /\ \A u \in Users : inbox[u].unread <= inbox[u].all
      /\ troubles' = troubles /\ troubles \in [TroubleKinds -> Nat]
      /\ notice.holder \in 0..Len(deliveries) /\ 0 \in 0..Len(deliveries)
  BY <1>1, JobIs DEF NoticesInv, NoticesHold
<1>4. CASE notice.holder = d
  <2>1. /\ notice' \in NoticeRecords /\ notice'.at = "completed" /\ notice'.holder = 0
        /\ notice'.valid = notice.valid
    BY <1>1, <1>4, JobIs DEF NoticeRecords
  <2>2. InboxSound'
    BY <1>1, <1>2, <2>1, SameTold
  <2>3. JobSound'
    <3>1. DOMAIN deliveries' = DOMAIN deliveries /\ deliveries'[d] = r
      BY <1>1, <1>2, DeliveryIs, OneDelivery
    <3> QED BY <1>2, <2>1, <3>1 DEF JobSound
  <2>4. Redelivered'
    <3>1. ToCome' \in {0, 1} /\ ToCome' <= ToCome
      BY <2>1, JobIs DEF ToCome
    <3> QED BY <1>1, <1>2, <3>1, UnbrokenStays, NothingWrong
  <2> QED BY <1>1, <1>2, <1>3, <1>6, <2>1, <2>2, <2>3, <2>4, JobIs, DeliveryStep
<1>5. CASE notice.holder # d
  <2>1. UNCHANGED notice
    BY <1>1, <1>5
  <2>2. InboxSound'
    BY <1>1, <1>2, <2>1, SameTold
  <2>3. JobSound' /\ ToCome' = ToCome
    BY <1>1, <1>2, <1>5, <2>1, SameJob
  <2>4. Redelivered'
    <3>1. ToCome' \in {0, 1} /\ ToCome' <= ToCome
      BY <2>3, JobIs
    <3> QED BY <1>1, <1>2, <3>1, UnbrokenStays, NothingWrong
  <2> QED BY <1>1, <1>2, <1>3, <1>6, <2>1, <2>2, <2>3, <2>4, JobIs, DeliveryStep
<1> QED BY <1>4, <1>5

LEMMA InsertOneInv ==
  ASSUME NoticesInv, NEW d \in DOMAIN deliveries, NEW u \in Users, InsertOne(d, u)
  PROVE  NoticesInv'
<1> DEFINE r == [deliveries[d] EXCEPT !.left = deliveries[d].left \ {u}]
<1>1. /\ deliveries[d].at = "storing" /\ u \in deliveries[d].left
      /\ deliveries' = [deliveries EXCEPT ![d] = r] /\ UNCHANGED <<notice, hook, troubles>>
      /\ inbox' = [inbox EXCEPT ![u] = [all |-> inbox[u].all + 1, unread |-> inbox[u].unread + 1]]
  BY DEF InsertOne
<1>2. /\ r \in DeliveryRecords /\ r.at = "storing" /\ r.left = deliveries[d].left \ {u}
      /\ r.call = deliveries[d].call
  BY <1>1, DeliveryIs DEF DeliveryRecords
<1> HIDE DEF r
<1>3. notice.valid /\ DeliverySound(r, notice.valid, troubles["update"])
  BY <1>1, <1>2, DeliveryIs DEF DeliverySound
<1>4. /\ inbox \in [Users -> [all : Nat, unread : Nat]]
      /\ \A v \in Users : inbox[v].unread <= inbox[v].all
      /\ inbox[u].all \in Nat /\ inbox[u].unread \in Nat
  BY DEF NoticesInv, NoticesHold
<1>5. /\ inbox' \in [Users -> [all : Nat, unread : Nat]]
      /\ inbox'[u].all = inbox[u].all + 1
      /\ \A v \in Users : v # u => inbox'[v] = inbox[v]
      /\ \A v \in Users : inbox'[v].unread <= inbox'[v].all
  BY <1>1, <1>4
<1>6. /\ DOMAIN deliveries' = DOMAIN deliveries /\ deliveries'[d] = r
      /\ \A e \in DOMAIN deliveries : e # d => deliveries'[e] = deliveries[e]
  BY <1>1, <1>2, DeliveryIs, OneDelivery
<1>7. InboxSound'
  <2>1. /\ IsFiniteSet(ToldIn(u)) /\ Cardinality(ToldIn(u)) \in Nat
        /\ inbox[u].all <= Cardinality(ToldIn(u))
    BY DeliveryIs, CountedSets DEF ToldIn, NoticesInv, InboxSound
  <2>2. ToldIn(u)' = ToldIn(u) \cup {d} /\ d \notin ToldIn(u)
    BY <1>1, <1>2, <1>6 DEF ToldIn
  <2>3. Cardinality(ToldIn(u)') = Cardinality(ToldIn(u)) + 1
    BY <2>1, <2>2, FS_AddElement
  <2>4. inbox'[u].all <= Cardinality(ToldIn(u)') /\ inbox'[u].all > 0
    BY <1>4, <1>5, <2>1, <2>3
  <2>5. ASSUME NEW v \in Users, v # u
        PROVE  /\ inbox'[v].all <= Cardinality(ToldIn(v)')
               /\ ToldIn(v)' # {} => inbox'[v].all > 0
    <3>1. ToldIn(v)' = ToldIn(v)
      BY <1>1, <1>2, <1>6, <2>5 DEF ToldIn
    <3>2. Cardinality(ToldIn(v)') = Cardinality(ToldIn(v))
      BY <3>1
    <3>3. inbox'[v] = inbox[v]
      BY <1>5, <2>5
    <3> QED BY <1>3, <3>1, <3>2, <3>3 DEF NoticesInv, InboxSound
  <2> QED BY <1>1, <1>3, <2>4, <2>5 DEF InboxSound
<1>8. JobSound' /\ ToCome' = ToCome
  BY <1>1, <1>2, SameJob
<1>9. Redelivered'
  <2>1. ToCome' \in {0, 1} /\ ToCome' <= ToCome
    BY <1>8, JobIs
  <2> QED BY <1>1, <1>2, <2>1, UnbrokenStays, NothingWrong
<1> QED BY <1>1, <1>2, <1>3, <1>5, <1>7, <1>8, <1>9, JobIs, DeliveryStep

LEMMA InsertFailsInv ==
  ASSUME NoticesInv, NEW d \in DOMAIN deliveries, InsertFails(d) PROVE NoticesInv'
<1> DEFINE r == [deliveries[d] EXCEPT !.at = "broken"]
<1>1. /\ deliveries[d].at = "storing" /\ Trouble("insert")
      /\ deliveries' = [deliveries EXCEPT ![d] = r] /\ UNCHANGED <<inbox, hook>>
      /\ notice' = IF notice.holder = d THEN AfterFailure ELSE notice
  BY DEF InsertFails
<1>2. /\ r \in DeliveryRecords /\ r.at = "broken" /\ r.left = deliveries[d].left
      /\ r.call = deliveries[d].call
  BY <1>1, DeliveryIs DEF DeliveryRecords
<1> HIDE DEF r
<1>3. DeliverySound(r, notice.valid, troubles["update"])
  BY <1>1, <1>2, DeliveryIs DEF DeliverySound
<1>4. /\ troubles' \in [TroubleKinds -> Nat] /\ troubles'["insert"] = troubles["insert"] + 1
      /\ troubles'["lockLost"] = troubles["lockLost"] /\ troubles'["death"] = troubles["death"]
      /\ troubles'["update"] = troubles["update"]
  BY <1>1, JobIs, TroubleCounts DEF TroubleKinds
<1>5. /\ notice' \in NoticeRecords /\ notice'.valid = notice.valid
      /\ \/ notice'.holder = 0 /\ notice'.at \in {"waiting", "failed"}
            /\ notice.holder = d /\ notice.at = "active"
         \/ notice' = notice /\ notice.holder # d
  <2>1. CASE notice.holder = d
    <3>1. notice.at = "active"
      BY <2>1, DeliveryIs DEF NoticesInv, JobSound
    <3>2. CASE notice.queued /\ notice.attempts + 1 < MaxAttempts
      <4>1. notice' = [notice EXCEPT !.at = "waiting", !.attempts = notice.attempts + 1,
                                     !.holder = 0]
        BY <1>1, <2>1, <3>2 DEF AfterFailure
      <4>2. notice.attempts + 1 \in 0..MaxAttempts - 1
        BY <3>2, JobIs DEF MaxAttempts
      <4> QED BY <2>1, <3>1, <4>1, <4>2, JobIs DEF NoticeRecords
    <3>3. CASE ~(notice.queued /\ notice.attempts + 1 < MaxAttempts)
      <4>1. notice' = [notice EXCEPT !.at = "failed", !.holder = 0]
        BY <1>1, <2>1, <3>3 DEF AfterFailure
      <4> QED BY <2>1, <3>1, <4>1, JobIs DEF NoticeRecords
    <3> QED BY <3>2, <3>3
  <2>2. CASE notice.holder # d
    BY <1>1, <2>2, JobIs
  <2> QED BY <2>1, <2>2
<1>6. InboxSound'
  BY <1>1, <1>2, <1>5, SameTold
<1>7. JobSound' /\ ToCome' \in {0, 1} /\ (notice' = notice => ToCome' = ToCome)
  <2>1. CASE notice' = notice /\ notice.holder # d
    <3>1. JobSound' /\ ToCome' = ToCome
      BY <1>1, <1>2, <2>1, SameJob
    <3> QED BY <3>1, JobIs
  <2>2. CASE notice'.holder = 0 /\ notice'.at \in {"waiting", "failed"}
    BY <2>2 DEF JobSound, ToCome
  <2> QED BY <1>5, <2>1, <2>2
<1>8. Redelivered'
  <2> DEFINE n  == Len(deliveries)        b  == Cardinality(Unbroken)
             b2 == Cardinality(Unbroken') c  == ToCome
             c2 == ToCome'                i  == troubles["insert"]
             i2 == troubles'["insert"]    t  == troubles["death"]
             t2 == troubles'["death"]     k  == troubles["lockLost"]
             k2 == troubles'["lockLost"]
  <2>1. Len(deliveries') = n /\ b2 \in Nat /\ b2 + 1 = b
    BY <1>1, <1>2, UnbrokenStays
  <2>2. /\ n \in Nat /\ b \in Nat /\ c \in {0, 1} /\ c2 \in {0, 1}
        /\ i \in Nat /\ i2 = i + 1 /\ t \in Nat /\ t2 = t /\ k \in Nat /\ k2 = k
    BY <1>4, <1>7, JobIs
  <2>3. n + c <= 1 + i + t + k /\ b + c <= 1 + t + k
    BY DEF NoticesInv, Redelivered
  <2>4. n + c2 <= 1 + i2 + t2 + k2 /\ b2 + c2 <= 1 + t2 + k2
    <3> HIDE DEF n, b, b2, c, c2, i, i2, t, t2, k, k2
    <3> QED BY <2>1, <2>2, <2>3
  <2> QED BY <2>1, <2>4 DEF Redelivered
<1>9. /\ notice'.holder \in 0..Len(deliveries)
      /\ inbox \in [Users -> [all : Nat, unread : Nat]]
      /\ \A u \in Users : inbox[u].unread <= inbox[u].all
  BY <1>5, JobIs DEF NoticesInv, NoticesHold
<1> QED BY <1>1, <1>2, <1>3, <1>4, <1>5, <1>6, <1>7, <1>8, <1>9, DeliveryStep

\* Each delivery, as the death of the process p leaves it.
LEMMA KilledIs ==
  ASSUME NoticesInv, NEW d \in DOMAIN deliveries
  PROVE  /\ Killed(d) \in DeliveryRecords /\ Killed(d).left = deliveries[d].left
         /\ DeliverySound(Killed(d), notice.valid, troubles["update"])
         /\ deliveries[d].at = "broken" => Killed(d).at = "broken"
         /\ deliveries[d].at = "over" => Killed(d).at = "over"
         /\ deliveries[d].at \in {"stored", "over"} =>
              /\ Killed(d).at \in {"stored", "over"}
              /\ \/ Killed(d).call = deliveries[d].call
                 \/ /\ Killed(d).call.at = "dead"
                    /\ Killed(d).call.left = deliveries[d].call.left
<1> DEFINE old == deliveries[d]
           dead == [old.call EXCEPT !.at = "dead"]
           at == IF old.at = "storing" THEN "broken" ELSE IF old.at = "stored" THEN "over"
                 ELSE old.at
           r == Killed(d)
<1>1. old \in DeliveryRecords /\ DeliverySound(old, notice.valid, troubles["update"])
  BY DeliveryIs
<1>2. r = [old EXCEPT !.at = at, !.call = IF Calling(d) THEN dead ELSE old.call]
  BY DEF Killed
<1>3. /\ at \in {"broken", "over"} /\ (old.at = "broken" <=> at = "broken" /\ old.at # "storing")
      /\ (old.at \in {"stored", "over"} <=> at = "over")
  BY <1>1 DEF DeliveryRecords
<1> HIDE DEF at, r
<1>4. CASE Calling(d)
  <2>1. old.call \in CallRecords /\ old.call # None
    BY <1>1, <1>4 DEF Calling, DeliveryRecords
  <2>2. dead \in CallRecords /\ dead.at = "dead" /\ dead.left = old.call.left
    BY <2>1 DEF CallRecords
  <2> HIDE DEF dead
  <2>3. r \in DeliveryRecords /\ r.left = old.left /\ r.at = at /\ r.call = dead
    BY <1>1, <1>2, <1>3, <1>4, <2>2 DEF DeliveryRecords
  <2>4. CallCounts(dead, troubles["update"])
    BY <2>2 DEF CallCounts
  <2>5. old.at \in {"stored", "over"}
    BY <1>1, <2>1 DEF DeliverySound
  <2>6. DeliverySound(r, notice.valid, troubles["update"])
    BY <1>1, <1>3, <2>3, <2>4, <2>5 DEF DeliverySound
  <2> QED BY <1>3, <2>2, <2>3, <2>5, <2>6 DEF r
<1>5. CASE ~Calling(d)
  <2>1. r = [old EXCEPT !.at = at, !.call = old.call]
    BY <1>2, <1>5
  <2> HIDE DEF dead
  <2>3. r \in DeliveryRecords /\ r.left = old.left /\ r.at = at /\ r.call = old.call
    BY <1>1, <1>3, <2>1 DEF DeliveryRecords
  <2>4. DeliverySound(r, notice.valid, troubles["update"])
    BY <1>1, <1>3, <2>3 DEF DeliverySound
  <2> QED BY <1>1, <1>3, <2>3, <2>4 DEF r
<1> QED BY <1>4, <1>5

LEMMA DiesInv ==
  ASSUME NoticesInv, NEW p, Trouble("death"), Dies(p) PROVE NoticesInv'
<1> DEFINE after(d) == IF deliveries[d].process = p THEN Killed(d) ELSE deliveries[d]
           n == Len(deliveries)
<1>1. /\ deliveries' = [d \in DOMAIN deliveries |-> after(d)] /\ UNCHANGED <<inbox, hook>>
      /\ notice' = IF notice.holder # 0 /\ deliveries[notice.holder].process = p
                     THEN [notice EXCEPT !.holder = 0,
                                         !.at = IF notice.queued THEN notice.at ELSE "failed"]
                     ELSE notice
  BY DEF Dies
<1>2. /\ troubles' \in [TroubleKinds -> Nat] /\ troubles'["death"] = troubles["death"] + 1
      /\ troubles'["insert"] = troubles["insert"] /\ troubles'["lockLost"] = troubles["lockLost"]
      /\ troubles'["update"] = troubles["update"]
  BY JobIs, TroubleCounts DEF TroubleKinds
<1>3. \A d \in DOMAIN deliveries :
        /\ after(d) \in DeliveryRecords /\ after(d).left = deliveries[d].left
        /\ DeliverySound(after(d), notice.valid, troubles["update"])
        /\ deliveries[d].at = "broken" => after(d).at = "broken"
        /\ deliveries[d].at = "over" => after(d).at = "over"
        /\ deliveries[d].at \in {"stored", "over"} =>
             /\ after(d).at \in {"stored", "over"}
             /\ \/ after(d).call = deliveries[d].call
                \/ after(d).call.at = "dead" /\ after(d).call.left = deliveries[d].call.left
  BY KilledIs, DeliveryIs
<1>4. \A d \in DOMAIN deliveries : deliveries[d].process # p => after(d) = deliveries[d]
  OBVIOUS
<1> HIDE DEF after
<1>5. n \in Nat /\ DOMAIN deliveries = 1..n /\ deliveries \in Seq(DeliveryRecords)
  BY JobIs DEF NoticesInv, NoticesHold
<1>6. /\ deliveries' \in Seq(DeliveryRecords) /\ Len(deliveries') = n
      /\ DOMAIN deliveries' = DOMAIN deliveries
      /\ \A d \in DOMAIN deliveries : deliveries'[d] = after(d)
  <2> HIDE DEF n
  <2>1. deliveries' \in [1..n -> DeliveryRecords]
    BY <1>1, <1>3, <1>5
  <2>2. deliveries' \in Seq(DeliveryRecords)
    BY <1>5, <2>1, SeqDef
  <2>3. Len(deliveries') = n
    BY <1>5, <2>1, <2>2
  <2> QED BY <1>1, <1>5, <2>2, <2>3
<1> HIDE DEF n
<1>7. \/ notice' = notice /\ (notice.holder = 0 \/ deliveries[notice.holder].process # p)
      \/ /\ notice' \in NoticeRecords /\ notice'.holder = 0 /\ notice'.at \in {"active", "failed"}
         /\ notice'.valid = notice.valid /\ notice.at = "active" /\ notice.holder # 0
  <2>1. CASE notice.holder # 0 /\ deliveries[notice.holder].process = p
    <3>1. notice.at = "active"
      BY <2>1 DEF NoticesInv, JobSound
    <3>2. notice' = [notice EXCEPT !.holder = 0,
                                   !.at = IF notice.queued THEN notice.at ELSE "failed"]
      BY <1>1, <2>1
    <3> QED BY <2>1, <3>1, <3>2, JobIs DEF NoticeRecords
  <2>2. CASE ~(notice.holder # 0 /\ deliveries[notice.holder].process = p)
    BY <1>1, <2>2
  <2> QED BY <2>1, <2>2
<1>8. /\ notice' \in NoticeRecords /\ notice'.holder \in 0..n /\ notice'.valid = notice.valid
      /\ ToCome' \in {0, 1}
  BY <1>5, <1>7, JobIs DEF ToCome, n
<1>9. NoticesHold'
  BY <1>1, <1>2, <1>6, <1>8 DEF NoticesInv, NoticesHold
<1>10. DeliveriesSound'
  BY <1>2, <1>3, <1>6, <1>8 DEF DeliveriesSound
<1>11. JobSound'
  <2>1. CASE notice' = notice /\ (notice.holder = 0 \/ deliveries[notice.holder].process # p)
    <3>1. notice.holder # 0 => notice.holder \in DOMAIN deliveries
      BY JobIs
    <3> QED BY <1>3, <1>4, <1>6, <2>1, <3>1 DEF NoticesInv, JobSound, n
  <2>2. CASE notice'.holder = 0 /\ notice'.at \in {"active", "failed"}
    BY <2>2 DEF JobSound
  <2> QED BY <1>7, <2>1, <2>2
<1>12. InboxSound'
  <2>1. \A u \in Users : ToldIn(u)' = ToldIn(u)
    BY <1>3, <1>6 DEF ToldIn
  <2> QED BY <1>1, <1>8, <2>1 DEF NoticesInv, InboxSound
<1>13. Cardinality(Unbroken') \in Nat /\ Cardinality(Unbroken') <= Cardinality(Unbroken)
  <2>1. Unbroken' \subseteq Unbroken
    BY <1>3, <1>6 DEF Unbroken
  <2>2. IsFiniteSet(Unbroken)
    BY JobIs
  <2> QED BY <2>1, <2>2, FS_Subset, FS_CardinalityType
<1>14. Redelivered'
  <2>1. /\ troubles["insert"] \in Nat /\ troubles["death"] \in Nat
        /\ troubles["lockLost"] \in Nat /\ ToCome \in {0, 1}
    BY JobIs
  <2>2. /\ troubles'["insert"] \in Nat /\ troubles'["death"] \in Nat
        /\ troubles'["lockLost"] \in Nat /\ troubles["insert"] <= troubles'["insert"]
        /\ troubles["death"] + troubles["lockLost"] + ToCome'
             <= troubles'["death"] + troubles'["lockLost"] + ToCome
    <3> DEFINE t == troubles["death"] k == troubles["lockLost"] c == ToCome c2 == ToCome'
    <3>1. t \in Nat /\ k \in Nat /\ c \in {0, 1} /\ c2 \in {0, 1}
      BY <1>8, <2>1
    <3>2. t + k + c2 <= t + 1 + k + c
      <4> HIDE DEF t, k, c, c2
      <4> QED BY <3>1
    <3> QED BY <1>2, <2>1, <3>2
  <2> QED BY <1>6, <1>8, <1>13, <2>2, StillRedelivered DEF n
<1>15. CalledOnce'
  <2> SUFFICES ASSUME NEW h \in Hooks PROVE hook[h].calls <= Cardinality(PastHook(h)')
    BY <1>1 DEF CalledOnce
  <2>1. PastHook(h) \subseteq PastHook(h)' /\ PastHook(h)' \subseteq DOMAIN deliveries
    BY <1>3, <1>6 DEF PastHook
  <2>2. IsFiniteSet(PastHook(h)') /\ IsFiniteSet(PastHook(h))
    BY <1>5, <2>1, CountedSets DEF PastHook
  <2>3. /\ Cardinality(PastHook(h)) <= Cardinality(PastHook(h)')
        /\ Cardinality(PastHook(h)) \in Nat /\ Cardinality(PastHook(h)') \in Nat
    BY <2>1, <2>2, FS_Subset, FS_CardinalityType
  <2>4. hook[h].calls <= Cardinality(PastHook(h)) /\ hook[h].calls \in Nat
    BY DEF NoticesInv, NoticesHold, CalledOnce, HookRecords
  <2> QED BY <2>3, <2>4
<1> QED BY <1>9, <1>10, <1>11, <1>12, <1>14, <1>15 DEF NoticesInv

\* Reading a notification takes none away.
LEMMA MarkInv ==
  ASSUME NoticesInv, NEW u \in Users, markRead(u) \/ markAllRead(u) PROVE NoticesInv'
<1>1. /\ UNCHANGED <<notice, deliveries, hook, troubles>>
      /\ inbox \in [Users -> [all : Nat, unread : Nat]]
  BY DEF markRead, markAllRead, NoticesInv, NoticesHold
<1>2. PICK n \in Nat : n <= inbox[u].unread /\ inbox' = [inbox EXCEPT ![u].unread = n]
  <2>1. inbox[u].unread \in Nat
    BY <1>1
  <2>2. CASE markRead(u)
    <3>1. inbox[u].unread - 1 \in Nat /\ inbox[u].unread - 1 <= inbox[u].unread
      BY <2>1, <2>2 DEF markRead
    <3> QED BY <2>2, <3>1 DEF markRead
  <2>3. CASE markAllRead(u)
    <3>1. inbox' = [inbox EXCEPT ![u].unread = 0] /\ 0 \in Nat /\ 0 <= inbox[u].unread
      BY <2>1, <2>3 DEF markAllRead
    <3> QED BY <3>1
  <2> QED BY <2>2, <2>3
<1>3. /\ inbox' \in [Users -> [all : Nat, unread : Nat]]
      /\ \A v \in Users : inbox'[v].all = inbox[v].all /\ inbox'[v].unread <= inbox[v].unread
  BY <1>1, <1>2
<1>4. NoticesHold'
  BY <1>1, <1>3 DEF NoticesInv, NoticesHold
<1>5. InboxSound'
  <2>1. \A v \in Users : ToldIn(v)' = ToldIn(v)
    BY <1>1 DEF ToldIn
  <2> QED BY <1>1, <1>3, <2>1 DEF NoticesInv, InboxSound
<1>6. DeliveriesSound' /\ JobSound' /\ Redelivered' /\ CalledOnce'
  BY <1>1 DEF NoticesInv, DeliveriesSound, JobSound, Redelivered, ToCome, Unbroken, CalledOnce,
              PastHook
<1> QED BY <1>4, <1>5, <1>6 DEF NoticesInv

LEMMA NoticesInit_Inv == NoticesInit => NoticesInv
<1> SUFFICES ASSUME NoticesInit PROVE NoticesInv
  OBVIOUS
<1>1. deliveries = <<>> /\ deliveries \in Seq(DeliveryRecords) /\ Len(deliveries) = 0
      /\ DOMAIN deliveries = {}
  BY DEF NoticesInit
<1>2. /\ troubles \in [TroubleKinds -> Nat] /\ troubles["insert"] = 0 /\ troubles["death"] = 0
      /\ troubles["lockLost"] = 0
  BY DEF NoticesInit, TroubleKinds
<1>3. /\ notice \in NoticeRecords /\ notice.holder = 0 /\ notice.at = "none"
      /\ notice.valid = TRUE
  BY DEF NoticesInit, NoticeRecords, MaxAttempts, MaxStalls
<1>4. NoticesHold
  BY <1>1, <1>2, <1>3 DEF NoticesInit, NoticesHold, HookRecords
<1>5. DeliveriesSound /\ JobSound
  BY <1>1, <1>3 DEF DeliveriesSound, JobSound
<1>6. Cardinality({}) = 0
  BY FS_EmptySet
<1>7. InboxSound
  <2>1. \A u \in Users : ToldIn(u) = {} /\ inbox[u].all = 0
    BY <1>1 DEF ToldIn, NoticesInit
  <2> QED BY <1>3, <1>6, <2>1 DEF InboxSound
<1>8. Redelivered
  <2>1. Unbroken = {} /\ ToCome = 1
    BY <1>1, <1>3 DEF Unbroken, ToCome
  <2>2. Cardinality(Unbroken) = 0
    BY <1>6, <2>1
  <2> QED BY <1>1, <1>2, <2>1, <2>2 DEF Redelivered
<1>9. CalledOnce
  <2>1. \A h \in Hooks : PastHook(h) = {} /\ hook[h].calls = 0
    BY <1>1 DEF PastHook, NoticesInit
  <2> QED BY <1>6, <2>1 DEF CalledOnce
<1> QED BY <1>4, <1>5, <1>7, <1>8, <1>9 DEF NoticesInv

LEMMA NoticesNext_Inv == ASSUME NoticesInv, [NoticesNext]_noticeVars PROVE NoticesInv'
<1>1. CASE UNCHANGED noticeVars
  BY <1>1 DEF noticeVars, NoticesInv, NoticesHold, DeliveriesSound, JobSound, InboxSound, ToldIn,
              Redelivered, ToCome, Unbroken, CalledOnce, PastHook
<1>2. CASE NoticesNext
  BY <1>2, CreateForUsersInv, CreateRejectsInv, ProcessInv, LoseLockInv, StalledInv, InsertOneInv,
     InsertFailsInv, InsertEndsInv, CompleteInv, DiesInv, FindHooksInv, CallHookInv,
     SaveDeliveredInv, SaveErrorInv, SaveDeliveredFailsInv, DispatchEndsInv, MarkInv
  DEF NoticesNext, ApiDies, UnhandledRejection
<1> QED BY <1>1, <1>2

LEMMA NoticesInv_True == NoticesInv => NoticesAreTrue /\ NoticesTypeOK
<1> SUFFICES ASSUME NoticesInv PROVE NoticesAreTrue /\ NoticesTypeOK
  OBVIOUS
<1>1. \A d \in DOMAIN deliveries : deliveries[d].call # None => deliveries[d].at \in {"stored", "over"}
  BY DeliveryIs DEF DeliverySound
<1>2. \A u \in Users : inbox[u].all \in Nat
  BY DEF NoticesInv, NoticesHold
<1>3. (\E d \in DOMAIN deliveries : deliveries[d].call # None) \/ notice.at = "completed" =>
        \A u \in Users : inbox[u].all > 0 <=> notice.valid
  <2> SUFFICES ASSUME NEW d \in DOMAIN deliveries, deliveries[d].at \in {"stored", "over"},
                      NEW u \in Users
               PROVE  inbox[u].all > 0 <=> notice.valid
    BY <1>1 DEF NoticesInv, JobSound
  <2>1. d \in ToldIn(u)
    BY DeliveryIs DEF DeliverySound, ToldIn
  <2>2. notice.valid \in BOOLEAN
    BY JobIs DEF NoticeRecords
  <2>3. CASE notice.valid
    BY <2>1, <2>3 DEF NoticesInv, InboxSound
  <2>4. CASE ~notice.valid
    <3>1. inbox[u].all = 0
      BY <2>4 DEF NoticesInv, InboxSound
    <3> QED BY <2>4, <3>1
  <2> QED BY <2>2, <2>3, <2>4
<1> DEFINE n == Len(deliveries)     b == Cardinality(Unbroken)
           c == ToCome              i == troubles.insert
           t == troubles.death      k == troubles.lockLost
<1>4. /\ n \in Nat /\ b \in Nat /\ c \in {0, 1} /\ i \in Nat /\ t \in Nat /\ k \in Nat
      /\ n + c <= 1 + i + t + k /\ b + c <= 1 + t + k
  BY JobIs DEF NoticesInv, Redelivered
<1>5. n <= 1 + i + t + k /\ b <= 1 + t + k
  <2> HIDE DEF n, b, c, i, t, k
  <2> QED BY <1>4
<1>6. ASSUME NEW u \in Users PROVE inbox[u].all <= 1 + i + t + k
  <2>1. inbox[u].all <= Cardinality(ToldIn(u))
    BY DEF NoticesInv, InboxSound
  <2>2. Cardinality(ToldIn(u)) <= n /\ Cardinality(ToldIn(u)) \in Nat
    BY CountedSets DEF ToldIn, NoticesInv, NoticesHold
  <2> HIDE DEF n, i, t, k
  <2> QED BY <1>2, <1>4, <1>5, <2>1, <2>2
<1>7. ASSUME NEW h \in Hooks PROVE hook[h].calls <= 1 + t + k
  <2>1. hook[h].calls <= Cardinality(PastHook(h)) /\ hook[h].calls \in Nat
    BY DEF NoticesInv, NoticesHold, CalledOnce, HookRecords
  <2>2. Cardinality(PastHook(h)) <= b /\ Cardinality(PastHook(h)) \in Nat
    <3>1. PastHook(h) \subseteq Unbroken /\ IsFiniteSet(Unbroken)
      BY JobIs DEF PastHook, Unbroken
    <3> QED BY <3>1, FS_Subset, FS_CardinalityType
  <2> HIDE DEF b, t, k
  <2> QED BY <1>4, <1>5, <2>1, <2>2
<1>8. ASSUME NEW d \in DOMAIN deliveries, CallAt(d, "done")
      PROVE  LET counted == deliveries[d].call.delivered + deliveries[d].call.failed
             IN Cardinality(Hooks) <= counted /\ counted <= Cardinality(Hooks) + troubles.update
  <2>1. /\ deliveries[d].call.at = "done"
        /\ CallCounts(deliveries[d].call, troubles["update"])
    BY <1>8, CallUnderWay DEF CallAt
  <2>2. Hooks \ {} = Hooks
    OBVIOUS
  <2> QED BY <2>1, <2>2 DEF CallCounts
<1>9. NoticesAreTrue
  BY <1>3, <1>6, <1>7, <1>8 DEF NoticesAreTrue
<1>10. NoticesTypeOK
  <2>1. \A d \in DOMAIN deliveries :
          /\ deliveries[d].at \in {"storing", "stored", "broken", "over"}
          /\ deliveries[d].left \subseteq Users
          /\ deliveries[d].call # None =>
               /\ deliveries[d].call.at
                    \in {"find", "next", "saveDelivered", "saveError", "done", "dead"}
               /\ deliveries[d].call.left \subseteq Hooks
    BY DeliveryIs DEF DeliveryRecords, CallRecords
  <2>2. \A u \in Users : inbox[u].all \in Nat /\ inbox[u].unread \in 0..inbox[u].all
    BY DEF NoticesInv, NoticesHold
  <2>3. /\ notice.at \in {"none", "waiting", "active", "completed", "failed"}
        /\ notice.attempts < MaxAttempts /\ notice.stalls <= MaxStalls
        /\ notice.holder \in 0..Len(deliveries)
    BY JobIs DEF NoticeRecords, MaxAttempts, MaxStalls
  <2> QED BY <2>1, <2>2, <2>3 DEF NoticesTypeOK
<1> QED BY <1>9, <1>10

-----------------------------------------------------------------------------
(* Registry: the collections and their operations.                         *)

CollectionNames ==
  {"client", "contact", "contract", "invoice", "subscription", "device", "slaPolicy",
   "deviceGroup", "patchPolicy", "patch", "script", "automation", "alertRule", "article",
   "integration", "remoteSession", "ticket"}

LEMMA OperationIn == \A d, i, c : Operation(d, i, c).in = i
BY DEF Operation

LEMMA OperationsIn == \A op \in Operations : op.in \in CollectionNames
BY SMTT(60), OperationIn DEF Operations, CollectionNames,
   clients_create, clients_findById, clients_update, clients_remove,
   contacts_create, contacts_findById, contacts_update, contacts_remove,
   contracts_create, contracts_findById, contracts_update, contracts_remove,
   createInvoice, findInvoiceById, updateInvoice,
   createSubscription, findSubscriptionById, updateSubscription,
   devices_create, devices_findById, devices_update, devices_remove,
   sla_create, sla_findById, sla_update, sla_remove,
   deviceGroups_create, deviceGroups_findById, deviceGroups_update, deviceGroups_remove,
   createPolicy, updatePolicy, removePolicy, simulatePatchScan, findPatchById,
   scripts_create, scripts_findById, scripts_update, scripts_remove,
   automations_create, automations_findById, automations_update, automations_remove,
   createRule, findRuleById, removeRule,
   articles_create, articles_findById, articles_remove,
   integrations_create, integrations_findById, integrations_update, integrations_remove,
   requestSession, sessions_findById,
   createManual, createPortalTicket, tickets_findById, findByIdForPortal,
   tickets_update, tickets_assign

LEMMA CollectionsOf == DOMAIN Collections = CollectionNames
BY DEF Collections, CollectionNames

\* What the fields of the collections name.
LEMMA RefsOf ==
  \A in \in CollectionNames :
    Refs(in) \in {NoRefs, ToClient, ToContract, [deviceIds |-> "device"], [deviceId |-> "device"],
                  [deviceId |-> "device", policyId |-> "patchPolicy"],
                  [clientId |-> "client", deviceId |-> "device", assigneeId |-> "user",
                   slaPolicyId |-> "slaPolicy"]}
BY DEF Refs, Collections, CollectionNames, Collection, client, contact, contract, invoice,
   subscription, device, slaPolicy, deviceGroup, patchPolicy, patch, script, automation,
   alertRule, article, integration, remoteSession, ticket

LEMMA DocumentsAreTargets ==
  ASSUME NEW in \in CollectionNames, NEW f \in Fields(in), NEW t \in Tenants
  PROVE  Document(Refs(in)[f], t) \in Targets
<1>1. Refs(in)[f] \in {"client", "contract", "device", "patchPolicy", "slaPolicy", "user"}
  BY RefsOf DEF Fields, NoRefs, ToClient, ToContract
<1> QED BY <1>1 DEF Document, Targets

LEMMA TicketFields ==
  /\ Fields("ticket") = {"clientId", "deviceId", "assigneeId", "slaPolicyId"}
  /\ Required("ticket") = {}
BY DEF Fields, Refs, Required, Collections, Collection, ticket, CreateTicketDto, Body

LEMMA PortalTickets ==
  /\ createPortalTicket \in Operations /\ createPortalTicket.in = "ticket"
  /\ Creates(createPortalTicket)
  /\ Looked(createPortalTicket) = {"clientId", "deviceId", "slaPolicyId"}
<1>1. /\ createPortalTicket.in = "ticket" /\ createPortalTicket.does = "createForPortal"
      /\ createPortalTicket.checks = <<"clientId", "deviceId", "slaPolicyId">>
  BY DEF createPortalTicket, Operation
<1>2. DOMAIN createPortalTicket.checks = {1, 2, 3}
  BY <1>1
<1> QED BY <1>1, <1>2 DEF Operations, Creates, Looked

\* What a body carries: a document of some tenant or null, in the fields that
\* are looked up; and what a document must have, where it is created.
Carries(op, given) ==
  /\ given \in [Fields(op.in) -> Ids]
  /\ Creates(op) => /\ \A f \in Fields(op.in) : given[f] # Absent
                    /\ \A f \in Fields(op.in) \cap Required(op.in) : given[f] # None
  /\ \A f \in Fields(op.in) : f \in Looked(op) \/ given[f] \in {None, Absent}

LEMMA BodiesCarry ==
  ASSUME NEW op \in Operations, NEW given \in Bodies(op)
  PROVE  Carries(op, given)
<1> DEFINE to == IF Creates(op) THEN Tenants ELSE Tenants \cup {None}
<1>0. PICK of \in UNION {[g -> to] : g \in Carried(op)} : given = BodyOf(op, of)
  BY DEF Bodies
<1>1. PICK g \in Carried(op) : of \in [g -> to]
  OBVIOUS
<1>2. /\ DOMAIN of = g /\ \A f \in g : of[f] \in to
      /\ g \subseteq Looked(op)
      /\ Creates(op) => Required(op.in) \subseteq g
      /\ given = [f \in Fields(op.in) |->
                   IF f \notin g THEN IF Creates(op) THEN None ELSE Absent
                   ELSE IF of[f] = None THEN None ELSE Document(Refs(op.in)[f], of[f])]
  BY <1>0, <1>1 DEF BodyOf, Carried
<1>3. \A f \in Fields(op.in) :
        \/ f \notin g /\ given[f] = IF Creates(op) THEN None ELSE Absent
        \/ f \in g /\ ~Creates(op) /\ given[f] = None
        \/ f \in g /\ given[f] \in Targets
  <2> SUFFICES ASSUME NEW f \in Fields(op.in), f \in g
               PROVE  (~Creates(op) /\ given[f] = None) \/ given[f] \in Targets
    BY <1>2
  <2>1. CASE of[f] = None
    <3>1. given[f] = None
      BY <1>2, <2>1
    <3>2. ~Creates(op)
      BY <1>2, <2>1, RegistryAssumption
    <3> QED BY <3>1, <3>2
  <2>2. CASE of[f] # None
    <3>1. of[f] \in Tenants
      BY <1>2, <2>2
    <3>2. given[f] = Document(Refs(op.in)[f], of[f])
      BY <1>2, <2>2
    <3> QED BY <3>1, <3>2, OperationsIn, DocumentsAreTargets
  <2> QED BY <2>1, <2>2
<1>4. {None, Absent, NoDocument} \cap Targets = {} /\ None # Absent
  BY RegistryAssumption
<1>5. given \in [Fields(op.in) -> Ids]
  BY <1>2, <1>3 DEF Ids
<1> QED BY <1>2, <1>3, <1>4, <1>5 DEF Carries

LEMMA RequiredFields ==
  \A in \in CollectionNames : Required(in) \subseteq Fields(in)
BY DEF Required, Fields, Refs, Collections, CollectionNames, Collection, client, contact, contract,
   invoice, subscription, device, slaPolicy, deviceGroup, patchPolicy, patch, script, automation,
   alertRule, article, integration, remoteSession, ticket, ToClient, ToContract, NoRefs, Body,
   CreateClientDto, CreateContactDto, CreateContractDto, CreateInvoiceDto, CreateSubscriptionDto,
   CreateDeviceDto, CreateSlaPolicyDto, CreateDeviceGroupDto, CreatePatchPolicyDto,
   SimulatePatchScanDto, CreateScriptDto, CreateAutomationDto, CreateAlertRuleDto,
   CreateArticleDto, CreateIntegrationDto, CreateRemoteSessionDto, CreateTicketDto

-----------------------------------------------------------------------------
(* The invariant of Registry.  What a request carries was null or absent,  *)
(* or is still to be looked up, or is a device nobody looks up, or was     *)
(* found: among what was there when the request came, in its tenant.       *)

IsRecord(r) ==
  /\ r = [in |-> r.in, of |-> r.of, requester |-> r.requester, refs |-> r.refs,
          chosen |-> r.chosen]
  /\ r.in \in CollectionNames /\ r.of \in Tenants
  /\ r.requester \in Requesters \cup {None} /\ r.chosen \in BOOLEAN
  /\ r.refs \in [Fields(r.in) -> Ids \ {Absent}]
  /\ \A f \in Required(r.in) : r.refs[f] # None

Answered(q, f) ==
  \/ q.given[f] \in {None, Absent}
  \/ f \in q.left
  \/ f = "deviceId" /\ SkipsDevice(q.op, q.given)
  \/ q.given[f] \in q.seen /\ q.given[f].of = q.tenant

IsRequest(q) ==
  /\ q = [op |-> q.op, tenant |-> q.tenant, by |-> q.by, given |-> q.given,
          chosen |-> q.chosen, left |-> q.left, seen |-> q.seen]
  /\ q.op \in Operations /\ q.tenant \in Tenants /\ q.by \in Requesters \cup {None}
  /\ q.chosen \in BOOLEAN /\ q.seen \subseteq Targets
  /\ q.given \in [Fields(q.op.in) -> Ids]
  /\ Creates(q.op) => /\ \A f \in Fields(q.op.in) : q.given[f] # Absent
                      /\ \A f \in Fields(q.op.in) \cap Required(q.op.in) : q.given[f] # None
  /\ \A f \in Fields(q.op.in) : Answered(q, f)

\* The document a request works on is of the request's collection.
WorksOn(q, r) ==
  /\ Creates(q.op) => r = None
  /\ ~Creates(q.op) => r # None /\ r.in = q.op.in

RegistryInv ==
  /\ record # None => IsRecord(record)
  /\ request # None => IsRequest(request) /\ WorksOn(request, record) /\ Live \subseteq request.seen
  /\ removed \subseteq Targets


LEMMA RegistryInit_Inv ==
  ASSUME RegistryInit PROVE RegistryInv
BY DEF RegistryInit, RegistryInv

LEMMA LiveTargets ==
  ASSUME RegistryInv PROVE Live \subseteq Targets
BY DEF Live

\* A request that has come in.
LEMMA Handle_Inv ==
  ASSUME RegistryInv, UNCHANGED <<record, removed>>,
         NEW op \in Operations, NEW t \in Tenants, NEW by \in Requesters \cup {None},
         NEW given \in [Fields(op.in) -> Ids], NEW chosen \in BOOLEAN,
         Handle(op, t, by, given, chosen), Applies(op), ~Reads(op), Carries(op, given)
  PROVE  RegistryInv'
<1> DEFINE q == [op |-> op, tenant |-> t, by |-> by, given |-> given, chosen |-> chosen,
                 left |-> Due(op, given), seen |-> Live]
<1>1. request' = q
  BY DEF Handle
<1>2. Live' = Live /\ removed' \subseteq Targets
  BY DEF Live, RegistryInv
<1>3. \A f \in Fields(op.in) : Answered(q, f)
  <2> SUFFICES ASSUME NEW f \in Fields(op.in) PROVE Answered(q, f)
    OBVIOUS
  <2>1. CASE given[f] \in {None, Absent}
    BY <2>1 DEF Answered
  <2>2. CASE given[f] \notin {None, Absent}
    <3>1. f \in Looked(op)
      BY <2>2 DEF Carries
    <3>2. f \in Due(op, given) \/ (f = "deviceId" /\ SkipsDevice(op, given))
      <4>1. ASSUME ~(f = "deviceId" /\ SkipsDevice(op, given)) PROVE f \in Due(op, given)
        BY <2>2, <3>1, <4>1 DEF Due
      <4> QED BY <4>1
    <3> QED BY <3>2 DEF Answered
  <2> QED BY <2>1, <2>2
<1>4. IsRequest(q)
  BY <1>3, LiveTargets DEF IsRequest, Carries
<1>5. WorksOn(q, record)
  BY DEF WorksOn, Applies
<1> HIDE DEF q
<1>6. q.seen = Live
  BY DEF q
<1>7. record' # None => IsRecord(record')
  BY DEF RegistryInv
<1>8. IsRequest(request') /\ WorksOn(request', record') /\ Live' \subseteq request'.seen
  BY <1>1, <1>2, <1>4, <1>5, <1>6
<1> QED BY <1>2, <1>7, <1>8 DEF RegistryInv

LEMMA Receive_Inv ==
  ASSUME RegistryInv, NEW op \in Operations, NEW t \in Tenants, NEW given \in Bodies(op),
         NEW chosen \in BOOLEAN, Receive(op, t, given, chosen)
  PROVE  RegistryInv'
<1>1. Carries(op, given) /\ given \in [Fields(op.in) -> Ids]
  BY BodiesCarry DEF Carries
<1>2. ~Reads(op)
  BY DEF Receive, Reads
<1>3. Applies(op) /\ Handle(op, t, None, given, chosen) /\ UNCHANGED <<record, removed>>
  BY DEF Receive
<1> QED BY <1>1, <1>2, <1>3, Handle_Inv

\* The portal puts a client of the user's into a body that has none.
LEMMA Portal_Inv ==
  ASSUME RegistryInv, NEW t \in Tenants, NEW by \in Requesters, NEW given \in Bodies(createPortalTicket),
         NEW clients \in {{}, {Document("client", t)}},
         portal_createTicket(t, by, clients, given)
  PROVE  RegistryInv'
<1> DEFINE id == IF given.clientId = None /\ Cardinality(clients) = 1
                   THEN CHOOSE c \in clients : TRUE ELSE given.clientId
<1>1. /\ Carries(createPortalTicket, given)
      /\ given \in [{"clientId", "deviceId", "assigneeId", "slaPolicyId"} -> Ids]
  BY BodiesCarry, PortalTickets, TicketFields DEF Carries
<1>2. id = given.clientId \/ id = Document("client", t)
  <2>1. CASE clients = {}
    <3>1. Cardinality(clients) = 0
      BY <2>1, FS_EmptySet
    <3> QED BY <3>1
  <2>2. CASE clients = {Document("client", t)}
    <3>1. (CHOOSE c \in clients : TRUE) = Document("client", t)
      BY <2>2
    <3> QED BY <3>1
  <2> QED BY <2>1, <2>2
<1>3. Document("client", t) \in Targets
  BY DEF Document, Targets
<1>4. /\ Handle(createPortalTicket, t, by, [given EXCEPT !.clientId = id], FALSE)
      /\ record = None
      /\ UNCHANGED <<record, removed>>
  <2>2. Handle(createPortalTicket, t, by, [given EXCEPT !.clientId = id], FALSE)
    BY DEF portal_createTicket
  <2>3. record = None /\ UNCHANGED <<record, removed>>
    BY DEF portal_createTicket
  <2> QED BY <2>2, <2>3
<1> HIDE DEF id
<1>5. {None, Absent, NoDocument} \cap Targets = {}
  BY RegistryAssumption
<1>6. given.clientId # Absent /\ given.clientId \in Ids
  BY <1>1, PortalTickets, TicketFields DEF Carries
<1>7. id \in Ids /\ id # Absent
  BY <1>2, <1>3, <1>5, <1>6 DEF Ids
<1> DEFINE g == [given EXCEPT !.clientId = id]
<1>8. /\ g \in [{"clientId", "deviceId", "assigneeId", "slaPolicyId"} -> Ids]
      /\ g["clientId"] = id
      /\ \A f \in {"deviceId", "assigneeId", "slaPolicyId"} : g[f] = given[f]
  BY <1>1, <1>7
<1> HIDE DEF g
<1>9. Carries(createPortalTicket, g)
  <2>1. Fields(createPortalTicket.in) = {"clientId", "deviceId", "assigneeId", "slaPolicyId"}
        /\ Required(createPortalTicket.in) = {}
    BY PortalTickets, TicketFields
  <2>2. \A f \in Fields(createPortalTicket.in) : g[f] # Absent
    BY <1>1, <1>7, <1>8, <2>1, PortalTickets DEF Carries
  <2>3. \A f \in Fields(createPortalTicket.in) :
           f \in Looked(createPortalTicket) \/ g[f] \in {None, Absent}
    BY <1>1, <1>8, <2>1, PortalTickets DEF Carries
  <2> QED BY <1>8, <2>1, <2>2, <2>3 DEF Carries
<1>10. Applies(createPortalTicket) /\ ~Reads(createPortalTicket)
  <2>1. ~Reads(createPortalTicket)
    BY DEF createPortalTicket, Operation, Reads
  <2> QED BY <1>4, <2>1, PortalTickets DEF Applies
<1>11. Handle(createPortalTicket, t, by, g, FALSE)
  BY <1>4 DEF g
<1>12. g \in [Fields(createPortalTicket.in) -> Ids]
  BY <1>9 DEF Carries
<1> QED BY <1>4, <1>9, <1>10, <1>11, <1>12, PortalTickets, Handle_Inv

LEMMA CheckReference_Inv ==
  ASSUME RegistryInv, CheckReference
  PROVE  RegistryInv'
<1>1. PICK f \in request.left :
        IF Found(request.tenant, request.given[f])
          THEN \E c \in {None} \cup {d \in Live : d.in = "client" /\ d.of = request.tenant} :
                 request' = [request EXCEPT !.left = @ \ {f}, !.given = ClientOf(f, c)]
          ELSE request' = None
  BY DEF CheckReference
<1>2. /\ request # None /\ UNCHANGED <<record, removed>> /\ Live' = Live
      /\ IsRequest(request) /\ WorksOn(request, record) /\ Live \subseteq request.seen
  BY DEF CheckReference, Live, RegistryInv
<1>3. CASE request' = None
  BY <1>2, <1>3 DEF RegistryInv
<1>4. CASE Found(request.tenant, request.given[f]) /\ request' # None
  <2>1. PICK c \in {None} \cup {d \in Live : d.in = "client" /\ d.of = request.tenant} :
          request' = [request EXCEPT !.left = @ \ {f}, !.given = ClientOf(f, c)]
    BY <1>1, <1>4
  <2> DEFINE g == ClientOf(f, c)
             q == [op |-> request.op, tenant |-> request.tenant, by |-> request.by, given |-> g,
                   chosen |-> request.chosen, left |-> request.left \ {f}, seen |-> request.seen]
  <2>2. request' = q
    BY <1>2, <2>1 DEF IsRequest
  <2>q. /\ q.op = request.op /\ q.tenant = request.tenant /\ q.by = request.by /\ q.given = g
        /\ q.chosen = request.chosen /\ q.left = request.left \ {f} /\ q.seen = request.seen
        /\ q = [op |-> q.op, tenant |-> q.tenant, by |-> q.by, given |-> q.given,
                chosen |-> q.chosen, left |-> q.left, seen |-> q.seen]
    OBVIOUS
  <2> HIDE DEF q
  <2>3. c # Absent /\ c \in Ids /\ (c = None \/ (c \in request.seen /\ c.of = request.tenant))
    <3>1. c = None \/ (c \in Live /\ c.of = request.tenant)
      BY <2>1
    <3>2. c # Absent /\ c \in Ids
      <4>1. {None, Absent, NoDocument} \cap Targets = {} /\ None # Absent
        BY RegistryAssumption
      <4> QED BY <3>1, <4>1, LiveTargets DEF Ids
    <3> QED BY <1>2, <3>1, <3>2
  <2>4. request.given[f] \in request.seen /\ request.given[f].of = request.tenant
    BY <1>2, <1>4 DEF Found
  <2>5. ASSUME f = "deviceId" /\ request.op.in = "ticket" /\ Creates(request.op)
        PROVE  IsRequest(q)
    <3>1. request.given \in [{"clientId", "deviceId", "assigneeId", "slaPolicyId"} -> Ids]
          /\ Required(request.op.in) = {}
          /\ Fields(request.op.in) = {"clientId", "deviceId", "assigneeId", "slaPolicyId"}
      BY <1>2, <2>5, TicketFields DEF IsRequest
    <3>2. g = [request.given EXCEPT !.clientId = c]
      BY <2>5 DEF ClientOf
    <3>3. /\ g \in [{"clientId", "deviceId", "assigneeId", "slaPolicyId"} -> Ids]
          /\ g["clientId"] = c
          /\ \A e \in {"deviceId", "assigneeId", "slaPolicyId"} : g[e] = request.given[e]
      BY <2>3, <3>1, <3>2
    <3> HIDE DEF g
    <3>4. \A e \in Fields(request.op.in) : g[e] # Absent
      BY <1>2, <2>3, <2>5, <3>1, <3>3 DEF IsRequest
    <3>5. \A e \in Fields(request.op.in) : Answered(q, e)
      <4> SUFFICES ASSUME NEW e \in Fields(request.op.in) PROVE Answered(q, e)
        OBVIOUS
      <4>1. CASE e = "clientId"
        BY <2>3, <2>q, <3>3, <4>1 DEF Answered
      <4>2. CASE e = "deviceId"
        BY <2>4, <2>5, <2>q, <3>3, <4>2 DEF Answered
      <4>3. CASE e \in {"assigneeId", "slaPolicyId"}
        <5>1. Answered(request, e) /\ e # f /\ e # "deviceId"
          BY <1>2, <2>5, <4>3 DEF IsRequest
        <5> QED BY <2>q, <3>1, <3>3, <4>3, <5>1 DEF Answered, SkipsDevice
      <4> QED BY <3>1, <4>1, <4>2, <4>3
    <3> QED BY <1>2, <2>q, <3>1, <3>3, <3>4, <3>5 DEF IsRequest
  <2>6. ASSUME ~(f = "deviceId" /\ request.op.in = "ticket" /\ Creates(request.op))
        PROVE  IsRequest(q)
    <3>1. g = request.given
      BY <2>6 DEF ClientOf
    <3> HIDE DEF g
    <3>2. \A e \in Fields(request.op.in) : Answered(q, e)
      <4> SUFFICES ASSUME NEW e \in Fields(request.op.in) PROVE Answered(q, e)
        OBVIOUS
      <4>1. Answered(request, e)
        BY <1>2 DEF IsRequest
      <4>2. CASE e = f
        BY <2>4, <2>q, <3>1, <4>2 DEF Answered
      <4>3. CASE e # f
        BY <2>q, <3>1, <4>1, <4>3 DEF Answered
      <4> QED BY <4>2, <4>3
    <3> QED BY <1>2, <2>q, <3>1, <3>2 DEF IsRequest
  <2>7. IsRequest(q)
    BY <2>5, <2>6
  <2>8. WorksOn(q, record) /\ Live \subseteq q.seen
    BY <1>2, <2>q DEF WorksOn
  <2>9. (record' # None => IsRecord(record')) /\ removed' \subseteq Targets
    BY <1>2 DEF RegistryInv
  <2> QED BY <1>2, <2>2, <2>7, <2>8, <2>9 DEF RegistryInv
<1> QED BY <1>1, <1>3, <1>4

LEMMA ResolvePolicy_Inv ==
  ASSUME RegistryInv, resolvePolicyForClient
  PROVE  RegistryInv'
<1>1. PICK p \in {d \in Live : d.in = "slaPolicy" /\ d.of = request.tenant} :
        request' = [request EXCEPT !.given.slaPolicyId = p]
  BY DEF resolvePolicyForClient
<1>2. /\ request # None /\ UNCHANGED <<record, removed>> /\ Live' = Live
      /\ request.op.in = "ticket" /\ Creates(request.op)
      /\ IsRequest(request) /\ WorksOn(request, record) /\ Live \subseteq request.seen
  BY DEF resolvePolicyForClient, Live, RegistryInv
<1> DEFINE g == [request.given EXCEPT !.slaPolicyId = p]
           q == [op |-> request.op, tenant |-> request.tenant, by |-> request.by, given |-> g,
                 chosen |-> request.chosen, left |-> request.left, seen |-> request.seen]
<1>3. request' = q
  BY <1>1, <1>2 DEF IsRequest
<1>4. /\ q.op = request.op /\ q.tenant = request.tenant /\ q.by = request.by /\ q.given = g
      /\ q.chosen = request.chosen /\ q.left = request.left /\ q.seen = request.seen
      /\ q = [op |-> q.op, tenant |-> q.tenant, by |-> q.by, given |-> q.given,
              chosen |-> q.chosen, left |-> q.left, seen |-> q.seen]
  OBVIOUS
<1> HIDE DEF q
<1>5. p \in request.seen /\ p.of = request.tenant /\ p \in Targets
  BY <1>1, <1>2, LiveTargets
<1>6. p \in Ids /\ p # Absent
  <2>1. {None, Absent, NoDocument} \cap Targets = {}
    BY RegistryAssumption
  <2> QED BY <1>5, <2>1 DEF Ids
<1>7. request.given \in [{"clientId", "deviceId", "assigneeId", "slaPolicyId"} -> Ids]
      /\ Required(request.op.in) = {}
      /\ Fields(request.op.in) = {"clientId", "deviceId", "assigneeId", "slaPolicyId"}
  BY <1>2, TicketFields DEF IsRequest
<1>8. /\ g \in [{"clientId", "deviceId", "assigneeId", "slaPolicyId"} -> Ids]
      /\ g["slaPolicyId"] = p
      /\ \A e \in {"clientId", "deviceId", "assigneeId"} : g[e] = request.given[e]
  BY <1>6, <1>7
<1> HIDE DEF g
<1>9. \A e \in Fields(request.op.in) : g[e] # Absent
  BY <1>2, <1>6, <1>7, <1>8 DEF IsRequest
<1>10. \A e \in Fields(request.op.in) : Answered(q, e)
  <2> SUFFICES ASSUME NEW e \in Fields(request.op.in) PROVE Answered(q, e)
    OBVIOUS
  <2>1. Answered(request, e)
    BY <1>2 DEF IsRequest
  <2>2. CASE e = "slaPolicyId"
    BY <1>4, <1>5, <1>8, <2>2 DEF Answered
  <2>3. CASE e # "slaPolicyId"
    BY <1>4, <1>7, <1>8, <2>1, <2>3 DEF Answered, SkipsDevice
  <2> QED BY <2>2, <2>3
<1>11. IsRequest(q)
  BY <1>2, <1>4, <1>7, <1>8, <1>9, <1>10 DEF IsRequest
<1>12. WorksOn(q, record) /\ Live \subseteq q.seen
  BY <1>2, <1>4 DEF WorksOn
<1>13. (record' # None => IsRecord(record')) /\ removed' \subseteq Targets
  BY <1>2 DEF RegistryInv
<1> QED BY <1>2, <1>3, <1>11, <1>12, <1>13 DEF RegistryInv

\* What is written: null, a device nobody looks up, or a document found.
LEMMA Created_Record ==
  ASSUME RegistryInv, request # None, Creates(request.op)
  PROVE  IsRecord(Created)
<1>1. IsRequest(request) /\ request.op.in \in CollectionNames
  BY OperationsIn DEF RegistryInv, IsRequest
<1>2. /\ Created.in = request.op.in /\ Created.of = request.tenant
      /\ Created.requester = request.by /\ Created.chosen = request.chosen
      /\ Created.refs = [f \in Fields(request.op.in) |-> request.given[f]]
      /\ Created = [in |-> Created.in, of |-> Created.of, requester |-> Created.requester,
                    refs |-> Created.refs, chosen |-> Created.chosen]
  BY DEF Created
<1>3. \A f \in Fields(request.op.in) : request.given[f] \in Ids \ {Absent}
  BY <1>1 DEF IsRequest
<1>4. \A f \in Required(request.op.in) : f \in Fields(request.op.in) /\ request.given[f] # None
  BY <1>1, RequiredFields DEF IsRequest
<1> QED BY <1>1, <1>2, <1>3, <1>4 DEF IsRecord, IsRequest

LEMMA Updated_Record ==
  ASSUME RegistryInv, request # None, ~Creates(request.op)
  PROVE  /\ IsRecord(Updated) /\ Updated.of = record.of /\ Updated.in = request.op.in
         /\ Fields(record.in) = Fields(request.op.in)
         /\ Updated.chosen = (request.chosen \/ (record.chosen /\ ~Presets(request.op)))
         /\ \A f \in Fields(record.in) :
              Updated.refs[f] = IF request.given[f] = Absent THEN record.refs[f] ELSE Stored(f)
<1>1. /\ record # None /\ record.in = request.op.in /\ IsRecord(record) /\ IsRequest(request)
  BY DEF RegistryInv, WorksOn
<1> DEFINE refs == [f \in Fields(record.in) |->
                      IF request.given[f] = Absent THEN record.refs[f] ELSE Stored(f)]
           chosen == request.chosen \/ (record.chosen /\ ~Presets(request.op))
<1>2. Updated = [in |-> record.in, of |-> record.of, requester |-> record.requester,
                 refs |-> refs, chosen |-> chosen]
  <2>1. Updated = [record EXCEPT !.refs = refs, !.chosen = chosen]
    BY DEF Updated
  <2>2. record = [in |-> record.in, of |-> record.of, requester |-> record.requester,
                  refs |-> record.refs, chosen |-> record.chosen]
    BY <1>1 DEF IsRecord
  <2> HIDE DEF refs, chosen
  <2> QED BY <2>1, <2>2
<1>3. {None, Absent, NoDocument} \cap Targets = {} /\ NoDocument \notin {None, Absent}
      /\ None # Absent
  BY RegistryAssumption
<1>4. \A f \in Fields(record.in) : refs[f] \in Ids \ {Absent}
  <2> SUFFICES ASSUME NEW f \in Fields(record.in) PROVE refs[f] \in Ids \ {Absent}
    OBVIOUS
  <2>1. CASE request.given[f] = Absent
    BY <1>1, <2>1 DEF IsRecord
  <2>2. CASE request.given[f] # Absent
    <3>1. Stored(f) \in Ids \ {Absent}
      BY <1>1, <1>3, <2>2 DEF Stored, IsRequest, Ids
    <3> QED BY <2>2, <3>1
  <2> QED BY <2>1, <2>2
<1>5. \A f \in Required(record.in) : f \in Fields(record.in) /\ refs[f] # None
  <2> SUFFICES ASSUME NEW f \in Required(record.in)
               PROVE  f \in Fields(record.in) /\ refs[f] # None
    OBVIOUS
  <2>1. f \in Fields(record.in) /\ record.refs[f] # None
    BY <1>1, RequiredFields DEF IsRecord
  <2>2. Stored(f) # None
    BY <1>1, <1>3 DEF Stored
  <2> QED BY <2>1, <2>2
<1>6. chosen \in BOOLEAN
  OBVIOUS
<1>7. refs \in [Fields(record.in) -> Ids \ {Absent}]
  BY <1>4
<1> HIDE DEF chosen
<1>8. IsRecord(Updated)
  <2> HIDE DEF refs
  <2> QED BY <1>1, <1>2, <1>5, <1>6, <1>7 DEF IsRecord
<1>9. Updated.of = record.of /\ Updated.in = record.in /\ Updated.refs = refs
      /\ Updated.chosen = chosen
  BY <1>2
<1> QED BY <1>1, <1>8, <1>9 DEF chosen

LEMMA StoreDocument_Inv ==
  ASSUME RegistryInv, StoreDocument
  PROVE  RegistryInv'
<1>1. /\ request # None /\ request' = None /\ removed' = removed
      /\ \/ Creates(request.op) /\ record' = Created
         \/ ~Creates(request.op) /\ record' = Updated
         \/ record' = record
  BY DEF StoreDocument
<1>2. record' # None => IsRecord(record')
  BY <1>1, Created_Record, Updated_Record DEF RegistryInv
<1> QED BY <1>1, <1>2 DEF RegistryInv

LEMMA Remove_Inv ==
  ASSUME RegistryInv, request = None, NEW op, NEW t, RemoveRecord(op, t)
  PROVE  RegistryInv'
BY DEF RegistryInv, RemoveRecord

LEMMA RemoveTarget_Inv ==
  ASSUME RegistryInv, NEW id \in Targets, RemoveTarget(id)
  PROVE  RegistryInv'
BY DEF RegistryInv, RemoveTarget, Live

LEMMA RegistryNext_Inv ==
  ASSUME RegistryInv, [RegistryNext]_regVars
  PROVE  RegistryInv'
<1>1. CASE UNCHANGED regVars
  BY <1>1 DEF RegistryInv, regVars, Live
<1>2. CASE request = None /\ \E op \in Operations, t \in Tenants :
             \E given \in Bodies(op), chosen \in BOOLEAN : Receive(op, t, given, chosen)
  BY <1>2, Receive_Inv
<1>3. CASE request = None /\ \E op \in Operations, t \in Tenants : RemoveRecord(op, t)
  BY <1>3, Remove_Inv
<1>4. CASE \E op \in Operations, t \in Tenants, by \in Requesters : ReadRecord(op, t, by)
  BY <1>4 DEF RegistryInv, ReadRecord, Live
<1>5. CASE \E t \in Tenants : \E by \in Requesters, given \in Bodies(createPortalTicket),
                                 clients \in {{}, {Document("client", t)}} :
             portal_createTicket(t, by, clients, given)
  BY <1>5, Portal_Inv
<1>6. CASE CheckReference
  BY <1>6, CheckReference_Inv
<1>7. CASE resolvePolicyForClient
  BY <1>7, ResolvePolicy_Inv
<1>8. CASE StoreDocument
  BY <1>8, StoreDocument_Inv
<1>9. CASE \E id \in Targets : RemoveTarget(id)
  BY <1>9, RemoveTarget_Inv
<1> QED BY <1>1, <1>2, <1>3, <1>4, <1>5, <1>6, <1>7, <1>8, <1>9 DEF RegistryNext

LEMMA RegistryInv_Type ==
  ASSUME RegistryInv PROVE RegistryTypeOK
BY CollectionsOf DEF RegistryInv, RegistryTypeOK, IsRecord, IsRequest

\* Every step: what is written was found, a tenant's documents are its own, and
\* what a request does not carry stays.
LEMMA RegistryNext_Holds ==
  ASSUME RegistryInv, [RegistryNext]_regVars
  PROVE  [WrittenReferencesHold /\ TenantsApart /\ UncarriedFieldsStay]_regVars
<1>1. CASE UNCHANGED regVars
  BY <1>1
<1>2. CASE record' = record /\ told' = None
  BY <1>2 DEF WrittenReferencesHold, TenantsApart, UncarriedFieldsStay
<1>3. CASE \E op \in Operations, t \in Tenants, by \in Requesters : ReadRecord(op, t, by)
  <2>1. PICK op \in Operations, t \in Tenants, by \in Requesters : ReadRecord(op, t, by)
    BY <1>3
  <2>2. record' = record /\ told'.tenant = told'.of
        /\ (told'.by # None => told'.by = told'.requester)
    BY <2>1 DEF ReadRecord
  <2> QED BY <2>2 DEF WrittenReferencesHold, TenantsApart, UncarriedFieldsStay
<1>4. CASE record' = None /\ told' = None
  BY <1>4 DEF WrittenReferencesHold, TenantsApart, UncarriedFieldsStay
<1>5. CASE StoreDocument
  <2>1. request # None /\ IsRequest(request) /\ request.left = {} /\ told' = None
        /\ WorksOn(request, record)
    BY <1>5 DEF StoreDocument, RegistryInv
  <2>2. \A f \in Fields(request.op.in) :
          \/ request.given[f] \in {None, Absent}
          \/ f = "deviceId" /\ SkipsDevice(request.op, request.given)
          \/ request.given[f] \in request.seen /\ request.given[f].of = request.tenant
    BY <2>1 DEF IsRequest, Answered
  <2>3. CASE Creates(request.op)
    <3>1. record' = Created /\ record = None
      BY <1>5, <2>1, <2>3 DEF StoreDocument, WorksOn
    <3>2. /\ record'.in = request.op.in /\ record'.of = request.tenant
          /\ \A f \in Fields(request.op.in) : record'.refs[f] = request.given[f]
      BY <3>1 DEF Created
    <3>3. \A f \in Fields(request.op.in) : request.given[f] # Absent
      BY <2>1, <2>3 DEF IsRequest
    <3>4. WrittenReferencesHold
      BY <2>2, <3>2, <3>3 DEF WrittenReferencesHold, NotLookedUp
    <3> QED BY <2>1, <3>1, <3>4 DEF TenantsApart, UncarriedFieldsStay
  <2>4. CASE ~Creates(request.op) /\ record' # record
    <3>1. record' = Updated /\ record # None /\ record.of = request.tenant
      BY <1>5, <2>1, <2>4 DEF StoreDocument, WorksOn
    <3>2. /\ record'.in = request.op.in /\ record'.of = request.tenant
          /\ record'.chosen = (request.chosen \/ (record.chosen /\ ~Presets(request.op)))
          /\ \A f \in Fields(request.op.in) :
               record'.refs[f] = IF request.given[f] = Absent THEN record.refs[f] ELSE Stored(f)
      BY <2>1, <2>4, <3>1, Updated_Record
    <3>3. WrittenReferencesHold
      <4> SUFFICES ASSUME NEW f \in Fields(request.op.in)
                   PROVE  \/ record'.refs[f] = Current(f) \/ record'.refs[f] = None
                          \/ NotLookedUp(f)
                          \/ record'.refs[f] \in request.seen /\ record'.refs[f].of = record'.of
        BY <3>2 DEF WrittenReferencesHold
      <4>1. CASE request.given[f] = Absent
        BY <3>1, <3>2, <4>1 DEF Current
      <4>2. CASE request.given[f] = None /\ f \in Required(request.op.in)
        BY <4>2 DEF NotLookedUp
      <4>3. CASE request.given[f] # Absent
                 /\ ~(request.given[f] = None /\ f \in Required(request.op.in))
        <5>1. record'.refs[f] = request.given[f]
          BY <3>2, <4>3 DEF Stored
        <5> QED BY <2>2, <3>2, <4>3, <5>1 DEF NotLookedUp
      <4> QED BY <4>1, <4>2, <4>3
    <3> QED BY <2>1, <3>1, <3>2, <3>3 DEF TenantsApart, UncarriedFieldsStay
  <2>5. CASE record' = record
    BY <1>2, <2>1, <2>5
  <2> QED BY <2>1, <2>3, <2>4, <2>5
<1>6. CASE RegistryNext /\ ~StoreDocument
           /\ ~(\E op \in Operations, t \in Tenants, by \in Requesters : ReadRecord(op, t, by))
  <2>1. (record' = record \/ record' = None) /\ told' = None
    BY <1>6 DEF RegistryNext, Receive, RemoveRecord, portal_createTicket, CheckReference,
       resolvePolicyForClient, RemoveTarget
  <2> QED BY <1>2, <1>4, <2>1
<1> QED BY <1>1, <1>3, <1>5, <1>6

-----------------------------------------------------------------------------
(* Listing: a list read page by page while it changes.                     *)

LEMMA LengthOf ==
  ASSUME NEW S, NEW m \in Nat, NEW s \in [1..m -> S]
  PROVE  s \in Seq(S) /\ Len(s) = m /\ DOMAIN s = 1..m
<1>1. s \in Seq(S)
  BY SeqDef
<1>2. Len(s) \in Nat /\ DOMAIN s = 1..Len(s)
  BY <1>1, LenProperties
<1>3. 1..m = 1..Len(s)
  BY <1>2
<1>4. Len(s) = m
  BY <1>2, <1>3
<1> QED BY <1>1, <1>4

\* The pages before the last have room for all.
LEMMA PagesReach ==
  ASSUME NEW total \in Nat, NEW page \in Nat, page >= TotalPages(total)
  PROVE  page * Limit >= total
<1>1. Limit \in Nat /\ Limit >= 1
  BY ListingAssumption
<1> DEFINE q == (total + Limit - 1) \div Limit
<1>2. q \in Nat /\ page >= q
  BY <1>1 DEF TotalPages, Most
<1>3. q * Limit > total - 1
  BY <1>1, Z3
<1> HIDE DEF q
<1>4. page * Limit >= q * Limit
  BY <1>1, <1>2
<1>5. q * Limit \in Nat /\ page * Limit \in Nat
  BY <1>1, <1>2
<1> QED BY <1>3, <1>4, <1>5

\* What the reader still has to come to: a document at place j which was there
\* all along, has not been shown and is not excused.
Missing(j) == /\ shelf[j] \in walk.there
              /\ shelf[j] \notin walk.excused
              /\ shelf[j] \notin walk.seen

\* It is on a page to come, or on the page that has been read, and within the
\* number that has been read.
StillAhead(j) ==
  /\ walk.items = None /\ view.paged => j > SkipOf(walk.page)
  /\ walk.items # None => \/ shelf[j] \in walk.items
                          \/ view.paged /\ j > walk.page * Limit
  /\ walk.total # None => j <= walk.total

ShelfOK ==
  /\ shelved \in 3..MaxShelf /\ equals \subseteq 1..MaxShelf
  /\ shelf \in [1..Len(shelf) -> 1..shelved] /\ Len(shelf) \in 0..shelved
  /\ \A i, j \in 1..Len(shelf) : shelf[i] = shelf[j] => i = j
  /\ churn \in 0..MaxChanges

WalkOK ==
  /\ walk = [page |-> walk.page, items |-> walk.items, total |-> walk.total, over |-> walk.over,
             seen |-> walk.seen, there |-> walk.there, excused |-> walk.excused]
  /\ walk.page \in Nat \ {0} /\ walk.over \in BOOLEAN
  /\ walk.items # None => walk.items \subseteq 1..MaxShelf
  /\ walk.total # None => walk.total \in Nat
  /\ walk.seen \subseteq 1..MaxShelf
  /\ \A d \in walk.there : \E j \in 1..Len(shelf) : shelf[j] = d

ListingInv ==
  /\ ShelfOK /\ WalkOK
  /\ view \in Lists \cup {None}
  /\ view = None => /\ walk.page = 1 /\ walk.items = None /\ walk.total = None
                    /\ walk.over = FALSE
  /\ equals \subseteq walk.excused
  /\ view # None /\ ~walk.over => \A j \in 1..Len(shelf) : Missing(j) => StillAhead(j)
  /\ walk.over => \A j \in 1..Len(shelf) : ~Missing(j)

LEMMA ListingInit_Inv ==
  ASSUME ListingInit PROVE ListingInv
<1>1. /\ shelf = <<1, 2, 3>> /\ shelved = 3 /\ churn = 0 /\ view = None /\ equals = {}
      /\ walk = [page |-> 1, items |-> None, total |-> None, over |-> FALSE,
                 seen |-> {}, there |-> {}, excused |-> {}]
  BY DEF ListingInit
<1>2. Len(shelf) = 3 /\ shelf \in [1..3 -> 1..3]
  BY <1>1
<1>3. ShelfOK
  <2>1. \A i, j \in 1..3 : shelf[i] = shelf[j] => i = j
    BY <1>1
  <2> QED BY <1>1, <1>2, <2>1, ListingAssumption DEF ShelfOK
<1>4. WalkOK
  BY <1>1 DEF WalkOK
<1> QED BY <1>1, <1>3, <1>4 DEF ListingInv

LEMMA OpenList_Inv ==
  ASSUME ListingInv, NEW v \in Lists, OpenList(v)
  PROVE  ListingInv'
<1>1. /\ view = None /\ view' = v /\ equals' \subseteq 1..MaxShelf
      /\ UNCHANGED <<shelf, shelved, churn>>
      /\ walk' = [walk EXCEPT !.there = Shelved, !.excused = equals']
  BY DEF OpenList
<1>2. ShelfOK /\ WalkOK /\ walk.page = 1 /\ walk.items = None /\ walk.total = None
      /\ walk.over = FALSE
  BY <1>1 DEF ListingInv
<1>3. walk' = [page |-> walk.page, items |-> walk.items, total |-> walk.total,
               over |-> walk.over, seen |-> walk.seen, there |-> Shelved,
               excused |-> equals']
  BY <1>1, <1>2 DEF WalkOK
<1>4. Shelved = {shelf[j] : j \in 1..Len(shelf)}
  BY <1>2 DEF Shelved, ShelfOK
<1>5. ShelfOK'
  BY <1>1, <1>2 DEF ShelfOK
<1>6. WalkOK'
  <2>1. /\ walk'.page = walk.page /\ walk'.items = walk.items /\ walk'.total = walk.total
        /\ walk'.over = walk.over /\ walk'.seen = walk.seen /\ walk'.there = Shelved
        /\ walk' = [page |-> walk'.page, items |-> walk'.items, total |-> walk'.total,
                    over |-> walk'.over, seen |-> walk'.seen, there |-> walk'.there,
                    excused |-> walk'.excused]
    BY <1>3
  <2>2. \A d \in Shelved : \E j \in 1..Len(shelf) : shelf[j] = d
    BY <1>4
  <2> QED BY <1>1, <1>2, <2>1, <2>2 DEF WalkOK
<1>7. walk'.page = 1 /\ walk'.items = None /\ walk'.total = None /\ walk'.over = FALSE
      /\ equals' \subseteq walk'.excused
  BY <1>2, <1>3
<1>8. \A j \in 1..Len(shelf)' : StillAhead(j)'
  BY <1>1, <1>2, <1>7, ListingAssumption DEF StillAhead, SkipOf, ShelfOK
<1> QED BY <1>1, <1>5, <1>6, <1>7, <1>8 DEF ListingInv

\* The reader has been given a page of the list as it is.
LEMMA ReadItems_Inv ==
  ASSUME ListingInv, ReadItems
  PROVE  ListingInv'
<1>1. /\ view # None /\ ~walk.over /\ walk.items = None
      /\ UNCHANGED <<view, equals, shelf, shelved, churn>>
  BY DEF ReadItems, Reading
<1>2. ShelfOK /\ WalkOK
  BY DEF ListingInv
<1> DEFINE first == IF view.paged THEN SkipOf(walk.page) + 1 ELSE 1
           last(s) == IF view.paged THEN SkipOf(walk.page) + Limit ELSE Len(s)
           shown(s) == {s[i] : i \in {i \in DOMAIN s : first <= i /\ i <= last(s)}}
<1>3. PICK s \in Orders : walk' = [walk EXCEPT !.items = shown(s)]
  BY DEF ReadItems
<1> DEFINE items == shown(s)
<1>4. DOMAIN shelf = 1..Len(shelf) /\ \A i \in 1..Len(shelf) : shelf[i] \in 1..MaxShelf
  BY <1>2, ListingAssumption DEF ShelfOK
<1>5. DOMAIN s = 1..Len(shelf) /\ \A i \in 1..Len(shelf) : s[i] \in 1..MaxShelf
  <2> DEFINE tied == {i \in DOMAIN shelf : shelf[i] \in equals}
  <2>1. PICK p \in [tied -> tied] :
          s = [i \in DOMAIN shelf |-> shelf[IF i \in tied THEN p[i] ELSE i]]
    BY <1>3 DEF Orders
  <2> QED BY <1>4, <2>1
<1>6. items \subseteq 1..MaxShelf
  BY <1>5
<1>7. ASSUME NEW j \in 1..Len(shelf), Missing(j)
      PROVE  \/ shelf[j] \in items
             \/ view.paged /\ j > walk.page * Limit
  <2>1. s[j] = shelf[j]
    <3>1. shelf[j] \notin equals
      BY <1>7 DEF ListingInv, Missing
    <3> QED BY <1>3, <1>4, <3>1 DEF Orders
  <2>2. StillAhead(j)
    BY <1>1, <1>7 DEF ListingInv
  <2>3. CASE view.paged
    <3>1. j > SkipOf(walk.page)
      BY <1>1, <2>2, <2>3 DEF StillAhead
    <3>2. SkipOf(walk.page) + Limit = walk.page * Limit /\ SkipOf(walk.page) \in Nat
      BY <1>2, ListingAssumption DEF SkipOf, WalkOK
    <3>3. CASE j <= SkipOf(walk.page) + Limit
      <4>1. first <= j /\ j <= last(s)
        BY <2>3, <3>1, <3>2, <3>3
      <4> QED BY <1>5, <2>1, <4>1
    <3>4. CASE j > SkipOf(walk.page) + Limit
      BY <2>3, <3>2, <3>4
    <3> QED BY <3>2, <3>3, <3>4, ListingAssumption
  <2>4. CASE ~view.paged
    <3>1. Len(s) = Len(shelf)
      BY <1>2, <1>3, <1>4, <1>5, LengthOf DEF Orders, ShelfOK
    <3> QED BY <1>5, <2>1, <2>4, <3>1
  <2> QED BY <2>3, <2>4
<1> HIDE DEF shown, first, last
<1>8. walk' = [page |-> walk.page, items |-> items, total |-> walk.total, over |-> walk.over,
               seen |-> walk.seen, there |-> walk.there, excused |-> walk.excused]
  BY <1>2, <1>3 DEF WalkOK
<1>9. /\ walk'.page = walk.page /\ walk'.items = items /\ walk'.total = walk.total
      /\ walk'.over = walk.over /\ walk'.seen = walk.seen /\ walk'.there = walk.there
      /\ walk'.excused = walk.excused
      /\ walk' = [page |-> walk'.page, items |-> walk'.items, total |-> walk'.total,
                  over |-> walk'.over, seen |-> walk'.seen, there |-> walk'.there,
                  excused |-> walk'.excused]
  BY <1>8
<1> HIDE DEF items
<1>10. ShelfOK' /\ WalkOK'
  BY <1>1, <1>2, <1>6, <1>9 DEF ShelfOK, WalkOK
<1>11. \A j \in 1..Len(shelf) : Missing(j)' <=> Missing(j)
  BY <1>1, <1>9 DEF Missing
<1>12. ASSUME NEW j \in 1..Len(shelf), Missing(j) PROVE StillAhead(j)'
  <2>1. StillAhead(j)
    BY <1>1, <1>12 DEF ListingInv
  <2> QED BY <1>1, <1>7, <1>9, <1>12, <2>1 DEF StillAhead
<1> QED BY <1>1, <1>9, <1>10, <1>11, <1>12 DEF ListingInv

LEMMA ReadTotal_Inv ==
  ASSUME ListingInv, ReadTotal
  PROVE  ListingInv'
<1>1. /\ view # None /\ ~walk.over /\ walk.total = None
      /\ UNCHANGED <<view, equals, shelf, shelved, churn>>
      /\ walk' = [walk EXCEPT !.total = Len(shelf)]
  BY DEF ReadTotal, Reading
<1>2. ShelfOK /\ WalkOK
  BY DEF ListingInv
<1>3. /\ walk'.page = walk.page /\ walk'.items = walk.items /\ walk'.total = Len(shelf)
      /\ walk'.over = walk.over /\ walk'.seen = walk.seen /\ walk'.there = walk.there
      /\ walk'.excused = walk.excused
      /\ walk' = [page |-> walk'.page, items |-> walk'.items, total |-> walk'.total,
                  over |-> walk'.over, seen |-> walk'.seen, there |-> walk'.there,
                  excused |-> walk'.excused]
  BY <1>1, <1>2 DEF WalkOK
<1>4. ShelfOK' /\ WalkOK'
  BY <1>1, <1>2, <1>3, ListingAssumption DEF ShelfOK, WalkOK
<1>5. \A j \in 1..Len(shelf) : Missing(j)' <=> Missing(j)
  BY <1>1, <1>3 DEF Missing
<1>6. \A j \in 1..Len(shelf) : StillAhead(j) => StillAhead(j)'
  BY <1>1, <1>2, <1>3, ListingAssumption DEF StillAhead, ShelfOK
<1> QED BY <1>1, <1>3, <1>4, <1>5, <1>6 DEF ListingInv

\* A page is shown; after the last one nothing is missing.
LEMMA Answer_Inv ==
  ASSUME ListingInv, Answer
  PROVE  ListingInv'
<1>1. /\ view # None /\ ~walk.over /\ walk.items # None /\ walk.total # None
      /\ UNCHANGED <<view, equals, shelf, shelved, churn>>
      /\ walk' = [walk EXCEPT !.seen = @ \cup walk.items, !.items = None, !.total = None,
                              !.page = @ + 1,
                              !.over = ~view.paged \/ walk.page >= TotalPages(walk.total)]
  BY DEF Answer, Reading
<1>2. ShelfOK /\ WalkOK
  BY DEF ListingInv
<1> DEFINE over == ~view.paged \/ walk.page >= TotalPages(walk.total)
<1>3. /\ walk'.page = walk.page + 1 /\ walk'.items = None /\ walk'.total = None
      /\ walk'.over = over /\ walk'.seen = walk.seen \cup walk.items
      /\ walk'.there = walk.there /\ walk'.excused = walk.excused
      /\ walk' = [page |-> walk'.page, items |-> walk'.items, total |-> walk'.total,
                  over |-> walk'.over, seen |-> walk'.seen, there |-> walk'.there,
                  excused |-> walk'.excused]
  <2> HIDE DEF over
  <2>1. walk' = [walk EXCEPT !.seen = walk.seen \cup walk.items, !.items = None, !.total = None,
                             !.page = walk.page + 1, !.over = over]
    BY <1>1 DEF over
  <2>2. walk = [page |-> walk.page, items |-> walk.items, total |-> walk.total,
                over |-> walk.over, seen |-> walk.seen, there |-> walk.there,
                excused |-> walk.excused]
    BY <1>2 DEF WalkOK
  <2> QED BY <2>1, <2>2
<1>4. over \in BOOLEAN
  OBVIOUS
<1>5. ASSUME NEW j \in 1..Len(shelf), Missing(j)'
      PROVE  /\ Missing(j) /\ view.paged /\ j > walk.page * Limit /\ j <= walk.total
  <2>1. Missing(j) /\ shelf[j] \notin walk.items
    BY <1>1, <1>3, <1>5 DEF Missing
  <2>2. StillAhead(j)
    BY <1>1, <2>1 DEF ListingInv
  <2> QED BY <1>1, <2>1, <2>2 DEF StillAhead
<1>6. ASSUME NEW j \in 1..Len(shelf), Missing(j)', over
      PROVE  FALSE
  <2>1. view.paged /\ walk.page >= TotalPages(walk.total)
    BY <1>5, <1>6
  <2>2. walk.page \in Nat /\ walk.total \in Nat
    BY <1>1, <1>2 DEF WalkOK
  <2>3. walk.page * Limit >= walk.total
    BY <2>1, <2>2, PagesReach
  <2>4. walk.page * Limit \in Nat
    BY <2>2, ListingAssumption
  <2> QED BY <1>5, <1>6, <2>2, <2>3, <2>4
<1> HIDE DEF over
<1>7. ShelfOK' /\ WalkOK'
  <2>1. ShelfOK'
    BY <1>1, <1>2 DEF ShelfOK
  <2>2. WalkOK'
    BY <1>1, <1>2, <1>3, <1>4 DEF WalkOK
  <2> QED BY <2>1, <2>2
<1>8. \A j \in 1..Len(shelf) : Missing(j)' => StillAhead(j)'
  <2>1. SkipOf(walk'.page) = walk.page * Limit
    BY <1>2, <1>3, ListingAssumption DEF SkipOf, WalkOK
  <2> QED BY <1>1, <1>3, <1>5, <2>1 DEF StillAhead
<1>9. /\ view' # None /\ view' = view /\ shelf' = shelf /\ walk.excused = walk'.excused
      /\ equals' = equals
  BY <1>1, <1>3
<1> QED BY <1>3, <1>6, <1>7, <1>8, <1>9 DEF ListingInv

\* The list as a function of its places, with a document put in or taken out.
LEMMA InsertAt_Is ==
  ASSUME NEW S, NEW s, s \in [1..Len(s) -> S], Len(s) \in Nat, NEW d \in S, NEW i \in 1..Len(s) + 1
  PROVE  /\ InsertAt(s, i, d) \in [1..Len(s) + 1 -> S]
         /\ Len(InsertAt(s, i, d)) = Len(s) + 1
         /\ \A j \in 1..Len(s) + 1 :
              InsertAt(s, i, d)[j] = IF j < i THEN s[j] ELSE IF j = i THEN d ELSE s[j - 1]
<1>1. InsertAt(s, i, d) \in [1..Len(s) + 1 -> S]
  BY DEF InsertAt
<1> QED BY <1>1, LengthOf DEF InsertAt

LEMMA DeleteAt_Is ==
  ASSUME NEW S, NEW s, s \in [1..Len(s) -> S], Len(s) \in Nat, NEW i \in 1..Len(s)
  PROVE  /\ DeleteAt(s, i) \in [1..Len(s) - 1 -> S]
         /\ Len(DeleteAt(s, i)) = Len(s) - 1
         /\ \A j \in 1..Len(s) - 1 : DeleteAt(s, i)[j] = IF j < i THEN s[j] ELSE s[j + 1]
<1>1. DeleteAt(s, i) \in [1..Len(s) - 1 -> S]
  BY DEF DeleteAt
<1> QED BY <1>1, LengthOf DEF DeleteAt

\* A change of the list takes what is still missing from a place ahead to a place
\* ahead: from, where it was.
LEMMA Change_Inv ==
  ASSUME ListingInv, view # None, ~walk.over, view' = view, equals' = equals, ShelfOK',
         NEW there, NEW excused,
         walk' = [walk EXCEPT !.there = there, !.excused = excused],
         there \subseteq walk.there, walk.excused \subseteq excused,
         \A d \in there : \E j \in 1..Len(shelf') : shelf'[j] = d,
         \A j \in 1..Len(shelf') : (shelf'[j] \in there /\ shelf'[j] \notin excused) =>
            \E k \in 1..Len(shelf) :
              /\ shelf[k] = shelf'[j] /\ k <= j
              /\ (walk.items # None \/ walk.total # None) => k = j
  PROVE  ListingInv'
<1>1. ShelfOK /\ WalkOK
  BY DEF ListingInv
<1>2. /\ walk'.page = walk.page /\ walk'.items = walk.items /\ walk'.total = walk.total
      /\ walk'.over = walk.over /\ walk'.seen = walk.seen /\ walk'.there = there
      /\ walk'.excused = excused
      /\ walk' = [page |-> walk'.page, items |-> walk'.items, total |-> walk'.total,
                  over |-> walk'.over, seen |-> walk'.seen, there |-> walk'.there,
                  excused |-> walk'.excused]
  BY <1>1 DEF WalkOK
<1>3. WalkOK'
  BY <1>1, <1>2 DEF WalkOK
<1>4. ASSUME NEW j \in 1..Len(shelf'), Missing(j)' PROVE StillAhead(j)'
  <2>1. PICK k \in 1..Len(shelf) :
          /\ shelf[k] = shelf'[j] /\ k <= j
          /\ (walk.items # None \/ walk.total # None) => k = j
    BY <1>2, <1>4 DEF Missing
  <2>2. Missing(k)
    BY <1>2, <1>4, <2>1 DEF Missing
  <2>3. StillAhead(k)
    BY <2>2 DEF ListingInv
  <2>4. walk.items = None /\ view.paged => j > SkipOf(walk.page)
    <3>1. SkipOf(walk.page) \in Nat /\ k \in Nat /\ j \in Nat
      <4>1. SkipOf(walk.page) \in Nat
        BY <1>1, ListingAssumption DEF SkipOf, WalkOK
      <4>2. Len(shelf') \in Nat /\ Len(shelf) \in Nat
        BY <1>1 DEF ShelfOK
      <4> QED BY <2>1, <4>1, <4>2
    <3> QED BY <2>1, <2>3, <3>1 DEF StillAhead
  <2>5. walk.items # None => \/ shelf'[j] \in walk.items
                             \/ view.paged /\ j > walk.page * Limit
    BY <2>1, <2>3 DEF StillAhead
  <2>6. walk.total # None => j <= walk.total
    BY <2>1, <2>3 DEF StillAhead
  <2> QED BY <1>2, <2>4, <2>5, <2>6 DEF StillAhead, SkipOf
<1>5. equals' \subseteq walk'.excused
  BY <1>2 DEF ListingInv
<1> QED BY <1>2, <1>3, <1>4, <1>5 DEF ListingInv

LEMMA Add_Inv ==
  ASSUME ListingInv, NEW i \in 1..Len(shelf) + 1, Add(i)
  PROVE  ListingInv'
<1> DEFINE n == Len(shelf)
           excused == walk.excused \cup (IF Torn THEN From(i) ELSE {})
<1>1. /\ view # None /\ ~walk.over /\ churn < MaxChanges /\ churn' = churn + 1
      /\ shelved < MaxShelf /\ shelf' = InsertAt(shelf, i, shelved + 1)
      /\ shelved' = shelved + 1 /\ view' = view /\ equals' = equals
      /\ walk' = [walk EXCEPT !.excused = excused]
  BY DEF Add, Changing, Reading
<1>2. ShelfOK /\ WalkOK
  BY DEF ListingInv
<1>3. n \in 0..shelved /\ shelved \in Nat /\ shelf \in [1..n -> 1..shelved + 1]
      /\ (\A j \in 1..n : shelf[j] \in 1..shelved) /\ shelved + 1 \in 1..shelved + 1
  BY <1>2 DEF ShelfOK
<1>4. /\ shelf' \in [1..n + 1 -> 1..shelved + 1] /\ Len(shelf') = n + 1
      /\ \A j \in 1..n + 1 : shelf'[j] = IF j < i THEN shelf[j]
                                         ELSE IF j = i THEN shelved + 1 ELSE shelf[j - 1]
  <2> DEFINE S == 1..shelved + 1
             d == shelved + 1
  <2>1. shelf \in [1..Len(shelf) -> S] /\ d \in S /\ Len(shelf) \in Nat
    BY <1>3
  <2> HIDE DEF S, d
  <2>2. InsertAt(shelf, i, d) \in [1..Len(shelf) + 1 -> S]
    BY <2>1, InsertAt_Is
  <2>3. Len(InsertAt(shelf, i, d)) = Len(shelf) + 1
    BY <2>1, InsertAt_Is
  <2>4. \A j \in 1..Len(shelf) + 1 :
          InsertAt(shelf, i, d)[j] = IF j < i THEN shelf[j] ELSE IF j = i THEN d ELSE shelf[j - 1]
    BY <2>1 DEF InsertAt
  <2>5. shelf' = InsertAt(shelf, i, d)
    BY <1>1 DEF d
  <2> QED BY <2>2, <2>3, <2>4, <2>5 DEF S, d
<1>5. ShelfOK'
  <2>1. \A j, k \in 1..n + 1 : shelf'[j] = shelf'[k] => j = k
    <3> SUFFICES ASSUME NEW j \in 1..n + 1, NEW k \in 1..n + 1, shelf'[j] = shelf'[k]
                 PROVE  j = k
      OBVIOUS
    <3>1. \A a, b \in 1..n : shelf[a] = shelf[b] => a = b
      BY <1>2 DEF ShelfOK
    <3> QED BY <1>3, <1>4, <3>1
  <2>2. /\ shelved + 1 \in 3..MaxShelf /\ churn + 1 \in 0..MaxChanges
        /\ equals' \subseteq 1..MaxShelf
    BY <1>1, <1>2, ListingAssumption DEF ShelfOK
  <2>3. n + 1 \in 0..shelved + 1
    BY <1>3
  <2> QED BY <1>1, <1>4, <2>1, <2>2, <2>3 DEF ShelfOK
<1>6. \A d \in walk.there : \E k \in 1..n : shelf[k] = d
  BY <1>2 DEF WalkOK
<1>7. \A d \in walk.there : \E j \in 1..n + 1 : shelf'[j] = d
  <2> SUFFICES ASSUME NEW d \in walk.there PROVE \E j \in 1..n + 1 : shelf'[j] = d
    OBVIOUS
  <2>1. PICK k \in 1..n : shelf[k] = d
    BY <1>6
  <2>2. CASE k < i
    BY <1>3, <1>4, <2>1, <2>2
  <2>3. CASE k >= i
    <3>1. k + 1 \in 1..n + 1 /\ ~(k + 1 < i) /\ k + 1 # i /\ k + 1 - 1 = k
      BY <1>3, <2>3
    <3>2. shelf'[k + 1] = d
      BY <1>4, <2>1, <3>1
    <3> QED BY <3>1, <3>2
  <2> QED BY <1>3, <2>2, <2>3
<1>8. ASSUME NEW j \in 1..n + 1, shelf'[j] \in walk.there, shelf'[j] \notin excused
      PROVE  \E k \in 1..n : /\ shelf[k] = shelf'[j] /\ k <= j
                             /\ (walk.items # None \/ walk.total # None) => k = j
  <2>1. j # i
    BY <1>3, <1>4, <1>6, <1>8
  <2>2. CASE j < i
    <3>1. j \in 1..n /\ shelf[j] = shelf'[j] /\ j <= j
      BY <1>3, <1>4, <2>2
    <3> QED BY <3>1
  <2>3. CASE j > i
    <3>1. j - 1 \in 1..n /\ shelf[j - 1] = shelf'[j] /\ j - 1 <= j /\ j - 1 >= i
      BY <1>3, <1>4, <2>3
    <3>2. j - 1 \in DOMAIN shelf
      BY <1>3, <3>1
    <3>3. ~Torn
      BY <1>8, <3>1, <3>2 DEF From
    <3> QED BY <3>1, <3>3 DEF Torn
  <2>4. j < i \/ j > i
    BY <1>3, <2>1
  <2> QED BY <2>2, <2>3, <2>4
<1> HIDE DEF excused
<1>9. walk' = [walk EXCEPT !.there = walk.there, !.excused = excused]
  BY <1>1, <1>2 DEF WalkOK
<1>10. walk.excused \subseteq excused
  BY DEF excused
<1>11. \A j \in 1..Len(shelf') : (shelf'[j] \in walk.there /\ shelf'[j] \notin excused) =>
          \E k \in 1..Len(shelf) :
            /\ shelf[k] = shelf'[j] /\ k <= j
            /\ (walk.items # None \/ walk.total # None) => k = j
  BY <1>4, <1>8
<1>12. \A d \in walk.there : \E j \in 1..Len(shelf') : shelf'[j] = d
  BY <1>4, <1>7
<1> QED BY <1>1, <1>5, <1>9, <1>10, <1>11, <1>12, Change_Inv

LEMMA Leave_Inv ==
  ASSUME ListingInv, NEW i \in DOMAIN shelf, Leave(i)
  PROVE  ListingInv'
<1> DEFINE n == Len(shelf)
           there == walk.there \ {shelf[i]}
           excused == walk.excused \cup From(i)
<1>1. /\ view # None /\ ~walk.over /\ churn < MaxChanges /\ churn' = churn + 1
      /\ shelf' = DeleteAt(shelf, i) /\ shelved' = shelved /\ view' = view /\ equals' = equals
      /\ walk' = [walk EXCEPT !.there = there, !.excused = excused]
  BY DEF Leave, Changing, Reading
<1>2. ShelfOK /\ WalkOK
  BY DEF ListingInv
<1>3. n \in 0..shelved /\ shelved \in Nat /\ shelf \in [1..n -> 1..shelved] /\ i \in 1..n
  BY <1>2 DEF ShelfOK
<1>4. /\ shelf' \in [1..n - 1 -> 1..shelved] /\ Len(shelf') = n - 1
      /\ \A j \in 1..n - 1 : shelf'[j] = IF j < i THEN shelf[j] ELSE shelf[j + 1]
  <2> DEFINE S == 1..shelved
  <2>1. shelf \in [1..Len(shelf) -> S] /\ Len(shelf) \in Nat /\ i \in 1..Len(shelf)
    BY <1>3
  <2> HIDE DEF S
  <2>2. DeleteAt(shelf, i) \in [1..Len(shelf) - 1 -> S]
    BY <2>1, DeleteAt_Is
  <2>3. Len(DeleteAt(shelf, i)) = Len(shelf) - 1
    BY <2>1, DeleteAt_Is
  <2>4. \A j \in 1..Len(shelf) - 1 :
          DeleteAt(shelf, i)[j] = IF j < i THEN shelf[j] ELSE shelf[j + 1]
    BY <2>1 DEF DeleteAt
  <2> QED BY <1>1, <2>2, <2>3, <2>4 DEF S
<1>5. ShelfOK'
  <2>1. \A j, k \in 1..n - 1 : shelf'[j] = shelf'[k] => j = k
    <3> SUFFICES ASSUME NEW j \in 1..n - 1, NEW k \in 1..n - 1, shelf'[j] = shelf'[k]
                 PROVE  j = k
      OBVIOUS
    <3>1. \A a, b \in 1..n : shelf[a] = shelf[b] => a = b
      BY <1>2 DEF ShelfOK
    <3> QED BY <1>3, <1>4, <3>1
  <2>2. /\ churn + 1 \in 0..MaxChanges /\ shelved \in 3..MaxShelf
        /\ equals' \subseteq 1..MaxShelf
    BY <1>1, <1>2, ListingAssumption DEF ShelfOK
  <2>3. n - 1 \in 0..shelved
    BY <1>3
  <2> QED BY <1>1, <1>4, <2>1, <2>2, <2>3 DEF ShelfOK
<1>6. \A d \in walk.there : \E k \in 1..n : shelf[k] = d
  BY <1>2 DEF WalkOK
<1>7. \A d \in there : \E j \in 1..n - 1 : shelf'[j] = d
  <2> SUFFICES ASSUME NEW d \in there PROVE \E j \in 1..n - 1 : shelf'[j] = d
    OBVIOUS
  <2>1. PICK k \in 1..n : shelf[k] = d
    BY <1>6
  <2>2. k # i
    BY <2>1
  <2>3. CASE k < i
    <3>1. k \in 1..n - 1
      BY <1>3, <2>3
    <3>2. shelf'[k] = shelf[k]
      BY <1>4, <2>3, <3>1
    <3> QED BY <2>1, <3>1, <3>2
  <2>4. CASE k > i
    <3>1. k - 1 \in 1..n - 1 /\ ~(k - 1 < i) /\ k - 1 + 1 = k
      BY <1>3, <2>1, <2>4
    <3>2. shelf'[k - 1] = d
      BY <1>4, <2>1, <3>1
    <3> QED BY <3>1, <3>2
  <2> QED BY <1>3, <2>1, <2>2, <2>3, <2>4
<1>8. ASSUME NEW j \in 1..n - 1, shelf'[j] \notin excused
      PROVE  j \in 1..n /\ shelf[j] = shelf'[j]
  <2>1. CASE j < i
    BY <1>3, <1>4, <2>1
  <2>2. CASE j >= i
    <3>1. j + 1 \in DOMAIN shelf /\ j + 1 >= i /\ shelf'[j] = shelf[j + 1]
      BY <1>3, <1>4, <2>2
    <3>2. shelf'[j] \in From(i)
      BY <3>1 DEF From
    <3> QED BY <1>8, <3>2
  <2>3. j < i \/ j >= i
    BY <1>3
  <2> QED BY <2>1, <2>2, <2>3
<1> HIDE DEF excused
<1>9. walk.excused \subseteq excused /\ there \subseteq walk.there
  BY DEF excused
<1>10. \A j \in 1..Len(shelf') : (shelf'[j] \in there /\ shelf'[j] \notin excused) =>
          \E k \in 1..Len(shelf) :
            /\ shelf[k] = shelf'[j] /\ k <= j
            /\ (walk.items # None \/ walk.total # None) => k = j
  <2> SUFFICES ASSUME NEW j \in 1..n - 1, shelf'[j] \notin excused
               PROVE  \E k \in 1..Len(shelf) :
                        /\ shelf[k] = shelf'[j] /\ k <= j
                        /\ (walk.items # None \/ walk.total # None) => k = j
    BY <1>4
  <2>1. j \in 1..n /\ shelf[j] = shelf'[j] /\ j <= j
    BY <1>3, <1>8
  <2> QED BY <2>1
<1>11. \A d \in there : \E j \in 1..Len(shelf') : shelf'[j] = d
  BY <1>4, <1>7
<1> HIDE DEF there
<1> QED BY <1>1, <1>5, <1>9, <1>10, <1>11, Change_Inv

LEMMA Move_Inv ==
  ASSUME ListingInv, NEW i \in DOMAIN shelf, NEW k \in DOMAIN shelf, Move(i, k)
  PROVE  ListingInv'
<1> DEFINE n == Len(shelf)
           rest == DeleteAt(shelf, i)
           excused == walk.excused \cup {shelf[i]}
                        \cup (IF k > i \/ Torn THEN From(IF k < i THEN k ELSE i) ELSE {})
<1>1. /\ view # None /\ ~walk.over /\ churn < MaxChanges /\ churn' = churn + 1 /\ i # k
      /\ shelf' = InsertAt(rest, k, shelf[i]) /\ shelved' = shelved /\ view' = view /\ equals' = equals
      /\ walk' = [walk EXCEPT !.excused = excused]
  BY DEF Move, Changing, Reading
<1>2. ShelfOK /\ WalkOK
  BY DEF ListingInv
<1>3. n \in 0..shelved /\ shelved \in Nat /\ shelf \in [1..n -> 1..shelved] /\ i \in 1..n
      /\ k \in 1..n
  BY <1>2 DEF ShelfOK
<1>4. /\ shelf' \in [1..n -> 1..shelved] /\ Len(shelf') = n
      /\ \A j \in 1..n : shelf'[j] =
           IF j = k THEN shelf[i]
           ELSE IF j < k THEN IF j < i THEN shelf[j] ELSE shelf[j + 1]
           ELSE IF j - 1 < i THEN shelf[j - 1] ELSE shelf[j]
  <2> DEFINE S == 1..shelved
             d == shelf[i]
  <2>1. shelf \in [1..Len(shelf) -> S] /\ Len(shelf) \in Nat /\ i \in 1..Len(shelf) /\ d \in S
    BY <1>3
  <2> HIDE DEF S, d
  <2>2. rest \in [1..Len(shelf) - 1 -> S]
    BY <2>1, DeleteAt_Is
  <2>3. Len(rest) = Len(shelf) - 1
    BY <2>1, DeleteAt_Is
  <2>4. \A j \in 1..n - 1 : rest[j] = IF j < i THEN shelf[j] ELSE shelf[j + 1]
    BY <2>1 DEF DeleteAt
  <2> HIDE DEF rest
  <2>5. rest \in [1..Len(rest) -> S] /\ Len(rest) \in Nat /\ k \in 1..Len(rest) + 1
        /\ Len(rest) + 1 = n
    BY <1>3, <2>2, <2>3
  <2>6. InsertAt(rest, k, d) \in [1..Len(rest) + 1 -> S]
    BY <2>1, <2>5, InsertAt_Is
  <2>7. Len(InsertAt(rest, k, d)) = Len(rest) + 1
    BY <2>5, <2>6, LengthOf
  <2>8. \A j \in 1..n :
          InsertAt(rest, k, d)[j] = IF j < k THEN rest[j] ELSE IF j = k THEN d ELSE rest[j - 1]
    BY <2>5 DEF InsertAt
  <2>9. shelf' = InsertAt(rest, k, d)
    BY <1>1 DEF d
  <2>10. ASSUME NEW j \in 1..n
         PROVE  shelf'[j] =
                  IF j = k THEN shelf[i]
                  ELSE IF j < k THEN IF j < i THEN shelf[j] ELSE shelf[j + 1]
                  ELSE IF j - 1 < i THEN shelf[j - 1] ELSE shelf[j]
    <3>1. CASE j = k
      BY <1>3, <2>8, <2>9, <3>1 DEF d
    <3>2. CASE j < k
      <4>1. j \in 1..n - 1
        BY <1>3, <3>2
      <4> QED BY <1>3, <2>4, <2>8, <2>9, <3>2, <4>1
    <3>3. CASE j > k
      <4>1. j - 1 \in 1..n - 1 /\ j - 1 + 1 = j
        BY <1>3, <3>3
      <4> QED BY <1>3, <2>4, <2>8, <2>9, <3>3, <4>1
    <3> QED BY <1>3, <3>1, <3>2, <3>3
  <2> QED BY <2>5, <2>6, <2>7, <2>9, <2>10 DEF S
<1> HIDE DEF rest
<1>5. ShelfOK'
  <2>1. \A a, b \in 1..n : shelf[a] = shelf[b] => a = b
    BY <1>2 DEF ShelfOK
  <2>2. \A a, b \in 1..n : shelf'[a] = shelf'[b] => a = b
    <3> SUFFICES ASSUME NEW a \in 1..n, NEW b \in 1..n, shelf'[a] = shelf'[b]
                 PROVE  a = b
      OBVIOUS
    <3> DEFINE From_(j) == IF j = k THEN i
                           ELSE IF j < k THEN IF j < i THEN j ELSE j + 1
                           ELSE IF j - 1 < i THEN j - 1 ELSE j
    <3>1. \A j \in 1..n : From_(j) \in 1..n /\ shelf'[j] = shelf[From_(j)]
      BY <1>3, <1>4
    <3>2. From_(a) = From_(b)
      <4> HIDE DEF From_
      <4> QED BY <2>1, <3>1
    <3> QED BY <1>3, <3>2
  <2>3. /\ churn + 1 \in 0..MaxChanges /\ shelved \in 3..MaxShelf
        /\ equals' \subseteq 1..MaxShelf
    BY <1>1, <1>2, ListingAssumption DEF ShelfOK
  <2> QED BY <1>1, <1>3, <1>4, <2>2, <2>3 DEF ShelfOK
<1>6. \A d \in walk.there : \E j \in 1..Len(shelf') : shelf'[j] = d
  <2> SUFFICES ASSUME NEW d \in walk.there PROVE \E j \in 1..n : shelf'[j] = d
    BY <1>4
  <2>1. PICK s \in 1..n : shelf[s] = d
    BY <1>2 DEF WalkOK
  <2> DEFINE To(m) == IF m = i THEN k
                      ELSE IF m < i THEN IF m < k THEN m ELSE m + 1
                      ELSE IF m - 1 < k THEN m - 1 ELSE m
  <2>2. To(s) \in 1..n /\ shelf'[To(s)] = shelf[s]
    <3>1. CASE s = i
      BY <1>3, <1>4, <3>1
    <3>2. CASE s < i /\ s < k
      BY <1>3, <1>4, <3>2
    <3>3. CASE s < i /\ s >= k
      <4>1. To(s) = s + 1 /\ s + 1 \in 1..n /\ s + 1 # k /\ ~(s + 1 < k) /\ s + 1 - 1 = s
        BY <1>3, <3>3
      <4> QED BY <1>4, <3>3, <4>1
    <3>4. CASE s > i /\ s - 1 < k
      <4>1. To(s) = s - 1 /\ s - 1 \in 1..n
        BY <1>3, <3>4
      <4>2. shelf'[s - 1] = shelf[s]
        <5>1. s - 1 = k => FALSE
          BY <3>4, <1>3
        <5>2. s - 1 < k /\ ~(s - 1 < i) /\ s - 1 + 1 = s
          BY <3>4, <1>3
        <5> QED BY <1>3, <1>4, <4>1, <5>1, <5>2
      <4> QED BY <4>1, <4>2
    <3>5. CASE s > i /\ s - 1 >= k
      <4>1. To(s) = s /\ s # k /\ ~(s < k) /\ ~(s - 1 < i)
        BY <1>3, <3>5
      <4> QED BY <1>4, <4>1
    <3> QED BY <1>3, <3>1, <3>2, <3>3, <3>4, <3>5
  <2> HIDE DEF To
  <2> QED BY <2>1, <2>2
<1>7. \A j \in 1..Len(shelf') : (shelf'[j] \in walk.there /\ shelf'[j] \notin excused) =>
          \E s \in 1..Len(shelf) :
            /\ shelf[s] = shelf'[j] /\ s <= j
            /\ (walk.items # None \/ walk.total # None) => s = j
  <2> SUFFICES ASSUME NEW j \in 1..n, shelf'[j] \notin excused
               PROVE  \E s \in 1..n : /\ shelf[s] = shelf'[j] /\ s <= j
                                      /\ (walk.items # None \/ walk.total # None) => s = j
    BY <1>4
  <2>1. j # k
    BY <1>4, <1>3
  <2>2. CASE k > i \/ Torn
    <3> DEFINE low == IF k < i THEN k ELSE i
    <3>1. \A s \in 1..n : s >= low => shelf[s] \in excused
      BY <1>3, <2>2 DEF From
    <3> HIDE DEF excused
    <3>2. shelf[j] = shelf'[j]
      <4>1. CASE j < k
        <5>1. CASE j < i
          BY <1>4, <4>1, <5>1, <2>1
        <5>2. CASE j >= i
          <6>1. j + 1 \in 1..n /\ j + 1 >= low
            BY <1>3, <4>1, <5>2
          <6>2. shelf'[j] = shelf[j + 1]
            BY <1>3, <1>4, <2>1, <4>1, <5>2
          <6> QED BY <3>1, <6>1, <6>2
        <5> QED BY <1>3, <5>1, <5>2
      <4>2. CASE j > k
        <5>1. CASE j - 1 < i
          <6>1. j - 1 \in 1..n /\ j - 1 >= low
            BY <1>3, <4>2, <5>1
          <6>2. shelf'[j] = shelf[j - 1]
            BY <1>3, <1>4, <2>1, <4>2, <5>1
          <6> QED BY <3>1, <6>1, <6>2
        <5>2. CASE j - 1 >= i
          BY <1>3, <1>4, <2>1, <4>2, <5>2
        <5> QED BY <1>3, <5>1, <5>2
      <4> QED BY <1>3, <2>1, <4>1, <4>2
    <3>3. j <= j
      BY <1>3
    <3> QED BY <3>2, <3>3
  <2>3. CASE k < i /\ ~Torn
    <3> DEFINE s == IF j = k THEN i
                    ELSE IF j < k THEN IF j < i THEN j ELSE j + 1
                    ELSE IF j - 1 < i THEN j - 1 ELSE j
    <3>1. s \in 1..n /\ shelf[s] = shelf'[j] /\ s <= j
      BY <1>3, <1>4, <2>1, <2>3
    <3> HIDE DEF s
    <3> QED BY <2>3, <3>1 DEF Torn
  <2> QED BY <1>1, <1>3, <2>2, <2>3
<1> HIDE DEF excused
<1>8. walk' = [walk EXCEPT !.there = walk.there, !.excused = excused]
  BY <1>1, <1>2 DEF WalkOK
<1>9. walk.excused \subseteq excused
  BY DEF excused
<1> QED BY <1>1, <1>5, <1>6, <1>7, <1>8, <1>9, Change_Inv

LEMMA ListingNext_Inv ==
  ASSUME ListingInv, [ListingNext]_listVars
  PROVE  ListingInv'
<1>1. CASE UNCHANGED listVars
  BY <1>1 DEF listVars, ListingInv, ShelfOK, WalkOK, Missing, StillAhead
<1>2. CASE \E v \in Lists : OpenList(v)
  BY <1>2, OpenList_Inv
<1>3. CASE ReadItems
  BY <1>3, ReadItems_Inv
<1>4. CASE ReadTotal
  BY <1>4, ReadTotal_Inv
<1>5. CASE Answer
  BY <1>5, Answer_Inv
<1>6. CASE \E i \in 1..Len(shelf) + 1 : Add(i)
  BY <1>6, Add_Inv
<1>7. CASE \E i \in DOMAIN shelf : Leave(i)
  BY <1>7, Leave_Inv
<1>8. CASE \E i \in DOMAIN shelf : \E k \in DOMAIN shelf : Move(i, k)
  BY <1>8, Move_Inv
<1> QED BY <1>1, <1>2, <1>3, <1>4, <1>5, <1>6, <1>7, <1>8 DEF ListingNext

LEMMA ListingInv_Shows ==
  ASSUME ListingInv PROVE WalkMissesNothing
<1> SUFFICES ASSUME walk.over, NEW d \in walk.there PROVE d \in walk.seen \cup walk.excused
  BY DEF WalkMissesNothing
<1>1. PICK j \in 1..Len(shelf) : shelf[j] = d
  BY DEF ListingInv, WalkOK
<1> QED BY <1>1 DEF ListingInv, Missing

LEMMA ListingInv_Type ==
  ASSUME ListingInv PROVE ListingTypeOK
<1>1. ShelfOK /\ WalkOK
  BY DEF ListingInv
<1>2. Len(shelf) \in Nat /\ DOMAIN shelf = 1..Len(shelf)
  BY <1>1 DEF ShelfOK
<1>3. Shelved = {shelf[j] : j \in 1..Len(shelf)}
  BY <1>2 DEF Shelved
<1>4. Cardinality(Shelved) = Len(shelf)
  <2>1. shelf \in Surjection(1..Len(shelf), Shelved)
    BY <1>1, <1>3 DEF ShelfOK, Surjection
  <2>2. shelf \in Injection(1..Len(shelf), Shelved)
    BY <1>1, <1>3 DEF ShelfOK, Injection, IsInjective
  <2>3. shelf \in Bijection(1..Len(shelf), Shelved)
    BY <2>1, <2>2 DEF Bijection
  <2>4. IsFiniteSet(1..Len(shelf)) /\ Cardinality(1..Len(shelf)) = Len(shelf)
    <3>1. 1 \in Int /\ Len(shelf) \in Int
      BY <1>2
    <3>2. /\ IsFiniteSet(1..Len(shelf))
          /\ Cardinality(1..Len(shelf)) = IF 1 > Len(shelf) THEN 0 ELSE Len(shelf) - 1 + 1
      BY <3>1, FS_Interval
    <3> QED BY <1>2, <3>2
  <2> QED BY <2>3, <2>4, FS_Bijection DEF ExistsBijection
<1>5. shelf \in UNION {[1..n -> 1..MaxShelf] : n \in 0..MaxShelf}
  <2>1. Len(shelf) \in 0..MaxShelf /\ shelf \in [1..Len(shelf) -> 1..MaxShelf]
    BY <1>1, ListingAssumption DEF ShelfOK
  <2> QED BY <2>1
<1>6. walk.there \subseteq Shelved
  BY <1>1, <1>3 DEF WalkOK
<1> QED BY <1>1, <1>4, <1>5, <1>6 DEF ListingInv, ListingTypeOK, ShelfOK, WalkOK

-----------------------------------------------------------------------------
(* Seeds: the steps of a run, by their places.                             *)

SeedKinds ==
  {"permission", "tenant", "role", "client", "user", "portalUser", "contact", "device", "agent",
   "activity", "metric", "slaPolicy", "alertRule", "alert", "ticket", "comment", "script",
   "automation", "execution", "automationLog", "article", "contract", "invoice", "subscription",
   "patchPolicy", "patch", "session", "integration", "setting", "apiKey"}

Steps == [op : {"upsert", "create", "put", "putNew", "once", "deleteAll", "finish", "bill"},
          kind : SeedKinds, i : {1, 2}, skip : {0, 1, 2, 4}]

\* A run, place by place.
Places ==
  <<Upsert("permission"), Upsert("tenant"), Upsert("role"),
    Create("client", 1), Upsert("user"), Upsert("portalUser"), Create("contact", 1),
    Create("device", 1), Finish("device", 1), Create("agent", 1), Finish("agent", 1),
    Create("activity", 1), Create("metric", 1), Create("slaPolicy", 1),
    Put("alertRule"), Create("alert", 1), Create("ticket", 1), Create("comment", 1),
    Finish("ticket", 1), Finish("alert", 1), Put("script"), Put("automation"),
    DeleteAll("execution"), Create("execution", 1), Create("automationLog", 1),
    Put("article"), Put("contract"), Bill(2), Put("invoice"), PutNew("subscription"),
    Put("patchPolicy"), Once("patch", 4),
    Create("patch", 1), Finish("patch", 1), Create("patch", 2), Finish("patch", 2),
    Once("session", 4),
    Create("session", 1), Finish("session", 1), Create("session", 2), Finish("session", 2),
    PutNew("integration"), Upsert("setting"), Once("apiKey", 1), Create("apiKey", 1)>>

Begins(s, m) == s \in Seq(Steps) /\ Len(s) = m /\ \A i \in 1..m : s[i] = Places[i]

LEMMA Then ==
  ASSUME NEW s, NEW t, NEW m \in Nat, NEW n \in Nat, Begins(s, m),
         t \in Seq(Steps), Len(t) = n, \A i \in 1..n : t[i] = Places[m + i]
  PROVE  Begins(s \o t, m + n)
<1>1. /\ s \o t \in Seq(Steps) /\ Len(s \o t) = m + n
      /\ \A i \in 1..m + n : (s \o t)[i] = IF i <= m THEN s[i] ELSE t[i - m]
  BY ConcatProperties DEF Begins
<1>2. \A i \in 1..m + n : (s \o t)[i] = Places[i]
  <2> SUFFICES ASSUME NEW i \in 1..m + n PROVE (s \o t)[i] = Places[i]
    OBVIOUS
  <2>1. CASE i <= m
    BY <1>1, <2>1 DEF Begins
  <2>2. CASE i > m
    <3>1. i - m \in 1..n /\ m + (i - m) = i
      BY <2>2
    <3>2. i \in 1..m + n /\ ~(i <= m)
      BY <2>2
    <3>3. (s \o t)[i] = t[i - m]
      BY <1>1, <3>2
    <3> QED BY <3>1, <3>3
  <2>3. i <= m \/ i > m
    OBVIOUS
  <2> QED BY <2>1, <2>2, <2>3
<1> QED BY <1>1, <1>2 DEF Begins

LEMMA StepsAre ==
  \A k \in SeedKinds : /\ Upsert(k) \in Steps /\ Put(k) \in Steps /\ PutNew(k) \in Steps
                       /\ DeleteAll(k) \in Steps
                       /\ Create(k, 1) \in Steps /\ Create(k, 2) \in Steps
                       /\ Finish(k, 1) \in Steps /\ Finish(k, 2) \in Steps
                       /\ Once(k, 1) \in Steps /\ Once(k, 4) \in Steps
BY DEF Upsert, Put, PutNew, DeleteAll, Create, Finish, Once, Do, Steps

LEMMA BillIs == Bill(2) \in Steps
BY DEF Bill, Steps, SeedKinds

LEMMA RunBegins == Begins(run, 45)
<1> DEFINE r0 == <<upsertMany, createOrUpdateTenant, upsertRole>>
           r1 == r0 \o seedClients
           r2 == r1 \o createDemoUsers
           r3 == r2 \o seedContacts
           r4 == r3 \o seedDevices
           r5 == r4 \o seedAgentsAndMonitoring
           r6 == r5 \o seedSlaPolicies
           r7 == r6 \o seedAlertsAndTickets
           r8 == r7 \o seedScripts
           r9 == r8 \o seedAutomations
           r10 == r9 \o seedExecutions
           r11 == r10 \o seedKnowledgeBase
           r12 == r11 \o seedContracts
           r13 == r12 \o seedBilling
           r14 == r13 \o seedPatchManagement
           r15 == r14 \o seedRemoteAccess
           r16 == r15 \o seedIntegrationsSettingsAndApiKeys
<1>0. Begins(r0, 3)
  <2>1. r0 \in Seq(Steps) /\ Len(r0) = 3
    BY StepsAre DEF SeedKinds, upsertMany, createOrUpdateTenant, upsertRole
  <2>2. \A i \in 1..3 : r0[i] = Places[i]
    BY DEF Places, upsertMany, createOrUpdateTenant, upsertRole
  <2> QED BY <2>1, <2>2 DEF Begins
<1> HIDE DEF r0
<1>1. Begins(r1, 4)
  <2>1. seedClients \in Seq(Steps) /\ Len(seedClients) = 1
    BY StepsAre DEF SeedKinds, seedClients
  <2>2. \A i \in 1..1 : seedClients[i] = Places[3 + i]
    BY DEF Places, seedClients
  <2>3. Begins(r0 \o seedClients, 3 + 1)
    BY <1>0, <2>1, <2>2, Then
  <2> QED BY <2>3
<1> HIDE DEF r1
<1>2. Begins(r2, 6)
  <2>1. createDemoUsers \in Seq(Steps) /\ Len(createDemoUsers) = 2
    BY StepsAre DEF SeedKinds, createDemoUsers, createOrUpdateByEmail
  <2>2. \A i \in 1..2 : createDemoUsers[i] = Places[4 + i]
    BY DEF Places, createDemoUsers, createOrUpdateByEmail
  <2>3. Begins(r1 \o createDemoUsers, 4 + 2)
    BY <1>1, <2>1, <2>2, Then
  <2> QED BY <2>3
<1> HIDE DEF r2
<1>3. Begins(r3, 7)
  <2>1. seedContacts \in Seq(Steps) /\ Len(seedContacts) = 1
    BY StepsAre DEF SeedKinds, seedContacts
  <2>2. \A i \in 1..1 : seedContacts[i] = Places[6 + i]
    BY DEF Places, seedContacts
  <2>3. Begins(r2 \o seedContacts, 6 + 1)
    BY <1>2, <2>1, <2>2, Then
  <2> QED BY <2>3
<1> HIDE DEF r3
<1>4. Begins(r4, 8)
  <2>1. seedDevices \in Seq(Steps) /\ Len(seedDevices) = 1
    BY StepsAre DEF SeedKinds, seedDevices
  <2>2. \A i \in 1..1 : seedDevices[i] = Places[7 + i]
    BY DEF Places, seedDevices
  <2>3. Begins(r3 \o seedDevices, 7 + 1)
    BY <1>3, <2>1, <2>2, Then
  <2> QED BY <2>3
<1> HIDE DEF r4
<1>5. Begins(r5, 13)
  <2>1. seedAgentsAndMonitoring \in Seq(Steps) /\ Len(seedAgentsAndMonitoring) = 5
    BY StepsAre DEF SeedKinds, seedAgentsAndMonitoring
  <2>2. \A i \in 1..5 : seedAgentsAndMonitoring[i] = Places[8 + i]
    BY DEF Places, seedAgentsAndMonitoring
  <2>3. Begins(r4 \o seedAgentsAndMonitoring, 8 + 5)
    BY <1>4, <2>1, <2>2, Then
  <2> QED BY <2>3
<1> HIDE DEF r5
<1>6. Begins(r6, 14)
  <2>1. seedSlaPolicies \in Seq(Steps) /\ Len(seedSlaPolicies) = 1
    BY StepsAre DEF SeedKinds, seedSlaPolicies
  <2>2. \A i \in 1..1 : seedSlaPolicies[i] = Places[13 + i]
    BY DEF Places, seedSlaPolicies
  <2>3. Begins(r5 \o seedSlaPolicies, 13 + 1)
    BY <1>5, <2>1, <2>2, Then
  <2> QED BY <2>3
<1> HIDE DEF r6
<1>7. Begins(r7, 20)
  <2>1. seedAlertsAndTickets \in Seq(Steps) /\ Len(seedAlertsAndTickets) = 6
    BY StepsAre DEF SeedKinds, seedAlertsAndTickets, upsertAlertRule
  <2>2. \A i \in 1..6 : seedAlertsAndTickets[i] = Places[14 + i]
    BY DEF Places, seedAlertsAndTickets, upsertAlertRule
  <2>3. Begins(r6 \o seedAlertsAndTickets, 14 + 6)
    BY <1>6, <2>1, <2>2, Then
  <2> QED BY <2>3
<1> HIDE DEF r7
<1>8. Begins(r8, 21)
  <2>1. seedScripts \in Seq(Steps) /\ Len(seedScripts) = 1
    BY StepsAre DEF SeedKinds, seedScripts, upsertScript
  <2>2. \A i \in 1..1 : seedScripts[i] = Places[20 + i]
    BY DEF Places, seedScripts, upsertScript
  <2>3. Begins(r7 \o seedScripts, 20 + 1)
    BY <1>7, <2>1, <2>2, Then
  <2> QED BY <2>3
<1> HIDE DEF r8
<1>9. Begins(r9, 22)
  <2>1. seedAutomations \in Seq(Steps) /\ Len(seedAutomations) = 1
    BY StepsAre DEF SeedKinds, seedAutomations, upsertAutomation
  <2>2. \A i \in 1..1 : seedAutomations[i] = Places[21 + i]
    BY DEF Places, seedAutomations, upsertAutomation
  <2>3. Begins(r8 \o seedAutomations, 21 + 1)
    BY <1>8, <2>1, <2>2, Then
  <2> QED BY <2>3
<1> HIDE DEF r9
<1>10. Begins(r10, 25)
  <2>1. seedExecutions \in Seq(Steps) /\ Len(seedExecutions) = 3
    BY StepsAre DEF SeedKinds, seedExecutions
  <2>2. \A i \in 1..3 : seedExecutions[i] = Places[22 + i]
    BY DEF Places, seedExecutions
  <2>3. Begins(r9 \o seedExecutions, 22 + 3)
    BY <1>9, <2>1, <2>2, Then
  <2> QED BY <2>3
<1> HIDE DEF r10
<1>11. Begins(r11, 26)
  <2>1. seedKnowledgeBase \in Seq(Steps) /\ Len(seedKnowledgeBase) = 1
    BY StepsAre DEF SeedKinds, seedKnowledgeBase
  <2>2. \A i \in 1..1 : seedKnowledgeBase[i] = Places[25 + i]
    BY DEF Places, seedKnowledgeBase
  <2>3. Begins(r10 \o seedKnowledgeBase, 25 + 1)
    BY <1>10, <2>1, <2>2, Then
  <2> QED BY <2>3
<1> HIDE DEF r11
<1>12. Begins(r12, 27)
  <2>1. seedContracts \in Seq(Steps) /\ Len(seedContracts) = 1
    BY StepsAre DEF SeedKinds, seedContracts
  <2>2. \A i \in 1..1 : seedContracts[i] = Places[26 + i]
    BY DEF Places, seedContracts
  <2>3. Begins(r11 \o seedContracts, 26 + 1)
    BY <1>11, <2>1, <2>2, Then
  <2> QED BY <2>3
<1> HIDE DEF r12
<1>13. Begins(r13, 30)
  <2>1. seedBilling \in Seq(Steps) /\ Len(seedBilling) = 3
    BY StepsAre, BillIs DEF SeedKinds, seedBilling
  <2>2. \A i \in 1..3 : seedBilling[i] = Places[27 + i]
    BY DEF Places, seedBilling
  <2>3. Begins(r12 \o seedBilling, 27 + 3)
    BY <1>12, <2>1, <2>2, Then
  <2> QED BY <2>3
<1> HIDE DEF r13
<1>14. Begins(r14, 36)
  <2>1. seedPatchManagement \in Seq(Steps) /\ Len(seedPatchManagement) = 6
    BY StepsAre DEF SeedKinds, seedPatchManagement
  <2>2. \A i \in 1..6 : seedPatchManagement[i] = Places[30 + i]
    BY DEF Places, seedPatchManagement
  <2>3. Begins(r13 \o seedPatchManagement, 30 + 6)
    BY <1>13, <2>1, <2>2, Then
  <2> QED BY <2>3
<1> HIDE DEF r14
<1>15. Begins(r15, 41)
  <2>1. seedRemoteAccess \in Seq(Steps) /\ Len(seedRemoteAccess) = 5
    BY StepsAre DEF SeedKinds, seedRemoteAccess
  <2>2. \A i \in 1..5 : seedRemoteAccess[i] = Places[36 + i]
    BY DEF Places, seedRemoteAccess
  <2>3. Begins(r14 \o seedRemoteAccess, 36 + 5)
    BY <1>14, <2>1, <2>2, Then
  <2> QED BY <2>3
<1> HIDE DEF r15
<1>16. Begins(r16, 45)
  <2>1. seedIntegrationsSettingsAndApiKeys \in Seq(Steps) /\ Len(seedIntegrationsSettingsAndApiKeys) = 4
    BY StepsAre DEF SeedKinds, seedIntegrationsSettingsAndApiKeys, upsertSetting
  <2>2. \A i \in 1..4 : seedIntegrationsSettingsAndApiKeys[i] = Places[41 + i]
    BY DEF Places, seedIntegrationsSettingsAndApiKeys, upsertSetting
  <2>3. Begins(r15 \o seedIntegrationsSettingsAndApiKeys, 41 + 4)
    BY <1>15, <2>1, <2>2, Then
  <2> QED BY <2>3
<1> HIDE DEF r16
<1>17. run = r16
  BY DEF run, r0, r1, r2, r3, r4, r5, r6, r7, r8, r9, r10, r11, r12, r13, r14, r15, r16
<1> QED BY <1>16, <1>17

-----------------------------------------------------------------------------
(* Seeds: what holds between the steps of a run.                           *)

\* The kinds that are updated if they are there; those that are only created;
\* those whose documents let a run skip creating them.
Renewed == {"permission", "tenant", "role", "user", "portalUser", "alertRule", "script",
            "automation", "article", "contract", "invoice", "patchPolicy", "setting"}
Added   == {"client", "contact", "device", "agent", "activity", "metric", "slaPolicy", "alert",
            "ticket", "comment", "automationLog"}
Asked   == {"patch", "session", "apiKey"}

\* The steps this run, or the last one if it is over, has left behind.
Done == IF step # 0 THEN step - 1 ELSE IF ending = "completed" THEN 45 ELSE 0

DocsOK ==
  /\ step \in 0..45 /\ runs \in 0..MaxRuns /\ stops \in 0..MaxStops
  /\ ending \in {"none", "completed", "refused", "stopped"}
  /\ step # 0 => runs # 0
  /\ docs \in SUBSET [kind : SeedKinds, i : {1, 2}, run : 1..runs, client : 0..runs,
                      done : BOOLEAN]
  /\ \A d \in docs : /\ d.i = 1 \/ d.kind \in {"patch", "session"}
                     /\ d.done \/ d.kind \in {"device", "agent", "alert", "ticket", "patch", "session"}

FoundOK ==
  found # None => /\ step # 0
                  /\ Places[step].op \in {"put", "putNew", "once"}
                  /\ found \in BOOLEAN
                  /\ \/ found = Known(Places[step])
                     \/ Places[step].kind = "article"

\* A contract with a client is billed; without contracts of the users, one of this run.
PayerOK ==
  /\ payer \in 0..runs \cup {None}
  /\ step \in {29, 30} => payer \in 0..runs
  /\ Done >= 28 /\ "contract" \notin theirs => payer = runs

\* No kind but what is only created has two documents of a name; no client has
\* two subscriptions.
OneEach ==
  \A d, e \in docs :
    /\ d.kind = e.kind /\ d.i = e.i
    /\ \/ d.kind \in Renewed \cup Asked \cup {"integration"}
       \/ d.kind = "subscription" /\ d.client = e.client
    => d = e

\* What the steps behind have renewed is there, and for the clients of this run or
\* for the one billed.
RenewedOK ==
  \A n \in 1..Done :
    /\ (Places[n].op \in {"upsert", "put"} /\ n # 29) \/ n = 42 =>
         \E d \in docs : d.kind = Places[n].kind
    /\ n \in {6, 27} => \A d \in docs : d.kind = Places[n].kind => d.client = runs
    /\ n \in {29, 30} /\ payer # None =>
         \E d \in docs : d.kind = Places[n].kind /\ d.client = payer

\* What they have created for this run is there, and finished if they finish it.
AddedOK ==
  \A n \in 1..Done :
    /\ Places[n].op = "create" /\ Places[n].kind \notin Asked =>
         \E d \in docs : d.kind = Places[n].kind /\ d.run = runs
    /\ n \in {9, 11, 19, 20} =>
         \A d \in docs : d.kind = Places[n].kind /\ d.run = runs =>
            d.done \/ (n = 20 /\ "alert" \in theirs)

\* Of executions there are no old ones once they have been deleted.
ExecutionsOK ==
  \A d \in docs : d.kind = "execution" =>
    /\ d = [kind |-> "execution", i |-> 1, run |-> d.run, client |-> 0, done |-> TRUE]
    /\ Done >= 23 => d.run = runs
    /\ Done = 23 => FALSE

AllMade(k) ==
  /\ \E d \in docs : d.kind = k /\ d.i = 1 /\ d.done
  /\ k # "apiKey" => \E d \in docs : d.kind = k /\ d.i = 2 /\ d.done

\* Step o asks for documents of kind k, steps o + 1 to z make them: unless a run
\* stopped on the way they are all there or none is.
AskedOK(k, o, z) ==
  /\ step = o + 1 => \A d \in docs : d.kind # k
  /\ step \in o + 1..z /\ step <= o + 3 => \A d \in docs : d.kind = k => d.i = 1
  /\ step \in o + 2..z =>
       \E d \in docs : d.kind = k /\ d.i = 1 /\ ((step = o + 2 /\ d.run = runs) \/ d.done)
  /\ step \in o + 4..z => \E d \in docs : d.kind = k /\ d.i = 2 /\ d.run = runs
  /\ /\ stops = 0 /\ k \notin theirs
     /\ Done >= z \/ (step \notin o + 1..z /\ \E d \in docs : d.kind = k)
     => AllMade(k)

SeedInv ==
  /\ DocsOK /\ FoundOK /\ PayerOK /\ OneEach /\ RenewedOK /\ AddedOK /\ ExecutionsOK
  /\ AskedOK("patch", 32, 36) /\ AskedOK("session", 37, 41) /\ AskedOK("apiKey", 44, 45)

\* What the places of a run are, by what their steps do.
LEMMA PlacesRenew ==
  ASSUME NEW n \in 1..45, Places[n].op \in {"upsert", "put"}
  PROVE  /\ Places[n].kind \in Renewed /\ Places[n].i = 1
         /\ n \in {1, 2, 3, 5, 6, 15, 21, 22, 26, 27, 29, 31, 43}
         /\ Places[n].kind = "invoice" <=> n = 29
BY DEF Places, Renewed, Upsert, Put, PutNew, DeleteAll, Create, Finish, Once, Do, Bill

LEMMA PlacesAddNew ==
  ASSUME NEW n \in 1..45, Places[n].op = "putNew"
  PROVE  /\ Places[n].i = 1
         /\ \/ n = 30 /\ Places[n].kind = "subscription"
            \/ n = 42 /\ Places[n].kind = "integration"
BY DEF Places, Upsert, Put, PutNew, DeleteAll, Create, Finish, Once, Do, Bill

LEMMA PlacesCreate ==
  ASSUME NEW n \in 1..45, Places[n].op = "create"
  PROVE  /\ Places[n].kind \in Added \cup Asked \cup {"execution"}
         /\ Places[n].kind \in {"patch", "session"} \/ Places[n].i = 1
         /\ n \in {4, 7, 8, 10, 12, 13, 14, 16, 17, 18, 24, 25, 33, 35, 38, 40, 45}
         /\ Places[n].kind = "execution" <=> n = 24
         /\ Places[n].kind = "device" => n = 8
         /\ Places[n].kind = "agent" => n = 10
         /\ Places[n].kind = "ticket" => n = 17
         /\ Places[n].kind = "alert" => n = 16
         /\ Places[n].kind = "patch" <=> n \in {33, 35}
         /\ Places[n].kind = "session" <=> n \in {38, 40}
         /\ Places[n].kind = "apiKey" <=> n = 45
         /\ n \in {35, 40} => Places[n].i = 2
         /\ n \in {33, 38} => Places[n].i = 1
BY DEF Places, Added, Asked, Upsert, Put, PutNew, DeleteAll, Create, Finish, Once, Do, Bill

LEMMA PlacesOnce ==
  ASSUME NEW n \in 1..45, Places[n].op = "once"
  PROVE  /\ Places[n].i = 1
         /\ \/ n = 32 /\ Places[n].kind = "patch" /\ Places[n].skip = 4
            \/ n = 37 /\ Places[n].kind = "session" /\ Places[n].skip = 4
            \/ n = 44 /\ Places[n].kind = "apiKey" /\ Places[n].skip = 1
BY DEF Places, Upsert, Put, PutNew, DeleteAll, Create, Finish, Once, Do, Bill

LEMMA PlacesDelete ==
  ASSUME NEW n \in 1..45, Places[n].op = "deleteAll"
  PROVE  n = 23 /\ Places[n].kind = "execution"
BY DEF Places, Upsert, Put, PutNew, DeleteAll, Create, Finish, Once, Do, Bill

LEMMA PlacesBill ==
  ASSUME NEW n \in 1..45, Places[n].op = "bill"
  PROVE  n = 28 /\ Places[n].kind = "contract" /\ Places[n].skip = 2
BY DEF Places, Upsert, Put, PutNew, DeleteAll, Create, Finish, Once, Do, Bill

LEMMA PlacesFinish ==
  ASSUME NEW n \in 1..45, Places[n].op = "finish"
  PROVE  \/ n = 9 /\ Places[n].kind = "device" /\ Places[n].i = 1
         \/ n = 11 /\ Places[n].kind = "agent" /\ Places[n].i = 1
         \/ n = 19 /\ Places[n].kind = "ticket" /\ Places[n].i = 1
         \/ n = 20 /\ Places[n].kind = "alert" /\ Places[n].i = 1
         \/ n \in {34, 36} /\ Places[n].kind = "patch" /\ Places[n].i = IF n = 34 THEN 1 ELSE 2
         \/ n \in {39, 41} /\ Places[n].kind = "session" /\ Places[n].i = IF n = 39 THEN 1 ELSE 2
BY DEF Places, Upsert, Put, PutNew, DeleteAll, Create, Finish, Once, Do, Bill

LEMMA PlacesNamed ==
  /\ Places[6] = Upsert("portalUser") /\ Places[27] = Put("contract")
  /\ Places[29] = Put("invoice") /\ Places[30] = PutNew("subscription")
  /\ Places[9] = Finish("device", 1) /\ Places[11] = Finish("agent", 1)
  /\ Places[19] = Finish("ticket", 1) /\ Places[20] = Finish("alert", 1)
  /\ Places[24] = Create("execution", 1) /\ Places[32] = Once("patch", 4)
  /\ Places[37] = Once("session", 4) /\ Places[42] = PutNew("integration")
  /\ Places[44] = Once("apiKey", 1)
BY DEF Places

LEMMA PlacesSteps == \A n \in 1..45 : Places[n] \in Steps
BY DEF Places, Steps, SeedKinds, Upsert, Put, PutNew, DeleteAll, Create, Finish, Once, Do, Bill

LEMMA LenOfRun ==
  /\ Len(run) = 45 /\ DOMAIN run = 1..45
  /\ \A n \in 1..45 : run[n] = Places[n]
  /\ step \in 1..45 => now = Places[step]
<1>1. run \in Seq(Steps) /\ Len(run) = 45 /\ \A n \in 1..45 : run[n] = Places[n]
  BY RunBegins DEF Begins
<1>2. DOMAIN run = 1..45
  BY <1>1
<1> QED BY <1>1, <1>2 DEF now

LEMMA FinishedAre == Finished = {"device", "agent", "alert", "ticket", "patch", "session"}
<1>1. Finished = {Places[n].kind : n \in {n \in 1..45 : Places[n].op = "finish"}}
  BY LenOfRun DEF Finished
<1>2. Places[34] = Finish("patch", 1) /\ Places[39] = Finish("session", 1)
  BY DEF Places
<1>3. \A n \in {9, 11, 19, 20, 34, 39} : Places[n].op = "finish"
  BY <1>2, PlacesNamed DEF Finish, Do
<1>4. /\ Places[9].kind = "device" /\ Places[11].kind = "agent" /\ Places[19].kind = "ticket"
      /\ Places[20].kind = "alert" /\ Places[34].kind = "patch" /\ Places[39].kind = "session"
  BY <1>2, PlacesNamed DEF Finish, Do
<1>5. \A n \in 1..45 : Places[n].op = "finish" =>
        Places[n].kind \in {"device", "agent", "alert", "ticket", "patch", "session"}
  BY PlacesFinish
<1>6. ASSUME NEW k \in {"device", "agent", "alert", "ticket", "patch", "session"}
      PROVE  \E n \in 1..45 : Places[n].op = "finish" /\ Places[n].kind = k
  <2>1. {9, 11, 19, 20, 34, 39} \subseteq 1..45
    OBVIOUS
  <2>2. PICK n \in {9, 11, 19, 20, 34, 39} : Places[n].kind = k
    BY <1>4
  <2>3. n \in 1..45
    BY <2>1, <2>2
  <2>4. Places[n].op = "finish" /\ Places[n].kind = k
    BY <1>3, <2>2
  <2> QED BY <2>3, <2>4
<1> DEFINE kinds == {"device", "agent", "alert", "ticket", "patch", "session"}
<1>7. \A k \in kinds : \E n \in 1..45 : Places[n].op = "finish" /\ Places[n].kind = k
  BY <1>6
<1>8. \A n \in 1..45 : Places[n].op = "finish" => Places[n].kind \in kinds
  BY <1>5
<1> HIDE DEF kinds
<1>9. Finished \subseteq kinds
  BY <1>1, <1>8
<1>10. kinds \subseteq Finished
  BY <1>1, <1>7
<1>11. Finished = kinds
  BY <1>9, <1>10
<1> QED BY <1>11 DEF kinds

LEMMA AdvanceIs ==
  ASSUME DocsOK, step # 0, NEW n \in {1, 2, 3, 5}, step + n <= 46, Advance(n)
  PROVE  /\ found' = None
         /\ Done = step - 1 /\ Done' = step + n - 1 /\ Done' \in 0..45
         /\ \/ step' = step + n /\ step' \in 1..45 /\ ending' = ending
            \/ step' = 0 /\ step + n = 46 /\ ending' = "completed"
<1>1. step \in 1..45
  BY DEF DocsOK
<1>2. CASE step + n <= 45
  <2>1. found' = None /\ step' = step + n /\ ending' = ending
    BY <1>2, LenOfRun DEF Advance
  <2>2. step' \in 1..45 /\ step' - 1 = step + n - 1
    BY <1>1, <1>2, <2>1
  <2> QED BY <1>1, <1>2, <2>1, <2>2 DEF Done
<1>3. CASE step + n = 46
  <2>1. found' = None /\ step' = 0 /\ ending' = "completed"
    BY <1>3, LenOfRun DEF Advance
  <2> QED BY <1>1, <1>3, <2>1 DEF Done
<1> QED BY <1>1, <1>2, <1>3

\* The client a document is given.
LEMMA ClientIs ==
  ASSUME SeedInv, step # 0, NEW n \in 1..45, n = step, NEW k \in SeedKinds, k = Places[n].kind,
         Places[n].op # "finish"
  PROVE  /\ ClientNow(k) \in 0..runs
         /\ k \in {"portalUser", "contract"} => ClientNow(k) = runs
         /\ k \in {"invoice", "subscription"} => ClientNow(k) = payer
         /\ k = "execution" => ClientNow(k) = 0
<1>1. runs \in Nat
  BY DEF SeedInv, DocsOK, SeedKinds
<1>2. ASSUME k \in Billed PROVE payer \in 0..runs /\ ClientNow(k) = payer
  <2>1. Places[n].op \in {"upsert", "put", "putNew"}
    <3>1. k \notin Added \cup Asked \cup {"execution", "contract"}
      BY <1>2 DEF Added, Asked, Billed
    <3>2. k \notin {"patch", "session", "apiKey"}
      BY <1>2 DEF Billed
    <3> QED BY <3>1, <3>2, PlacesCreate, PlacesOnce, PlacesDelete, PlacesBill, PlacesSteps DEF Steps
  <2>2. n \in {29, 30}
    <3>1. CASE Places[n].op = "putNew"
      BY <1>2, <3>1, PlacesAddNew DEF Billed
    <3>2. CASE Places[n].op \in {"upsert", "put"}
      <4>1. k = "invoice"
        BY <1>2, <3>2, PlacesRenew DEF Billed, Renewed
      <4> QED BY <3>2, <4>1, PlacesRenew
    <3> QED BY <2>1, <3>1, <3>2
  <2>3. payer \in 0..runs
    BY <2>2 DEF SeedInv, PayerOK
  <2>4. ClientNow(k) = payer
    BY <1>2 DEF ClientNow, OfClient, Billed
  <2> QED BY <2>3, <2>4
<1>3. k \notin Billed => ClientNow(k) = IF k \in OfClient THEN runs ELSE 0
  BY DEF ClientNow
<1> QED BY <1>1, <1>2, <1>3 DEF OfClient, Billed

\* The one billed stays the one billed.
LEMMA PayerStays ==
  ASSUME PayerOK, step' \in {29, 30} => step = 29, Done' >= 28 => Done >= 28,
         UNCHANGED <<payer, runs>>, "contract" \notin theirs' => "contract" \notin theirs
  PROVE  PayerOK'
BY DEF PayerOK

\* What is asked for is as it was when a step outside of its block changes at
\* most other kinds.
LEMMA AskedStays ==
  ASSUME NEW k, NEW o \in {32, 37, 44}, NEW z \in {36, 41, 45}, AskedOK(k, o, z),
         o < z, step \notin o + 1..z, step' \notin o + 1..z, Done' >= z => Done >= z,
         stops' = 0 => stops = 0, k \notin theirs' => k \notin theirs,
         \A d \in docs : d.kind = k => d \in docs', \A d \in docs' : d.kind = k => d \in docs
  PROVE  AskedOK(k, o, z)'
<1>1. step' # o + 1
  OBVIOUS
<1>2. step' \notin o + 2..z /\ step' \notin o + 4..z
  OBVIOUS
<1>3. AllMade(k) => AllMade(k)'
  BY DEF AllMade
<1>4. (\E d \in docs' : d.kind = k) => \E d \in docs : d.kind = k
  OBVIOUS
<1> QED BY <1>1, <1>2, <1>3, <1>4 DEF AskedOK

LEMMA AskedElsewhere ==
  ASSUME NEW k, NEW o \in {32, 37, 44}, NEW z \in {36, 41, 45}, o < z,
         step \in 1..45, step \notin o..z, AskedOK(k, o, z),
         Done = step - 1, Done' = step, step' = step + 1 \/ step' = 0,
         UNCHANGED <<payer, runs, stops, theirs>>,
         \A d \in docs : d.kind = k => d \in docs', \A d \in docs' : d.kind = k => d \in docs
  PROVE  AskedOK(k, o, z)'
<1>1. step' \notin o + 1..z /\ step \notin o + 1..z
  OBVIOUS
<1>2. Done' >= z => Done >= z
  OBVIOUS
<1> QED BY <1>1, <1>2, AskedStays

\* An upsert, or an update of what a list has found.
LEMMA Upserting_Inv ==
  ASSUME SeedInv, Upserting
  PROVE  SeedInv'
<1> DEFINE K == Places[step].kind
           cl == ClientNow(K)
           mine == Copies(now.kind, now.i)
<1>1. step \in 1..45 /\ Places[step].op \in {"upsert", "put"} /\ now = Places[step]
  <2>1. step # 0
    BY DEF SeedInv, FoundOK, Upserting
  <2>2. step \in 1..45
    BY <2>1 DEF SeedInv, DocsOK
  <2> QED BY <2>2, LenOfRun DEF Upserting
<1>2. /\ K \in Renewed /\ now.kind = K /\ now.i = 1
      /\ step \in {1, 2, 3, 5, 6, 15, 21, 22, 26, 27, 29, 31, 43}
      /\ K = "invoice" <=> step = 29
  BY <1>1, PlacesRenew
<1>3. /\ found' = None /\ Done = step - 1 /\ Done' = step /\ UNCHANGED <<payer, runs, stops, theirs>>
      /\ step' = step + 1 /\ ending' = ending
  <2>1. step + 1 <= 46 /\ step + 1 - 1 = step /\ step # 0 /\ step + 1 # 46
    BY <1>1, <1>2
  <2>2. Advance(1) /\ UNCHANGED <<payer, runs, stops, theirs>>
    BY DEF Upserting
  <2> QED BY <2>1, <2>2, AdvanceIs DEF SeedInv
<1>4. /\ cl \in 0..runs
      /\ K \in {"portalUser", "contract"} => cl = runs
      /\ K = "invoice" => cl = payer
      /\ K \in SeedKinds /\ runs \in Nat /\ runs # 0
  <2>1. Places[step].op # "finish"
    BY <1>1
  <2>2. K \in SeedKinds
    BY <1>1, PlacesSteps DEF Steps
  <2>3. runs \in Nat /\ runs # 0
    BY <1>1 DEF SeedInv, DocsOK
  <2> QED BY <1>1, <2>1, <2>2, <2>3, ClientIs
<1> DEFINE Doc == [kind : SeedKinds, i : {1, 2}, run : 1..runs, client : 0..runs, done : BOOLEAN]
<1>5. docs \in SUBSET Doc /\ \A d \in docs : d.i = 1 \/ d.kind \in {"patch", "session"}
  BY DEF SeedInv, DocsOK
<1> DEFINE x == [kind |-> K, i |-> 1, run |-> runs, client |-> cl, done |-> TRUE]
<1>6. New(now) = x /\ x \in Doc
  <2>1. K \notin Finished
    BY <1>2, FinishedAre DEF Renewed
  <2>2. (K \notin Finished) = TRUE
    BY <2>1
  <2>3. New(now) = x
    BY <1>2, <2>2 DEF New
  <2>4. runs \in 1..runs /\ 1 \in {1, 2} /\ TRUE \in BOOLEAN
    BY <1>4
  <2>5. x \in Doc
    BY <1>4, <2>4
  <2> QED BY <2>3, <2>5
<1>7. /\ mine \subseteq docs /\ \A d \in docs : d \in mine <=> d.kind = K
      /\ \A d \in mine : d.kind = K /\ d.i = 1
  BY <1>2, <1>5 DEF Copies, Renewed
<1>8. \A d \in mine : /\ Reseeded(d) = [kind |-> K, i |-> 1, run |-> d.run, client |-> cl, done |-> TRUE]
                      /\ Reseeded(d) \in Doc
  <2> SUFFICES ASSUME NEW d \in mine
               PROVE  /\ Reseeded(d) = [kind |-> K, i |-> 1, run |-> d.run, client |-> cl, done |-> TRUE]
                      /\ Reseeded(d) \in Doc
    OBVIOUS
  <2>1. d \in Doc /\ d.kind = K /\ d.i = 1
    BY <1>5, <1>7
  <2>2. d = [kind |-> K, i |-> 1, run |-> d.run, client |-> d.client, done |-> d.done]
    BY <2>1
  <2>3. Reseeded(d) = [d EXCEPT !.client = cl, !.done = TRUE]
    BY <2>1 DEF Reseeded
  <2>4. Reseeded(d) = [kind |-> K, i |-> 1, run |-> d.run, client |-> cl, done |-> TRUE]
    <3> HIDE DEF cl, mine
    <3> QED BY <2>1, <2>3
  <2>5. d.run \in 1..runs /\ 1 \in {1, 2} /\ TRUE \in BOOLEAN
    BY <2>1
  <2>6. Reseeded(d) \in Doc
    BY <1>4, <2>4, <2>5
  <2> QED BY <2>4, <2>6
<1>9. docs' = IF mine = {} THEN docs \cup {x}
                           ELSE (docs \ mine) \cup {Reseeded(d) : d \in mine}
  BY <1>6 DEF Upserting
<1>10. \A d, e \in mine : d = e
  BY <1>2, <1>7 DEF SeedInv, OneEach
<1>11. /\ docs' \in SUBSET Doc
       /\ \A d \in docs : d.kind # K => d \in docs'
       /\ \A d \in docs' : d.kind # K => d \in docs
       /\ \A d \in docs' : d.kind = K => d.i = 1 /\ d.done /\ d.client = cl
       /\ \E d \in docs' : d.kind = K
       /\ \A d, e \in docs' : d.kind = K /\ e.kind = K => d = e
  <2>1. CASE mine = {}
    <3>1. docs' = docs \cup {x} /\ \A d \in docs : d.kind # K
      BY <1>7, <1>9, <2>1
    <3>2. x.kind = K /\ x.i = 1 /\ x.done /\ x.client = cl
      OBVIOUS
    <3>3. x \in Doc
      BY <1>6
    <3> HIDE DEF Doc, K, cl, mine, x
    <3> QED BY <1>5, <3>1, <3>2, <3>3
  <2>2. CASE mine # {}
    <3>1. PICK d0 \in mine : mine = {d0}
      BY <1>10, <2>2
    <3> DEFINE y == Reseeded(d0)
    <3>2. y = [kind |-> K, i |-> 1, run |-> d0.run, client |-> cl, done |-> TRUE] /\ y \in Doc
      BY <1>8, <3>1
    <3>3. docs' = (docs \ {d0}) \cup {y}
      BY <1>9, <2>2, <3>1
    <3>4. y.kind = K /\ y.i = 1 /\ y.done /\ y.client = cl
      BY <3>2
    <3>5. d0.kind = K /\ \A d \in docs : d.kind = K => d = d0
      BY <1>7, <3>1
    <3> HIDE DEF y, Doc, K, cl, mine, x
    <3> QED BY <1>5, <3>2, <3>3, <3>4, <3>5
  <2> QED BY <2>1, <2>2
<1> HIDE DEF mine, x, cl, Doc
<1>12. DocsOK'
  <2>1. docs' \in SUBSET Doc' /\ Doc' = Doc
    BY <1>3, <1>11 DEF Doc
  <2>2. step' \in 0..45 /\ step' # 0 /\ runs' # 0
    BY <1>2, <1>3, <1>4
  <2>3. \A d \in docs' : /\ d.i = 1 \/ d.kind \in {"patch", "session"}
                         /\ d.done \/ d.kind \in {"device", "agent", "alert", "ticket", "patch", "session"}
    BY <1>11 DEF SeedInv, DocsOK
  <2> QED BY <1>3, <2>1, <2>2, <2>3 DEF SeedInv, DocsOK, Doc
<1>13. FoundOK'
  BY <1>3 DEF FoundOK
<1>14. OneEach'
  BY <1>11 DEF SeedInv, OneEach
<1>15. RenewedOK'
  <2> SUFFICES ASSUME NEW n \in 1..step
               PROVE  /\ (Places[n].op \in {"upsert", "put"} /\ n # 29) \/ n = 42 =>
                           \E d \in docs' : d.kind = Places[n].kind
                      /\ n \in {6, 27} => \A d \in docs' : d.kind = Places[n].kind => d.client = runs
                      /\ n \in {29, 30} /\ payer # None =>
                           \E d \in docs' : d.kind = Places[n].kind /\ d.client = payer
    BY <1>3 DEF RenewedOK
  <2>1. CASE n = step
    <3>1. n \in {6, 27} => K \in {"portalUser", "contract"}
      BY <2>1, PlacesNamed DEF Upsert, Put, Do
    <3>2. \E d \in docs' : d.kind = Places[n].kind /\ d.client = cl
      BY <1>11, <2>1
    <3>3. n \in {29, 30} => cl = payer
      BY <1>2, <1>4, <2>1
    <3>4. n \in {6, 27} => \A d \in docs' : d.kind = Places[n].kind => d.client = runs
      BY <1>4, <1>11, <2>1, <3>1
    <3> QED BY <3>2, <3>3, <3>4
  <2>2. CASE n \in 1..Done
    <3>1. /\ (Places[n].op \in {"upsert", "put"} /\ n # 29) \/ n = 42 =>
               \E d \in docs : d.kind = Places[n].kind
          /\ n \in {6, 27} => \A d \in docs : d.kind = Places[n].kind => d.client = runs
          /\ n \in {29, 30} /\ payer # None =>
               \E d \in docs : d.kind = Places[n].kind /\ d.client = payer
      BY <2>2 DEF SeedInv, RenewedOK
    <3>2. n \in {6, 27} => Places[n].kind \in {"portalUser", "contract"}
      BY PlacesNamed DEF Upsert, Put, Do
    <3>3. n \in {29, 30} => Places[n].kind # K
      <4>1. n \in {29, 30} => Places[n].kind \in {"invoice", "subscription"} /\ step # 29
        BY <1>1, <1>3, <2>2, PlacesNamed DEF Put, PutNew, Do
      <4>2. K # "subscription"
        BY <1>2 DEF Renewed
      <4> QED BY <1>2, <4>1, <4>2
    <3>4. \A k : (\E d \in docs : d.kind = k) => \E d \in docs' : d.kind = k
      BY <1>11
    <3>5. n \in {6, 27} => \A d \in docs' : d.kind = Places[n].kind => d.client = runs
      BY <1>4, <1>11, <3>1, <3>2
    <3>6. n \in {29, 30} /\ payer # None =>
            \E d \in docs' : d.kind = Places[n].kind /\ d.client = payer
      BY <1>11, <3>1, <3>3
    <3> QED BY <3>1, <3>4, <3>5, <3>6
  <2>3. n = step \/ n \in 1..Done
    BY <1>1, <1>3
  <2> QED BY <2>1, <2>2, <2>3
<1>16. AddedOK'
  <2> SUFFICES ASSUME NEW n \in 1..step
               PROVE  /\ Places[n].op = "create" /\ Places[n].kind \notin Asked =>
                           \E d \in docs' : d.kind = Places[n].kind /\ d.run = runs
                      /\ n \in {9, 11, 19, 20} =>
                           \A d \in docs' : d.kind = Places[n].kind /\ d.run = runs =>
                              d.done \/ (n = 20 /\ "alert" \in theirs)
    BY <1>3 DEF AddedOK
  <2>1. CASE n = step
    BY <1>1, <1>2, <2>1
  <2>2. CASE n \in 1..Done
    <3>1. /\ Places[n].op = "create" /\ Places[n].kind \notin Asked =>
               \E d \in docs : d.kind = Places[n].kind /\ d.run = runs
          /\ n \in {9, 11, 19, 20} =>
               \A d \in docs : d.kind = Places[n].kind /\ d.run = runs =>
                  d.done \/ (n = 20 /\ "alert" \in theirs)
      BY <2>2 DEF SeedInv, AddedOK
    <3>2. Places[n].op = "create" => Places[n].kind # K
      <4>1. n \in 1..45
        BY <1>1
      <4>2. Places[n].op = "create" => Places[n].kind \in Added \cup Asked \cup {"execution"}
        BY <4>1, PlacesCreate
      <4>3. K \notin Added \cup Asked \cup {"execution"}
        BY <1>2 DEF Renewed, Added, Asked
      <4> QED BY <4>2, <4>3
    <3> QED BY <1>11, <3>1, <3>2
  <2>3. n = step \/ n \in 1..Done
    BY <1>1, <1>3
  <2> QED BY <2>1, <2>2, <2>3
<1>17. ExecutionsOK'
  <2>1. K # "execution" /\ step # 23 /\ (step >= 23 => step - 1 >= 23)
    BY <1>2 DEF Renewed
  <2>2. ASSUME NEW d \in docs', d.kind = "execution"
        PROVE  /\ d = [kind |-> "execution", i |-> 1, run |-> d.run, client |-> 0, done |-> TRUE]
               /\ step >= 23 => d.run = runs
    <3>1. d \in docs
      BY <1>11, <2>1, <2>2
    <3> QED BY <1>3, <2>1, <2>2, <3>1 DEF SeedInv, ExecutionsOK
  <2> QED BY <1>3, <2>1, <2>2 DEF ExecutionsOK
<1>30. PayerOK'
  BY <1>1, <1>2, <1>3, PayerStays DEF SeedInv
<1>18. ASSUME NEW k \in Asked, NEW o \in {32, 37, 44}, NEW z \in {36, 41, 45}, o < z, z <= o + 4,
              step \notin o..z, AskedOK(k, o, z)
       PROVE  AskedOK(k, o, z)'
  <2>1. K # k
    BY <1>2 DEF Renewed, Asked
  <2> QED BY <1>1, <1>3, <1>11, <1>18, <2>1, AskedElsewhere
<1>19. /\ step \notin 32..36 /\ step \notin 37..41 /\ step \notin 44..45
  BY <1>2
<1>20. AskedOK("patch", 32, 36)' /\ AskedOK("session", 37, 41)' /\ AskedOK("apiKey", 44, 45)'
  BY <1>18, <1>19 DEF SeedInv, Asked
<1> QED BY <1>12, <1>13, <1>14, <1>15, <1>16, <1>17, <1>20, <1>30 DEF SeedInv

\* Two rounds: what the first makes is there before the second begins.
LEMMA AskedCreates ==
  ASSUME NEW k, k # "apiKey", NEW o \in {32, 37}, AskedOK(k, o, o + 4),
         NEW x, x.kind = k, x.run = runs, docs' = docs \cup {x},
         \/ step = o + 1 /\ x.i = 1
         \/ step = o + 3 /\ x.i = 2,
         Done' = step, step' = step + 1, UNCHANGED <<payer, runs, stops, theirs>>
  PROVE  AskedOK(k, o, o + 4)'
<1>1. CASE step = o + 1 /\ x.i = 1
  <2>1. step' = o + 2 /\ step' \in o + 1..o + 4 /\ step' # o + 1 /\ step' \notin o + 4..o + 4
    BY <1>1
  <2>2. ~(Done' >= o + 4)
    BY <1>1
  <2>3. \A d \in docs' : d.kind = k => d.i = 1
    BY <1>1 DEF AskedOK
  <2>4. x \in docs' /\ x.kind = k /\ x.i = 1 /\ x.run = runs'
    BY <1>1
  <2> QED BY <2>1, <2>2, <2>3, <2>4 DEF AskedOK
<1>2. CASE step = o + 3 /\ x.i = 2
  <2>1. /\ step' = o + 4 /\ step' \in o + 1..o + 4 /\ step' # o + 1 /\ ~(step' <= o + 3)
        /\ step' # o + 2
    BY <1>2
  <2>2. ~(Done' >= o + 4)
    BY <1>2
  <2>3. \E d \in docs' : d.kind = k /\ d.i = 1 /\ d.done
    <3>1. step \in o + 2..o + 4 /\ step # o + 2
      BY <1>2
    <3> QED BY <3>1 DEF AskedOK
  <2>4. x \in docs' /\ x.kind = k /\ x.i = 2 /\ x.run = runs'
    BY <1>2
  <2> QED BY <2>1, <2>2, <2>3, <2>4 DEF AskedOK
<1> QED BY <1>1, <1>2

\* What is created whatever there is, and what a list has not found.
LEMMA Creating_Inv ==
  ASSUME SeedInv, None \notin BOOLEAN, Creating
  PROVE  SeedInv'
<1> DEFINE K == Places[step].kind
           cl == ClientNow(K)
           made == K \notin Finished
           Doc == [kind : SeedKinds, i : {1, 2}, run : 1..runs, client : 0..runs, done : BOOLEAN]
           x == [kind |-> K, i |-> Places[step].i, run |-> runs, client |-> cl, done |-> made]
<1>1. /\ step \in 1..45 /\ now = Places[step]
      /\ \/ Places[step].op = "create"
         \/ found = FALSE /\ Places[step].op = "putNew"
  <2>1. found = FALSE => found # None
    OBVIOUS
  <2>2. step # 0
    BY <2>1 DEF SeedInv, FoundOK, Creating
  <2>3. step \in 1..45
    BY <2>2 DEF SeedInv, DocsOK
  <2> QED BY <2>3, LenOfRun DEF Creating
<1>2. /\ Places[step].op \in {"create", "putNew"}
      /\ K \in Added \cup Asked \cup {"execution", "subscription", "integration"}
      /\ K \in {"patch", "session"} \/ Places[step].i = 1
      /\ step \in {4, 7, 8, 10, 12, 13, 14, 16, 17, 18, 24, 25, 30, 33, 35, 38, 40, 42, 45}
      /\ K = "execution" <=> step = 24
      /\ K \in {"device", "agent"} => step \in {8, 10}
      /\ K = "device" => step = 8
      /\ K = "agent" => step = 10
      /\ K \in {"ticket", "alert"} => step \in {16, 17}
      /\ K = "patch" <=> step \in {33, 35}
      /\ K = "session" <=> step \in {38, 40}
      /\ K = "apiKey" <=> step = 45
      /\ K = "subscription" <=> step = 30
      /\ K = "integration" <=> step = 42
      /\ step \in {35, 40} => Places[step].i = 2
      /\ step \in {33, 38} => Places[step].i = 1
  <2>1. CASE Places[step].op = "create"
    <3>1. /\ K \in Added \cup Asked \cup {"execution"}
          /\ step \in {4, 7, 8, 10, 12, 13, 14, 16, 17, 18, 24, 25, 33, 35, 38, 40, 45}
      BY <1>1, <2>1, PlacesCreate
    <3>2. K # "subscription" /\ K # "integration"
      BY <3>1 DEF Added, Asked
    <3>3. step # 30 /\ step # 42
      BY <3>1
    <3> QED BY <1>1, <2>1, <3>1, <3>2, <3>3, PlacesCreate
  <2>2. CASE Places[step].op = "putNew"
    BY <1>1, <2>2, PlacesAddNew
  <2> QED BY <1>1, <2>1, <2>2
<1>3. /\ found' = None /\ Done = step - 1 /\ Done' = step /\ UNCHANGED <<payer, runs, stops, theirs>>
      /\ \/ step' = step + 1 /\ step' \in 1..45 /\ ending' = ending
         \/ step' = 0 /\ step = 45 /\ ending' = "completed"
  <2>1. step + 1 <= 46 /\ step + 1 - 1 = step /\ step # 0 /\ (step + 1 = 46 => step = 45)
    BY <1>1
  <2>2. Advance(1) /\ UNCHANGED <<payer, runs, stops, theirs>>
    BY DEF Creating
  <2> QED BY <2>1, <2>2, AdvanceIs DEF SeedInv
<1>4. /\ cl \in 0..runs /\ (K = "subscription" => cl = payer) /\ (K = "execution" => cl = 0)
      /\ K \in SeedKinds /\ runs \in Nat /\ runs # 0 /\ Places[step].i \in {1, 2}
  <2>1. Places[step].op # "finish"
    BY <1>2
  <2>2. K \in SeedKinds /\ Places[step].i \in {1, 2}
    BY <1>1, PlacesSteps DEF Steps
  <2>3. runs \in Nat /\ runs # 0
    BY <1>1 DEF SeedInv, DocsOK
  <2> QED BY <1>1, <2>1, <2>2, <2>3, ClientIs
<1>5. New(now) = x /\ x \in Doc /\ docs' = docs \cup {x} /\ docs \in SUBSET Doc
  <2>1. New(now) = x
    BY <1>1 DEF New
  <2>2. runs \in 1..runs /\ made \in BOOLEAN
    BY <1>4
  <2>3. x \in Doc
    <3> HIDE DEF made, cl, K
    <3> QED BY <1>4, <2>2
  <2> QED BY <2>1, <2>3 DEF Creating, SeedInv, DocsOK
<1>6. /\ x.kind = K /\ x.i = Places[step].i /\ x.run = runs /\ x.client = cl
      /\ (x.done \/ K \in {"device", "agent", "alert", "ticket", "patch", "session"})
      /\ (K \in {"execution", "apiKey"} => x.done = TRUE)
  <2>1. made = (K \notin {"device", "agent", "alert", "ticket", "patch", "session"})
    BY FinishedAre
  <2> HIDE DEF made
  <2> QED BY <2>1
<1>7. x.kind # "execution" => step # 24 /\ step # 23
  BY <1>2, <1>6
<1>8. K = "execution" => x = [kind |-> "execution", i |-> 1, run |-> x.run, client |-> 0, done |-> TRUE]
  <2> SUFFICES ASSUME K = "execution"
               PROVE  x = [kind |-> "execution", i |-> 1, run |-> x.run, client |-> 0, done |-> TRUE]
    OBVIOUS
  <2>1. Places[step].i = 1 /\ cl = 0 /\ made = TRUE
    BY <1>2, <1>4, FinishedAre
  <2> HIDE DEF made, cl
  <2> QED BY <2>1
<1>9. Places[step].op = "putNew" /\ K = "integration" => \A d \in docs : d.kind # "integration"
  <2> SUFFICES ASSUME Places[step].op = "putNew", K = "integration"
               PROVE  \A d \in docs : d.kind # "integration"
    OBVIOUS
  <2>1. found = FALSE /\ found # None
    BY <1>1
  <2>2. ~Known(Places[step])
    BY <2>1 DEF SeedInv, FoundOK
  <2>3. Places[step].i = 1
    BY <1>2
  <2>4. Copies("integration", 1) = {}
    BY <2>2, <2>3 DEF Known
  <2> QED BY <2>4 DEF Copies, SeedInv, DocsOK
<1>10. K = "subscription" => \A d \in docs : d.kind = "subscription" => d.client # payer
  <2> SUFFICES ASSUME K = "subscription"
               PROVE  \A d \in docs : d.kind = "subscription" => d.client # payer
    OBVIOUS
  <2>1. Places[step].op = "putNew" /\ found = FALSE /\ found # None
    <3>1. step \notin {4, 7, 8, 10, 12, 13, 14, 16, 17, 18, 24, 25, 33, 35, 38, 40, 45}
      BY <1>2
    <3> QED BY <1>1, <3>1, PlacesCreate
  <2>2. ~Known(Places[step])
    BY <2>1 DEF SeedInv, FoundOK
  <2>3. Places[step].i = 1
    BY <1>2
  <2>4. ~\E d \in Copies("subscription", 1) : d.client = payer
    BY <2>1, <2>2, <2>3 DEF Known
  <2> QED BY <2>4 DEF Copies, SeedInv, DocsOK
<1> HIDE DEF x, cl, made, Doc
<1>11. DocsOK'
  <2>1. docs' \in SUBSET Doc' /\ Doc' = Doc
    BY <1>3, <1>5 DEF Doc
  <2>2. step' \in 0..45 /\ (step' # 0 => runs' # 0) /\ ending' \in {ending, "completed"}
    BY <1>1, <1>3, <1>4
  <2>3. \A d \in docs' : /\ d.i = 1 \/ d.kind \in {"patch", "session"}
                         /\ d.done \/ d.kind \in {"device", "agent", "alert", "ticket", "patch", "session"}
    BY <1>2, <1>5, <1>6 DEF SeedInv, DocsOK
  <2> QED BY <1>3, <2>1, <2>2, <2>3 DEF SeedInv, DocsOK, Doc
<1>12. FoundOK'
  BY <1>3 DEF FoundOK
<1>13. OneEach'
  <2> SUFFICES ASSUME NEW d \in docs, d.kind = K, d.i = x.i,
                      \/ K \in Renewed \cup Asked \cup {"integration"}
                      \/ K = "subscription" /\ d.client = x.client
               PROVE  FALSE
    <3>1. \A d \in docs' : d \in docs \/ d = x
      BY <1>5
    <3> QED BY <1>6, <3>1 DEF SeedInv, OneEach
  <2>1. K \notin Renewed
    BY <1>2 DEF Renewed, Added, Asked
  <2>2. K # "integration"
    <3>1. K = "integration" => Places[step].op = "putNew"
      <4>1. step = 42 => step \notin {4, 7, 8, 10, 12, 13, 14, 16, 17, 18, 24, 25, 33, 35, 38, 40, 45}
        OBVIOUS
      <4> QED BY <1>1, <1>2, <4>1, PlacesCreate
    <3> QED BY <1>9, <3>1
  <2>3. K # "subscription" \/ d.client # x.client
    BY <1>4, <1>6, <1>10
  <2>4. K \in Asked
    BY <2>1, <2>2, <2>3
  <2>5. CASE K = "patch"
    <3>1. step = 33 \/ (step = 35 /\ x.i = 2)
      BY <1>2, <1>6, <2>5
    <3>2. step \in 33..36 /\ step <= 35
      BY <3>1
    <3> QED BY <2>5, <3>1, <3>2 DEF SeedInv, AskedOK
  <2>6. CASE K = "session"
    <3>1. step = 38 \/ (step = 40 /\ x.i = 2)
      BY <1>2, <1>6, <2>6
    <3>2. step \in 38..41 /\ step <= 40
      BY <3>1
    <3> QED BY <2>6, <3>1, <3>2 DEF SeedInv, AskedOK
  <2>7. CASE K = "apiKey"
    BY <1>2, <2>7 DEF SeedInv, AskedOK
  <2> QED BY <2>4, <2>5, <2>6, <2>7 DEF Asked
<1>14. RenewedOK'
  <2> SUFFICES ASSUME NEW n \in 1..step
               PROVE  /\ (Places[n].op \in {"upsert", "put"} /\ n # 29) \/ n = 42 =>
                           \E d \in docs' : d.kind = Places[n].kind
                      /\ n \in {6, 27} => \A d \in docs' : d.kind = Places[n].kind => d.client = runs
                      /\ n \in {29, 30} /\ payer # None =>
                           \E d \in docs' : d.kind = Places[n].kind /\ d.client = payer
    BY <1>3 DEF RenewedOK
  <2>1. CASE n = step
    <3>1. n \notin {6, 27, 29} /\ Places[n].op \notin {"upsert", "put"}
      BY <1>2, <2>1
    <3>2. x \in docs'
      BY <1>5
    <3>3. n = 30 => x.kind = "subscription" /\ x.client = payer
      BY <1>2, <1>4, <1>6, <2>1
    <3>4. x.kind = Places[n].kind
      BY <1>6, <2>1
    <3> QED BY <3>1, <3>2, <3>3, <3>4
  <2>2. CASE n \in 1..Done
    <3>1. /\ (Places[n].op \in {"upsert", "put"} /\ n # 29) \/ n = 42 =>
               \E d \in docs : d.kind = Places[n].kind
          /\ n \in {6, 27} => \A d \in docs : d.kind = Places[n].kind => d.client = runs
          /\ n \in {29, 30} /\ payer # None =>
               \E d \in docs : d.kind = Places[n].kind /\ d.client = payer
      BY <2>2 DEF SeedInv, RenewedOK
    <3>2. n \in {6, 27} => Places[n].kind \in {"portalUser", "contract"}
      BY PlacesNamed DEF Upsert, Put, Do
    <3>3. x.kind \notin {"portalUser", "contract"}
      BY <1>2, <1>6 DEF Added, Asked
    <3> QED BY <1>5, <3>1, <3>2, <3>3
  <2>3. n = step \/ n \in 1..Done
    BY <1>1, <1>3
  <2> QED BY <2>1, <2>2, <2>3
<1>15. AddedOK'
  <2> SUFFICES ASSUME NEW n \in 1..step
               PROVE  /\ Places[n].op = "create" /\ Places[n].kind \notin Asked =>
                           \E d \in docs' : d.kind = Places[n].kind /\ d.run = runs
                      /\ n \in {9, 11, 19, 20} =>
                           \A d \in docs' : d.kind = Places[n].kind /\ d.run = runs =>
                              d.done \/ (n = 20 /\ "alert" \in theirs)
    BY <1>3 DEF AddedOK
  <2>1. CASE n = step
    <3>1. n \notin {9, 11, 19, 20}
      BY <1>2, <2>1
    <3>2. x \in docs' /\ x.kind = Places[n].kind /\ x.run = runs
      BY <1>5, <1>6, <2>1
    <3> QED BY <3>1, <3>2
  <2>2. CASE n \in 1..Done
    <3>1. /\ Places[n].op = "create" /\ Places[n].kind \notin Asked =>
               \E d \in docs : d.kind = Places[n].kind /\ d.run = runs
          /\ n \in {9, 11, 19, 20} =>
               \A d \in docs : d.kind = Places[n].kind /\ d.run = runs =>
                  d.done \/ (n = 20 /\ "alert" \in theirs)
      BY <2>2 DEF SeedInv, AddedOK
    <3>2. n \in {9, 11, 19, 20} => x.kind # Places[n].kind
      <4>1. /\ n = 9 => Places[n].kind = "device"
            /\ n = 11 => Places[n].kind = "agent"
            /\ n \in {19, 20} => Places[n].kind \in {"ticket", "alert"}
        BY PlacesNamed DEF Finish, Do
      <4>2. n < step
        BY <1>1, <1>3, <2>2
      <4> QED BY <1>2, <1>6, <4>1, <4>2
    <3> QED BY <1>5, <3>1, <3>2
  <2>3. n = step \/ n \in 1..Done
    BY <1>1, <1>3
  <2> QED BY <2>1, <2>2, <2>3
<1>16. ExecutionsOK'
  <2> SUFFICES ASSUME NEW d \in docs', d.kind = "execution"
               PROVE  /\ d = [kind |-> "execution", i |-> 1, run |-> d.run, client |-> 0, done |-> TRUE]
                      /\ step >= 23 => d.run = runs
                      /\ step # 23
    BY <1>3 DEF ExecutionsOK
  <2>1. step # 23 /\ (step >= 23 => Done >= 23) /\ (step = 24 => Done = 23)
    BY <1>2, <1>3
  <2>2. CASE d = x
    BY <1>6, <1>8, <2>1, <2>2
  <2>3. CASE d \in docs
    BY <2>1, <2>3 DEF SeedInv, ExecutionsOK
  <2> QED BY <1>5, <2>2, <2>3
<1>30. PayerOK'
  BY <1>1, <1>2, <1>3, PayerStays DEF SeedInv
<1>17. ASSUME NEW k, K # k, NEW o \in {32, 37, 44}, NEW z \in {36, 41, 45}, o < z, z <= o + 4,
              step \notin o..z, AskedOK(k, o, z)
       PROVE  AskedOK(k, o, z)'
  BY <1>1, <1>3, <1>5, <1>6, <1>17, AskedElsewhere
<1>18. AskedOK("patch", 32, 36)'
  <2>1. CASE K = "patch"
    <3>1. \/ step = 32 + 1 /\ x.i = 1
          \/ step = 32 + 3 /\ x.i = 2
      BY <1>2, <1>6, <2>1
    <3>2. step # 45 /\ 32 + 4 = 36
      BY <1>2, <2>1
    <3>3. AskedOK("patch", 32, 32 + 4)
      BY <3>2 DEF SeedInv
    <3>4. AskedOK("patch", 32, 32 + 4)'
      BY <1>3, <1>5, <1>6, <2>1, <3>1, <3>2, <3>3, AskedCreates
    <3> QED BY <3>2, <3>4
  <2>2. CASE K # "patch"
    <3>1. step \notin 32..36
      BY <1>2, <2>2
    <3> QED BY <1>17, <2>2, <3>1 DEF SeedInv
  <2> QED BY <2>1, <2>2
<1>19. AskedOK("session", 37, 41)'
  <2>1. CASE K = "session"
    <3>1. \/ step = 37 + 1 /\ x.i = 1
          \/ step = 37 + 3 /\ x.i = 2
      BY <1>2, <1>6, <2>1
    <3>2. step # 45 /\ 37 + 4 = 41
      BY <1>2, <2>1
    <3>3. AskedOK("session", 37, 37 + 4)
      BY <3>2 DEF SeedInv
    <3>4. AskedOK("session", 37, 37 + 4)'
      BY <1>3, <1>5, <1>6, <2>1, <3>1, <3>2, <3>3, AskedCreates
    <3> QED BY <3>2, <3>4
  <2>2. CASE K # "session"
    <3>1. step \notin 37..41
      BY <1>2, <2>2
    <3> QED BY <1>17, <2>2, <3>1 DEF SeedInv
  <2> QED BY <2>1, <2>2
<1>20. AskedOK("apiKey", 44, 45)'
  <2>1. CASE K = "apiKey"
    <3>1. step' = 0
      BY <1>2, <1>3, <2>1
    <3>2. x \in docs' /\ x.kind = "apiKey" /\ x.i = 1 /\ x.done
      BY <1>2, <1>5, <1>6, <2>1
    <3>3. AllMade("apiKey")'
      BY <3>2 DEF AllMade
    <3> QED BY <3>1, <3>3 DEF AskedOK
  <2>2. CASE K # "apiKey"
    <3>1. step \notin 44..45
      BY <1>2, <2>2
    <3> QED BY <1>17, <2>2, <3>1 DEF SeedInv
  <2> QED BY <2>1, <2>2
<1> QED BY <1>11, <1>12, <1>13, <1>14, <1>15, <1>16, <1>18, <1>19, <1>20, <1>30 DEF SeedInv

\* A run begins.
LEMMA Start_Inv ==
  ASSUME SeedInv, Start
  PROVE  SeedInv'
<1>1. step = 0 /\ step' = 1 /\ runs' = runs + 1 /\ payer' = None /\ UNCHANGED <<docs, found, ending, stops, theirs>>
  BY DEF Start
<1>2. found' = None
  BY <1>1 DEF SeedInv, FoundOK
<1>3. Done' = 0
  BY <1>1 DEF Done
<1>4. runs \in 0..MaxRuns /\ runs' \in 0..MaxRuns /\ runs \in Nat
  BY <1>1, SeedsAssumption DEF Start, SeedInv, DocsOK
<1>5. DocsOK'
  <2>1. 1..runs \subseteq 1..runs' /\ 0..runs \subseteq 0..runs' /\ runs' # 0
    BY <1>1, <1>4
  <2>2. ASSUME NEW d \in docs
        PROVE  d \in [kind : SeedKinds, i : {1, 2}, run : 1..runs', client : 0..runs', done : BOOLEAN]
    BY <2>1 DEF SeedInv, DocsOK
  <2>3. docs' \in SUBSET [kind : SeedKinds, i : {1, 2}, run : 1..runs', client : 0..runs', done : BOOLEAN]
    BY <1>1, <2>2
  <2> QED BY <1>1, <1>4, <2>1, <2>3 DEF SeedInv, DocsOK, SeedKinds
<1>6. FoundOK' /\ OneEach'
  BY <1>1, <1>2 DEF SeedInv, FoundOK, OneEach
<1>7. RenewedOK' /\ AddedOK' /\ ExecutionsOK'
  <2>1. 1..Done' = {} /\ ~(Done' >= 23) /\ Done' # 23
    BY <1>3
  <2> QED BY <1>1, <2>1 DEF SeedInv, RenewedOK, AddedOK, ExecutionsOK
<1>9. PayerOK'
  BY <1>1, <1>3 DEF PayerOK
<1>8. ASSUME NEW k, NEW o \in {32, 37, 44}, NEW z \in {36, 41, 45}, o < z, AskedOK(k, o, z)
      PROVE  AskedOK(k, o, z)'
  <2>1. step \notin o + 1..z /\ step' \notin o + 1..z /\ ~(Done' >= z)
    BY <1>1, <1>3
  <2> QED BY <1>1, <1>8, <2>1, AskedStays
<1> QED BY <1>5, <1>6, <1>7, <1>8, <1>9 DEF SeedInv

\* A step looks at what is there.
LEMMA Look_Inv ==
  ASSUME SeedInv, Look
  PROVE  SeedInv'
<1>1. UNCHANGED <<docs, step, payer, runs, ending, stops, theirs>>
  BY DEF Look
<1>2. step \in 1..45 /\ now = Places[step]
  BY LenOfRun DEF Look, SeedInv, DocsOK
<1>3. FoundOK'
  <2>1. Known(Places[step])' = Known(Places[step])
    BY <1>1 DEF Known, Copies
  <2>2. Known(Places[step]) \in BOOLEAN
    BY DEF Known
  <2> QED BY <1>1, <1>2, <2>1, <2>2 DEF Look, FoundOK
<1>4. DocsOK' /\ OneEach'
  BY <1>1 DEF SeedInv, DocsOK, OneEach
<1>5. Done' = Done
  BY <1>1 DEF Done
<1>8. PayerOK'
  BY <1>1, <1>5 DEF SeedInv, PayerOK
<1>6. RenewedOK' /\ AddedOK' /\ ExecutionsOK'
  BY <1>1, <1>5 DEF SeedInv, RenewedOK, AddedOK, ExecutionsOK
<1>7. \A k, o, z : AskedOK(k, o, z) => AskedOK(k, o, z)'
  BY <1>1, <1>5 DEF AskedOK, AllMade
<1> QED BY <1>3, <1>4, <1>6, <1>7, <1>8 DEF SeedInv

\* A run ends before its end: nothing is behind, and no step is under way.
LEMMA Broken_Inv ==
  ASSUME SeedInv, step' = 0, found' = None, ending' \in {"refused", "stopped"},
         UNCHANGED <<docs, payer, runs, theirs>>,
         \/ stops' \in 1..MaxStops
         \/ /\ stops' = stops
            /\ step \notin 33..36 /\ step \notin 38..41 /\ step \notin 45..45
  PROVE  SeedInv'
<1>1. Done' = 0
  BY DEF Done
<1>2. stops' \in 0..MaxStops
  BY DEF SeedInv, DocsOK
<1>3. DocsOK' /\ FoundOK' /\ PayerOK' /\ OneEach'
  BY <1>1, <1>2 DEF SeedInv, DocsOK, FoundOK, PayerOK, OneEach
<1>4. RenewedOK' /\ AddedOK' /\ ExecutionsOK'
  <2>1. 1..Done' = {} /\ ~(Done' >= 23) /\ Done' # 23
    BY <1>1
  <2> QED BY <2>1 DEF SeedInv, RenewedOK, AddedOK, ExecutionsOK
<1>5. CASE stops' \in 1..MaxStops
  <2>1. stops' # 0
    BY <1>5
  <2>2. ASSUME NEW k, NEW o \in {32, 37, 44}, NEW z \in {36, 41, 45}
        PROVE  AskedOK(k, o, z)'
    <3>1. step' # o + 1 /\ step' \notin o + 1..z /\ step' \notin o + 2..z /\ step' \notin o + 4..z
      OBVIOUS
    <3> QED BY <2>1, <3>1 DEF AskedOK
  <2> QED BY <1>3, <1>4, <2>2 DEF SeedInv
<1>6. CASE /\ stops' = stops
           /\ step \notin 33..36 /\ step \notin 38..41 /\ step \notin 45..45
  <2>1. ASSUME NEW k, NEW o \in {32, 37, 44}, NEW z \in {36, 41, 45}, o < z, AskedOK(k, o, z),
               step \notin o + 1..z
        PROVE  AskedOK(k, o, z)'
    <3>1. step' \notin o + 1..z /\ ~(Done' >= z)
      BY <1>1
    <3> QED BY <1>6, <2>1, <3>1, AskedStays
  <2>2. step \notin 32 + 1..36 /\ step \notin 37 + 1..41 /\ step \notin 44 + 1..45
    BY <1>6
  <2> QED BY <1>3, <1>4, <2>1, <2>2 DEF SeedInv
<1> QED BY <1>5, <1>6

LEMMA Refused_Inv ==
  ASSUME SeedInv, None \notin BOOLEAN, Refused
  PROVE  SeedInv'
<1>1. found = FALSE => found # None
  OBVIOUS
<1>2. step \in 1..45
  BY <1>1 DEF SeedInv, FoundOK, DocsOK, Refused
<1>3. Places[step].op = "put"
  BY <1>2, LenOfRun DEF Refused
<1>4. step \in {1, 2, 3, 5, 6, 15, 21, 22, 26, 27, 29, 31, 43}
  BY <1>2, <1>3, PlacesRenew
<1>5. step \notin 33..36 /\ step \notin 38..41 /\ step \notin 45..45
  BY <1>4
<1> QED BY <1>5, Broken_Inv DEF Refused

LEMMA Stop_Inv ==
  ASSUME SeedInv, Stop
  PROVE  SeedInv'
<1>1. stops' \in 1..MaxStops
  BY SeedsAssumption DEF Stop, SeedInv, DocsOK
<1> QED BY <1>1, Broken_Inv DEF Stop

\* The tenant's users create documents of their own.
LEMMA TenantWorks_Inv ==
  ASSUME SeedInv, NEW kind, TenantWorks(kind)
  PROVE  SeedInv'
<1>1. step = 0 /\ theirs' = theirs \cup {kind} /\ UNCHANGED <<docs, step, found, payer, runs, ending, stops>>
  BY DEF TenantWorks
<1>2. Done' = Done
  BY <1>1 DEF Done
<1>3. DocsOK' /\ FoundOK' /\ PayerOK' /\ OneEach'
  BY <1>1, <1>2 DEF SeedInv, DocsOK, FoundOK, PayerOK, OneEach
<1>4. RenewedOK' /\ AddedOK' /\ ExecutionsOK'
  BY <1>1, <1>2 DEF SeedInv, RenewedOK, AddedOK, ExecutionsOK
<1>5. ASSUME NEW k, NEW o \in {32, 37, 44}, NEW z \in {36, 41, 45}, o < z, AskedOK(k, o, z)
      PROVE  AskedOK(k, o, z)'
  <2>1. step \notin o + 1..z /\ step' \notin o + 1..z
    BY <1>1
  <2> QED BY <1>1, <1>2, <1>5, <2>1, AskedStays
<1> QED BY <1>3, <1>4, <1>5 DEF SeedInv

\* Executions are deleted, whoever's they are.
LEMMA Deleting_Inv ==
  ASSUME SeedInv, Deleting
  PROVE  SeedInv'
<1>1. step = 23 /\ step \in 1..45 /\ Places[step].kind = "execution" /\ now = Places[step]
      /\ Places[step].op = "deleteAll"
  <2>1. step \in 1..45
    BY DEF SeedInv, DocsOK, Deleting
  <2> QED BY <2>1, LenOfRun, PlacesDelete DEF Deleting
<1>2. /\ found' = None /\ Done = 22 /\ Done' = 23 /\ UNCHANGED <<payer, runs, stops, theirs>>
      /\ step' = 24 /\ ending' = ending
  <2>1. 23 + 1 <= 46 /\ 23 + 1 = 24 /\ 24 # 46 /\ 23 - 1 = 22 /\ 24 - 1 = 23
    OBVIOUS
  <2>2. Advance(1) /\ UNCHANGED <<payer, runs, stops, theirs>>
    BY DEF Deleting
  <2> QED BY <1>1, <2>1, <2>2, AdvanceIs DEF SeedInv
<1>3. docs' = {d \in docs : d.kind # "execution"}
  BY <1>1 DEF Deleting
<1>4. DocsOK' /\ FoundOK' /\ PayerOK' /\ OneEach' /\ ExecutionsOK'
  BY <1>1, <1>2, <1>3 DEF SeedInv, DocsOK, FoundOK, PayerOK, OneEach, ExecutionsOK
<1>5. RenewedOK'
  <2> SUFFICES ASSUME NEW n \in 1..23
               PROVE  /\ (Places[n].op \in {"upsert", "put"} /\ n # 29) \/ n = 42 =>
                           \E d \in docs' : d.kind = Places[n].kind
                      /\ n \in {6, 27} => \A d \in docs' : d.kind = Places[n].kind => d.client = runs
                      /\ n \in {29, 30} /\ payer # None =>
                           \E d \in docs' : d.kind = Places[n].kind /\ d.client = payer
    BY <1>2 DEF RenewedOK
  <2>1. n # 42 /\ n \notin {29, 30} /\ n \in 1..45
    OBVIOUS
  <2>2. n = 23 \/ n \in 1..Done
    BY <1>2
  <2>3. n = 23 => Places[n].op \notin {"upsert", "put"} /\ n \notin {6, 27, 29}
    BY <1>1
  <2>4. Places[n].op \in {"upsert", "put"} => Places[n].kind # "execution"
    BY <2>1, PlacesRenew DEF Renewed
  <2> QED BY <1>3, <2>1, <2>2, <2>3, <2>4 DEF SeedInv, RenewedOK
<1>6. AddedOK'
  <2> SUFFICES ASSUME NEW n \in 1..23
               PROVE  /\ Places[n].op = "create" /\ Places[n].kind \notin Asked =>
                           \E d \in docs' : d.kind = Places[n].kind /\ d.run = runs
                      /\ n \in {9, 11, 19, 20} =>
                           \A d \in docs' : d.kind = Places[n].kind /\ d.run = runs =>
                              d.done \/ (n = 20 /\ "alert" \in theirs)
    BY <1>2 DEF AddedOK
  <2>1. n # 24 /\ n \in 1..45
    OBVIOUS
  <2>2. n = 23 \/ n \in 1..Done
    BY <1>2
  <2>3. n = 23 => Places[n].op # "create" /\ n \notin {9, 11, 19, 20}
    BY <1>1
  <2>4. Places[n].op = "create" => Places[n].kind # "execution"
    BY <2>1, PlacesCreate
  <2> QED BY <1>3, <2>2, <2>3, <2>4 DEF SeedInv, AddedOK
<1>7. ASSUME NEW k, k # "execution", NEW o \in {32, 37, 44}, NEW z \in {36, 41, 45}, o < z, AskedOK(k, o, z)
      PROVE  AskedOK(k, o, z)'
  <2>1. step \notin o + 1..z /\ step' \notin o + 1..z /\ ~(Done' >= z)
    BY <1>1, <1>2
  <2> QED BY <1>2, <1>3, <1>7, <2>1, AskedStays
<1> QED BY <1>4, <1>5, <1>6, <1>7 DEF SeedInv

\* What was found is left alone, or makes the run skip the steps that would make it.
LEMMA Leaving_Inv ==
  ASSUME SeedInv, Leaving
  PROVE  SeedInv'
<1> DEFINE K == Places[step].kind
           asks == Places[step].op = "once"
           n == IF asks /\ found THEN 1 + Places[step].skip ELSE 1
           known == Known(Places[step])
<1>1. step \in 1..45 /\ now = Places[step] /\ found # None
  <2>1. found # None /\ step # 0
    BY DEF SeedInv, FoundOK, Leaving
  <2>2. step \in 1..45
    BY <2>1 DEF SeedInv, DocsOK
  <2> QED BY <2>1, <2>2, LenOfRun
<1>2. /\ Places[step].i = 1
      /\ \/ asks /\ step = 32 /\ K = "patch" /\ Places[step].skip = 4
         \/ asks /\ step = 37 /\ K = "session" /\ Places[step].skip = 4
         \/ asks /\ step = 44 /\ K = "apiKey" /\ Places[step].skip = 1
         \/ ~asks /\ found /\ step = 30 /\ K = "subscription"
         \/ ~asks /\ found /\ step = 42 /\ K = "integration"
  <2>1. CASE asks
    BY <1>1, <2>1, PlacesOnce
  <2>2. CASE found /\ Places[step].op = "putNew"
    BY <1>1, <2>2, PlacesAddNew
  <2> QED BY <1>1, <2>1, <2>2 DEF Leaving
<1>3. found <=> known
  <2>1. K # "article"
    BY <1>2
  <2>2. found = known \/ K = "article"
    BY <1>1 DEF SeedInv, FoundOK
  <2> HIDE DEF known, K
  <2> QED BY <2>1, <2>2
<1>4. n \in {1, 2, 5} /\ step + n <= 46 /\ (asks /\ found => n = IF step = 44 THEN 2 ELSE 5)
      /\ (~(asks /\ found) => n = 1)
  <2>1. 1 + 4 = 5 /\ 1 + 1 = 2
    OBVIOUS
  <2> QED BY <1>2, <2>1
<1>5. /\ found' = None /\ Done = step - 1 /\ Done' = step + n - 1
      /\ UNCHANGED <<docs, payer, runs, stops, theirs>>
      /\ \/ step' = step + n /\ step' \in 1..45 /\ ending' = ending
         \/ step' = 0 /\ step + n = 46 /\ ending' = "completed"
  <2>1. Advance(n) /\ UNCHANGED <<docs, payer, runs, stops, theirs>>
    BY <1>1 DEF Leaving
  <2> HIDE DEF n
  <2> QED BY <1>1, <1>4, <2>1, AdvanceIs DEF SeedInv
<1> HIDE DEF n
<1>6. DocsOK' /\ FoundOK' /\ OneEach'
  BY <1>1, <1>5 DEF SeedInv, DocsOK, FoundOK, OneEach
<1>30. PayerOK'
  <2>1. step \in {30, 32, 37, 42, 44} /\ (step' = 29 \/ step' = 30 => step = 29)
    BY <1>1, <1>2, <1>4, <1>5
  <2>2. Done' >= 28 => Done >= 28
    BY <1>5, <2>1
  <2> QED BY <1>5, <2>1, <2>2, PayerStays DEF SeedInv
<1>7. ASSUME NEW p \in 1..Done'
      PROVE  \/ p \in 1..Done
             \/ p = step
             \/ asks /\ p \in {33, 34, 35, 36, 38, 39, 40, 41, 45}
  <2>1. CASE asks /\ found /\ step = 44
    <3>1. Done' = 45 /\ Done = 43
      <4>1. 44 + 2 - 1 = 45 /\ 44 - 1 = 43
        OBVIOUS
      <4> QED BY <1>4, <1>5, <2>1, <4>1
    <3> QED BY <2>1, <3>1
  <2>2. CASE asks /\ found /\ step # 44
    BY <1>2, <1>4, <1>5, <2>2
  <2>3. CASE ~(asks /\ found)
    BY <1>1, <1>4, <1>5, <2>3
  <2> QED BY <2>1, <2>2, <2>3
<1>8. ASSUME asks, NEW p \in {33, 34, 35, 36, 38, 39, 40, 41, 45}
      PROVE  /\ Places[p].op \notin {"upsert", "put"} /\ p \notin {42, 6, 27, 29, 30, 9, 11, 19, 20}
             /\ Places[p].op = "create" => Places[p].kind \in Asked
  <2>1. p \in 1..45
    BY <1>8
  <2>2. Places[p].op \notin {"upsert", "put"}
    BY <2>1, PlacesRenew
  <2>3. Places[p].op = "create" => Places[p].kind \in Asked
    <3>1. p \notin {4, 7, 8, 10, 12, 13, 14, 16, 17, 18, 24, 25}
      BY <1>8
    <3> QED BY <2>1, <3>1, PlacesCreate DEF Asked
  <2> QED BY <1>8, <2>2, <2>3
<1>9. RenewedOK'
  <2> SUFFICES ASSUME NEW p \in 1..Done'
               PROVE  /\ (Places[p].op \in {"upsert", "put"} /\ p # 29) \/ p = 42 =>
                           \E d \in docs : d.kind = Places[p].kind
                      /\ p \in {6, 27} => \A d \in docs : d.kind = Places[p].kind => d.client = runs
                      /\ p \in {29, 30} /\ payer # None =>
                           \E d \in docs : d.kind = Places[p].kind /\ d.client = payer
    BY <1>5 DEF RenewedOK
  <2>1. CASE p \in 1..Done
    BY <2>1 DEF SeedInv, RenewedOK
  <2>2. CASE p = step /\ asks
    BY <1>2, <2>2
  <2>3. CASE p = step /\ ~asks
    <3>1. known
      BY <1>2, <1>3, <2>3
    <3>2. Places[step].op \notin {"upsert", "put"} /\ p \in {30, 42}
      BY <1>1, <1>2, <2>3 DEF Leaving
    <3>4. p = 30 => \E d \in docs : d.kind = Places[p].kind /\ d.client = payer
      BY <1>2, <2>3, <3>1 DEF Known, Copies
    <3>5. p = 42 => \E d \in docs : d.kind = Places[p].kind
      BY <1>2, <2>3, <3>1 DEF Known, Copies
    <3>6. Places[p].op \notin {"upsert", "put"} /\ p \notin {6, 27, 29}
      BY <2>3, <3>2
    <3> QED BY <3>4, <3>5, <3>6
  <2>4. CASE asks /\ p \in {33, 34, 35, 36, 38, 39, 40, 41, 45}
    BY <1>8, <2>4
  <2> QED BY <1>7, <2>1, <2>2, <2>3, <2>4
<1>10. AddedOK'
  <2> SUFFICES ASSUME NEW p \in 1..Done'
               PROVE  /\ Places[p].op = "create" /\ Places[p].kind \notin Asked =>
                           \E d \in docs : d.kind = Places[p].kind /\ d.run = runs
                      /\ p \in {9, 11, 19, 20} =>
                           \A d \in docs : d.kind = Places[p].kind /\ d.run = runs =>
                              d.done \/ (p = 20 /\ "alert" \in theirs)
    BY <1>5 DEF AddedOK
  <2>1. CASE p \in 1..Done
    BY <2>1 DEF SeedInv, AddedOK
  <2>2. CASE p = step
    <3>1. Places[step].op # "create" /\ p \notin {9, 11, 19, 20}
      BY <1>1, <1>2, <2>2 DEF Leaving
    <3> QED BY <2>2, <3>1
  <2>3. CASE asks /\ p \in {33, 34, 35, 36, 38, 39, 40, 41, 45}
    BY <1>8, <2>3
  <2> QED BY <1>7, <2>1, <2>2, <2>3
<1>11. ExecutionsOK'
  <2>1. Done >= 23 /\ Done' # 23
    BY <1>2, <1>4, <1>5
  <2> QED BY <1>5, <2>1 DEF SeedInv, ExecutionsOK
<1>12. ASSUME NEW k \in Asked, NEW o \in {32, 37, 44}, NEW z \in {36, 41, 45}, o < z, z <= o + 4,
              AskedOK(k, o, z), step # o, o = 44 => z = 45, o = 37 => z = 41, o = 32 => z = 36
       PROVE  AskedOK(k, o, z)'
  <2>1. step \notin o + 1..z /\ step' \notin o + 1..z /\ (Done' >= z => Done >= z)
    <3>1. CASE n = 1
      BY <1>2, <1>5, <1>12, <3>1
    <3>2. CASE n = 5 /\ step = 32
      BY <1>5, <1>12, <3>2
    <3>3. CASE n = 5 /\ step = 37
      BY <1>5, <1>12, <3>3
    <3>4. CASE n = 2 /\ step = 44
      BY <1>5, <1>12, <3>4
    <3> QED BY <1>2, <1>4, <3>1, <3>2, <3>3, <3>4
  <2> QED BY <1>5, <1>12, <2>1, AskedStays
<1>13. ASSUME NEW k \in Asked, NEW o \in {32, 37, 44}, NEW z \in {36, 41, 45}, o < z, z <= o + 4,
              AskedOK(k, o, z), step = o, K = k, asks, o = 44 => z = 45, o = 37 => z = 41, o = 32 => z = 36
       PROVE  AskedOK(k, o, z)'
  <2>1. known <=> (\E d \in docs : d.kind = k) \/ k \in theirs
    <3>1. Places[step].op = "once" /\ Places[step].kind = k /\ k # "subscription"
      BY <1>13 DEF Asked
    <3> QED BY <3>1 DEF Known
  <2>2. CASE found
    <3>1. (\E d \in docs : d.kind = k) \/ k \in theirs
      BY <1>3, <2>1, <2>2
    <3>2. step \notin o + 1..z
      BY <1>13
    <3>3. stops = 0 /\ k \notin theirs => AllMade(k)
      BY <1>13, <3>1, <3>2 DEF AskedOK
    <3>4. AllMade(k)' = AllMade(k)
      BY <1>5 DEF AllMade
    <3>5. step' = z + 1 \/ step' = 0
      BY <1>4, <1>5, <1>13, <2>2
    <3>6. step' # o + 1 /\ step' \notin o + 1..z /\ step' \notin o + 2..z /\ step' \notin o + 4..z
      BY <1>13, <3>5
    <3> QED BY <1>5, <3>3, <3>4, <3>6 DEF AskedOK
  <2>3. CASE ~found
    <3>1. ~known
      BY <1>3, <2>3
    <3>2. \A d \in docs' : d.kind # k
      BY <1>5, <2>1, <3>1
    <3>3. step' = o + 1 /\ Done' = o
      BY <1>4, <1>5, <1>13, <2>3
    <3>4. step' \in o + 1..z /\ step' \notin o + 2..z /\ step' \notin o + 4..z /\ ~(Done' >= z)
      BY <1>13, <3>3
    <3> QED BY <3>2, <3>4 DEF AskedOK
  <2> QED BY <2>2, <2>3
<1>14. AskedOK("patch", 32, 36)'
  <2>1. step = 32 => K = "patch" /\ asks
    BY <1>2
  <2> QED BY <1>12, <1>13, <2>1 DEF SeedInv, Asked
<1>15. AskedOK("session", 37, 41)'
  <2>1. step = 37 => K = "session" /\ asks
    BY <1>2
  <2> QED BY <1>12, <1>13, <2>1 DEF SeedInv, Asked
<1>16. AskedOK("apiKey", 44, 45)'
  <2>1. step = 44 => K = "apiKey" /\ asks
    BY <1>2
  <2> QED BY <1>12, <1>13, <2>1 DEF SeedInv, Asked
<1> QED BY <1>6, <1>9, <1>10, <1>11, <1>14, <1>15, <1>16, <1>30 DEF SeedInv

\* Two rounds: each finishes what it has made.
LEMMA AskedFinishes ==
  ASSUME NEW k, k # "apiKey", NEW o \in {32, 37}, NEW z, z = o + 4, AskedOK(k, o, z), NEW i,
         \/ step = o + 2 /\ i = 1
         \/ step = o + 4 /\ i = 2,
         Done' = step, step' = step + 1, UNCHANGED <<runs, stops, theirs>>,
         \A e \in docs' : \E d \in docs : e.kind = d.kind /\ e.i = d.i,
         \A d \in docs : \E e \in docs' :
            /\ e.kind = d.kind /\ e.i = d.i /\ e.run = d.run
            /\ d.done \/ (d.kind = k /\ d.i = i /\ d.run = runs) => e.done
  PROVE  AskedOK(k, o, z)'
<1>1. CASE step = o + 2 /\ i = 1
  <2>1. step' = o + 3 /\ step' # o + 1 /\ step' \in o + 1..z /\ step' \notin o + 4..z /\ ~(Done' >= z)
    BY <1>1
  <2>2. \A d \in docs : d.kind = k => d.i = 1
    <3>1. step \in o + 1..z /\ step <= o + 3
      BY <1>1
    <3> QED BY <3>1 DEF AskedOK
  <2>3. PICK d \in docs : d.kind = k /\ d.i = 1 /\ (d.run = runs \/ d.done)
    <3>1. step \in o + 2..z
      BY <1>1
    <3> QED BY <3>1 DEF AskedOK
  <2>4. \E e \in docs' : e.kind = k /\ e.i = 1 /\ e.done
    BY <1>1, <2>3
  <2>5. \A e \in docs' : e.kind = k => e.i = 1
    BY <2>2
  <2> QED BY <2>1, <2>4, <2>5 DEF AskedOK
<1>2. CASE step = o + 4 /\ i = 2
  <2>1. /\ step' # o + 1 /\ step' \notin o + 1..z /\ step' \notin o + 2..z /\ step' \notin o + 4..z
        /\ step \in o + 2..z /\ step # o + 2 /\ step \in o + 4..z
    BY <1>2
  <2>2. PICK d \in docs : d.kind = k /\ d.i = 1 /\ d.done
    BY <2>1 DEF AskedOK
  <2>3. PICK c \in docs : c.kind = k /\ c.i = 2 /\ c.run = runs
    BY <2>1 DEF AskedOK
  <2>4. \E e \in docs' : e.kind = k /\ e.i = 1 /\ e.done
    BY <2>2
  <2>5. \E e \in docs' : e.kind = k /\ e.i = 2 /\ e.done
    BY <1>2, <2>3
  <2>6. AllMade(k)'
    BY <2>4, <2>5 DEF AllMade
  <2> QED BY <2>1, <2>6 DEF AskedOK
<1> QED BY <1>1, <1>2

\* The first alternative of Finishing: the document is this run's.
FinishingOwn ==
  /\ step # 0 /\ now.op = "finish"
  /\ LET mine == {d \in Copies(now.kind, now.i) : d.run = runs}
     IN docs' = (docs \ mine) \cup {[d EXCEPT !.done = TRUE] : d \in mine}
  /\ Advance(1) /\ UNCHANGED <<payer, runs, stops, theirs>>

\* What this run has created is brought to the state the demo wants it in.
LEMMA FinishingOwn_Inv ==
  ASSUME SeedInv, FinishingOwn
  PROVE  SeedInv'
<1> DEFINE K == Places[step].kind
           i == Places[step].i
           Mine(d) == d.kind = K /\ d.i = i /\ d.run = runs
           Doc == [kind : SeedKinds, i : {1, 2}, run : 1..runs, client : 0..runs, done : BOOLEAN]
           After(d) == [d EXCEPT !.done = TRUE]
<1>1. step \in 1..45 /\ now = Places[step] /\ Places[step].op = "finish"
  <2>1. step \in 1..45
    BY DEF SeedInv, DocsOK, FinishingOwn
  <2> QED BY <2>1, LenOfRun DEF FinishingOwn
<1>2. \/ step = 9 /\ K = "device" /\ i = 1
      \/ step = 11 /\ K = "agent" /\ i = 1
      \/ step = 19 /\ K = "ticket" /\ i = 1
      \/ step = 20 /\ K = "alert" /\ i = 1
      \/ step = 34 /\ K = "patch" /\ i = 1
      \/ step = 36 /\ K = "patch" /\ i = 2
      \/ step = 39 /\ K = "session" /\ i = 1
      \/ step = 41 /\ K = "session" /\ i = 2
  BY <1>1, PlacesFinish
<1>3. /\ found' = None /\ Done = step - 1 /\ Done' = step /\ UNCHANGED <<payer, runs, stops, theirs>>
      /\ step' = step + 1 /\ step' \in 1..45 /\ ending' = ending
  <2>1. step + 1 <= 46 /\ step + 1 - 1 = step /\ step # 0 /\ step + 1 # 46
    BY <1>2
  <2>2. Advance(1) /\ UNCHANGED <<payer, runs, stops, theirs>>
    BY DEF FinishingOwn
  <2> QED BY <2>1, <2>2, AdvanceIs DEF SeedInv
<1>4. docs \in SUBSET Doc
  BY DEF SeedInv, DocsOK
<1>5. \A d \in Doc : /\ After(d) \in Doc /\ After(d).kind = d.kind /\ After(d).i = d.i
                     /\ After(d).run = d.run /\ After(d).client = d.client /\ After(d).done
  OBVIOUS
<1>6. docs' = {d \in docs : ~Mine(d)} \cup {After(d) : d \in {d \in docs : Mine(d)}}
  BY <1>1 DEF FinishingOwn, Copies
<1> HIDE DEF K, i, After, Doc
<1>7. ASSUME NEW d \in docs
      PROVE  \E e \in docs' : /\ e.kind = d.kind /\ e.i = d.i /\ e.run = d.run /\ e.client = d.client
                              /\ d.done \/ Mine(d) => e.done
  <2>1. CASE Mine(d)
    <3>1. After(d) \in docs'
      BY <1>6, <2>1
    <3> QED BY <1>4, <1>5, <3>1
  <2>2. CASE ~Mine(d)
    BY <1>6, <2>2
  <2> QED BY <2>1, <2>2
<1>8. ASSUME NEW e \in docs'
      PROVE  \E d \in docs : \/ ~Mine(d) /\ e = d
                             \/ Mine(d) /\ e = After(d)
  BY <1>6
<1>9. ASSUME NEW e \in docs'
      PROVE  /\ e \in Doc
             /\ Mine(e) => e.done
             /\ \E d \in docs : /\ e.kind = d.kind /\ e.i = d.i /\ e.run = d.run /\ e.client = d.client
                                /\ d.done => e.done
                                /\ d.kind # K => e = d
  <2>1. PICK d \in docs : \/ ~Mine(d) /\ e = d
                          \/ Mine(d) /\ e = After(d)
    BY <1>8
  <2>2. d \in Doc
    BY <1>4, <2>1
  <2> QED BY <1>5, <2>1, <2>2
<1>10. DocsOK'
  <2>1. docs' \in SUBSET Doc' /\ Doc' = Doc
    BY <1>3, <1>9 DEF Doc
  <2>2. \A d \in docs' : /\ d.i = 1 \/ d.kind \in {"patch", "session"}
                         /\ d.done \/ d.kind \in {"device", "agent", "alert", "ticket", "patch", "session"}
    <3> SUFFICES ASSUME NEW e \in docs'
                 PROVE  /\ e.i = 1 \/ e.kind \in {"patch", "session"}
                        /\ e.done \/ e.kind \in {"device", "agent", "alert", "ticket", "patch", "session"}
      OBVIOUS
    <3>1. PICK d \in docs : e.kind = d.kind /\ e.i = d.i /\ (d.done => e.done)
      BY <1>9
    <3> QED BY <3>1 DEF SeedInv, DocsOK
  <2>3. step' \in 0..45 /\ runs' # 0
    BY <1>1, <1>3 DEF SeedInv, DocsOK
  <2> QED BY <1>3, <2>1, <2>2, <2>3 DEF SeedInv, DocsOK, Doc
<1>11. FoundOK'
  BY <1>3 DEF FoundOK
<1>12. OneEach'
  <2> SUFFICES ASSUME NEW d \in docs', NEW e \in docs', d.kind = e.kind, d.i = e.i,
                      \/ d.kind \in Renewed \cup Asked \cup {"integration"}
                      \/ d.kind = "subscription" /\ d.client = e.client
               PROVE  d = e
    BY DEF OneEach
  <2>1. PICK d0 \in docs : \/ ~Mine(d0) /\ d = d0
                           \/ Mine(d0) /\ d = After(d0)
    BY <1>8
  <2>2. PICK e0 \in docs : \/ ~Mine(e0) /\ e = e0
                           \/ Mine(e0) /\ e = After(e0)
    BY <1>8
  <2>3. /\ d.kind = d0.kind /\ d.i = d0.i /\ d.client = d0.client
        /\ e.kind = e0.kind /\ e.i = e0.i /\ e.client = e0.client
    BY <1>4, <1>5, <2>1, <2>2
  <2>4. d0 = e0
    BY <2>3 DEF SeedInv, OneEach
  <2> QED BY <2>1, <2>2, <2>4
<1>13. RenewedOK'
  <2> SUFFICES ASSUME NEW n \in 1..step
               PROVE  /\ (Places[n].op \in {"upsert", "put"} /\ n # 29) \/ n = 42 =>
                           \E d \in docs' : d.kind = Places[n].kind
                      /\ n \in {6, 27} => \A d \in docs' : d.kind = Places[n].kind => d.client = runs
                      /\ n \in {29, 30} /\ payer # None =>
                           \E d \in docs' : d.kind = Places[n].kind /\ d.client = payer
    BY <1>3 DEF RenewedOK
  <2>1. CASE n = step
    BY <1>1, <1>2, <2>1
  <2>2. CASE n \in 1..Done
    <3>1. /\ (Places[n].op \in {"upsert", "put"} /\ n # 29) \/ n = 42 =>
               \E d \in docs : d.kind = Places[n].kind
          /\ n \in {6, 27} => \A d \in docs : d.kind = Places[n].kind => d.client = runs
          /\ n \in {29, 30} /\ payer # None =>
               \E d \in docs : d.kind = Places[n].kind /\ d.client = payer
      BY <2>2 DEF SeedInv, RenewedOK
    <3>2. \A k : (\E d \in docs : d.kind = k) => \E d \in docs' : d.kind = k
      BY <1>7
    <3>3. n \in {6, 27} => \A d \in docs' : d.kind = Places[n].kind => d.client = runs
      BY <1>9, <3>1
    <3>4. n \in {29, 30} /\ payer # None =>
            \E d \in docs' : d.kind = Places[n].kind /\ d.client = payer
      BY <1>7, <3>1
    <3> QED BY <3>1, <3>2, <3>3, <3>4
  <2>3. n = step \/ n \in 1..Done
    BY <1>1, <1>3
  <2> QED BY <2>1, <2>2, <2>3
<1>14. AddedOK'
  <2> SUFFICES ASSUME NEW n \in 1..step
               PROVE  /\ Places[n].op = "create" /\ Places[n].kind \notin Asked =>
                           \E d \in docs' : d.kind = Places[n].kind /\ d.run = runs
                      /\ n \in {9, 11, 19, 20} =>
                           \A d \in docs' : d.kind = Places[n].kind /\ d.run = runs =>
                              d.done \/ (n = 20 /\ "alert" \in theirs)
    BY <1>3 DEF AddedOK
  <2>1. CASE n = step
    <3>1. Places[n].op # "create" /\ Places[n].kind = K
      BY <1>1, <2>1 DEF K
    <3>2. ASSUME n \in {9, 11, 19, 20}, NEW d \in docs', d.kind = K, d.run = runs
          PROVE  d.done
      <4>1. i = 1 /\ K \notin {"patch", "session"}
        BY <1>2, <2>1, <3>2
      <4>2. d.i = 1
        BY <1>10, <3>2, <4>1 DEF DocsOK
      <4> QED BY <1>9, <3>2, <4>1, <4>2
    <3> QED BY <3>1, <3>2
  <2>2. CASE n \in 1..Done
    <3>1. /\ Places[n].op = "create" /\ Places[n].kind \notin Asked =>
               \E d \in docs : d.kind = Places[n].kind /\ d.run = runs
          /\ n \in {9, 11, 19, 20} =>
               \A d \in docs : d.kind = Places[n].kind /\ d.run = runs =>
                  d.done \/ (n = 20 /\ "alert" \in theirs)
      BY <2>2 DEF SeedInv, AddedOK
    <3>2. \A k : (\E d \in docs : d.kind = k /\ d.run = runs) => \E d \in docs' : d.kind = k /\ d.run = runs
      BY <1>7
    <3>3. n \in {9, 11, 19, 20} =>
            \A d \in docs' : d.kind = Places[n].kind /\ d.run = runs =>
               d.done \/ (n = 20 /\ "alert" \in theirs)
      BY <1>9, <3>1
    <3> QED BY <3>1, <3>2, <3>3
  <2>3. n = step \/ n \in 1..Done
    BY <1>1, <1>3
  <2> QED BY <2>1, <2>2, <2>3
<1>15. ExecutionsOK'
  <2>1. K # "execution" /\ step # 23 /\ (step >= 23 => Done >= 23)
    BY <1>2, <1>3
  <2>2. ASSUME NEW d \in docs', d.kind = "execution"
        PROVE  d \in docs
    BY <1>9, <2>1, <2>2
  <2> QED BY <1>3, <2>1, <2>2 DEF SeedInv, ExecutionsOK
<1>30. PayerOK'
  BY <1>1, <1>2, <1>3, PayerStays DEF SeedInv
<1>16. ASSUME NEW k, K # k, NEW o \in {32, 37, 44}, NEW z \in {36, 41, 45}, o < z, step \notin o..z, AskedOK(k, o, z)
       PROVE  AskedOK(k, o, z)'
  <2>1. \A d \in docs : d.kind = k => d \in docs'
    BY <1>6, <1>16
  <2>2. \A d \in docs' : d.kind = k => d \in docs
    BY <1>9, <1>16
  <2> QED BY <1>1, <1>3, <1>16, <2>1, <2>2, AskedElsewhere
<1>17. \A e \in docs' : \E d \in docs : e.kind = d.kind /\ e.i = d.i
  BY <1>9
<1>18. \A d \in docs : \E e \in docs' :
          /\ e.kind = d.kind /\ e.i = d.i /\ e.run = d.run
          /\ d.done \/ (d.kind = K /\ d.i = i /\ d.run = runs) => e.done
  BY <1>7
<1>19. AskedOK("patch", 32, 36)'
  <2>1. CASE K = "patch"
    <3>1. /\ \/ step = 32 + 2 /\ i = 1
             \/ step = 32 + 4 /\ i = 2
          /\ 36 = 32 + 4
      BY <1>2, <2>1
    <3>2. \A d \in docs : \E e \in docs' :
             /\ e.kind = d.kind /\ e.i = d.i /\ e.run = d.run
             /\ d.done \/ (d.kind = "patch" /\ d.i = i /\ d.run = runs) => e.done
      BY <1>18, <2>1
    <3>3. AskedOK("patch", 32, 36)
      BY DEF SeedInv
    <3>4. Done' = step /\ step' = step + 1 /\ UNCHANGED <<runs, stops, theirs>>
      BY <1>3
    <3> QED BY <1>17, <3>1, <3>2, <3>3, <3>4, AskedFinishes
  <2>2. CASE K # "patch"
    <3>1. step \notin 32..36
      BY <1>2, <2>2
    <3> QED BY <1>16, <2>2, <3>1 DEF SeedInv
  <2> QED BY <2>1, <2>2
<1>20. AskedOK("session", 37, 41)'
  <2>1. CASE K = "session"
    <3>1. /\ \/ step = 37 + 2 /\ i = 1
             \/ step = 37 + 4 /\ i = 2
          /\ 41 = 37 + 4
      BY <1>2, <2>1
    <3>2. \A d \in docs : \E e \in docs' :
             /\ e.kind = d.kind /\ e.i = d.i /\ e.run = d.run
             /\ d.done \/ (d.kind = "session" /\ d.i = i /\ d.run = runs) => e.done
      BY <1>18, <2>1
    <3>3. AskedOK("session", 37, 41)
      BY DEF SeedInv
    <3>4. Done' = step /\ step' = step + 1 /\ UNCHANGED <<runs, stops, theirs>>
      BY <1>3
    <3> QED BY <1>17, <3>1, <3>2, <3>3, <3>4, AskedFinishes
  <2>2. CASE K # "session"
    <3>1. step \notin 37..41
      BY <1>2, <2>2
    <3> QED BY <1>16, <2>2, <3>1 DEF SeedInv
  <2> QED BY <2>1, <2>2
<1>21. AskedOK("apiKey", 44, 45)'
  <2>1. K # "apiKey" /\ step \notin 44..45
    BY <1>2
  <2> QED BY <1>16, <2>1 DEF SeedInv
<1> QED BY <1>10, <1>11, <1>12, <1>13, <1>14, <1>15, <1>19, <1>20, <1>21, <1>30 DEF SeedInv

\* A step that leaves the documents alone: the alert finished is the users', or the
\* contract to be billed is chosen.
LEMMA Passed_Inv ==
  ASSUME SeedInv, NEW n \in {1, 3}, Advance(n), UNCHANGED <<docs, runs, stops, theirs>>, PayerOK',
         \/ step = 20 /\ n = 1 /\ "alert" \in theirs
         \/ step = 28 /\ (n = 3 => payer' = None)
  PROVE  SeedInv'
<1>1. /\ found' = None /\ Done = step - 1 /\ Done' = step + n - 1
      /\ step' = step + n /\ step' \in 1..45 /\ ending' = ending
  <2>1. step # 0 /\ step + n <= 46 /\ step + n # 46
    OBVIOUS
  <2>2. DocsOK /\ n \in {1, 2, 3, 5}
    BY DEF SeedInv
  <2> QED BY <2>1, <2>2, AdvanceIs
<1>2. DocsOK' /\ FoundOK' /\ OneEach'
  BY <1>1 DEF SeedInv, DocsOK, FoundOK, OneEach
<1>3. ASSUME NEW p \in 1..Done'
      PROVE  \/ p \in 1..Done
             \/ p = step
             \/ n = 3 /\ p \in {29, 30}
  BY <1>1
<1>4. ASSUME NEW p \in {20, 28, 29, 30}
      PROVE  /\ p # 42 /\ p \notin {6, 27, 9, 11, 19}
             /\ p # 29 => Places[p].op \notin {"upsert", "put"}
             /\ Places[p].op # "create"
  <2>1. p \in 1..45 /\ p \notin {1, 2, 3, 5, 6, 15, 21, 22, 26, 27, 31, 43}
        /\ p \notin {4, 7, 8, 10, 12, 13, 14, 16, 17, 18, 24, 25, 33, 35, 38, 40, 45}
    OBVIOUS
  <2> QED BY <2>1, PlacesRenew, PlacesCreate
<1>5. RenewedOK'
  <2> SUFFICES ASSUME NEW p \in 1..Done'
               PROVE  /\ (Places[p].op \in {"upsert", "put"} /\ p # 29) \/ p = 42 =>
                           \E d \in docs : d.kind = Places[p].kind
                      /\ p \in {6, 27} => \A d \in docs : d.kind = Places[p].kind => d.client = runs
                      /\ p \in {29, 30} /\ payer' # None =>
                           \E d \in docs : d.kind = Places[p].kind /\ d.client = payer'
    BY DEF RenewedOK
  <2>1. CASE p \in 1..Done
    <3>1. p \notin {29, 30}
      BY <1>1, <2>1
    <3> QED BY <2>1, <3>1 DEF SeedInv, RenewedOK
  <2>2. CASE p = step
    BY <1>4, <2>2
  <2>3. CASE n = 3 /\ p \in {29, 30}
    BY <1>4, <2>3
  <2> QED BY <1>3, <2>1, <2>2, <2>3
<1>6. AddedOK'
  <2> SUFFICES ASSUME NEW p \in 1..Done'
               PROVE  /\ Places[p].op = "create" /\ Places[p].kind \notin Asked =>
                           \E d \in docs : d.kind = Places[p].kind /\ d.run = runs
                      /\ p \in {9, 11, 19, 20} =>
                           \A d \in docs : d.kind = Places[p].kind /\ d.run = runs =>
                              d.done \/ (p = 20 /\ "alert" \in theirs)
    BY DEF AddedOK
  <2>1. CASE p \in 1..Done
    BY <2>1 DEF SeedInv, AddedOK
  <2>2. CASE p = step
    BY <1>4, <2>2
  <2>3. CASE n = 3 /\ p \in {29, 30}
    BY <1>4, <2>3
  <2> QED BY <1>3, <2>1, <2>2, <2>3
<1>7. ExecutionsOK'
  <2>1. Done' # 23 /\ (Done' >= 23 => Done >= 23)
    BY <1>1
  <2> QED BY <2>1 DEF SeedInv, ExecutionsOK
<1>8. ASSUME NEW k, NEW o \in {32, 37, 44}, NEW z \in {36, 41, 45}, o < z, AskedOK(k, o, z)
      PROVE  AskedOK(k, o, z)'
  <2>1. step \notin o + 1..z /\ step' \notin o + 1..z /\ ~(Done' >= z)
    BY <1>1
  <2> QED BY <1>8, <2>1, AskedStays
<1> QED BY <1>2, <1>5, <1>6, <1>7, <1>8 DEF SeedInv

LEMMA Finishing_Inv ==
  ASSUME SeedInv, Finishing
  PROVE  SeedInv'
<1>1. /\ step # 0 /\ now.op = "finish" /\ Advance(1) /\ UNCHANGED <<payer, runs, stops, theirs>>
      /\ step \in 1..45 /\ now = Places[step]
  BY LenOfRun DEF Finishing, SeedInv, DocsOK
<1>2. CASE now.kind = "alert" /\ "alert" \in theirs /\ UNCHANGED docs
  <2>1. step = 20
    BY <1>1, <1>2, PlacesFinish
  <2>2. step' = 21 /\ Done' = 20 /\ Done = 19
    <3>1. 20 + 1 = 21 /\ 20 + 1 <= 46 /\ 21 # 46 /\ 20 + 1 - 1 = 20 /\ 20 - 1 = 19
      OBVIOUS
    <3> QED BY <1>1, <2>1, <3>1, AdvanceIs DEF SeedInv
  <2>3. PayerOK'
    BY <1>1, <2>2, PayerStays DEF SeedInv
  <2> QED BY <1>1, <1>2, <2>1, <2>3, Passed_Inv
<1>3. CASE LET mine == {d \in Copies(now.kind, now.i) : d.run = runs}
           IN docs' = (docs \ mine) \cup {[d EXCEPT !.done = TRUE] : d \in mine}
  BY <1>1, <1>3, FinishingOwn_Inv DEF FinishingOwn
<1> QED BY <1>2, <1>3 DEF Finishing

\* The contract that is billed is chosen.
LEMMA Billing_Inv ==
  ASSUME SeedInv, Billing
  PROVE  SeedInv'
<1>1. step = 28 /\ now = Places[28] /\ now.skip = 2
  <2>1. step \in 1..45
    BY DEF SeedInv, DocsOK, Billing
  <2> QED BY <2>1, LenOfRun, PlacesBill DEF Billing
<1>2. Done = 27 /\ 27 \in 1..27 /\ runs \in Nat
  BY <1>1 DEF Done, SeedInv, DocsOK
<1>3. PICK n \in {1, 3} :
        /\ Advance(n)
        /\ \/ n = 1 /\ \E d \in Copies("contract", 1) : payer' = d.client
           \/ n = 1 /\ "contract" \in theirs /\ \E c \in 0..runs - 1 : payer' = c
           \/ n = 3 /\ "contract" \in theirs /\ payer' = None
  <2>1. 1 + now.skip = 3
    BY <1>1
  <2>2. CASE \E d \in Copies("contract", 1) : payer' = d.client /\ Advance(1)
    BY <2>2
  <2>3. CASE "contract" \in theirs /\ (\E c \in 0..runs - 1 : payer' = c) /\ Advance(1)
    BY <2>3
  <2>4. CASE "contract" \in theirs /\ payer' = None /\ Advance(1 + now.skip)
    BY <2>1, <2>4
  <2> QED BY <2>2, <2>3, <2>4 DEF Billing
<1>4. UNCHANGED <<docs, runs, stops, theirs>>
  BY DEF Billing
<1>5. step' = 28 + n /\ Done' = 28 + n - 1
  <2>1. 28 + n <= 46 /\ 28 + n # 46 /\ n \in {1, 2, 3, 5} /\ step # 0
    BY <1>1
  <2> QED BY <1>1, <1>3, <2>1, AdvanceIs DEF SeedInv
<1>6. \A d \in Copies("contract", 1) : d.client = runs
  <2>1. Places[27].kind = "contract"
    BY PlacesNamed DEF Put, Do
  <2> QED BY <1>2, <2>1 DEF SeedInv, RenewedOK, Copies
<1>7. PayerOK'
  <2>1. CASE n = 1 /\ \E d \in Copies("contract", 1) : payer' = d.client
    BY <1>2, <1>4, <1>6, <2>1 DEF PayerOK
  <2>2. CASE n = 1 /\ "contract" \in theirs /\ \E c \in 0..runs - 1 : payer' = c
    BY <1>2, <1>4, <2>2 DEF PayerOK
  <2>3. CASE n = 3 /\ "contract" \in theirs /\ payer' = None
    BY <1>4, <1>5, <2>3 DEF PayerOK
  <2> QED BY <1>3, <2>1, <2>2, <2>3
<1> QED BY <1>1, <1>3, <1>4, <1>7, Passed_Inv

LEMMA SeedsInit_Inv == SeedsInit => SeedInv
<1> SUFFICES ASSUME SeedsInit PROVE SeedInv
  OBVIOUS
<1>1. /\ docs = {} /\ step = 0 /\ found = None /\ payer = None /\ runs = 0 /\ ending = "none" /\ stops = 0
      /\ theirs = {} /\ Done = 0
  BY DEF SeedsInit, Done
<1>2. DocsOK /\ FoundOK /\ PayerOK /\ OneEach
  BY <1>1, SeedsAssumption DEF DocsOK, FoundOK, PayerOK, OneEach
<1>3. RenewedOK /\ AddedOK /\ ExecutionsOK
  <2>1. 1..Done = {}
    BY <1>1
  <2> QED BY <1>1, <2>1 DEF RenewedOK, AddedOK, ExecutionsOK
<1>4. ASSUME NEW k, NEW o \in {32, 37, 44}, NEW z \in {36, 41, 45} PROVE AskedOK(k, o, z)
  <2>1. /\ step # o + 1 /\ step \notin o + 1..z /\ step \notin o + 2..z /\ step \notin o + 4..z
        /\ ~(Done >= z)
    BY <1>1
  <2> QED BY <1>1, <2>1 DEF AskedOK
<1> QED BY <1>2, <1>3, <1>4 DEF SeedInv

LEMMA SeedsNext_Inv ==
  ASSUME SeedInv, None \notin BOOLEAN, [SeedsNext]_seedVars
  PROVE  SeedInv'
<1>1. CASE UNCHANGED seedVars
  <2>1. UNCHANGED <<docs, step, found, payer, runs, ending, stops, theirs>>
    BY <1>1 DEF seedVars
  <2>2. Known(Places[step])' = Known(Places[step]) /\ Done' = Done
    BY <2>1 DEF Known, Copies, Done
  <2>3. DocsOK' /\ FoundOK' /\ PayerOK' /\ OneEach'
    BY <2>1, <2>2 DEF SeedInv, DocsOK, FoundOK, PayerOK, OneEach
  <2>4. RenewedOK' /\ AddedOK' /\ ExecutionsOK'
    BY <2>1, <2>2 DEF SeedInv, RenewedOK, AddedOK, ExecutionsOK
  <2>5. \A k, o, z : AskedOK(k, o, z) => AskedOK(k, o, z)'
    BY <2>1, <2>2 DEF AskedOK, AllMade
  <2> QED BY <2>3, <2>4, <2>5 DEF SeedInv
<1>2. CASE Start
  BY <1>2, Start_Inv
<1>3. CASE Look
  BY <1>3, Look_Inv
<1>4. CASE Upserting
  BY <1>4, Upserting_Inv
<1>5. CASE Refused
  BY <1>5, Refused_Inv
<1>6. CASE Creating
  BY <1>6, Creating_Inv
<1>7. CASE Leaving
  BY <1>7, Leaving_Inv
<1>8. CASE Deleting
  BY <1>8, Deleting_Inv
<1>9. CASE Finishing
  BY <1>9, Finishing_Inv
<1>10. CASE Stop
  BY <1>10, Stop_Inv
<1>11. CASE \E kind \in {"alert", "article", "contract", "patch", "session", "apiKey"} : TenantWorks(kind)
  BY <1>11, TenantWorks_Inv
<1>12. CASE Billing
  BY <1>12, Billing_Inv
<1> QED BY <1>1, <1>2, <1>3, <1>4, <1>5, <1>6, <1>7, <1>8, <1>9, <1>10, <1>11, <1>12 DEF SeedsNext

LEMMA SeedInv_Type == SeedInv => SeedsTypeOK
<1> SUFFICES ASSUME SeedInv PROVE SeedsTypeOK
  OBVIOUS
<1>1. found \in BOOLEAN \cup {None}
  BY DEF SeedInv, FoundOK
<1>2. \A d \in docs : d.run \in 1..runs /\ d.client \in 0..runs /\ d.done \in BOOLEAN
  BY DEF SeedInv, DocsOK
<1> QED BY <1>1, <1>2, LenOfRun DEF SeedInv, DocsOK, PayerOK, SeedsTypeOK

LEMMA OneOf ==
  ASSUME NEW S, NEW x \in S, \A y, w \in S : y = w
  PROVE  One(S)
<1>1. S = {x}
  OBVIOUS
<1> QED BY <1>1, FS_Singleton DEF One

LEMMA SeedInv_Converges == SeedInv => SeedsConverge
<1> SUFFICES ASSUME SeedInv, step = 0, ending = "completed" PROVE SeedsConverge
  BY DEF SeedsConverge
<1>1. Done = 45
  BY DEF Done
<1>2. /\ \A d \in docs : d.i = 1 \/ d.kind \in {"patch", "session"}
      /\ \A d \in docs : d.kind = "execution" => d.i = 1 /\ d.run = runs /\ d.done = TRUE /\ d.client = 0
      /\ \A d \in docs : d.kind = "execution" =>
           d = [kind |-> "execution", i |-> 1, run |-> d.run, client |-> 0, done |-> TRUE]
  BY <1>1 DEF SeedInv, DocsOK, ExecutionsOK
<1>3. \A op : With(op) = {Places[n].kind : n \in {n \in 1..45 : Places[n].op = op}}
  BY LenOfRun DEF With
<1>4. ASSUME NEW k \in (With("upsert") \cup With("put") \cup {"integration", "execution"}) \ {"invoice"}
      PROVE  One(Copies(k, 1))
  <2>1. CASE k = "execution"
    <3>1. 24 \in 1..Done /\ Places[24].op = "create" /\ Places[24].kind = "execution"
      BY <1>1, PlacesNamed DEF Create, Do
    <3>2. PICK d \in docs : d.kind = "execution" /\ d.run = runs
      BY <3>1 DEF SeedInv, AddedOK, Asked
    <3>3. d \in Copies(k, 1)
      BY <1>2, <2>1, <3>2 DEF Copies
    <3>4. \A e \in Copies(k, 1) : e = [kind |-> "execution", i |-> 1, run |-> runs, client |-> 0, done |-> TRUE]
      BY <1>2, <2>1 DEF Copies
    <3>5. \A e, c \in Copies(k, 1) : e = c
      BY <3>4
    <3> QED BY <3>3, <3>5, OneOf
  <2>2. CASE k # "execution"
    <3>1. PICK n \in 1..45 : Places[n].kind = k /\ (Places[n].op \in {"upsert", "put"} \/ n = 42)
      <4>1. CASE k = "integration"
        <5>1. 42 \in 1..45 /\ Places[42].kind = "integration"
          BY PlacesNamed DEF PutNew, Do
        <5> QED BY <4>1, <5>1
      <4>2. CASE k \in With("upsert") \cup With("put")
        BY <1>3, <4>2
      <4> QED BY <2>2, <4>1, <4>2
    <3>2. k \in Renewed \cup {"integration"} /\ k \notin {"patch", "session"}
      <4>1. n = 42 => k = "integration"
        BY <3>1, PlacesNamed DEF PutNew, Do
      <4> QED BY <3>1, <4>1, PlacesRenew DEF Renewed
    <3>3. PICK d \in docs : d.kind = k
      <4>1. n # 29
        BY <3>1, PlacesNamed DEF Put, Do
      <4> QED BY <1>1, <3>1, <4>1 DEF SeedInv, RenewedOK
    <3>4. d \in Copies(k, 1)
      BY <1>2, <3>2, <3>3 DEF Copies
    <3>5. \A e, c \in Copies(k, 1) : e = c
      BY <3>2 DEF Copies, SeedInv, OneEach
    <3> QED BY <3>4, <3>5, OneOf
  <2> QED BY <2>1, <2>2
<1>5. ASSUME NEW k \in {"portalUser", "contract"}, NEW d \in Copies(k, 1)
      PROVE  d.client = runs
  <2>1. /\ 6 \in 1..Done /\ 27 \in 1..Done
        /\ Places[6].kind = "portalUser" /\ Places[27].kind = "contract"
    BY <1>1, PlacesNamed DEF Upsert, Put, Do
  <2>2. d \in docs /\ d.kind = k
    BY DEF Copies
  <2> QED BY <2>1, <2>2 DEF SeedInv, RenewedOK
<1>6. ASSUME NEW k \in With("create") \ (With("once") \cup {"execution"})
      PROVE  \E d \in Copies(k, 1) : d.run = runs /\ (d.done \/ (k = "alert" /\ k \in theirs))
  <2>1. PICK n \in 1..45 : Places[n].kind = k /\ Places[n].op = "create"
    BY <1>3
  <2>2. k \notin Asked
    <3>1. \A m \in {32, 37, 44} : m \in 1..45 /\ Places[m].op = "once"
      BY PlacesNamed DEF Once
    <3>2. /\ Places[32].kind = "patch" /\ Places[37].kind = "session" /\ Places[44].kind = "apiKey"
      BY PlacesNamed DEF Once
    <3>3. \A m \in {32, 37, 44} : Places[m].kind \in With("once")
      BY <1>3, <3>1
    <3> QED BY <3>2, <3>3 DEF Asked
  <2>3. PICK d \in docs : d.kind = k /\ d.run = runs
    BY <1>1, <2>1, <2>2 DEF SeedInv, AddedOK
  <2>4. d \in Copies(k, 1)
    BY <1>2, <2>2, <2>3 DEF Copies, Asked
  <2>5. d.done \/ (k = "alert" /\ k \in theirs)
    <3>1. CASE k \in {"device", "agent", "ticket", "alert"}
      <4>1. /\ 9 \in 1..Done /\ 11 \in 1..Done /\ 19 \in 1..Done /\ 20 \in 1..Done
            /\ Places[9].kind = "device" /\ Places[11].kind = "agent" /\ Places[19].kind = "ticket"
            /\ Places[20].kind = "alert"
        BY <1>1, PlacesNamed DEF Finish, Do
      <4> QED BY <2>3, <3>1, <4>1 DEF SeedInv, AddedOK
    <3>2. CASE k \notin {"device", "agent", "ticket", "alert"}
      BY <2>2, <2>3, <3>2 DEF SeedInv, DocsOK, Asked
    <3> QED BY <3>1, <3>2
  <2> QED BY <2>3, <2>4, <2>5
<1>7. \A d \in Copies("execution", 1) : d.run = runs
  BY <1>2 DEF Copies
<1>8. ASSUME payer # None
      PROVE  /\ \E d \in Copies("invoice", 1) : d.client = payer
             /\ One({d \in Copies("subscription", 1) : d.client = payer})
  <2> DEFINE S == {d \in Copies("subscription", 1) : d.client = payer}
  <2>1. 29 \in 1..Done /\ 30 \in 1..Done /\ Places[29].kind = "invoice" /\ Places[30].kind = "subscription"
    BY <1>1, PlacesNamed DEF Put, PutNew, Do
  <2>2. PICK d \in docs : d.kind = "subscription" /\ d.client = payer
    BY <1>8, <2>1 DEF SeedInv, RenewedOK
  <2>3. d \in S
    BY <1>2, <2>2 DEF Copies
  <2>4. \A e, c \in S : e = c
    BY DEF Copies, SeedInv, OneEach
  <2>5. \E e \in Copies("invoice", 1) : e.client = payer
    <3>1. PICK e \in docs : e.kind = "invoice" /\ e.client = payer
      BY <1>8, <2>1 DEF SeedInv, RenewedOK
    <3> QED BY <1>2, <3>1 DEF Copies
  <2> HIDE DEF S
  <2>6. One(S)
    BY <2>3, <2>4, OneOf
  <2> QED BY <2>5, <2>6 DEF S
<1>10. "contract" \notin theirs => payer = runs
  <2>1. Done >= 28
    BY <1>1
  <2> QED BY <2>1 DEF SeedInv, PayerOK
<1>11. \A k \in Renewed \cup Asked : \A i \in {1, 2} : Cardinality(Copies(k, i)) <= 1
  <2> SUFFICES ASSUME NEW k \in Renewed \cup Asked, NEW i \in {1, 2}
               PROVE  Cardinality(Copies(k, i)) <= 1
    OBVIOUS
  <2>1. \A e, c \in Copies(k, i) : e = c
    BY DEF Copies, SeedInv, OneEach
  <2>2. CASE Copies(k, i) = {}
    BY <2>2, FS_EmptySet
  <2>3. CASE Copies(k, i) # {}
    <3>1. PICK c \in Copies(k, i) : TRUE
      BY <2>3
    <3>2. One(Copies(k, i))
      BY <2>1, <3>1, OneOf
    <3> QED BY <3>2 DEF One
  <2> QED BY <2>2, <2>3
<1>12. Cardinality(Copies("invoice", 1)) <= 1
  BY <1>11 DEF Renewed
<1>9. ASSUME NEW k \in {"patch", "session", "apiKey"}, NEW i \in {1, 2}
      PROVE  /\ Cardinality(Copies(k, i)) <= 1
             /\ stops = 0 /\ k \notin theirs /\ (k = "apiKey" => i = 1) =>
                  \E d \in Copies(k, i) : d.done
  <2>2. Cardinality(Copies(k, i)) <= 1
    BY <1>11 DEF Asked
  <2>3. ASSUME stops = 0, k \notin theirs, k = "apiKey" => i = 1
        PROVE  \E d \in Copies(k, i) : d.done
    <3>1. Done >= 36 /\ Done >= 41 /\ Done >= 45
      BY <1>1
    <3>2. AllMade(k)
      BY <2>3, <3>1 DEF SeedInv, AskedOK
    <3> QED BY <2>3, <3>2 DEF AllMade, Copies
  <2> QED BY <2>2, <2>3
<1> QED BY <1>4, <1>5, <1>6, <1>7, <1>8, <1>9, <1>10, <1>12 DEF SeedsConverge

-----------------------------------------------------------------------------
(* The theorems.  A step of Services is a step of one part.                *)

\* The fields of a patch, an article, an API key and an alert rule that depend on
\* each other agree after every write, however the handlers overlap, save for the
\* mishaps the property names.
THEOREM RecordsHold == Spec => []RecordsAgree
<1>1. Init => RecordsInv
  BY RecordsInit_Inv DEF Init
<1>2. RecordsInv /\ [Next]_vars => RecordsInv'
  <2> SUFFICES ASSUME RecordsInv, [Next]_vars PROVE RecordsInv'
    OBVIOUS
  <2>1. [RecordsNext]_recVars
    BY DEF Next, vars
  <2> QED BY <2>1, RecordsNext_Inv
<1>3. RecordsInv => RecordsAgree
  BY DEF RecordsInv
<1> QED BY <1>1, <1>2, <1>3, PTL DEF Spec

\* What a page of the web client shows, neither loading nor failed, has every
\* change whose answer came that was made on a page showing it or that names its
\* key, for all the pages and all the changes they make.
THEOREM PagesHold == Spec => []PagesShowTheirChanges
<1>1. Init => WebInv
  BY WebInit_Inv DEF Init
<1>2. WebInv /\ [Next]_vars => WebInv'
  <2> SUFFICES ASSUME WebInv, [Next]_vars PROVE WebInv'
    OBVIOUS
  <2>1. [WebNext]_webVars
    BY DEF Next, vars
  <2> QED BY <2>1, WebNext_Inv
<1>3. WebInv => PagesShowTheirChanges
  BY WebInv_Shows
<1> QED BY <1>1, <1>2, <1>3, PTL DEF Spec

\* Before any webhook is called everybody has been told, if the schema accepts the
\* notification, and nobody ever is if not; a user is told again only as often as
\* insertions failed, processes died or the job lost its lock, a webhook called
\* again only as often as one of the last two, for any users, hooks and processes
\* and any number of troubles, the queue's giving up included.
THEOREM NoticesTrue == Spec => []NoticesAreTrue
<1>1. Init => NoticesInv
  BY NoticesInit_Inv DEF Init
<1>2. NoticesInv /\ [Next]_vars => NoticesInv'
  <2> SUFFICES ASSUME NoticesInv, [Next]_vars PROVE NoticesInv'
    OBVIOUS
  <2>1. [NoticesNext]_noticeVars
    BY DEF Next, vars
  <2> QED BY <2>1, NoticesNext_Inv
<1>3. NoticesInv => NoticesAreTrue
  BY NoticesInv_True
<1> QED BY <1>1, <1>2, <1>3, PTL DEF Spec

\* Reading all pages of a list while it changes shows whatever was there all
\* along, wherever documents come into the list, save what the property names, for
\* every list, every page size and any number of changes.
THEOREM WalksHold == Spec => []WalkMissesNothing
<1>1. Init => ListingInv
  BY ListingInit_Inv DEF Init
<1>2. ListingInv /\ [Next]_vars => ListingInv'
  <2> SUFFICES ASSUME ListingInv, [Next]_vars PROVE ListingInv'
    OBVIOUS
  <2>1. [ListingNext]_listVars
    BY DEF Next, vars
  <2> QED BY <2>1, ListingNext_Inv
<1>3. ListingInv => WalkMissesNothing
  BY ListingInv_Shows
<1> QED BY <1>1, <1>2, <1>3, PTL DEF Spec

\* Every step of every service keeps the references and the tenants of the
\* documents: what a handler writes was found in the tenant when the request
\* came, only the tenant's own requests change and show a document, and fields
\* a request does not carry keep their values.
THEOREM References == Spec => ReferencesHold
<1>1. Init => RegistryInv
  BY RegistryInit_Inv DEF Init
<1>2. RegistryInv /\ [Next]_vars => RegistryInv'
  <2> SUFFICES ASSUME RegistryInv, [Next]_vars PROVE RegistryInv'
    OBVIOUS
  <2>1. [RegistryNext]_regVars
    BY DEF Next, vars
  <2> QED BY <2>1, RegistryNext_Inv
<1>3. RegistryInv /\ [Next]_vars =>
        [WrittenReferencesHold /\ TenantsApart /\ UncarriedFieldsStay]_regVars
  <2> SUFFICES ASSUME RegistryInv, [Next]_vars
               PROVE  [WrittenReferencesHold /\ TenantsApart /\ UncarriedFieldsStay]_regVars
    OBVIOUS
  <2>1. [RegistryNext]_regVars
    BY DEF Next, vars
  <2> QED BY <2>1, RegistryNext_Holds
<1> QED BY <1>1, <1>2, <1>3, PTL DEF Spec, ReferencesHold

LEMMA RecordsInv_Type == RecordsInv => RecordsTypeOK
<1> SUFFICES ASSUME RecordsInv PROVE RecordsTypeOK
  OBVIOUS
<1>1. ASSUME NEW h \in Handlers PROVE hands[h].next \in {None, "SaveInstalling", "Save"}
  <2>1. CASE h \in Busy
    BY <2>1 DEF RecordsInv, Hand
  <2>2. CASE h \notin Busy
    <3>1. hands[h].next = None
      BY <2>2 DEF Busy, Idle
    <3> QED BY <3>1
  <2> QED BY <2>1, <2>2
<1> QED BY <1>1 DEF RecordsInv, RecordsTypeOK

\* A demo tenant has what the demo wants after every run that came to its end,
\* whatever runs were stopped or refused before it and whatever kinds of documents
\* its users created, contracts among them, for any number of runs.
THEOREM SeedsHold == Spec => []SeedsConverge
<1>1. Init => SeedInv
  BY SeedsInit_Inv DEF Init
<1>2. SeedInv /\ [Next]_vars => SeedInv'
  <2> SUFFICES ASSUME SeedInv, [Next]_vars PROVE SeedInv'
    OBVIOUS
  <2>1. [SeedsNext]_seedVars
    BY DEF Next, vars
  <2>2. None \notin BOOLEAN
    BY RecordsAssumption
  <2> QED BY <2>1, <2>2, SeedsNext_Inv
<1>3. SeedInv => SeedsConverge
  BY SeedInv_Converges
<1> QED BY <1>1, <1>2, <1>3, PTL DEF Spec

\* The states of all services are of their types: it follows from the six
\* invariants together.
THEOREM TypesHold == Spec => []TypeOK
<1> DEFINE Inv == /\ part \in Parts /\ RegistryInv /\ ListingInv /\ RecordsInv
                  /\ NoticesInv /\ SeedInv /\ WebInv
<1>1. Init => Inv
  BY RegistryInit_Inv, ListingInit_Inv, RecordsInit_Inv, NoticesInit_Inv, SeedsInit_Inv, WebInit_Inv
     DEF Init
<1>2. Inv /\ [Next]_vars => Inv'
  <2> SUFFICES ASSUME Inv, [Next]_vars PROVE Inv'
    OBVIOUS
  <2>1. /\ [RegistryNext]_regVars /\ [ListingNext]_listVars /\ [RecordsNext]_recVars
        /\ [NoticesNext]_noticeVars /\ [SeedsNext]_seedVars /\ [WebNext]_webVars
        /\ UNCHANGED part
    BY DEF Next, vars
  <2>2. None \notin BOOLEAN
    BY RecordsAssumption
  <2>3. RegistryInv' /\ ListingInv' /\ RecordsInv'
    BY <2>1, RegistryNext_Inv, ListingNext_Inv, RecordsNext_Inv
  <2>4. NoticesInv' /\ SeedInv' /\ WebInv'
    BY <2>1, <2>2, NoticesNext_Inv, SeedsNext_Inv, WebNext_Inv
  <2> QED BY <2>1, <2>3, <2>4
<1>3. Inv => TypeOK
  BY RegistryInv_Type, ListingInv_Type, RecordsInv_Type, NoticesInv_True, SeedInv_Type, WebInv_Type
     DEF TypeOK
<1> QED BY <1>1, <1>2, <1>3, PTL DEF Spec

=============================================================================
