------------------------ MODULE AuthSessions_proofs -------------------------
(***************************************************************************)
(* Theorems about AuthSessions, for every set of tabs and browsers, every  *)
(* way the tabs belong to browsers, and every bound.                       *)
(***************************************************************************)
EXTENDS AuthSessions, TLAPS, FiniteSetTheorems

\* The steps of a tab: the client's, with its user's and its failures, and the
\* API's.
ClientStep(t) ==
  \/ Query(t) \/ Navigate(t) \/ AskAgain(t) \/ Serve(t) \/ Reject(t) \/ Refused(t)
  \/ Refreshed(t) \/ SignedIn(t) \/ SignOut(t) \/ SignedOut(t) \/ Fault(t)
  \/ \E typed \in {0, resets} : SignIn(t, typed)

ServerStep(t) ==
  LoginLoad(t) \/ RefreshLoad(t) \/ RefreshBlocked(t) \/ issueTokens(t) \/ Logout(t)

-----------------------------------------------------------------------------
(* Types.                                                                  *)

\* There is always a refresh token that is not in use: fewer are kept or on
\* their way than there are.
LEMMA FreshToken ==
  ASSUME TypeOK
  PROVE  \E n \in Tokens : n \notin InUse
<1> DEFINE ofTabs     == {tab[t].refresh : t \in Tabs}
           keeping    == {b \in Browsers : store[b] # None}
           ofBrowsers == {store[b].refresh : b \in keeping}
<1>0. Cardinality(Tabs) \in Nat /\ Cardinality(Browsers) \in Nat
  BY FS_CardinalityType, AuthSessionsAssumption
<1>1. IsFiniteSet(ofTabs) /\ Cardinality(ofTabs) <= Cardinality(Tabs)
  <2>1. [t \in Tabs |-> tab[t].refresh] \in Surjection(Tabs, ofTabs)
    BY DEF Surjection
  <2> QED BY <2>1, FS_Surjection, AuthSessionsAssumption
<1>2. IsFiniteSet(ofBrowsers) /\ Cardinality(ofBrowsers) <= Cardinality(Browsers)
  <2>1. IsFiniteSet(keeping) /\ Cardinality(keeping) <= Cardinality(Browsers)
    BY FS_Subset, AuthSessionsAssumption
  <2>2. [b \in keeping |-> store[b].refresh] \in Surjection(keeping, ofBrowsers)
    BY DEF Surjection
  <2>3. IsFiniteSet(ofBrowsers) /\ Cardinality(ofBrowsers) <= Cardinality(keeping)
    BY <2>1, <2>2, FS_Surjection
  <2> QED
    BY <2>1, <2>3, FS_CardinalityType, AuthSessionsAssumption
<1>3. /\ IsFiniteSet(ofTabs \cup ofBrowsers)
      /\ Cardinality(ofTabs \cup ofBrowsers) <= Cardinality(Tabs) + Cardinality(Browsers)
  <2> HIDE DEF ofTabs, ofBrowsers
  <2>1. /\ IsFiniteSet(ofTabs \cup ofBrowsers)
        /\ Cardinality(ofTabs \cup ofBrowsers)
             = Cardinality(ofTabs) + Cardinality(ofBrowsers) - Cardinality(ofTabs \cap ofBrowsers)
    BY <1>1, <1>2, FS_Union
  <2>2. Cardinality(ofTabs \cap ofBrowsers) \in Nat
    BY <1>1, FS_Intersection, FS_CardinalityType
  <2> QED
    BY <1>1, <1>2, <2>1, <2>2, FS_CardinalityType, AuthSessionsAssumption
<1>4. /\ IsFiniteSet(InUse)
      /\ Cardinality(InUse) <= Cardinality(Tabs) + Cardinality(Browsers) + 1
  <2>1. InUse = (ofTabs \cup ofBrowsers) \cup {user.refreshTokenHash}
    BY DEF InUse
  <2> HIDE DEF ofTabs, ofBrowsers
  <2>2. /\ IsFiniteSet(InUse)
        /\ \/ Cardinality(InUse) = Cardinality(ofTabs \cup ofBrowsers)
           \/ Cardinality(InUse) = Cardinality(ofTabs \cup ofBrowsers) + 1
    BY <1>3, <2>1, FS_AddElement
  <2>3. Cardinality(ofTabs \cup ofBrowsers) \in Nat
    BY <1>3, FS_CardinalityType
  <2> QED BY <1>0, <1>3, <2>2, <2>3
<1>5. /\ IsFiniteSet(Tokens)
      /\ Cardinality(Tokens) = Cardinality(Tabs) + Cardinality(Browsers) + 2
  <2> DEFINE n == Cardinality(Tabs) + Cardinality(Browsers) + 2
  <2>1. n \in Nat /\ n > 0
    BY <1>0
  <2> HIDE DEF n
  <2>2. IsFiniteSet(1..n) /\ Cardinality(1..n) = n
    BY <2>1, FS_Interval
  <2> QED BY <2>2 DEF Tokens, n
<1>6. ~(Tokens \subseteq InUse)
  <2>1. Tokens \subseteq InUse => Cardinality(Tokens) <= Cardinality(InUse)
    BY <1>4, FS_Subset
  <2>2. Cardinality(InUse) \in Nat
    BY <1>4, FS_CardinalityType
  <2> QED BY <1>0, <1>4, <1>5, <2>1, <2>2
<1> QED BY <1>6

\* What is stored of a tab stays well-typed field by field.
LEMMA FieldUpdates ==
  ASSUME NEW r \in TabType
  PROVE  /\ \A x \in {"sign-in", "app"} : [r EXCEPT !.page = x] \in TabType
         /\ \A x \in TabStates : [r EXCEPT !.pc = x] \in TabType
         /\ \A x \in {"data", "me", "login"} : [r EXCEPT !.kind = x] \in TabType
         /\ \A x \in BOOLEAN : [r EXCEPT !.again = x] \in TabType
         /\ \A x \in 0..MaxPeriods : [r EXCEPT !.access = x] \in TabType
         /\ \A x \in Tokens \cup {0} : [r EXCEPT !.refresh = x] \in TabType
         /\ \A x \in 0..MaxResets : [r EXCEPT !.typed = x] \in TabType
BY DEF TabType

\* So does the user's document.
LEMMA UserUpdates ==
  ASSUME NEW u \in UserType
  PROVE  /\ \A x \in 0..MaxResets : [u EXCEPT !.password = x] \in UserType
         /\ \A x \in UserStatus : [u EXCEPT !.status = x] \in UserType
         /\ \A x \in Tokens \cup {None} : [u EXCEPT !.refreshTokenHash = x] \in UserType
         /\ \A x \in 1..MaxResets \cup {None} : [u EXCEPT !.resetToken = x] \in UserType
         /\ \A x \in BOOLEAN : [u EXCEPT !.resetLive = x] \in UserType
BY DEF UserType

LEMMA TabsOK ==
  ASSUME TypeOK, NEW t \in Tabs
  PROVE  /\ home[t] \in Browsers
         /\ tab[t] \in TabType
         /\ store[home[t]] \in Kept \cup {None}
         /\ IdleTab("app") \in TabType /\ IdleTab("sign-in") \in TabType
BY AuthSessionsAssumption DEF TypeOK, TabType, TabStates, IdleTab

\* A tab and a browser's storage are replaced by values of their types.
LEMMA Replaced ==
  ASSUME TypeOK, NEW t \in Tabs
  PROVE  /\ \A r \in TabType : [tab EXCEPT ![t] = r] \in [Tabs -> TabType]
         /\ \A s \in Kept \cup {None} :
              [store EXCEPT ![home[t]] = s] \in [Browsers -> Kept \cup {None}]
BY DEF TypeOK

\* Failing leaves a tab that is idle or that asks who the user is once more, and
\* the storage as it was or cleared.
LEMMA FailType ==
  ASSUME TypeOK, NEW t \in Tabs, NEW clear \in BOOLEAN, Fail(t, clear)
  PROVE  tab' \in [Tabs -> TabType] /\ store' \in [Browsers -> Kept \cup {None}]
<1>1. [tab[t] EXCEPT !.pc = "again"] \in TabType
  BY TabsOK, FieldUpdates DEF TabStates
<1>2. tab' \in [Tabs -> TabType]
  BY <1>1, TabsOK, Replaced DEF Fail
<1>3. store' \in [Browsers -> Kept \cup {None}]
  BY Replaced DEF Fail, clearAuthSession, TypeOK
<1> QED BY <1>2, <1>3

\* A call carries an access token of the storage.
LEMMA CallType ==
  ASSUME TypeOK, NEW t \in Tabs, StoreOf(t) # None,
         NEW kind \in {"data", "me"}, NEW again \in BOOLEAN, AuthorizedCall(t, kind, again)
  PROVE  tab' \in [Tabs -> TabType]
<1> DEFINE r == [tab[t] EXCEPT !.pc = "called", !.kind = kind, !.again = again,
                               !.access = StoreOf(t).access, !.page = "app"]
<1>1. StoreOf(t).access \in 0..MaxPeriods
  BY TabsOK DEF StoreOf, Kept
<1>2. r \in TabType
  BY <1>1, TabsOK, FieldUpdates DEF TabStates
<1>3. tab' = [tab EXCEPT ![t] = r]
  BY Zenon DEF AuthorizedCall
<1> QED
  BY <1>2, <1>3, Replaced

-----------------------------------------------------------------------------
(* The type invariant.                                                     *)

\* Whoever is answered has been given a refresh token.
AnswersHaveTokens == \A t \in Tabs : tab[t].pc = "answered" => tab[t].refresh \in Tokens

LEMMA InitType == Init => TypeOK /\ AnswersHaveTokens
<1> SUFFICES ASSUME Init PROVE TypeOK /\ AnswersHaveTokens
  OBVIOUS
<1>1. user \in UserType
  BY AuthSessionsAssumption DEF Init, UserType, UserStatus
<1>2. tab \in [Tabs -> TabType]
  BY AuthSessionsAssumption DEF Init, TabType, TabStates, IdleTab
<1>3. AnswersHaveTokens
  BY DEF Init, AnswersHaveTokens, IdleTab
<1>4. store \in [Browsers -> Kept \cup {None}] /\ home \in Homes
  BY DEF Init
<1>5. period \in 1..MaxPeriods /\ resets \in 0..MaxResets /\ faults \in 0..MaxFaults
  BY AuthSessionsAssumption DEF Init
<1>6. signedOut \in [Browsers -> BOOLEAN] /\ uses \in [1..MaxResets -> Nat]
  BY DEF Init
<1>7. revoked \in BOOLEAN /\ excused \in BOOLEAN
  BY DEF Init
<1> QED
  BY <1>1, <1>2, <1>3, <1>4, <1>5, <1>6, <1>7 DEF TypeOK

\* A step of a tab that is answered or refused, or that the user takes, leaves
\* tabs and storage well-typed; so does a call that fails.
LEMMA ClientTabs ==
  ASSUME TypeOK, AnswersHaveTokens, NEW t \in Tabs, ClientStep(t)
  PROVE  tab' \in [Tabs -> TabType] /\ store' \in [Browsers -> Kept \cup {None}]
<1> USE TabsOK, Replaced
<1>t. tab \in [Tabs -> TabType] /\ store \in [Browsers -> Kept \cup {None}]
  BY DEF TypeOK
<1>a. ASSUME setAuthSession(t), tab[t].pc = "answered"
      PROVE  store' \in [Browsers -> Kept \cup {None}]
  <2>1. [access |-> tab[t].access, refresh |-> tab[t].refresh] \in Kept
    BY <1>a DEF AnswersHaveTokens, TabType, Kept
  <2> QED BY <1>a, <2>1 DEF setAuthSession
<1>b. ASSUME NEW again \in BOOLEAN, getMe(t, again), UNCHANGED store
      PROVE  tab' \in [Tabs -> TabType] /\ store' \in [Browsers -> Kept \cup {None}]
  <2>1. CASE StoreOf(t) = None
    BY <1>b, <1>t, <2>1 DEF getMe
  <2>2. CASE StoreOf(t) # None
    BY <1>b, <1>t, <2>2, CallType DEF getMe
  <2> QED BY <2>1, <2>2
<1>1. CASE Query(t)
  BY <1>1, <1>t, CallType DEF Query
<1>2. CASE Navigate(t)
  BY <1>2, <1>b DEF Navigate
<1>3. CASE AskAgain(t)
  BY <1>3, <1>b DEF AskAgain
<1>4. CASE Serve(t)
  BY <1>4, <1>t DEF Serve
<1>5. CASE Reject(t)
  <2>1. CASE StoreOf(t) = None
    BY <1>5, <2>1, FailType DEF Reject
  <2>2. CASE StoreOf(t) # None
    <3>1. [tab[t] EXCEPT !.pc = "refreshing", !.refresh = StoreOf(t).refresh] \in TabType
      BY <2>2, FieldUpdates DEF StoreOf, Kept, TabStates
    <3>2. tab' = [tab EXCEPT ![t] =
                    [tab[t] EXCEPT !.pc = "refreshing", !.refresh = StoreOf(t).refresh]]
      BY <1>5, <2>2, Zenon DEF Reject
    <3> QED BY <1>5, <1>t, <2>2, <3>1, <3>2 DEF Reject
  <2> QED BY <2>1, <2>2
<1>6. CASE Refused(t)
  BY <1>6, FailType DEF Refused
<1>7. CASE Refreshed(t)
  <2>1. [tab[t] EXCEPT !.pc = "retried", !.refresh = 0] \in TabType
    BY FieldUpdates DEF TabStates
  <2>2. tab' = [tab EXCEPT ![t] = [tab[t] EXCEPT !.pc = "retried", !.refresh = 0]]
    BY <1>7, Zenon DEF Refreshed
  <2> QED BY <1>7, <1>a, <2>1, <2>2 DEF Refreshed
<1>8. CASE SignedIn(t)
  BY <1>8, <1>a DEF SignedIn
<1>9. CASE SignOut(t)
  <2> DEFINE pc     == IF StoreOf(t) = None THEN "signedOut" ELSE "signingOut"
             access == IF StoreOf(t) = None THEN 0 ELSE StoreOf(t).access
  <2>1. pc \in TabStates /\ access \in 0..MaxPeriods
    BY AuthSessionsAssumption DEF StoreOf, Kept, TabStates
  <2>2. tab' = [tab EXCEPT ![t] = [tab[t] EXCEPT !.pc = pc, !.access = access]]
    BY <1>9, Zenon DEF SignOut
  <2> HIDE DEF pc, access
  <2>3. [tab[t] EXCEPT !.pc = pc, !.access = access] \in TabType
    BY <2>1, FieldUpdates
  <2>4. UNCHANGED store
    BY <1>9 DEF SignOut
  <2> QED BY <1>t, <2>2, <2>3, <2>4
<1>10. CASE SignedOut(t)
  BY <1>10 DEF SignedOut, clearAuthSession
<1>11. CASE Fault(t)
  <2>1. CASE Fail(t, FALSE) \/ Fail(t, TRUE)
    BY <2>1, FailType
  <2>2. CASE tab' = [tab EXCEPT ![t] = IdleTab("sign-in")] /\ UNCHANGED store
    BY <1>t, <2>2
  <2>3. CASE Go(t, "signedOut") /\ UNCHANGED store
    <3>1. [tab[t] EXCEPT !.pc = "signedOut"] \in TabType
      BY FieldUpdates DEF TabStates
    <3> QED BY <1>t, <2>3, <3>1 DEF Go
  <2> QED BY <1>11, <2>1, <2>2, <2>3 DEF Fault
<1>12. ASSUME NEW typed \in {0, resets}, SignIn(t, typed)
       PROVE  tab' \in [Tabs -> TabType] /\ store' \in [Browsers -> Kept \cup {None}]
  <2>1. typed \in 0..MaxResets
    BY AuthSessionsAssumption DEF TypeOK
  <2>2. [tab[t] EXCEPT !.pc = "login", !.kind = "login", !.typed = typed] \in TabType
    BY <2>1, FieldUpdates DEF TabStates
  <2>3. tab' = [tab EXCEPT ![t] =
                  [tab[t] EXCEPT !.pc = "login", !.kind = "login", !.typed = typed]]
    BY <1>12, Zenon DEF SignIn
  <2> QED BY <1>12, <1>t, <2>2, <2>3 DEF SignIn
<1> QED
  BY <1>1, <1>2, <1>3, <1>4, <1>5, <1>6, <1>7, <1>8, <1>9, <1>10, <1>11, <1>12 DEF ClientStep

\* So does a step of the API that serves a tab.
LEMMA ServerTabs ==
  ASSUME TypeOK, NEW t \in Tabs, ServerStep(t)
  PROVE  tab' \in [Tabs -> TabType] /\ user' \in UserType
<1> USE TabsOK, Replaced
<1>t. user \in UserType
  BY DEF TypeOK
<1>z. 0 \in 0..MaxResets /\ 0 \in 0..MaxPeriods
  BY AuthSessionsAssumption
<1>1. CASE LoginLoad(t)
  <2>1. [tab[t] EXCEPT !.pc = "checked", !.typed = 0] \in TabType
    BY <1>z, FieldUpdates DEF TabStates
  <2> QED BY <1>1, <1>t, <2>1 DEF LoginLoad
<1>2. CASE RefreshLoad(t)
  <2> DEFINE pc == IF user.refreshTokenHash = None THEN "refused"
                   ELSE IF user.status \notin MayLogin THEN "blocking"
                   ELSE IF Matches(tab[t].refresh, user.refreshTokenHash) THEN "checked"
                   ELSE "refused"
  <2>1. pc \in TabStates
    BY DEF TabStates
  <2>2. tab' = [tab EXCEPT ![t] = [tab[t] EXCEPT !.refresh = 0, !.access = 0, !.pc = pc]]
    BY <1>2, Zenon DEF RefreshLoad
  <2>3. UNCHANGED user
    BY <1>2 DEF RefreshLoad
  <2> HIDE DEF pc
  <2>4. [tab[t] EXCEPT !.refresh = 0, !.access = 0, !.pc = pc] \in TabType
    BY <1>z, <2>1, FieldUpdates
  <2> QED BY <1>t, <2>2, <2>3, <2>4
<1>3. CASE RefreshBlocked(t)
  <2>1. [tab[t] EXCEPT !.pc = "refused"] \in TabType
    BY FieldUpdates DEF TabStates
  <2>2. user' \in UserType
    BY <1>3, <1>t, UserUpdates DEF RefreshBlocked, clearRefreshTokenHash
  <2> QED BY <1>3, <2>1, <2>2 DEF RefreshBlocked, Go
<1>4. CASE issueTokens(t)
  <2> DEFINE new == CHOOSE n \in Tokens : n \notin InUse
  <2>1. new \in Tokens
    BY FreshToken
  <2>2. /\ user' = [user EXCEPT !.refreshTokenHash = new]
        /\ tab' = [tab EXCEPT ![t].pc = "answered", ![t].access = period, ![t].refresh = new]
    BY <1>4 DEF issueTokens, storeRefreshTokenHash
  <2>3. period \in 0..MaxPeriods
    BY AuthSessionsAssumption DEF TypeOK
  <2> HIDE DEF new
  <2>4. [tab[t] EXCEPT !.pc = "answered", !.access = period, !.refresh = new] \in TabType
    BY <2>1, <2>3, FieldUpdates DEF TabStates
  <2>5. user' \in UserType
    BY <1>t, <2>1, <2>2, UserUpdates
  <2>6. tab' = [tab EXCEPT ![t] = [tab[t] EXCEPT !.pc = "answered", !.access = period,
                                                 !.refresh = new]]
    BY <2>2, Zenon
  <2> QED BY <2>4, <2>5, <2>6
<1>5. CASE Logout(t)
  <2>1. [tab[t] EXCEPT !.pc = "signedOut"] \in TabType
    BY FieldUpdates DEF TabStates
  <2>2. user' \in UserType
    <3>1. user' = user \/ user' = [user EXCEPT !.refreshTokenHash = None]
      BY <1>5 DEF Logout, clearRefreshTokenHash
    <3> QED BY <1>t, <3>1, UserUpdates
  <2> QED BY <1>5, <2>1, <2>2 DEF Logout, Go
<1> QED BY <1>1, <1>2, <1>3, <1>4, <1>5 DEF ServerStep

-----------------------------------------------------------------------------
(* How the steps of a tab move it.                                         *)

\* Neither about to be given tokens nor about to store them.
Quiet == {"idle", "called", "again", "retried", "signingOut", "signedOut"}

LEMMA Put ==
  ASSUME TypeOK, NEW t \in Tabs, NEW r, tab' = [tab EXCEPT ![t] = r]
  PROVE  tab'[t] = r /\ \A u \in Tabs \ {t} : tab'[u] = tab[u]
BY DEF TypeOK

\* A field that is set has the value it was set to, and the others are left.
LEMMA FieldValues ==
  ASSUME NEW r \in TabType
  PROVE  /\ \A x : [r EXCEPT !.pc = x].pc = x /\ [r EXCEPT !.pc = x].kind = r.kind
         /\ \A x, y : /\ [r EXCEPT !.pc = x, !.refresh = y].pc = x
                      /\ [r EXCEPT !.pc = x, !.typed = y].pc = x
                      /\ [r EXCEPT !.pc = x, !.typed = y].kind = r.kind
                      /\ [r EXCEPT !.pc = x, !.access = y].pc = x
         /\ \A x, y, z : /\ [r EXCEPT !.pc = x, !.kind = y, !.typed = z].pc = x
                         /\ [r EXCEPT !.pc = x, !.kind = y, !.typed = z].kind = y
                         /\ [r EXCEPT !.pc = x, !.access = y, !.refresh = z].pc = x
                         /\ [r EXCEPT !.pc = x, !.access = y, !.refresh = z].refresh = z
                         /\ [r EXCEPT !.refresh = y, !.access = z, !.pc = x].pc = x
         /\ \A x, y, z, a, p :
              [r EXCEPT !.pc = x, !.kind = y, !.again = z, !.access = a, !.page = p].pc = x
BY DEF TabType

LEMMA FailMoves ==
  ASSUME TypeOK, NEW t \in Tabs, NEW clear \in BOOLEAN, Fail(t, clear)
  PROVE  /\ \A u \in Tabs \ {t} : tab'[u] = tab[u]
         /\ tab'[t].pc \in Quiet
<1>1. [tab[t] EXCEPT !.pc = "again"].pc = "again"
  BY TabsOK, FieldValues
<1>2. IdleTab("app").pc = "idle" /\ IdleTab("sign-in").pc = "idle"
  BY DEF IdleTab
<1>3. PICK r : tab' = [tab EXCEPT ![t] = r]
               /\ r \in {IdleTab("app"), IdleTab("sign-in"), [tab[t] EXCEPT !.pc = "again"]}
  BY DEF Fail
<1> QED BY <1>1, <1>2, <1>3, Put DEF Quiet

LEMMA CallMoves ==
  ASSUME TypeOK, NEW t \in Tabs, NEW kind, NEW again, AuthorizedCall(t, kind, again)
  PROVE  /\ \A u \in Tabs \ {t} : tab'[u] = tab[u]
         /\ tab'[t].pc \in Quiet
<1> DEFINE r == [tab[t] EXCEPT !.pc = "called", !.kind = kind, !.again = again,
                               !.access = StoreOf(t).access, !.page = "app"]
<1>1. tab' = [tab EXCEPT ![t] = r]
  BY Zenon DEF AuthorizedCall
<1>2. r.pc = "called"
  BY TabsOK, FieldValues
<1> HIDE DEF r
<1> QED BY <1>1, <1>2, Put DEF Quiet

\* A step of the client leaves its tab quiet, except that a refusal starts a
\* refresh where tokens are kept, and that somebody signs in.
LEMMA ClientMoves ==
  ASSUME TypeOK, NEW t \in Tabs, ClientStep(t)
  PROVE  /\ \A u \in Tabs \ {t} : tab'[u] = tab[u]
         /\ \/ tab'[t].pc \in Quiet
            \/ tab'[t].pc = "refreshing" /\ Reject(t) /\ StoreOf(t) # None
            \/ /\ tab'[t].pc = "login" /\ tab'[t].kind = "login"
               /\ \E typed \in {0, resets} : SignIn(t, typed)
<1> DEFINE Others == \A u \in Tabs \ {t} : tab'[u] = tab[u]
<1> USE TabsOK
<1>i. IdleTab("app").pc \in Quiet /\ IdleTab("sign-in").pc \in Quiet
  BY DEF IdleTab, Quiet
<1>b. ASSUME NEW again, getMe(t, again) PROVE Others /\ tab'[t].pc \in Quiet
  <2>1. CASE StoreOf(t) = None
    BY <1>b, <1>i, <2>1, Put DEF getMe
  <2>2. CASE StoreOf(t) # None
    BY <1>b, <2>2, CallMoves DEF getMe
  <2> QED BY <2>1, <2>2
<1>1. ASSUME Query(t) PROVE Others /\ tab'[t].pc \in Quiet
  BY <1>1, CallMoves DEF Query
<1>2. ASSUME Navigate(t) \/ AskAgain(t) PROVE Others /\ tab'[t].pc \in Quiet
  BY <1>2, <1>b DEF Navigate, AskAgain
<1>3. ASSUME Serve(t) \/ SignedIn(t) \/ SignedOut(t) PROVE Others /\ tab'[t].pc \in Quiet
  <2>1. tab' = [tab EXCEPT ![t] = IdleTab("app")] \/ tab' = [tab EXCEPT ![t] = IdleTab("sign-in")]
    BY <1>3 DEF Serve, SignedIn, SignedOut
  <2> QED BY <1>i, <2>1, Put
<1>4. ASSUME Reject(t)
      PROVE  Others /\ (\/ tab'[t].pc \in Quiet
                        \/ tab'[t].pc = "refreshing" /\ StoreOf(t) # None)
  <2>1. CASE StoreOf(t) = None
    BY <1>4, <2>1, FailMoves DEF Reject
  <2>2. CASE StoreOf(t) # None
    <3> DEFINE r == [tab[t] EXCEPT !.pc = "refreshing", !.refresh = StoreOf(t).refresh]
    <3>1. tab' = [tab EXCEPT ![t] = r]
      BY <1>4, <2>2, Zenon DEF Reject
    <3>2. r.pc = "refreshing"
      BY FieldValues
    <3> HIDE DEF r
    <3> QED BY <2>2, <3>1, <3>2, Put
  <2> QED BY <2>1, <2>2
<1>5. ASSUME Refused(t) PROVE Others /\ tab'[t].pc \in Quiet
  BY <1>5, FailMoves DEF Refused
<1>6. ASSUME Refreshed(t) PROVE Others /\ tab'[t].pc \in Quiet
  <2>1. tab' = [tab EXCEPT ![t] = [tab[t] EXCEPT !.pc = "retried", !.refresh = 0]]
    BY <1>6, Zenon DEF Refreshed
  <2>2. [tab[t] EXCEPT !.pc = "retried", !.refresh = 0].pc = "retried"
    BY FieldValues
  <2> QED BY <2>1, <2>2, Put DEF Quiet
<1>7. ASSUME SignOut(t) PROVE Others /\ tab'[t].pc \in Quiet
  <2> DEFINE pc     == IF StoreOf(t) = None THEN "signedOut" ELSE "signingOut"
             access == IF StoreOf(t) = None THEN 0 ELSE StoreOf(t).access
  <2>1. pc \in Quiet
    BY DEF Quiet
  <2>2. tab' = [tab EXCEPT ![t] = [tab[t] EXCEPT !.pc = pc, !.access = access]]
    BY <1>7, Zenon DEF SignOut
  <2> HIDE DEF pc, access
  <2>3. [tab[t] EXCEPT !.pc = pc, !.access = access].pc = pc
    BY FieldValues
  <2> QED BY <2>1, <2>2, <2>3, Put
<1>8. ASSUME Fault(t) PROVE Others /\ tab'[t].pc \in Quiet
  <2>1. CASE Fail(t, FALSE) \/ Fail(t, TRUE)
    BY <2>1, FailMoves
  <2>2. CASE tab' = [tab EXCEPT ![t] = IdleTab("sign-in")]
    BY <1>i, <2>2, Put
  <2>3. CASE Go(t, "signedOut")
    <3>1. tab' = [tab EXCEPT ![t] = [tab[t] EXCEPT !.pc = "signedOut"]]
      BY <2>3, Zenon DEF Go
    <3>2. [tab[t] EXCEPT !.pc = "signedOut"].pc = "signedOut"
      BY FieldValues
    <3> QED BY <3>1, <3>2, Put DEF Quiet
  <2> QED BY <1>8, <2>1, <2>2, <2>3 DEF Fault
<1>9. ASSUME NEW typed \in {0, resets}, SignIn(t, typed)
      PROVE  Others /\ tab'[t].pc = "login" /\ tab'[t].kind = "login"
  <2> DEFINE r == [tab[t] EXCEPT !.pc = "login", !.kind = "login", !.typed = typed]
  <2>1. tab' = [tab EXCEPT ![t] = r]
    BY <1>9, Zenon DEF SignIn
  <2>2. r.pc = "login" /\ r.kind = "login"
    BY FieldValues
  <2> HIDE DEF r
  <2> QED BY <2>1, <2>2, Put
<1> HIDE DEF Others
<1>10. Others /\ (\/ tab'[t].pc \in Quiet
                  \/ tab'[t].pc = "refreshing" /\ Reject(t) /\ StoreOf(t) # None
                  \/ /\ tab'[t].pc = "login" /\ tab'[t].kind = "login"
                     /\ \E typed \in {0, resets} : SignIn(t, typed))
  BY <1>1, <1>2, <1>3, <1>4, <1>5, <1>6, <1>7, <1>8, <1>9, Zenon DEF ClientStep
<1> QED BY <1>10 DEF Others

\* A step of the API: who passes the checks of a refresh found a hash; who is
\* refused found none, or the user was blocked.
LEMMA ServerMoves ==
  ASSUME TypeOK, NEW t \in Tabs
  PROVE  /\ ServerStep(t) => \A u \in Tabs \ {t} : tab'[u] = tab[u]
         /\ LoginLoad(t) => \/ tab'[t].pc = "idle"
                            \/ tab'[t].pc = "checked" /\ tab'[t].kind = tab[t].kind
         /\ RefreshLoad(t) => \/ tab'[t].pc = "refused" /\ user.refreshTokenHash = None
                              \/ tab'[t].pc = "blocking"
                              \/ tab'[t].pc = "checked" /\ user.refreshTokenHash # None
         /\ RefreshBlocked(t) => tab'[t].pc = "refused"
         /\ issueTokens(t) => /\ tab'[t].pc = "answered" /\ tab'[t].refresh \in Tokens
                              /\ tab'[t].refresh = user'.refreshTokenHash
         /\ Logout(t) => tab'[t].pc = "signedOut"
<1> DEFINE Others == \A u \in Tabs \ {t} : tab'[u] = tab[u]
<1> USE TabsOK
<1>1. ASSUME LoginLoad(t)
      PROVE  Others /\ (\/ tab'[t].pc = "idle"
                        \/ tab'[t].pc = "checked" /\ tab'[t].kind = tab[t].kind)
  <2>1. \/ tab' = [tab EXCEPT ![t] = [tab[t] EXCEPT !.pc = "checked", !.typed = 0]]
        \/ tab' = [tab EXCEPT ![t] = IdleTab("sign-in")]
    BY <1>1 DEF LoginLoad
  <2>2. /\ [tab[t] EXCEPT !.pc = "checked", !.typed = 0].pc = "checked"
        /\ [tab[t] EXCEPT !.pc = "checked", !.typed = 0].kind = tab[t].kind
    BY FieldValues
  <2>3. IdleTab("sign-in").pc = "idle"
    BY DEF IdleTab
  <2> QED BY <2>1, <2>2, <2>3, Put
<1>2. ASSUME RefreshLoad(t)
      PROVE  Others /\ (\/ tab'[t].pc = "refused" /\ user.refreshTokenHash = None
                        \/ tab'[t].pc = "blocking"
                        \/ tab'[t].pc = "checked" /\ user.refreshTokenHash # None)
  <2> DEFINE pc == IF user.refreshTokenHash = None THEN "refused"
                   ELSE IF user.status \notin MayLogin THEN "blocking"
                   ELSE IF Matches(tab[t].refresh, user.refreshTokenHash) THEN "checked"
                   ELSE "refused"
  <2>1. tab' = [tab EXCEPT ![t] = [tab[t] EXCEPT !.refresh = 0, !.access = 0, !.pc = pc]]
    BY <1>2, Zenon DEF RefreshLoad
  <2>2. \/ pc = "refused" /\ user.refreshTokenHash = None
        \/ pc = "blocking"
        \/ pc = "checked" /\ user.refreshTokenHash # None
    BY DEF Matches
  <2> HIDE DEF pc
  <2>3. [tab[t] EXCEPT !.refresh = 0, !.access = 0, !.pc = pc].pc = pc
    BY FieldValues
  <2> QED BY <2>1, <2>2, <2>3, Put
<1>3. ASSUME RefreshBlocked(t) PROVE Others /\ tab'[t].pc = "refused"
  <2>1. tab' = [tab EXCEPT ![t] = [tab[t] EXCEPT !.pc = "refused"]]
    BY <1>3, Zenon DEF RefreshBlocked, Go
  <2>2. [tab[t] EXCEPT !.pc = "refused"].pc = "refused"
    BY FieldValues
  <2> QED BY <2>1, <2>2, Put
<1>4. ASSUME issueTokens(t)
      PROVE  /\ Others /\ tab'[t].pc = "answered" /\ tab'[t].refresh \in Tokens
             /\ tab'[t].refresh = user'.refreshTokenHash
  <2> DEFINE new == CHOOSE n \in Tokens : n \notin InUse
             r   == [tab[t] EXCEPT !.pc = "answered", !.access = period, !.refresh = new]
  <2>1. new \in Tokens
    BY FreshToken
  <2>2. /\ user' = [user EXCEPT !.refreshTokenHash = new]
        /\ tab' = [tab EXCEPT ![t].pc = "answered", ![t].access = period, ![t].refresh = new]
    BY <1>4 DEF issueTokens, storeRefreshTokenHash
  <2> HIDE DEF new
  <2>3. tab' = [tab EXCEPT ![t] = r]
    BY <2>2, Zenon
  <2>4. r.pc = "answered" /\ r.refresh = new
    BY FieldValues
  <2>5. user'.refreshTokenHash = new
    BY <2>2 DEF TypeOK, UserType
  <2> HIDE DEF r
  <2> QED BY <2>1, <2>3, <2>4, <2>5, Put
<1>5. ASSUME Logout(t) PROVE Others /\ tab'[t].pc = "signedOut"
  <2>1. tab' = [tab EXCEPT ![t] = [tab[t] EXCEPT !.pc = "signedOut"]]
    BY <1>5, Zenon DEF Logout, Go
  <2>2. [tab[t] EXCEPT !.pc = "signedOut"].pc = "signedOut"
    BY FieldValues
  <2> QED BY <2>1, <2>2, Put
<1> HIDE DEF Others
<1>6. /\ ServerStep(t)
         => Others
      /\ LoginLoad(t) => \/ tab'[t].pc = "idle"
                         \/ tab'[t].pc = "checked" /\ tab'[t].kind = tab[t].kind
  BY <1>1, <1>2, <1>3, <1>4, <1>5, Zenon DEF ServerStep
<1> QED BY <1>2, <1>3, <1>4, <1>5, <1>6, Zenon DEF Others

\* The steps that are not a tab's leave the sessions alone.
AsideTabs ==
  /\ UNCHANGED <<tab, store, home, signedOut, revoked, excused>>
  /\ user'.refreshTokenHash = user.refreshTokenHash

LEMMA NoTabMoves ==
  ASSUME TypeOK,
         \/ ForgotPassword \/ ConfirmVerification \/ Suspend \/ PeriodEnds
         \/ (\E k \in 1..resets : ResetPassword(k)) \/ UNCHANGED vars
  PROVE  AsideTabs
BY DEF AsideTabs, ForgotPassword, ConfirmVerification, Suspend, PeriodEnds, ResetPassword,
       setResetPasswordToken, resetPasswordByTokenHash, verifyEmailByTokenHash,
       vars, history, TypeOK, UserType

\* Every step is one of those, or one of a tab.
LEMMA Steps ==
  ASSUME TypeOK, [Next]_vars
  PROVE  \/ AsideTabs
         \/ \E t \in Tabs : ClientStep(t) \/ ServerStep(t)
BY NoTabMoves, Zenon DEF Next, TabStep, ClientStep, ServerStep

LEMMA AnswersNext ==
  ASSUME TypeOK, AnswersHaveTokens, [Next]_vars
  PROVE  AnswersHaveTokens'
<1> SUFFICES ASSUME NEW u \in Tabs, tab'[u].pc = "answered"
             PROVE  tab'[u].refresh \in Tokens
  BY DEF AnswersHaveTokens
<1>1. CASE tab'[u] = tab[u]
  BY <1>1 DEF AnswersHaveTokens
<1>2. ASSUME NEW t \in Tabs, ClientStep(t)
      PROVE  tab'[u].refresh \in Tokens
  <2>1. u # t
    BY <1>2, ClientMoves DEF Quiet
  <2> QED BY <1>1, <1>2, <2>1, ClientMoves
<1>3. ASSUME NEW t \in Tabs, ServerStep(t)
      PROVE  tab'[u].refresh \in Tokens
  <2>1. CASE u = t
    BY <1>3, <2>1, ServerMoves DEF ServerStep
  <2>2. CASE u # t
    BY <1>1, <1>3, <2>2, ServerMoves
  <2> QED BY <2>1, <2>2
<1> QED BY <1>1, <1>2, <1>3, Steps DEF AsideTabs

\* The type invariant and its strengthening: every step preserves them.
LEMMA TypeNext ==
  ASSUME TypeOK, AnswersHaveTokens, [Next]_vars
  PROVE  TypeOK'
<1> USE DEF history
<1>k. TypeOK
  OBVIOUS
<1>1. ASSUME NEW t \in Tabs, Query(t) \/ Navigate(t) \/ SignOut(t) PROVE TypeOK'
  <2>1. tab' \in [Tabs -> TabType] /\ store' \in [Browsers -> Kept \cup {None}]
    BY <1>1, ClientTabs DEF ClientStep
  <2> QED BY <1>1, <2>1 DEF Query, Navigate, SignOut, TypeOK
<1>2. ASSUME NEW t \in Tabs, AskAgain(t) \/ Serve(t) \/ Reject(t) \/ Refused(t)
                              \/ Refreshed(t) \/ SignedIn(t)
      PROVE  TypeOK'
  <2>1. tab' \in [Tabs -> TabType] /\ store' \in [Browsers -> Kept \cup {None}]
    BY <1>2, ClientTabs DEF ClientStep
  <2>2. UNCHANGED <<user, home, period, resets, faults, history>>
    BY <1>2 DEF AskAgain, Serve, Reject, Refused, Refreshed, SignedIn
  <2> QED BY <2>1, <2>2 DEF TypeOK
<1>3. ASSUME NEW t \in Tabs, SignedOut(t) \/ (\E typed \in {0, resets} : SignIn(t, typed))
      PROVE  TypeOK'
  <2>1. tab' \in [Tabs -> TabType] /\ store' \in [Browsers -> Kept \cup {None}]
    BY <1>3, ClientTabs DEF ClientStep
  <2>2. UNCHANGED <<user, home, period, resets, faults, revoked, uses, excused>>
    BY <1>3 DEF SignedOut, SignIn
  <2>3. Alone(t) \in BOOLEAN /\ home[t] \in Browsers
    BY TabsOK DEF Alone
  <2>4. signedOut' \in [Browsers -> BOOLEAN]
    BY <1>3, <2>3 DEF SignedOut, SignIn, TypeOK
  <2> QED BY <2>1, <2>2, <2>4 DEF TypeOK
<1>4. ASSUME NEW t \in Tabs, Fault(t) PROVE TypeOK'
  <2>1. tab' \in [Tabs -> TabType] /\ store' \in [Browsers -> Kept \cup {None}]
    BY <1>4, ClientTabs DEF ClientStep
  <2>2. faults' \in 0..MaxFaults /\ excused' = TRUE
    BY <1>4, AuthSessionsAssumption DEF Fault, TypeOK
  <2>3. UNCHANGED <<user, home, period, resets, signedOut, revoked, uses>>
    BY <1>4 DEF Fault
  <2> QED BY <2>1, <2>2, <2>3 DEF TypeOK
<1>5. ASSUME NEW t \in Tabs, ServerStep(t)
      PROVE  TypeOK'
  <2>1. tab' \in [Tabs -> TabType] /\ user' \in UserType
    BY <1>5, ServerTabs
  <2>2. UNCHANGED <<store, home, period, resets, faults, signedOut, uses>>
    BY <1>5 DEF ServerStep, LoginLoad, RefreshLoad, RefreshBlocked, issueTokens, Logout
  <2>3. revoked' \in BOOLEAN /\ excused' \in BOOLEAN
    BY <1>5 DEF ServerStep, LoginLoad, RefreshLoad, RefreshBlocked, issueTokens, Logout, TypeOK
  <2> QED BY <2>1, <2>2, <2>3 DEF TypeOK
<1>6. CASE ForgotPassword
  <2>1. resets + 1 \in 1..MaxResets
    BY <1>6, AuthSessionsAssumption DEF ForgotPassword, TypeOK
  <2>2. user' = [[user EXCEPT !.resetToken = resets + 1] EXCEPT !.resetLive = TRUE]
    BY <1>6 DEF ForgotPassword, setResetPasswordToken
  <2>3. user' \in UserType
    BY <2>1, <2>2, UserUpdates DEF TypeOK
  <2> QED BY <1>6, <2>1, <2>3, AuthSessionsAssumption DEF ForgotPassword, TypeOK
<1>7. ASSUME NEW k \in 1..resets, ResetPassword(k) PROVE TypeOK'
  <2>1. k \in 1..MaxResets
    BY AuthSessionsAssumption DEF TypeOK
  <2>2. user' = [[[[user EXCEPT !.password = k] EXCEPT !.status = "active"]
                   EXCEPT !.resetToken = None] EXCEPT !.resetLive = FALSE]
    BY <1>7 DEF ResetPassword, resetPasswordByTokenHash
  <2>3. k \in 0..MaxResets /\ "active" \in UserStatus
    BY <2>1, AuthSessionsAssumption DEF UserStatus
  <2>4. user' \in UserType
    BY <2>2, <2>3, UserUpdates DEF TypeOK
  <2>5. uses' \in [1..MaxResets -> Nat]
    BY <1>7, <2>1 DEF ResetPassword, TypeOK
  <2> QED BY <1>7, <2>4, <2>5 DEF ResetPassword, TypeOK
<1>8. CASE ConfirmVerification \/ Suspend
  <2>1. user' \in UserType
    BY <1>8, UserUpdates DEF ConfirmVerification, Suspend, verifyEmailByTokenHash, UserStatus,
       TypeOK
  <2> QED BY <1>8, <2>1 DEF ConfirmVerification, Suspend, TypeOK
<1>9. CASE PeriodEnds
  <2>1. user' \in UserType
    BY <1>9, UserUpdates DEF PeriodEnds, TypeOK
  <2>2. period' \in 1..MaxPeriods
    BY <1>9, AuthSessionsAssumption DEF PeriodEnds, TypeOK
  <2> QED BY <1>9, <2>1, <2>2 DEF PeriodEnds, TypeOK
<1>10. CASE UNCHANGED vars
  BY <1>10 DEF vars, TypeOK
<1> QED
  BY <1>1, <1>2, <1>3, <1>4, <1>5, <1>6, <1>7, <1>8, <1>9, <1>10
  DEF Next, TabStep, ServerStep

-----------------------------------------------------------------------------
(* What keeps the sessions of the user together.                           *)

\* A browser that stays signed out: nobody there is about to store tokens.
OutAndAlone ==
  \A b \in Browsers : signedOut[b] =>
    store[b] = None /\ \A t \in Tabs : home[t] = b => ~Storing(t)

\* Logged out: no refresh has passed its checks since.
OutAtTheApi ==
  revoked => /\ user.refreshTokenHash = None
             /\ \A t \in Tabs : tab[t].pc = "checked" => tab[t].kind = "login"

LoginsAreLogins == \A t \in Tabs : tab[t].pc = "login" => tab[t].kind = "login"

\* Until a call fails or the user is logged out or blocked, no refresh is
\* refused: there is a hash as soon as there are tokens, and it matches them.
Unrefused ==
  \/ excused
  \/ /\ \A t \in Tabs : tab[t].pc # "refused"
     /\ \/ user.refreshTokenHash # None
        \/ /\ \A b \in Browsers : store[b] = None
           /\ \A t \in Tabs : tab[t].pc \notin {"refreshing", "answered"}

\* The tokens given out and used: the last one has not been used before.
ResetTokens ==
  /\ user.resetToken # None => user.resetToken <= resets /\ uses[user.resetToken] = 0
  /\ \A k \in 1..MaxResets : k > resets => uses[k] = 0
  /\ ResetOnce

\* The inductive invariant.
Sessions ==
  /\ TypeOK /\ AnswersHaveTokens
  /\ OutAndAlone /\ OutAtTheApi /\ LoginsAreLogins /\ Unrefused /\ ResetTokens

\* What the steps of the client do to the storage of its browser: nothing, or
\* they clear it, or they keep the tokens of an answer.
LEMMA StoreMoves ==
  ASSUME NEW t \in Tabs, ClientStep(t)
  PROVE  /\ \/ store' = store \/ clearAuthSession(t)
            \/ tab[t].pc = "answered" /\ setAuthSession(t)
         /\ UNCHANGED <<user, home, revoked>>
         /\ \/ UNCHANGED signedOut \/ SignedOut(t)
            \/ \E typed \in {0, resets} : SignIn(t, typed)
         /\ excused' \in {excused, TRUE}
<1> USE DEF history
<1>1. CASE Query(t) \/ Navigate(t) \/ AskAgain(t) \/ Serve(t) \/ SignOut(t)
  BY <1>1 DEF Query, Navigate, AskAgain, Serve, SignOut
<1>2. CASE Reject(t) \/ Refused(t)
  BY <1>2 DEF Reject, Refused, Fail
<1>3. CASE Refreshed(t) \/ SignedIn(t) \/ SignedOut(t)
  BY <1>3 DEF Refreshed, SignedIn, SignedOut
<1>4. CASE Fault(t)
  <2>1. store' = store \/ clearAuthSession(t)
    BY <1>4, Zenon DEF Fault, Fail
  <2> QED BY <1>4, <2>1, Zenon DEF Fault
<1>5. CASE \E typed \in {0, resets} : SignIn(t, typed)
  BY <1>5 DEF SignIn
<1> QED BY <1>1, <1>2, <1>3, <1>4, <1>5, Zenon DEF ClientStep

LEMMA ServerKeeps ==
  ASSUME NEW t \in Tabs, ServerStep(t)
  PROVE  UNCHANGED <<store, home, resets, signedOut, uses>>
BY DEF ServerStep, LoginLoad, RefreshLoad, RefreshBlocked, issueTokens, Logout, history

LEMMA OutNext ==
  ASSUME TypeOK, OutAndAlone, [Next]_vars
  PROVE  OutAndAlone'
<1> SUFFICES ASSUME NEW b \in Browsers, signedOut'[b]
             PROVE  store'[b] = None /\ \A u \in Tabs : home'[u] = b => ~Storing(u)'
  BY DEF OutAndAlone
<1>1. CASE AsideTabs
  BY <1>1 DEF AsideTabs, OutAndAlone, Storing
<1>2. ASSUME NEW t \in Tabs, ClientStep(t)
      PROVE  store'[b] = None /\ \A u \in Tabs : home'[u] = b => ~Storing(u)'
  <2>1. UNCHANGED home /\ \A u \in Tabs \ {t} : tab'[u] = tab[u]
    BY <1>2, StoreMoves, ClientMoves
  <2>2. CASE SignedOut(t) /\ home[t] = b
    <3>1. Alone(t)
      BY <2>2 DEF SignedOut, TypeOK
    <3>2. store'[b] = None
      BY <2>2 DEF SignedOut, clearAuthSession, TypeOK
    <3>3. tab'[t].pc = "idle"
      BY <2>2 DEF SignedOut, IdleTab, TypeOK
    <3> QED BY <2>1, <2>2, <3>1, <3>2, <3>3 DEF Alone, Storing
  <2>3. ASSUME NEW typed \in {0, resets}, SignIn(t, typed)
        PROVE  store'[b] = None /\ \A u \in Tabs : home'[u] = b => ~Storing(u)'
    <3>1. home[t] # b /\ signedOut[b] /\ UNCHANGED store
      BY <2>3, TabsOK DEF SignIn, TypeOK
    <3> QED BY <2>1, <3>1 DEF OutAndAlone, Storing
  <2>4. CASE ~(SignedOut(t) /\ home[t] = b) /\ ~(\E typed \in {0, resets} : SignIn(t, typed))
    <3>1. signedOut[b]
      <4>1. CASE UNCHANGED signedOut
        BY <4>1
      <4>2. CASE SignedOut(t) /\ home[t] # b
        BY <4>2 DEF SignedOut, TypeOK
      <4> QED BY <1>2, <2>4, <4>1, <4>2, StoreMoves
    <3>2. store[b] = None /\ \A u \in Tabs : home[u] = b => ~Storing(u)
      BY <3>1 DEF OutAndAlone
    <3>3. store'[b] = None
      <4>1. tab[t].pc = "answered" => home[t] # b
        BY <3>2 DEF Storing
      <4>2. store \in [Browsers -> Kept \cup {None}]
        BY DEF TypeOK
      <4> QED BY <1>2, <3>2, <4>1, <4>2, StoreMoves DEF clearAuthSession, setAuthSession
    <3>4. home[t] = b => ~Storing(t)'
      <4>1. home[t] = b => StoreOf(t) = None
        BY <3>2 DEF StoreOf
      <4>2. home[t] = b => tab'[t].pc \in Quiet
        BY <1>2, <2>4, <4>1, ClientMoves
      <4> QED BY <4>2 DEF Storing, Quiet
    <3> QED BY <2>1, <3>2, <3>3, <3>4 DEF Storing
  <2> QED BY <1>2, <2>2, <2>3, <2>4
<1>3. ASSUME NEW t \in Tabs, ServerStep(t)
      PROVE  store'[b] = None /\ \A u \in Tabs : home'[u] = b => ~Storing(u)'
  <2>1. UNCHANGED <<store, home, signedOut>> /\ \A u \in Tabs \ {t} : tab'[u] = tab[u]
    BY <1>3, ServerKeeps, ServerMoves
  <2>2. store[b] = None /\ \A u \in Tabs : home[u] = b => ~Storing(u)
    BY <2>1 DEF OutAndAlone
  <2>3. Storing(t)' => Storing(t)
    <3>1. LoginLoad(t) \/ RefreshLoad(t) \/ issueTokens(t) => Storing(t)
      BY DEF LoginLoad, RefreshLoad, issueTokens, Storing
    <3>2. RefreshBlocked(t) \/ Logout(t) => ~Storing(t)'
      BY ServerMoves DEF Storing
    <3> QED BY <1>3, <3>1, <3>2 DEF ServerStep
  <2> QED BY <2>1, <2>2, <2>3 DEF Storing
<1> QED BY <1>1, <1>2, <1>3, Steps

LEMMA LoginsNext ==
  ASSUME TypeOK, LoginsAreLogins, [Next]_vars
  PROVE  LoginsAreLogins'
<1> SUFFICES ASSUME NEW u \in Tabs, tab'[u].pc = "login" PROVE tab'[u].kind = "login"
  BY DEF LoginsAreLogins
<1>1. tab'[u] = tab[u] => tab'[u].kind = "login"
  BY DEF LoginsAreLogins
<1>2. ASSUME NEW t \in Tabs, ClientStep(t) PROVE tab'[u].kind = "login"
  BY <1>1, <1>2, ClientMoves DEF Quiet
<1>3. ASSUME NEW t \in Tabs, ServerStep(t) PROVE tab'[u].kind = "login"
  <2>1. u # t
    BY <1>3, ServerMoves DEF ServerStep
  <2> QED BY <1>1, <1>3, <2>1, ServerMoves
<1> QED BY <1>1, <1>2, <1>3, Steps DEF AsideTabs

LEMMA RevokedNext ==
  ASSUME TypeOK, OutAtTheApi, LoginsAreLogins, [Next]_vars
  PROVE  OutAtTheApi'
<1> SUFFICES ASSUME revoked'
             PROVE  /\ user'.refreshTokenHash = None
                    /\ \A u \in Tabs : tab'[u].pc = "checked" => tab'[u].kind = "login"
  BY DEF OutAtTheApi
<1> DEFINE Goal == /\ user'.refreshTokenHash = None
                   /\ \A u \in Tabs : tab'[u].pc = "checked" => tab'[u].kind = "login"
<1>1. CASE AsideTabs
  BY <1>1 DEF AsideTabs, OutAtTheApi
<1>2. ASSUME NEW t \in Tabs, ClientStep(t) PROVE Goal
  <2>1. revoked /\ UNCHANGED user
    BY <1>2, StoreMoves
  <2>2. tab'[t].pc # "checked" /\ \A u \in Tabs \ {t} : tab'[u] = tab[u]
    BY <1>2, ClientMoves DEF Quiet
  <2> QED BY <2>1, <2>2 DEF OutAtTheApi
<1>3. ASSUME NEW t \in Tabs, ServerStep(t) PROVE Goal
  <2>1. \A u \in Tabs \ {t} : tab'[u] = tab[u]
    BY <1>3, ServerMoves
  <2>2. CASE LoginLoad(t)
    <3>1. revoked /\ UNCHANGED user /\ tab[t].pc = "login"
      BY <2>2 DEF LoginLoad, history
    <3>2. tab'[t].pc = "checked" => tab'[t].kind = "login"
      BY <2>2, <3>1, ServerMoves DEF LoginsAreLogins
    <3> QED BY <2>1, <3>1, <3>2 DEF OutAtTheApi
  <2>3. CASE RefreshLoad(t)
    <3>1. revoked /\ UNCHANGED user
      BY <2>3 DEF RefreshLoad, history
    <3>2. tab'[t].pc # "checked"
      BY <2>3, <3>1, ServerMoves DEF OutAtTheApi
    <3> QED BY <2>1, <3>1, <3>2 DEF OutAtTheApi
  <2>4. CASE RefreshBlocked(t)
    <3>1. revoked /\ user'.refreshTokenHash = None
      BY <2>4 DEF RefreshBlocked, clearRefreshTokenHash, TypeOK, UserType
    <3>2. tab'[t].pc # "checked"
      BY <2>4, ServerMoves
    <3> QED BY <2>1, <3>1, <3>2 DEF OutAtTheApi
  <2>5. CASE issueTokens(t)
    <3>1. revoked /\ tab[t].kind # "login" /\ tab[t].pc = "checked"
      BY <2>5 DEF issueTokens
    <3> QED BY <3>1 DEF OutAtTheApi
  <2>6. CASE Logout(t)
    <3>1. tab'[t].pc # "checked"
      BY <2>6, ServerMoves
    <3>2. CASE Authenticated(t)
      <4>1. user'.refreshTokenHash = None /\ \A u \in Tabs : tab[u].pc # "checked"
        BY <2>6, <3>2 DEF Logout, clearRefreshTokenHash, TypeOK, UserType
      <4> QED BY <2>1, <3>1, <4>1
    <3>3. CASE ~Authenticated(t)
      <4>1. revoked /\ UNCHANGED user
        BY <2>6, <3>3 DEF Logout
      <4> QED BY <2>1, <3>1, <4>1 DEF OutAtTheApi
    <3> QED BY <3>2, <3>3
  <2> QED BY <1>3, <2>2, <2>3, <2>4, <2>5, <2>6 DEF ServerStep
<1> QED BY <1>1, <1>2, <1>3, Steps

LEMMA UnrefusedNext ==
  ASSUME TypeOK, Unrefused, [Next]_vars
  PROVE  Unrefused'
<1> SUFFICES ASSUME ~excused'
             PROVE  /\ \A u \in Tabs : tab'[u].pc # "refused"
                    /\ \/ user'.refreshTokenHash # None
                       \/ /\ \A b \in Browsers : store'[b] = None
                          /\ \A u \in Tabs : tab'[u].pc \notin {"refreshing", "answered"}
  BY DEF Unrefused
<1> DEFINE Hash  == user'.refreshTokenHash # None
           Empty == /\ \A b \in Browsers : store'[b] = None
                    /\ \A u \in Tabs : tab'[u].pc \notin {"refreshing", "answered"}
           Goal  == (\A u \in Tabs : tab'[u].pc # "refused") /\ (Hash \/ Empty)
<1>1. CASE AsideTabs
  BY <1>1 DEF AsideTabs, Unrefused
<1>2. ASSUME NEW t \in Tabs, ClientStep(t) PROVE Goal
  <2>1. ~excused /\ UNCHANGED user
    BY <1>2, StoreMoves
  <2>2. \A u \in Tabs \ {t} : tab'[u] = tab[u]
    BY <1>2, ClientMoves
  <2>3. \A u \in Tabs : tab'[u].pc # "refused"
    BY <1>2, <2>1, <2>2, ClientMoves DEF Quiet, Unrefused
  <2>4. ASSUME user.refreshTokenHash = None PROVE Empty
    <3>1. /\ \A b \in Browsers : store[b] = None
          /\ \A u \in Tabs : tab[u].pc \notin {"refreshing", "answered"}
      BY <2>1, <2>4 DEF Unrefused
    <3>2. \A b \in Browsers : store'[b] = None
      <4>1. store \in [Browsers -> Kept \cup {None}]
        BY DEF TypeOK
      <4> QED BY <1>2, <3>1, <4>1, StoreMoves DEF clearAuthSession
    <3>3. StoreOf(t) = None
      BY <3>1, TabsOK DEF StoreOf
    <3>4. tab'[t].pc \notin {"refreshing", "answered"}
      BY <1>2, <3>3, ClientMoves DEF Quiet
    <3> QED BY <2>2, <3>1, <3>2, <3>4
  <2> QED BY <2>1, <2>3, <2>4
<1>3. ASSUME NEW t \in Tabs, ServerStep(t) PROVE Goal
  <2>1. UNCHANGED store /\ \A u \in Tabs \ {t} : tab'[u] = tab[u]
    BY <1>3, ServerKeeps, ServerMoves
  <2>2. CASE LoginLoad(t)
    <3>1. ~excused /\ UNCHANGED user
      BY <2>2 DEF LoginLoad, history
    <3>2. tab'[t].pc \in {"idle", "checked"}
      BY <2>2, ServerMoves
    <3> QED BY <2>1, <3>1, <3>2 DEF Unrefused
  <2>3. CASE RefreshLoad(t)
    <3>1. ~excused /\ UNCHANGED user /\ tab[t].pc = "refreshing"
      BY <2>3 DEF RefreshLoad, history
    <3>2. user.refreshTokenHash # None
      BY <3>1 DEF Unrefused
    <3>3. tab'[t].pc \in {"blocking", "checked"}
      BY <2>3, <3>2, ServerMoves
    <3> QED BY <2>1, <3>1, <3>2, <3>3 DEF Unrefused
  <2>4. CASE RefreshBlocked(t)
    BY <2>4 DEF RefreshBlocked
  <2>5. CASE issueTokens(t)
    <3>1. ~excused
      BY <2>5 DEF issueTokens
    <3>2. tab'[t].pc = "answered" /\ user'.refreshTokenHash \in Tokens
      BY <2>5, ServerMoves
    <3>3. Hash
      BY <3>2, AuthSessionsAssumption DEF Tokens
    <3> QED BY <2>1, <3>1, <3>2, <3>3 DEF Unrefused
  <2>6. CASE Logout(t)
    <3>1. ~excused /\ UNCHANGED user
      BY <2>6 DEF Logout
    <3>2. tab'[t].pc = "signedOut"
      BY <2>6, ServerMoves
    <3> QED BY <2>1, <3>1, <3>2 DEF Unrefused
  <2> QED BY <1>3, <2>2, <2>3, <2>4, <2>5, <2>6 DEF ServerStep
<1> QED BY <1>1, <1>2, <1>3, Steps

\* A tab's steps leave what the reset tokens are about alone.
LEMMA TabsReset ==
  ASSUME TypeOK, NEW t \in Tabs, ClientStep(t) \/ ServerStep(t)
  PROVE  /\ user'.password = user.password /\ user'.resetToken = user.resetToken
         /\ UNCHANGED <<resets, uses>>
<1>1. CASE ClientStep(t)
  <2>1. UNCHANGED user
    BY <1>1, StoreMoves
  <2>2. UNCHANGED <<resets, uses>>
    BY <1>1 DEF ClientStep, Query, Navigate, AskAgain, Serve, Reject, Refused, Refreshed,
       SignedIn, SignOut, SignedOut, Fault, SignIn, history
  <2> QED BY <2>1, <2>2
<1>2. CASE ServerStep(t)
  <2>1. user' = user \/ \E n : user' = [user EXCEPT !.refreshTokenHash = n]
    BY <1>2 DEF ServerStep, LoginLoad, RefreshLoad, RefreshBlocked, issueTokens, Logout,
       storeRefreshTokenHash, clearRefreshTokenHash
  <2>2. user'.password = user.password /\ user'.resetToken = user.resetToken
    BY <2>1 DEF TypeOK, UserType
  <2> QED BY <1>2, <2>2, ServerKeeps
<1> QED BY <1>1, <1>2

LEMMA ResetsNext ==
  ASSUME TypeOK, ResetTokens, [Next]_vars
  PROVE  ResetTokens'
<1> USE DEF history
<1>t. resets \in Nat /\ user \in UserType /\ uses \in [1..MaxResets -> Nat]
  BY AuthSessionsAssumption DEF TypeOK
<1>1. ASSUME NEW t \in Tabs, ClientStep(t) \/ ServerStep(t) PROVE ResetTokens'
  BY <1>1, TabsReset DEF ResetTokens, ResetOnce
<1>2. CASE ForgotPassword
  <2>1. /\ user'.password = user.password /\ user'.resetToken = resets + 1
        /\ resets' = resets + 1 /\ UNCHANGED uses
    BY <1>2, <1>t DEF ForgotPassword, setResetPasswordToken, UserType
  <2>2. resets + 1 \in 1..MaxResets
    BY <1>2, <1>t, AuthSessionsAssumption DEF ForgotPassword
  <2>3. uses[resets + 1] = 0
    BY <1>t, <2>2 DEF ResetTokens
  <2>4. \A k \in 1..MaxResets : k > resets' => uses'[k] = 0
    BY <1>t, <2>1 DEF ResetTokens
  <2> QED BY <1>t, <2>1, <2>3, <2>4 DEF ResetTokens, ResetOnce
<1>3. ASSUME NEW k \in 1..resets, ResetPassword(k) PROVE ResetTokens'
  <2>1. /\ user.resetToken = k
        /\ user'.password = k /\ user'.resetToken = None
        /\ UNCHANGED resets /\ uses' = [uses EXCEPT ![k] = @ + 1]
    BY <1>3, <1>t DEF ResetPassword, resetPasswordByTokenHash, UserType
  <2>2. k \in 1..MaxResets /\ k # None
    BY <1>3, AuthSessionsAssumption DEF TypeOK
  <2>3. uses[k] = 0
    BY <2>1, <2>2 DEF ResetTokens
  <2>4. uses'[k] = 1 /\ \A j \in (1..MaxResets) \ {k} : uses'[j] = uses[j]
    BY <1>t, <2>1, <2>2, <2>3
  <2>5. \A j \in 1..MaxResets : j > resets' => uses'[j] = 0
    BY <1>t, <2>1, <2>4 DEF ResetTokens
  <2>6. ResetOnce'
    BY <2>1, <2>4 DEF ResetTokens, ResetOnce
  <2> QED BY <2>1, <2>5, <2>6 DEF ResetTokens
<1>4. CASE ConfirmVerification \/ Suspend \/ PeriodEnds
  <2>1. user'.password = user.password /\ user'.resetToken = user.resetToken
    BY <1>4, <1>t DEF ConfirmVerification, Suspend, PeriodEnds, verifyEmailByTokenHash, UserType
  <2>2. UNCHANGED <<resets, uses>>
    BY <1>4 DEF ConfirmVerification, Suspend, PeriodEnds
  <2> QED BY <2>1, <2>2 DEF ResetTokens, ResetOnce
<1>5. CASE UNCHANGED vars
  BY <1>5 DEF vars, ResetTokens, ResetOnce
<1> QED
  BY <1>1, <1>2, <1>3, <1>4, <1>5, Zenon DEF Next, TabStep, ClientStep, ServerStep

-----------------------------------------------------------------------------
(* Theorems.                                                               *)

LEMMA SessionsInit == Init => Sessions
<1> SUFFICES ASSUME Init PROVE Sessions
  OBVIOUS
<1>1. \A t \in Tabs : tab[t].pc = "idle"
  BY DEF Init, IdleTab
<1>2. OutAndAlone /\ OutAtTheApi /\ LoginsAreLogins /\ Unrefused
  BY <1>1 DEF Init, OutAndAlone, OutAtTheApi, LoginsAreLogins, Unrefused
<1>3. ResetTokens
  BY DEF Init, ResetTokens, ResetOnce
<1> QED BY <1>2, <1>3, InitType DEF Sessions

\* AuthService and the clients of a user: Sessions holds in every reachable state.
THEOREM SessionsHold == Spec => []Sessions
<1>1. Sessions /\ [Next]_vars => Sessions'
  BY TypeNext, AnswersNext, OutNext, RevokedNext, LoginsNext, UnrefusedNext, ResetsNext
     DEF Sessions
<1> QED BY <1>1, SessionsInit, PTL DEF Spec

\* The user's document, the storage of every browser and every call keep their
\* types; in particular issueTokens always finds a token that is not in use.
THEOREM TypesHold == Spec => []TypeOK
<1>1. Sessions => TypeOK
  BY DEF Sessions
<1> QED BY <1>1, SessionsHold, PTL

\* Signing out holds: a browser signed out with nothing under way stays signed
\* out, and after a logout only a login gives the user a refresh token again.
THEOREM SigningOut == Spec => []SignOutHolds
<1>1. Sessions => SignOutHolds
  BY DEF Sessions, OutAndAlone, OutAtTheApi, SignOutHolds, SignedOutStaysOut, LogoutRevokes
<1> QED BY <1>1, SessionsHold, PTL

\* resetPasswordByTokenHash: no reset token sets a password twice.
THEOREM ResettingOnce == Spec => []ResetOnce
<1>1. Sessions => ResetOnce
  BY DEF Sessions, ResetTokens
<1> QED BY <1>1, SessionsHold, PTL

\* Undisturbed sessions live on, whatever the tabs refresh: a browser loses its
\* tokens only to a sign-out of its own, or after a failure, a logout or a block.
THEOREM SessionsLiveOn == Spec => SessionsSurvive
<1> DEFINE Loss(b) == store[b] # None /\ store'[b] = None
           Survive == \A b \in Browsers : Loss(b) =>
                        \/ excused'
                        \/ \E t \in Tabs : home[t] = b /\ tab[t].pc = "signedOut"
<1>1. ASSUME Sessions, [Next]_vars PROVE Survive
  <2> SUFFICES ASSUME NEW b \in Browsers, store[b] # None, store'[b] = None, ~excused'
               PROVE  \E t \in Tabs : home[t] = b /\ tab[t].pc = "signedOut"
    OBVIOUS
  <2> TypeOK /\ Unrefused
    BY <1>1 DEF Sessions
  <2>1. ~AsideTabs
    BY DEF AsideTabs
  <2>2. ASSUME NEW t \in Tabs, ServerStep(t) PROVE FALSE
    BY <2>2, ServerKeeps
  <2>3. ASSUME NEW t \in Tabs, ClientStep(t) PROVE home[t] = b /\ tab[t].pc = "signedOut"
    <3>1. ~excused
      BY <2>3, StoreMoves
    <3>2. ~Refused(t) /\ ~Fault(t)
      BY <3>1 DEF Unrefused, Refused, Fault
    <3>3. ~setAuthSession(t)
      <4>1. tab[t].access \in Nat /\ tab[t].refresh \in Nat
        BY TabsOK, AuthSessionsAssumption DEF TabType, Tokens
      <4>2. [access |-> tab[t].access, refresh |-> tab[t].refresh] # None
        BY <4>1, AuthSessionsAssumption
      <4> QED BY <4>2 DEF setAuthSession, TypeOK
    <3>4. clearAuthSession(t) /\ store' # store
      BY <2>3, <3>3, StoreMoves
    <3>5. home[t] = b
      BY <3>4 DEF clearAuthSession, TypeOK
    <3>6. ~Reject(t)
      <4>1. StoreOf(t) # None
        BY <3>5 DEF StoreOf
      <4> QED BY <3>4, <4>1, Zenon DEF Reject
    <3>7. SignedOut(t)
      BY <2>3, <3>2, <3>3, <3>4, <3>6, Zenon DEF ClientStep, Query, Navigate, AskAgain, Serve,
         Refreshed, SignedIn, SignOut, SignIn
    <3> QED BY <3>5, <3>7 DEF SignedOut
  <2> QED BY <1>1, <2>1, <2>2, <2>3, Steps
<1>2. Sessions /\ [Next]_vars => [Survive]_vars
  BY <1>1
<1> QED BY <1>2, SessionsHold, PTL DEF Spec, SessionsSurvive
=============================================================================
