---------------------------- MODULE AuthSessions ----------------------------
(***************************************************************************)
(* The sessions of one user: the document the API keeps, the storage of    *)
(* each browser, and chains of calls.  A tab is one chain: it calls the    *)
(* API, refreshes the session when that is refused, tries once more, signs *)
(* in or out.  The tabs of a browser share its storage, and nothing tells  *)
(* one what another has under way.                                         *)
(*                                                                         *)
(* Access tokens are as old as the period of 15 minutes they were issued   *)
(* in: they are valid while it lasts.  Refresh tokens are numbered; within *)
(* the seven days of a refresh token nothing else distinguishes them.  The *)
(* two cookies are set and cleared with the storage and are not kept       *)
(* apart.                                                                  *)
(***************************************************************************)
EXTENDS Naturals, FiniteSets

CONSTANTS
  Tabs,         \* chains of calls
  Browsers,
  Homes,        \* the ways in which tabs belong to browsers
  None,
  MaxPeriods,   \* bound: periods of 15 minutes
  MaxResets,    \* bound: forgotten passwords
  MaxFaults     \* bound: calls that fail

ASSUME AuthSessionsAssumption ==
  /\ IsFiniteSet(Tabs) /\ IsFiniteSet(Browsers)
  /\ Homes \subseteq [Tabs -> Browsers]
  /\ MaxPeriods \in Nat \ {0} /\ MaxResets \in Nat /\ MaxFaults \in Nat
  /\ None \notin Nat
  /\ None \notin [access : Nat, refresh : Nat]

VARIABLES
  user,       \* the stored document
  store,      \* of each browser: the tokens kept, or None
  home,       \* the browser of each tab
  tab,        \* what each tab is doing
  period,     \* the clock
  resets,     \* reset tokens given out so far
  faults,
  signedOut,  \* history: signed out while no other tab was about to store tokens
  revoked,    \* history: logged out while no other call was about to issue tokens
  uses,       \* history: how often each reset token has set a password
  excused     \* history: has a call failed, or the user logged out or been blocked?

vars == <<user, store, home, tab, period, resets, faults, signedOut, revoked, uses, excused>>
history == <<signedOut, revoked, uses, excused>>

UserStatus == {"invited", "pending_verification", "active", "suspended"}
MayLogin   == {"active", "pending_verification"}

\* One more than are ever kept or on their way at once.
Tokens == 1 .. (Cardinality(Tabs) + Cardinality(Browsers) + 2)

IdleTab(page) == [page |-> page, pc |-> "idle", kind |-> "data", again |-> FALSE,
                  access |-> 0, refresh |-> 0, typed |-> 0]

Init ==
  /\ user = [password |-> 0, status |-> "active", refreshTokenHash |-> None,
             resetToken |-> None, resetLive |-> FALSE]
  /\ store = [b \in Browsers |-> None]
  /\ home \in Homes
  /\ tab = [t \in Tabs |-> IdleTab("sign-in")]
  /\ period = 1 /\ resets = 0 /\ faults = 0
  /\ signedOut = [b \in Browsers |-> FALSE]
  /\ revoked = FALSE /\ excused = FALSE
  /\ uses = [k \in 1..MaxResets |-> 0]

-----------------------------------------------------------------------------
(* What the web client does with its storage.                              *)

StoreOf(t) == store[home[t]]

setAuthSession(t) ==
  store' = [store EXCEPT ![home[t]] = [access |-> tab[t].access, refresh |-> tab[t].refresh]]

clearAuthSession(t) == store' = [store EXCEPT ![home[t]] = None]

Go(t, pc)   == tab' = [tab EXCEPT ![t].pc = pc]
AtRest(t)   == tab[t].pc = "idle"

\* A request that carries the access token of the storage.
AuthorizedCall(t, kind, again) ==
  tab' = [tab EXCEPT ![t].pc = "called", ![t].kind = kind, ![t].again = again,
                     ![t].access = StoreOf(t).access, ![t].page = "app"]

\* A query of a page fails and shows its error.  The shell asks who the user
\* is: it asks twice, and then it takes the session away.
Fail(t, clear) ==
  LET shell == tab[t].kind = "me"
      over  == shell /\ tab[t].again
  IN /\ tab' = [tab EXCEPT ![t] = IF over THEN IdleTab("sign-in")
                                  ELSE IF shell THEN [@ EXCEPT !.pc = "again"]
                                  ELSE IdleTab("app")]
     /\ IF clear \/ over THEN clearAuthSession(t) ELSE UNCHANGED store

-----------------------------------------------------------------------------
(* Calls of the web client.                                                *)

Query(t) ==
  /\ AtRest(t) /\ tab[t].page = "app" /\ StoreOf(t) # None
  /\ AuthorizedCall(t, "data", FALSE)
  /\ UNCHANGED <<user, store, home, period, resets, faults, history>>

\* Whose session is it?  Asked again once, with the tokens kept by then.
getMe(t, again) ==
  IF StoreOf(t) = None
    THEN tab' = [tab EXCEPT ![t] = IdleTab("sign-in")]
    ELSE AuthorizedCall(t, "me", again)

\* The middleware: with cookies every page but the sign-in page, without them
\* only that one.
middleware(t) == IF StoreOf(t) = None THEN "sign-in" ELSE "app"

\* The shell of a page asks who the user is.
Navigate(t) ==
  /\ AtRest(t)
  /\ {tab[t].page, middleware(t)} # {"sign-in"}
  /\ getMe(t, FALSE)
  /\ UNCHANGED <<user, store, home, period, resets, faults, history>>

AskAgain(t) ==
  /\ tab[t].pc = "again"
  /\ getMe(t, TRUE)
  /\ UNCHANGED <<user, store, home, period, resets, faults, history>>

\* JwtStrategy looks at the token only.
Authenticated(t) == tab[t].access = period

Serve(t) ==
  /\ tab[t].pc \in {"called", "retried"} /\ Authenticated(t)
  /\ tab' = [tab EXCEPT ![t] = IdleTab("app")]
  /\ UNCHANGED <<user, store, home, period, resets, faults, history>>

\* 401: refreshSession takes the refresh token that is kept by now.
Reject(t) ==
  /\ tab[t].pc = "called" /\ ~Authenticated(t)
  /\ IF StoreOf(t) = None
       THEN Fail(t, TRUE)
       ELSE /\ tab' = [tab EXCEPT ![t].pc = "refreshing", ![t].refresh = StoreOf(t).refresh]
            /\ UNCHANGED store
  /\ UNCHANGED <<user, home, period, resets, faults, history>>

Refused(t) ==
  /\ tab[t].pc = "refused"
  /\ Fail(t, TRUE)
  /\ UNCHANGED <<user, home, period, resets, faults, history>>

\* The new tokens are kept, whatever has become of the storage meanwhile.
Refreshed(t) ==
  /\ tab[t].pc = "answered" /\ tab[t].kind # "login"
  /\ setAuthSession(t)
  /\ tab' = [tab EXCEPT ![t].pc = "retried", ![t].refresh = 0]
  /\ UNCHANGED <<user, home, period, resets, faults, history>>

SignIn(t, typed) ==
  /\ AtRest(t) /\ tab[t].page = "sign-in"
  /\ tab' = [tab EXCEPT ![t].pc = "login", ![t].kind = "login", ![t].typed = typed]
  /\ signedOut' = [signedOut EXCEPT ![home[t]] = FALSE]
  /\ UNCHANGED <<user, store, home, period, resets, faults, revoked, uses, excused>>

SignedIn(t) ==
  /\ tab[t].pc = "answered" /\ tab[t].kind = "login"
  /\ setAuthSession(t)
  /\ tab' = [tab EXCEPT ![t] = IdleTab("app")]
  /\ UNCHANGED <<user, home, period, resets, faults, history>>

SignOut(t) ==
  /\ AtRest(t) /\ tab[t].page = "app"
  /\ tab' = [tab EXCEPT ![t].pc = IF StoreOf(t) = None THEN "signedOut" ELSE "signingOut",
                        ![t].access = IF StoreOf(t) = None THEN 0 ELSE StoreOf(t).access]
  /\ UNCHANGED <<user, store, home, period, resets, faults, history>>

\* About to store tokens.
Storing(t) == tab[t].pc \in {"login", "refreshing", "checked", "answered"}

Alone(t) == \A u \in Tabs \ {t} : home[u] = home[t] => ~Storing(u)

\* Mutant of SignedOut: the storage is cleared only if the API was told.
SignedOut_IfToken(t) ==
  /\ tab[t].pc = "signedOut"
  /\ IF Authenticated(t) THEN clearAuthSession(t) ELSE UNCHANGED store
  /\ signedOut' = [signedOut EXCEPT ![home[t]] = Alone(t)]
  /\ tab' = [tab EXCEPT ![t] = IdleTab("sign-in")]
  /\ UNCHANGED <<user, home, period, resets, faults, revoked, uses, excused>>

\* Whatever the API answered.
SignedOut(t) ==
  /\ tab[t].pc = "signedOut"
  /\ clearAuthSession(t)
  /\ signedOut' = [signedOut EXCEPT ![home[t]] = Alone(t)]
  /\ tab' = [tab EXCEPT ![t] = IdleTab("sign-in")]
  /\ UNCHANGED <<user, home, period, resets, faults, revoked, uses, excused>>

-----------------------------------------------------------------------------
(* The user's document: each of these is one update.                       *)

storeRefreshTokenHash(n) == user' = [user EXCEPT !.refreshTokenHash = n]

clearRefreshTokenHash == user' = [user EXCEPT !.refreshTokenHash = None]

setResetPasswordToken(k) == user' = [user EXCEPT !.resetToken = k, !.resetLive = TRUE]

\* Mutant of resetPasswordByTokenHash: the token is left in the document.
resetPasswordByTokenHash_Again(k) ==
  /\ user.resetToken = k /\ user.resetLive
  /\ user' = [user EXCEPT !.password = k, !.status = "active"]

\* The last token given out, while it lives.  It makes the user ACTIVE, whatever
\* the status was, and leaves the sessions alone.
resetPasswordByTokenHash(k) ==
  /\ user.resetToken = k /\ user.resetLive
  /\ user' = [user EXCEPT !.password = k, !.status = "active",
                          !.resetToken = None, !.resetLive = FALSE]

\* Mutant of verifyEmailByTokenHash: a status of the user's e-mail is stored.
verifyEmailByTokenHash_Verified == user' = [user EXCEPT !.status = "verified"]

\* Likewise.
verifyEmailByTokenHash == user' = [user EXCEPT !.status = "active"]

-----------------------------------------------------------------------------
(* The API.                                                                *)

\* Mutant of Matches: the hash tells one token from another.
Matches_Strict(token, hash) == token = hash

\* bcrypt reads 72 bytes.  These are, of a token of ours, its header and the
\* beginning of the user's id: every refresh token of the user matches.
Matches(token, hash) == TRUE

LoginLoad(t) ==
  /\ tab[t].pc = "login"
  /\ tab' = [tab EXCEPT ![t] =
       IF tab[t].typed = user.password /\ user.status \in MayLogin
         THEN [@ EXCEPT !.pc = "checked", !.typed = 0] ELSE IdleTab("sign-in")]
  /\ UNCHANGED <<user, store, home, period, resets, faults, history>>

RefreshLoad(t) ==
  /\ tab[t].pc = "refreshing"
  /\ tab' = [tab EXCEPT ![t].refresh = 0, ![t].access = 0, ![t].pc =
       IF user.refreshTokenHash = None THEN "refused"
       ELSE IF user.status \notin MayLogin THEN "blocking"
       ELSE IF Matches(tab[t].refresh, user.refreshTokenHash) THEN "checked" ELSE "refused"]
  /\ UNCHANGED <<user, store, home, period, resets, faults, history>>

\* A user who may not refresh loses the token as well.
RefreshBlocked(t) ==
  /\ tab[t].pc = "blocking"
  /\ clearRefreshTokenHash
  /\ excused' = TRUE
  /\ Go(t, "refused")
  /\ UNCHANGED <<store, home, period, resets, faults, signedOut, revoked, uses>>

InUse == {user.refreshTokenHash} \cup {tab[t].refresh : t \in Tabs}
         \cup {store[b].refresh : b \in {b \in Browsers : store[b] # None}}

issueTokens(t) ==
  LET new == CHOOSE n \in Tokens : n \notin InUse IN
  /\ tab[t].pc = "checked"
  /\ storeRefreshTokenHash(new)
  /\ tab' = [tab EXCEPT ![t].pc = "answered", ![t].access = period, ![t].refresh = new]
  /\ revoked' = (revoked /\ tab[t].kind # "login")
  /\ UNCHANGED <<store, home, period, resets, faults, signedOut, uses, excused>>

\* A logout whose access token has expired is refused and changes nothing.
Logout(t) ==
  /\ tab[t].pc = "signingOut"
  /\ IF Authenticated(t)
       THEN /\ clearRefreshTokenHash
            /\ revoked' = (\A u \in Tabs : tab[u].pc # "checked")
            /\ excused' = TRUE
       ELSE UNCHANGED <<user, revoked, excused>>
  /\ Go(t, "signedOut")
  /\ UNCHANGED <<store, home, period, resets, faults, signedOut, uses>>

\* A request or its answer is lost, or the handler fails after the tokens were
\* stored.  A failed refresh clears the storage, a failed call does not.
Fault(t) ==
  /\ faults < MaxFaults /\ faults' = faults + 1
  /\ excused' = TRUE
  /\ CASE tab[t].pc \in {"called", "retried"} -> Fail(t, FALSE)
       [] tab[t].pc \in {"refreshing", "answered"} /\ tab[t].kind # "login" -> Fail(t, TRUE)
       [] tab[t].pc \in {"login", "answered"} /\ tab[t].kind = "login" ->
            tab' = [tab EXCEPT ![t] = IdleTab("sign-in")] /\ UNCHANGED store
       [] tab[t].pc = "signingOut" -> Go(t, "signedOut") /\ UNCHANGED store
       [] OTHER -> FALSE
  /\ UNCHANGED <<user, home, period, resets, signedOut, revoked, uses>>

ForgotPassword ==
  /\ resets < MaxResets
  /\ resets' = resets + 1
  /\ setResetPasswordToken(resets + 1)
  /\ UNCHANGED <<store, home, tab, period, faults, history>>

ResetPassword(k) ==
  /\ resetPasswordByTokenHash(k)
  /\ uses' = [uses EXCEPT ![k] = @ + 1]
  /\ UNCHANGED <<store, home, tab, period, resets, faults, signedOut, revoked, excused>>

\* A verification token was asked for and is used: only the use shows.
ConfirmVerification ==
  /\ user.status # "active"
  /\ verifyEmailByTokenHash
  /\ UNCHANGED <<store, home, tab, period, resets, faults, history>>

\* Nothing in the repository suspends a user, but login and refresh expect it.
Suspend ==
  /\ user.status # "suspended"
  /\ user' = [user EXCEPT !.status = "suspended"]
  /\ UNCHANGED <<store, home, tab, period, resets, faults, history>>

\* Tokens are not on their way for 15 minutes.
PeriodEnds ==
  /\ period < MaxPeriods
  /\ \A t \in Tabs : tab[t].pc \notin {"answered", "retried"}
  /\ period' = period + 1
  /\ user' = [user EXCEPT !.resetLive = FALSE]
  /\ UNCHANGED <<store, home, tab, resets, faults, history>>

TabStep(t) ==
  \/ AskAgain(t) \/ Serve(t) \/ Reject(t) \/ Refused(t) \/ Refreshed(t) \/ SignedIn(t)
  \/ SignedOut(t) \/ LoginLoad(t) \/ RefreshLoad(t) \/ RefreshBlocked(t)
  \/ issueTokens(t) \/ Logout(t)

Next ==
  \/ \E t \in Tabs :
       \/ Query(t) \/ Navigate(t) \/ SignOut(t) \/ TabStep(t) \/ Fault(t)
       \/ \E typed \in {0, resets} : SignIn(t, typed)
  \/ ForgotPassword \/ ConfirmVerification \/ Suspend \/ PeriodEnds
  \/ \E k \in 1..resets : ResetPassword(k)

Spec == Init /\ [][Next]_vars

-----------------------------------------------------------------------------
TabStates ==
  {"idle", "called", "refreshing", "checked", "blocking", "answered", "refused", "retried",
   "again", "login", "signingOut", "signedOut"}

TabType ==
  [page : {"sign-in", "app"}, pc : TabStates, kind : {"data", "me", "login"}, again : BOOLEAN,
   access : 0..MaxPeriods, refresh : Tokens \cup {0}, typed : 0..MaxResets]

UserType ==
  [password : 0..MaxResets, status : UserStatus, refreshTokenHash : Tokens \cup {None},
   resetToken : 1..MaxResets \cup {None}, resetLive : BOOLEAN]

\* Tokens as a browser keeps them.
Kept == [access : 0..MaxPeriods, refresh : Tokens]

\* The type invariant of AuthService, the web client's storage and its calls.
TypeOK ==
  /\ user \in UserType
  /\ store \in [Browsers -> Kept \cup {None}]
  /\ home \in Homes
  /\ tab \in [Tabs -> TabType]
  /\ period \in 1..MaxPeriods /\ resets \in 0..MaxResets /\ faults \in 0..MaxFaults
  /\ signedOut \in [Browsers -> BOOLEAN]
  /\ revoked \in BOOLEAN /\ excused \in BOOLEAN
  /\ uses \in [1..MaxResets -> Nat]

\* signOut and the late answers of other tabs: a browser that was signed out
\* keeps no tokens until somebody signs in there, unless a refresh or a login
\* of another tab was under way when its storage was cleared.
SignedOutStaysOut == \A b \in Browsers : signedOut[b] => store[b] = None

\* logout against refresh: once the hash is cleared no refresh token brings it
\* back; only a login does, or a refresh that had passed its checks before.
LogoutRevokes == revoked => user.refreshTokenHash = None

\* Signing out holds, in the browser and at the API.
SignOutHolds == SignedOutStaysOut /\ LogoutRevokes

\* resetPasswordByTokenHash: a reset token sets a password once at most, and
\* the password is the one set with the token that was used last.
ResetOnce ==
  /\ \A k \in 1..MaxResets : uses[k] <= 1
  /\ user.password # 0 => uses[user.password] = 1

\* Refreshes of several tabs, each storing a hash over the others': a browser
\* loses its session only where somebody signs out there, or after a call has
\* failed or the user was logged out or blocked somewhere.
SessionsSurvive ==
  [][\A b \in Browsers : (store[b] # None /\ store'[b] = None) =>
       \/ excused'
       \/ \E t \in Tabs : home[t] = b /\ tab[t].pc = "signedOut"]_vars
=============================================================================
