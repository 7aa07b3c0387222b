----------------------------- MODULE AdminSession -----------------------------
(***************************************************************************)
(* The session of one browser tab of the admin panel: the token pair kept  *)
(* in localStorage (lib/api.ts), the AuthProvider that owns the shown user *)
(* (lib/auth.tsx), the guard of the dashboard layout, the login page, the  *)
(* logout button, and any number of API calls of the pages, every one with *)
(* its own refresh and retry. Between two steps of a call anything else in *)
(* the tab may run; what follows an answer up to the next request is one   *)
(* step, as it is one task of the event loop. A pair of tokens is abstract:*)
(* its owner, whether the access token has expired, whether the refresh    *)
(* token has. The Back button of the browser to the login page while       *)
(* signed in is not modelled.                                              *)
(***************************************************************************)
EXTENDS Naturals

CONSTANTS Users,       \* the admins that use this tab
          NoUser,      \* null, for users and for the owner of an absent pair
          Pages,       \* slots for the API calls of the pages of the dashboard
          Logouts,     \* slots for clicks on the logout button, which stays enabled
          MaxReloads   \* bound: how often the tab is reloaded

ASSUME SessionAssumption == /\ NoUser \notin Users
                            /\ (Pages \cup Logouts) \cap {"boot", "login", "me"} = {}
                            /\ Pages \cap Logouts = {}
                            /\ MaxReloads \in Nat

VARIABLES
  store,     \* the pair in localStorage
  user,      \* the user the AuthProvider shows
  loading,   \* AuthProvider's loading
  route,     \* "login" or "app" (any page of the dashboard)
  at,        \* per call: "idle", "sent", "refreshing", "resent"
  tok,       \* per call: the pair its last request was made with
  cred,      \* the account of the submitted form, NoUser when it is refused
  denied,    \* the page calls whose last answer, after the retry if there was one, was a 401
  faulty,    \* whether requests may fail and refresh tokens end in this behaviour
  reloads,   \* number of reloads so far
  old,       \* history: calls whose session ended while they were in flight
  crossed,   \* history: a call of an ended session has changed the present one
  signedOut  \* history: the last change of the session was a logout

vars == <<store, user, loading, route, at, tok, cred, denied, faulty, reloads, old, crossed, signedOut>>

Calls == {"boot", "login", "me"} \cup Logouts \cup Pages
Pairs == [user : Users \cup {NoUser}, exp : BOOLEAN, dead : BOOLEAN]
None == [user |-> NoUser, exp |-> TRUE, dead |-> TRUE]
MutantFresh(u) == [user |-> u, exp |-> FALSE]
Fresh(u) == [user |-> u, exp |-> FALSE, dead |-> FALSE]
Present(p) == p.user # NoUser
Active(c) == at[c] # "idle"

\* The effect of AuthProvider: without a token it only ends loading, with one it asks who it is.
Mount(st, r) ==
  /\ user' = NoUser
  /\ loading' = Present(st)
  /\ route' = IF Present(st) THEN r ELSE "login"
  /\ at' = [c \in Calls |-> IF c = "boot" /\ Present(st) THEN "sent" ELSE "idle"]
  /\ tok' = [c \in Calls |-> IF c = "boot" THEN st ELSE None]

Init ==
  /\ store \in {None} \cup {Fresh(u) : u \in Users}
  /\ user = NoUser
  /\ loading = Present(store)
  /\ route = IF Present(store) THEN "app" ELSE "login"
  /\ at = [c \in Calls |-> IF c = "boot" /\ Present(store) THEN "sent" ELSE "idle"]
  /\ tok = [c \in Calls |-> IF c = "boot" THEN store ELSE None]
  /\ cred = NoUser
  /\ denied = {}
  /\ faulty \in BOOLEAN
  /\ reloads = 0
  /\ old = {}
  /\ crossed = FALSE
  /\ signedOut = FALSE

\* The page is loaded anew: all that is left is localStorage.
Reload(r) ==
  /\ reloads < MaxReloads
  /\ reloads' = reloads + 1
  /\ Mount(store, r)
  /\ denied' = {}
  /\ cred' = NoUser
  /\ old' = {}
  /\ UNCHANGED <<store, faulty, crossed, signedOut>>

\* apiFetch reads the access token and sends the request.
Send(c, pair) ==
  /\ at' = [at EXCEPT ![c] = "sent"]
  /\ tok' = [tok EXCEPT ![c] = pair]

\* A page of the dashboard is rendered only for a user.
Shown == route = "app" /\ ~loading /\ user # NoUser

PageCall(c) ==
  /\ Shown
  /\ c \in Pages /\ ~Active(c)
  /\ Send(c, store)
  /\ denied' = denied \ {c}
  /\ old' = old \ {c}
  /\ UNCHANGED <<store, user, loading, route, cred, faulty, reloads, crossed, signedOut>>

Logout(c) ==
  /\ Shown
  /\ c \in Logouts /\ ~Active(c)
  /\ Send(c, store)
  /\ old' = old \ {c}
  /\ UNCHANGED <<store, user, loading, route, cred, denied, faulty, reloads, crossed, signedOut>>

\* The form is sent once at a time: its button is busy until login returns.
CanSubmit == route = "login" /\ ~Active("login") /\ ~Active("me")

Submit(u) ==
  /\ CanSubmit
  /\ cred' = u
  /\ Send("login", store)
  /\ old' = old \ {"login", "me"}
  /\ UNCHANGED <<store, user, loading, route, denied, faulty, reloads, crossed, signedOut>>

\* A request is answered 401 when its access token, or the password of the form, is refused.
Accepted(c) == IF c = "login" THEN cred # NoUser ELSE ~tok[c].exp

\* The layout sends a tab without a user to the login page.
Guarded(u, l, r) == IF ~l /\ u = NoUser THEN "login" ELSE r

\* The session changes hands: all other calls in flight belong to the one before.
Overtake(c) == old' = old \cup {d \in Calls \ {c} : Active(d)}
Crossing(c) == crossed' = (crossed \/ c \in old)

Return(c, how) ==
  /\ at' = [at EXCEPT ![c] = "idle"]
  /\ tok' = [tok EXCEPT ![c] = None]
  /\ denied' = IF c \in Pages /\ how = "denied" THEN denied \cup {c} ELSE denied
  /\ cred' = IF c = "login" THEN NoUser ELSE cred
  /\ UNCHANGED <<faulty, reloads>>

\* What the caller of apiFetch does with a result.
BootOk ==
  /\ Return("boot", "ok")
  /\ user' = tok["boot"].user
  /\ loading' = FALSE
  /\ route' = route
  /\ Crossing("boot")
  /\ UNCHANGED <<store, old, signedOut>>

LoginOk ==
  /\ store' = Fresh(cred)
  /\ at' = [at EXCEPT !["login"] = "idle", !["me"] = "sent"]
  /\ tok' = [tok EXCEPT !["login"] = None, !["me"] = Fresh(cred)]
  /\ cred' = NoUser
  /\ Overtake("login")
  /\ signedOut' = FALSE
  /\ UNCHANGED <<user, loading, route, denied, faulty, reloads, crossed>>

MeOk ==
  /\ Return("me", "ok")
  /\ user' = tok["me"].user
  /\ route' = "app"
  /\ Crossing("me")
  /\ UNCHANGED <<store, loading, old, signedOut>>

\* A boot that fails for any reason, and a logout however it ends, clear tokens and user.
MutantLeaveUser(c, how) ==
  /\ Return(c, how)
  /\ store' = None
  /\ user' = user
  /\ loading' = IF c = "boot" THEN FALSE ELSE loading
  /\ route' = Guarded(user', loading', route)
  /\ Overtake(c)
  /\ Crossing(c)
  /\ signedOut' = (c \in Logouts)

MutantLeaveTokens(c, how) ==
  /\ Return(c, how)
  /\ store' = IF c \in Logouts THEN store ELSE None
  /\ user' = NoUser
  /\ loading' = IF c = "boot" THEN FALSE ELSE loading
  /\ route' = Guarded(user', loading', route)
  /\ Overtake(c)
  /\ Crossing(c)
  /\ signedOut' = (c \in Logouts)

MutantLeaveLoading(c, how) ==
  /\ Return(c, how)
  /\ store' = None
  /\ user' = NoUser
  /\ loading' = loading
  /\ route' = Guarded(user', loading', route)
  /\ Overtake(c)
  /\ Crossing(c)
  /\ signedOut' = (c \in Logouts)

Leave(c, how) ==
  /\ Return(c, how)
  /\ store' = None
  /\ user' = NoUser
  /\ loading' = IF c = "boot" THEN FALSE ELSE loading
  /\ route' = Guarded(user', loading', route)
  /\ Overtake(c)
  /\ Crossing(c)
  /\ signedOut' = (c \in Logouts)

Other(c, how) ==
  /\ Return(c, how)
  /\ UNCHANGED <<store, user, loading, route, old, crossed, signedOut>>

Succeed(c) ==
  \/ c = "boot" /\ BootOk
  \/ c = "login" /\ LoginOk
  \/ c = "me" /\ MeOk
  \/ c \in Logouts /\ Leave(c, "ok")
  \/ c \in Pages /\ Other(c, "ok")

Fail(c, how) ==
  \/ c \in {"boot"} \cup Logouts /\ Leave(c, how)
  \/ c \in {"login", "me"} \cup Pages /\ Other(c, how)

MutantAnswer401(c) == Fail(c, "denied")

\* On a 401 the refresh token, if there is one, is tried once.
Answer401(c) ==
  \/ /\ Present(store)
     /\ at' = [at EXCEPT ![c] = "refreshing"]
     /\ tok' = [tok EXCEPT ![c] = store]
     /\ UNCHANGED <<store, user, loading, route, cred, denied, faulty, reloads, old, crossed, signedOut>>
  \/ ~Present(store) /\ Fail(c, "denied")

Answer(c) ==
  /\ at[c] = "sent"
  /\ IF Accepted(c) THEN Succeed(c) ELSE Answer401(c)

\* The new pair is stored, whatever has become of the session meanwhile, and the call is repeated.
Renewed(c) ==
  /\ at[c] = "refreshing"
  /\ ~tok[c].dead
  /\ store' = Fresh(tok[c].user)
  /\ at' = [at EXCEPT ![c] = "resent"]
  /\ tok' = [tok EXCEPT ![c] = Fresh(tok[c].user)]
  /\ Crossing(c)
  /\ UNCHANGED <<user, loading, route, cred, denied, faulty, reloads, old, signedOut>>

NotRenewed(c) ==
  /\ at[c] = "refreshing"
  /\ tok[c].dead \/ faulty
  /\ Fail(c, "denied")

Retried(c) ==
  /\ at[c] = "resent"
  /\ IF Accepted(c) THEN Succeed(c) ELSE Fail(c, "denied")

\* The network fails, or the backend answers any error but 401.
Breaks(c) ==
  /\ faulty
  /\ at[c] \in {"sent", "resent"}
  /\ Fail(c, "error")

Aged(p) == IF Present(p) THEN [p EXCEPT !.exp = TRUE] ELSE p
Ended(p) == IF Present(p) THEN [p EXCEPT !.exp = TRUE, !.dead = TRUE] ELSE p

\* Access tokens live 30 minutes: one just obtained outlasts the request that is repeated with it.
Expire ==
  /\ store' = Aged(store)
  /\ tok' = [c \in Calls |-> IF at[c] = "resent" THEN tok[c] ELSE Aged(tok[c])]
  /\ UNCHANGED <<user, loading, route, at, cred, denied, faulty, reloads, old, crossed, signedOut>>

\* Refresh tokens live for days; an account may also be disabled.
RefreshEnds ==
  /\ faulty
  /\ store' = Ended(store)
  /\ tok' = [c \in Calls |-> IF at[c] = "resent" THEN tok[c] ELSE Ended(tok[c])]
  /\ UNCHANGED <<user, loading, route, at, cred, denied, faulty, reloads, old, crossed, signedOut>>

CallStep(c) == Answer(c) \/ Renewed(c) \/ NotRenewed(c) \/ Retried(c) \/ Breaks(c)

Next ==
  \/ \E c \in Calls : CallStep(c)
  \/ \E c \in Pages : PageCall(c)
  \/ \E c \in Logouts : Logout(c)
  \/ \E u \in Users \cup {NoUser} : Submit(u)
  \/ \E r \in {"login", "app"} : Reload(r)
  \/ Expire
  \/ RefreshEnds

\* Every request is answered or fails in the end.
Spec == Init /\ [][Next]_vars /\ \A c \in Calls : WF_vars(CallStep(c))
-----------------------------------------------------------------------------
TypeOK ==
  /\ store \in Pairs
  /\ user \in Users \cup {NoUser}
  /\ loading \in BOOLEAN
  /\ route \in {"login", "app"}
  /\ at \in [Calls -> {"idle", "sent", "refreshing", "resent"}]
  /\ tok \in [Calls -> Pairs]
  /\ cred \in Users \cup {NoUser}
  /\ denied \in SUBSET Pages
  /\ faulty \in BOOLEAN
  /\ reloads \in 0..MaxReloads
  /\ old \in SUBSET Calls
  /\ crossed \in BOOLEAN
  /\ signedOut \in BOOLEAN

\* The dashboard acts for the user it shows: unless a call of an ended session came late, the tokens
\* in localStorage are a pair of that user.
ShownUserOwnsTokens == Shown /\ ~crossed => store.user = user

\* After a logout the tokens are gone and stay gone until somebody signs in, unless a call that was in
\* flight when it happened comes back with a new pair.
LogoutDiscards == signedOut /\ ~crossed => store = None /\ user = NoUser

\* The expiry of an access token is never visible: while requests succeed and refresh tokens live, the
\* only page calls that end in 401 are those whose session was ended under them, by its own logout or
\* by a late call of the session before.
ExpiryHidden == ~faulty /\ ~crossed => \A c \in Pages : c \in denied => c \in old

\* The panel never waits for ever: the first question of a tab, and with it the blank page, ends.
LoadingEnds == loading ~> ~loading
=============================================================================
