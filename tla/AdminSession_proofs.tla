-------------------------- MODULE AdminSession_proofs --------------------------
(***************************************************************************)
(* Proofs about AdminSession, for any admins, any number of page calls and *)
(* of clicks on the logout button, and any number of reloads.              *)
(***************************************************************************)
EXTENDS AdminSession, TLAPS

Names == Users \cup {NoUser}

\* A call that belongs to the present session was made, and is renewed, with tokens of its owner.
CallsFit == ~crossed => \A c \in Calls : Active(c) /\ c \notin old => tok[c].user = store.user

\* The form is only under way on the login page.
FormOnLoginPage == Active("login") \/ Active("me") => route = "login"

\* The form asks one thing at a time.
Forms == ~(Active("login") /\ Active("me"))

\* What is still in flight after a logout belongs to the session it ended, but for a form just submitted.
AfterLogout ==
  signedOut /\ ~crossed => /\ store = None /\ user = NoUser
                           /\ \A c \in Calls : Active(c) => c \in old \/ (c = "login" /\ at[c] = "sent")

\* Without faults, refresh tokens live, and a token just obtained has not expired.
TokensLive ==
  /\ ~faulty => /\ Present(store) => ~store.dead
                /\ \A c \in Calls : at[c] = "refreshing" => ~tok[c].dead
  /\ \A c \in Calls : at[c] = "resent" => ~tok[c].exp

\* The calls of a page are made with a pair of tokens.
PagesSignedIn == ~crossed => \A c \in Pages : Active(c) /\ c \notin old => tok[c].user # NoUser

Inv ==
  /\ CallsFit
  /\ FormOnLoginPage
  /\ Forms
  /\ ShownUserOwnsTokens
  /\ AfterLogout
  /\ TokensLive
  /\ PagesSignedIn
  /\ ExpiryHidden

\* The kinds of calls are calls, and disjoint.
LEMMA CallsFacts ==
  /\ "boot" \in Calls /\ "login" \in Calls /\ "me" \in Calls
  /\ Logouts \subseteq Calls /\ Pages \subseteq Calls
  /\ "boot" \notin Pages \cup Logouts /\ "login" \notin Pages \cup Logouts /\ "me" \notin Pages \cup Logouts
  /\ Pages \cap Logouts = {}
BY SessionAssumption DEF Calls

\* What the pairs of tokens a session handles look like.
LEMMA PairFacts ==
  /\ None \in Pairs /\ ~Present(None) /\ None.user = NoUser
  /\ \A u \in Names : Fresh(u) \in Pairs /\ Fresh(u).user = u /\ ~Fresh(u).exp /\ ~Fresh(u).dead
  /\ \A p \in Pairs : /\ p.user \in Names /\ p.exp \in BOOLEAN /\ p.dead \in BOOLEAN
                      /\ Present(p) <=> p.user # NoUser
                      /\ Aged(p) \in Pairs /\ Aged(p).user = p.user /\ Aged(p).dead = p.dead
                      /\ ~Present(p) => Aged(p) = p
                      /\ Ended(p) \in Pairs /\ Ended(p).user = p.user
                      /\ ~Present(p) => Ended(p) = p
BY DEF None, Pairs, Present, Fresh, Aged, Ended, Names
-----------------------------------------------------------------------------
(* Type correctness. *)

\* The types hold at the start.
LEMMA InitTypeOK == Init => TypeOK
<1>. SUFFICES ASSUME Init PROVE TypeOK
  OBVIOUS
<1>1. store \in Pairs /\ NoUser \in Names
  BY PairFacts DEF Init, Names
<1>2. at \in [Calls -> {"idle", "sent", "refreshing", "resent"}]
  BY DEF Init
<1>3. tok \in [Calls -> Pairs]
  BY <1>1, PairFacts DEF Init
<1>4. loading \in BOOLEAN
  BY DEF Init, Present
<1>5. 0 \in 0..MaxReloads
  BY SessionAssumption
<1>6. QED
  BY <1>1, <1>2, <1>3, <1>4, <1>5 DEF Init, TypeOK, Names

\* A call that returns leaves the variables of the calls in their types.
LEMMA ReturnTypeOK ==
  ASSUME TypeOK, NEW c \in Calls, NEW how, Return(c, how)
  PROVE  /\ at' \in [Calls -> {"idle", "sent", "refreshing", "resent"}] /\ tok' \in [Calls -> Pairs]
         /\ denied' \in SUBSET Pages /\ cred' \in Names
         /\ faulty' \in BOOLEAN /\ reloads' \in 0..MaxReloads
<1>1. at' \in [Calls -> {"idle", "sent", "refreshing", "resent"}]
  BY DEF TypeOK, Return
<1>2. tok' \in [Calls -> Pairs]
  BY PairFacts DEF TypeOK, Return
<1>3. denied' \in SUBSET Pages
  BY DEF TypeOK, Return
<1>4. QED
  BY <1>1, <1>2, <1>3 DEF TypeOK, Return, Names

\* So does one with which the session ends.
LEMMA LeaveTypeOK ==
  ASSUME TypeOK, NEW c \in Calls, NEW how, Leave(c, how)
  PROVE  TypeOK'
<1>1. Return(c, how)
  BY DEF Leave
<1>2. store' \in Pairs /\ user' \in Names /\ loading' \in BOOLEAN /\ route' \in {"login", "app"}
  BY PairFacts DEF TypeOK, Leave, Guarded, Names
<1>3. old' \in SUBSET Calls /\ crossed' \in BOOLEAN /\ signedOut' \in BOOLEAN
  BY DEF TypeOK, Leave, Overtake, Crossing
<1>4. QED
  BY <1>1, <1>2, <1>3, ReturnTypeOK DEF TypeOK, Names

\* So does one that fails in another way.
LEMMA OtherTypeOK ==
  ASSUME TypeOK, NEW c \in Calls, NEW how, Other(c, how)
  PROVE  TypeOK'
BY ReturnTypeOK DEF TypeOK, Other, Names

\* So does any that fails.
LEMMA FailTypeOK ==
  ASSUME TypeOK, NEW c \in Calls, NEW how, Fail(c, how)
  PROVE  TypeOK'
BY LeaveTypeOK, OtherTypeOK DEF Fail

\* So does any that succeeds.
LEMMA SucceedTypeOK ==
  ASSUME TypeOK, NEW c \in Calls, Succeed(c)
  PROVE  TypeOK'
<1>1. CASE BootOk
  BY <1>1, ReturnTypeOK, CallsFacts, PairFacts DEF TypeOK, BootOk, Crossing, Names
<1>2. CASE LoginOk
  BY <1>2, CallsFacts, PairFacts DEF TypeOK, LoginOk, Overtake, Names
<1>3. CASE MeOk
  BY <1>3, ReturnTypeOK, CallsFacts, PairFacts DEF TypeOK, MeOk, Crossing, Names
<1>4. QED
  BY <1>1, <1>2, <1>3, LeaveTypeOK, OtherTypeOK DEF Succeed

\* So does every step of a call.
LEMMA CallTypeOK ==
  ASSUME TypeOK, NEW c \in Calls, CallStep(c)
  PROVE  TypeOK'
<1>1. CASE Answer(c)
  BY <1>1, SucceedTypeOK, FailTypeOK DEF Answer, Answer401, TypeOK
<1>2. CASE Renewed(c)
  BY <1>2, CallsFacts, PairFacts DEF Renewed, TypeOK, Crossing, Names
<1>3. CASE NotRenewed(c) \/ Retried(c) \/ Breaks(c)
  BY <1>3, SucceedTypeOK, FailTypeOK DEF NotRenewed, Retried, Breaks
<1>4. QED
  BY <1>1, <1>2, <1>3 DEF CallStep

\* Every step keeps the types.
LEMMA NextTypeOK ==
  ASSUME TypeOK, [Next]_vars
  PROVE  TypeOK'
<1>1. CASE \E c \in Calls : CallStep(c)
  BY <1>1, CallTypeOK
<1>2. CASE \E c \in Pages : PageCall(c)
  BY <1>2, CallsFacts DEF PageCall, Send, TypeOK
<1>3. CASE \E c \in Logouts : Logout(c)
  BY <1>3, CallsFacts DEF Logout, Send, TypeOK
<1>4. CASE \E u \in Users \cup {NoUser} : Submit(u)
  BY <1>4, CallsFacts DEF Submit, Send, TypeOK
<1>5. CASE \E r \in {"login", "app"} : Reload(r)
  <2>1. PICK r \in {"login", "app"} : Reload(r)
    BY <1>5
  <2>2. reloads' \in 0..MaxReloads
    BY <2>1, SessionAssumption DEF Reload, TypeOK
  <2>3. at' \in [Calls -> {"idle", "sent", "refreshing", "resent"}] /\ tok' \in [Calls -> Pairs]
    BY <2>1, PairFacts DEF Reload, Mount, TypeOK
  <2>4. QED
    BY <2>1, <2>2, <2>3 DEF Reload, Mount, TypeOK, Present
<1>6. CASE Expire
  BY <1>6, PairFacts DEF Expire, TypeOK
<1>7. CASE RefreshEnds
  BY <1>7, PairFacts DEF RefreshEnds, TypeOK
<1>8. CASE UNCHANGED vars
  BY <1>8 DEF vars, TypeOK
<1>9. QED
  BY <1>1, <1>2, <1>3, <1>4, <1>5, <1>6, <1>7, <1>8 DEF Next

\* The variables of the session keep their types, for any admins, calls and reloads.
THEOREM TypeCorrect == Spec => []TypeOK
<1>1. Init => TypeOK
  BY InitTypeOK
<1>2. TypeOK /\ [Next]_vars => TypeOK'
  BY NextTypeOK
<1>3. QED
  BY <1>1, <1>2, PTL DEF Spec
-----------------------------------------------------------------------------
(* The invariant. *)

\* The invariant holds at the start.
LEMMA InitInv == Init => Inv
<1>. SUFFICES ASSUME Init PROVE Inv
  OBVIOUS
<1>1. store \in Pairs /\ ~crossed /\ ~signedOut /\ denied = {} /\ old = {} /\ user = NoUser
  BY PairFacts DEF Init, Names
<1>2. \A c \in Calls : Active(c) => c = "boot" /\ tok[c] = store /\ at[c] = "sent"
  BY DEF Init, Active
<1>3. Present(store) => ~store.dead
  BY DEF Init, Present, None, Fresh
<1>4. CallsFit /\ FormOnLoginPage /\ Forms /\ PagesSignedIn
  BY <1>1, <1>2, CallsFacts DEF CallsFit, FormOnLoginPage, Forms, PagesSignedIn
<1>5. TokensLive
  BY <1>2, <1>3 DEF TokensLive, Active
<1>6. QED
  BY <1>1, <1>4, <1>5 DEF Inv, ShownUserOwnsTokens, Shown, AfterLogout, ExpiryHidden

\* A call that has returned is idle; the others are as they were.
LEMMA ReturnFacts ==
  ASSUME TypeOK, NEW c \in Calls, NEW how, Return(c, how)
  PROVE  /\ ~Active(c)' /\ at'[c] = "idle"
         /\ \A d \in Calls \ {c} : at'[d] = at[d] /\ tok'[d] = tok[d] /\ (Active(d)' <=> Active(d))
         /\ faulty' = faulty
         /\ how # "denied" \/ c \notin Pages => denied' = denied
         /\ \A d \in denied' : d \in denied \/ d = c
BY DEF Return, TypeOK, Active

\* A session that ends: what is still in flight is old from now on.
LEMMA LeaveInv ==
  ASSUME TypeOK, Inv, NEW c \in {"boot"} \cup Logouts, NEW how, Leave(c, how)
  PROVE  Inv'
<1>. USE DEF Inv
<1>0. c \in Calls /\ c \notin Pages /\ c # "login" /\ c # "me"
  BY CallsFacts
<1>1. Return(c, how)
  BY DEF Leave
<1>2. /\ store' = None /\ user' = NoUser /\ (signedOut' <=> c \in Logouts)
      /\ old' = old \cup {d \in Calls \ {c} : Active(d)}
      /\ crossed' <=> crossed \/ c \in old
      /\ route' = route \/ route' = "login"
  BY DEF Leave, Overtake, Crossing, Guarded, TypeOK
<1>3. \A d \in Calls : Active(d)' => d \in old'
  BY <1>0, <1>1, <1>2, ReturnFacts
<1>4. denied' = denied /\ \A d \in Calls : Active(d)' => d # c
  BY <1>0, <1>1, ReturnFacts
<1>5. CallsFit' /\ PagesSignedIn'
  BY <1>3, CallsFacts DEF CallsFit, PagesSignedIn
<1>6. FormOnLoginPage' /\ Forms'
  BY <1>0, <1>1, <1>2, ReturnFacts, CallsFacts DEF FormOnLoginPage, Forms
<1>7. ShownUserOwnsTokens'
  BY <1>2 DEF ShownUserOwnsTokens, Shown
<1>8. AfterLogout'
  BY <1>2, <1>3 DEF AfterLogout
<1>9. TokensLive'
  <2>1. ~Present(store')
    BY <1>2, PairFacts
  <2>2. \A d \in Calls : at'[d] # "idle" => at'[d] = at[d] /\ tok'[d] = tok[d]
    BY <1>0, <1>1, ReturnFacts
  <2>3. faulty' = faulty
    BY <1>0, <1>1, ReturnFacts
  <2>4. QED
    BY <2>1, <2>2, <2>3 DEF TokensLive, Present
<1>10. ExpiryHidden'
  BY <1>1, <1>2, <1>4, <1>0, ReturnFacts DEF ExpiryHidden
<1>11. QED
  BY <1>5, <1>6, <1>7, <1>8, <1>9, <1>10

\* A call that changes nothing but itself. A page may see a 401 only when its session has ended.
LEMMA OtherInv ==
  ASSUME TypeOK, Inv, NEW c \in {"login", "me"} \cup Pages, NEW how, Other(c, how),
         c \in Pages /\ how = "denied" /\ ~faulty /\ ~crossed => c \in old
  PROVE  Inv'
<1>. USE DEF Inv
<1>0. c \in Calls
  BY CallsFacts
<1>1. Return(c, how) /\ UNCHANGED <<store, user, loading, route, old, crossed, signedOut>>
  BY DEF Other
<1>2. CallsFit' /\ PagesSignedIn' /\ FormOnLoginPage' /\ Forms' /\ AfterLogout' /\ TokensLive'
  <2>1. CallsFit'
    BY <1>0, <1>1, ReturnFacts DEF CallsFit
  <2>2. PagesSignedIn'
    BY <1>0, <1>1, ReturnFacts, CallsFacts DEF PagesSignedIn
  <2>3. FormOnLoginPage' /\ Forms'
    BY <1>0, <1>1, ReturnFacts, CallsFacts DEF FormOnLoginPage, Forms
  <2>4. AfterLogout'
    BY <1>0, <1>1, ReturnFacts DEF AfterLogout
  <2>5. TokensLive'
    BY <1>0, <1>1, ReturnFacts DEF TokensLive
  <2>6. QED
    BY <2>1, <2>2, <2>3, <2>4, <2>5
<1>3. ShownUserOwnsTokens'
  BY <1>1 DEF ShownUserOwnsTokens, Shown
<1>4. ExpiryHidden'
  BY <1>0, <1>1, ReturnFacts DEF ExpiryHidden
<1>5. QED
  BY <1>2, <1>3, <1>4

\* A call that fails; a page is told of a 401 only under the condition of ExpiryHidden.
LEMMA FailInv ==
  ASSUME TypeOK, Inv, NEW c \in Calls, NEW how, Fail(c, how),
         c \in Pages /\ how = "denied" /\ ~faulty /\ ~crossed => c \in old
  PROVE  Inv'
BY LeaveInv, OtherInv DEF Fail

\* The first call of a mounted panel shows the owner of the pair it carried.
LEMMA BootInv ==
  ASSUME TypeOK, Inv, Active("boot"), BootOk
  PROVE  Inv'
<1>. USE DEF Inv
<1>1. Return("boot", "ok") /\ UNCHANGED <<store, route, old, signedOut>>
  BY DEF BootOk
<1>2. user' = tok["boot"].user /\ (crossed' <=> crossed \/ "boot" \in old) /\ denied' = denied
  BY <1>1, CallsFacts, ReturnFacts DEF BootOk, Crossing, TypeOK
<1>3. CallsFit' /\ PagesSignedIn' /\ FormOnLoginPage' /\ Forms' /\ TokensLive'
  <2>1. CallsFit'
    BY <1>1, <1>2, CallsFacts, ReturnFacts DEF CallsFit
  <2>2. PagesSignedIn'
    BY <1>1, <1>2, CallsFacts, ReturnFacts DEF PagesSignedIn
  <2>3. FormOnLoginPage' /\ Forms'
    BY <1>1, CallsFacts, ReturnFacts DEF FormOnLoginPage, Forms
  <2>4. TokensLive'
    BY <1>1, CallsFacts, ReturnFacts DEF TokensLive
  <2>5. QED
    BY <2>1, <2>2, <2>3, <2>4
<1>4. ShownUserOwnsTokens'
  BY <1>1, <1>2, CallsFacts DEF ShownUserOwnsTokens, CallsFit
<1>5. AfterLogout'
  BY <1>1, <1>2, CallsFacts DEF AfterLogout
<1>6. ExpiryHidden'
  BY <1>1, <1>2, CallsFacts, ReturnFacts DEF ExpiryHidden
<1>7. QED
  BY <1>3, <1>4, <1>5, <1>6

\* The call after a login shows the owner of the pair of the login.
LEMMA MeInv ==
  ASSUME TypeOK, Inv, Active("me"), MeOk
  PROVE  Inv'
<1>. USE DEF Inv
<1>1. Return("me", "ok") /\ UNCHANGED <<store, loading, old, signedOut>>
  BY DEF MeOk
<1>2. user' = tok["me"].user /\ (crossed' <=> crossed \/ "me" \in old) /\ denied' = denied
  BY <1>1, CallsFacts, ReturnFacts DEF MeOk, Crossing, TypeOK
<1>3. CallsFit' /\ PagesSignedIn' /\ TokensLive'
  <2>1. CallsFit'
    BY <1>1, <1>2, CallsFacts, ReturnFacts DEF CallsFit
  <2>2. PagesSignedIn'
    BY <1>1, <1>2, CallsFacts, ReturnFacts DEF PagesSignedIn
  <2>3. TokensLive'
    BY <1>1, CallsFacts, ReturnFacts DEF TokensLive
  <2>4. QED
    BY <2>1, <2>2, <2>3
<1>4. ShownUserOwnsTokens'
  BY <1>1, <1>2, CallsFacts DEF ShownUserOwnsTokens, CallsFit
<1>5. AfterLogout'
  BY <1>1, <1>2, CallsFacts DEF AfterLogout
<1>6. ExpiryHidden'
  BY <1>1, <1>2, CallsFacts, ReturnFacts DEF ExpiryHidden
<1>7. FormOnLoginPage' /\ Forms'
  <2>1. ~Active("login")
    BY DEF Forms
  <2>2. QED
    BY <2>1, <1>1, CallsFacts, ReturnFacts DEF FormOnLoginPage, Forms
<1>8. QED
  BY <1>3, <1>4, <1>5, <1>6, <1>7

\* A login stores a fresh pair and makes every other call in flight old.
LEMMA LoginInv ==
  ASSUME TypeOK, Inv, Active("login"), LoginOk
  PROVE  Inv'
<1>. USE DEF Inv
<1>1. /\ store' = Fresh(cred) /\ ~signedOut'
      /\ old' = old \cup {d \in Calls \ {"login"} : Active(d)}
      /\ UNCHANGED <<user, loading, route, denied, faulty, crossed>>
  BY DEF LoginOk, Overtake
<1>2. /\ at'["login"] = "idle" /\ at'["me"] = "sent" /\ tok'["me"] = Fresh(cred)
      /\ \A d \in Calls \ {"login", "me"} : at'[d] = at[d] /\ tok'[d] = tok[d]
  BY CallsFacts DEF LoginOk, TypeOK
<1>3. route = "login" /\ Fresh(cred).user = cred /\ ~Fresh(cred).dead
  BY PairFacts DEF FormOnLoginPage, TypeOK, Names
<1>4. \A d \in Calls : Active(d)' => d = "me" \/ d \in old'
  BY <1>1, <1>2 DEF Active
<1>5. CallsFit'
  BY <1>1, <1>2, <1>4 DEF CallsFit
<1>6. PagesSignedIn'
  BY <1>4, CallsFacts DEF PagesSignedIn
<1>7. ShownUserOwnsTokens' /\ FormOnLoginPage' /\ AfterLogout'
  BY <1>1, <1>3 DEF ShownUserOwnsTokens, Shown, FormOnLoginPage, AfterLogout
<1>8. TokensLive'
  BY <1>1, <1>2, <1>3, CallsFacts DEF TokensLive
<1>9. ExpiryHidden'
  BY <1>1 DEF ExpiryHidden
<1>10. Forms'
  BY <1>2 DEF Forms, Active
<1>11. QED
  BY <1>5, <1>6, <1>7, <1>8, <1>9, <1>10

\* Any call that succeeds.
LEMMA SucceedInv ==
  ASSUME TypeOK, Inv, NEW c \in Calls, Active(c), Succeed(c)
  PROVE  Inv'
<1>1. CASE c = "boot" /\ BootOk
  BY <1>1, BootInv
<1>2. CASE c = "login" /\ LoginOk
  BY <1>2, LoginInv
<1>3. CASE c = "me" /\ MeOk
  BY <1>3, MeInv
<1>4. CASE c \in Logouts /\ Leave(c, "ok")
  BY <1>4, LeaveInv
<1>5. CASE c \in Pages /\ Other(c, "ok")
  BY <1>5, OtherInv
<1>6. QED
  BY <1>1, <1>2, <1>3, <1>4, <1>5 DEF Succeed

\* A 401: with tokens in store they are renewed, otherwise the session of the call has ended.
LEMMA Answer401Inv ==
  ASSUME TypeOK, Inv, NEW c \in Calls, Active(c), Answer401(c)
  PROVE  Inv'
<1>. USE DEF Inv
<1>1. CASE Present(store) /\ at' = [at EXCEPT ![c] = "refreshing"]
  <2>1. UNCHANGED <<store, user, loading, route, denied, faulty, old, crossed, signedOut>>
        /\ tok' = [tok EXCEPT ![c] = store]
    BY <1>1 DEF Answer401, Fail, Leave, Other, Return, TypeOK
  <2>2. /\ at'[c] = "refreshing" /\ tok'[c] = store
        /\ \A d \in Calls \ {c} : at'[d] = at[d] /\ tok'[d] = tok[d]
        /\ \A d \in Calls : Active(d)' <=> Active(d)
    BY <1>1, <2>1 DEF TypeOK, Active
  <2>3. CallsFit'
    BY <2>1, <2>2 DEF CallsFit
  <2>4. PagesSignedIn'
    BY <1>1, <2>1, <2>2, CallsFacts DEF PagesSignedIn, Present
  <2>5. FormOnLoginPage' /\ Forms'
    BY <2>1, <2>2, CallsFacts DEF FormOnLoginPage, Forms
  <2>6. AfterLogout'
    BY <1>1, <2>1, <2>2, PairFacts DEF AfterLogout
  <2>7. TokensLive'
    BY <1>1, <2>1, <2>2 DEF TokensLive, Present
  <2>8. ShownUserOwnsTokens' /\ ExpiryHidden'
    BY <2>1 DEF ShownUserOwnsTokens, Shown, ExpiryHidden
  <2>9. QED
    BY <2>3, <2>4, <2>5, <2>6, <2>7, <2>8
<1>2. CASE ~Present(store) /\ Fail(c, "denied")
  <2>1. c \in Pages /\ ~crossed => c \in old
    BY <1>2, CallsFacts DEF CallsFit, PagesSignedIn, Present
  <2>2. QED
    BY <1>2, <2>1, FailInv
<1>3. QED
  BY <1>1, <1>2 DEF Answer401

\* A renewal stores a pair of the owner of the call that asked for it.
LEMMA RenewedInv ==
  ASSUME TypeOK, Inv, NEW c \in Calls, Renewed(c)
  PROVE  Inv'
<1>. USE DEF Inv
<1>. DEFINE u == tok[c].user
<1>1. /\ store' = Fresh(u) /\ (crossed' <=> crossed \/ c \in old)
      /\ UNCHANGED <<user, loading, route, denied, faulty, old, signedOut>>
  BY DEF Renewed, Crossing, TypeOK
<1>2. /\ at'[c] = "resent" /\ tok'[c] = Fresh(u) /\ Active(c)
      /\ \A d \in Calls \ {c} : at'[d] = at[d] /\ tok'[d] = tok[d]
      /\ \A d \in Calls : Active(d)' <=> Active(d)
  BY DEF Renewed, TypeOK, Active
<1>3. Fresh(u).user = u /\ ~Fresh(u).exp /\ ~Fresh(u).dead
  BY PairFacts DEF TypeOK
<1>4. ~crossed' => ~crossed /\ u = store.user
  BY <1>1, <1>2 DEF CallsFit
<1>5. CallsFit'
  BY <1>1, <1>2, <1>3, <1>4 DEF CallsFit
<1>6. PagesSignedIn'
  BY <1>1, <1>2, <1>3, <1>4, CallsFacts DEF PagesSignedIn
<1>7. FormOnLoginPage' /\ Forms'
  BY <1>1, <1>2, CallsFacts DEF FormOnLoginPage, Forms
<1>8. AfterLogout'
  BY <1>1, <1>2 DEF AfterLogout, Renewed
<1>9. TokensLive'
  BY <1>1, <1>2, <1>3 DEF TokensLive
<1>10. ShownUserOwnsTokens'
  BY <1>1, <1>3, <1>4 DEF ShownUserOwnsTokens, Shown
<1>11. ExpiryHidden'
  BY <1>1, <1>4 DEF ExpiryHidden
<1>12. QED
  BY <1>5, <1>6, <1>7, <1>8, <1>9, <1>10, <1>11

\* Every step of a call.
LEMMA CallInv ==
  ASSUME TypeOK, Inv, NEW c \in Calls, CallStep(c)
  PROVE  Inv'
<1>1. CASE Answer(c)
  BY <1>1, SucceedInv, Answer401Inv DEF Answer, Active
<1>2. CASE Renewed(c)
  BY <1>2, RenewedInv
<1>3. CASE NotRenewed(c)
  BY <1>3, FailInv DEF NotRenewed, Inv, TokensLive
<1>4. CASE Retried(c)
  BY <1>4, SucceedInv, FailInv, CallsFacts DEF Retried, Accepted, Active, Inv, TokensLive
<1>5. CASE Breaks(c)
  BY <1>5, FailInv DEF Breaks
<1>6. QED
  BY <1>1, <1>2, <1>3, <1>4, <1>5 DEF CallStep

\* A call is sent from a page of the dashboard: a page call or a logout.
LEMMA AskInv ==
  ASSUME TypeOK, Inv, NEW c \in Pages \cup Logouts, PageCall(c) \/ Logout(c)
  PROVE  Inv'
<1>. USE DEF Inv
<1>0. c \in Calls /\ c # "login" /\ c # "me" /\ c # "boot"
  BY CallsFacts
<1>1. /\ Shown /\ old' = old \ {c}
      /\ UNCHANGED <<store, user, loading, route, faulty, crossed, signedOut>>
      /\ denied' \subseteq denied /\ (c \in Pages => c \notin denied')
  BY CallsFacts DEF PageCall, Logout, TypeOK
<1>2. /\ at'[c] = "sent" /\ tok'[c] = store
      /\ \A d \in Calls \ {c} : at'[d] = at[d] /\ tok'[d] = tok[d] /\ (Active(d)' <=> Active(d))
  BY <1>0 DEF PageCall, Logout, Send, TypeOK, Active
<1>3. ~crossed => store.user = user /\ user # NoUser /\ ~signedOut
  BY <1>1 DEF Shown, ShownUserOwnsTokens, AfterLogout
<1>4. CallsFit'
  BY <1>1, <1>2 DEF CallsFit
<1>5. PagesSignedIn'
  BY <1>1, <1>2, <1>3, CallsFacts DEF PagesSignedIn
<1>6. FormOnLoginPage' /\ Forms'
  BY <1>0, <1>1, <1>2, CallsFacts DEF FormOnLoginPage, Forms
<1>7. AfterLogout'
  BY <1>1, <1>3 DEF AfterLogout
<1>8. TokensLive'
  BY <1>1, <1>2 DEF TokensLive, Present
<1>9. ShownUserOwnsTokens'
  BY <1>1 DEF ShownUserOwnsTokens, Shown
<1>10. ExpiryHidden'
  BY <1>1 DEF ExpiryHidden
<1>11. QED
  BY <1>4, <1>5, <1>6, <1>7, <1>8, <1>9, <1>10

\* A form that is sent: nobody is shown yet, so its two calls are new.
LEMMA SubmitInv ==
  ASSUME TypeOK, Inv, NEW u \in Names, Submit(u)
  PROVE  Inv'
<1>. USE DEF Inv
<1>1. /\ CanSubmit /\ old' = old \ {"login", "me"}
      /\ UNCHANGED <<store, user, loading, route, denied, faulty, crossed, signedOut>>
  BY DEF Submit
<1>2. /\ at'["login"] = "sent" /\ tok'["login"] = store
      /\ \A d \in Calls \ {"login"} : at'[d] = at[d] /\ tok'[d] = tok[d] /\ (Active(d)' <=> Active(d))
  BY CallsFacts DEF Submit, Send, TypeOK, Active
<1>3. ~Active("me") /\ route = "login" /\ "me" \in Calls
  BY <1>1, CallsFacts DEF CanSubmit
<1>4. CallsFit'
  BY <1>1, <1>2, <1>3 DEF CallsFit
<1>5. PagesSignedIn'
  BY <1>1, <1>2, CallsFacts DEF PagesSignedIn
<1>6. FormOnLoginPage' /\ Forms'
  BY <1>1, <1>2, <1>3 DEF FormOnLoginPage, Forms
<1>7. AfterLogout'
  BY <1>1, <1>2, <1>3 DEF AfterLogout
<1>8. TokensLive'
  BY <1>1, <1>2 DEF TokensLive, Present
<1>9. ShownUserOwnsTokens'
  BY <1>1 DEF ShownUserOwnsTokens, Shown
<1>10. ExpiryHidden'
  BY <1>1, CallsFacts DEF ExpiryHidden
<1>11. QED
  BY <1>4, <1>5, <1>6, <1>7, <1>8, <1>9, <1>10

\* A reload forgets the calls in flight and starts with the stored pair.
LEMMA ReloadInv ==
  ASSUME TypeOK, Inv, NEW r \in {"login", "app"}, Reload(r)
  PROVE  Inv'
<1>. USE DEF Inv
<1>1. denied' = {} /\ old' = {} /\ user' = NoUser /\ UNCHANGED <<store, faulty, crossed, signedOut>>
  BY DEF Reload, Mount
<1>2. \A d \in Calls : Active(d)' => d = "boot" /\ Present(store) /\ at'[d] = "sent" /\ tok'[d] = store
  BY DEF Reload, Mount, Active
<1>3. CallsFit' /\ PagesSignedIn'
  BY <1>1, <1>2, CallsFacts DEF CallsFit, PagesSignedIn
<1>4. FormOnLoginPage' /\ Forms'
  BY <1>2, CallsFacts DEF FormOnLoginPage, Forms
<1>5. AfterLogout'
  BY <1>1, <1>2, PairFacts DEF AfterLogout
<1>6. TokensLive'
  BY <1>1, <1>2 DEF TokensLive, Active, Present
<1>7. ShownUserOwnsTokens' /\ ExpiryHidden'
  BY <1>1 DEF ShownUserOwnsTokens, Shown, ExpiryHidden
<1>8. QED
  BY <1>3, <1>4, <1>5, <1>6, <1>7

\* Time passes: owners stay, and so do the tokens a renewed call has just been repeated with.
LEMMA AgeInv ==
  ASSUME TypeOK, Inv, Expire \/ RefreshEnds
  PROVE  Inv'
<1>. USE DEF Inv
<1>1. /\ UNCHANGED <<user, loading, route, at, denied, faulty, old, crossed, signedOut>>
      /\ store'.user = store.user /\ (store = None => store' = None)
      /\ \A d \in Calls : Active(d)' <=> Active(d)
  <2>1. UNCHANGED <<user, loading, route, at, denied, faulty, old, crossed, signedOut>>
    BY DEF Expire, RefreshEnds
  <2>2. store' = Aged(store) \/ store' = Ended(store)
    BY DEF Expire, RefreshEnds
  <2>3. store'.user = store.user /\ (store = None => store' = None)
    BY <2>2, PairFacts DEF TypeOK
  <2>4. QED
    BY <2>1, <2>3 DEF Active
<1>2. ASSUME NEW d \in Calls
      PROVE  tok'[d].user = tok[d].user /\ (at[d] = "resent" => tok'[d] = tok[d])
  <2>1. tok[d] \in Pairs
    BY DEF TypeOK
  <2>2. tok'[d] = tok[d] \/ (at[d] # "resent" /\ tok'[d] \in {Aged(tok[d]), Ended(tok[d])})
    BY DEF Expire, RefreshEnds
  <2>3. QED
    BY <2>1, <2>2, PairFacts
<1>3. ~faulty => store'.dead = store.dead /\ \A d \in Calls : tok'[d].dead = tok[d].dead
  <2>. SUFFICES ASSUME ~faulty
                PROVE  store'.dead = store.dead /\ \A d \in Calls : tok'[d].dead = tok[d].dead
    OBVIOUS
  <2>1. store' = Aged(store) /\ \A d \in Calls : tok'[d] \in {tok[d], Aged(tok[d])}
    BY DEF Expire, RefreshEnds
  <2>2. store \in Pairs /\ \A d \in Calls : tok[d] \in Pairs
    BY DEF TypeOK
  <2>3. QED
    BY <2>1, <2>2, PairFacts
<1>4. CallsFit'
  BY <1>1, <1>2 DEF CallsFit
<1>5. PagesSignedIn'
  BY <1>1, <1>2, CallsFacts DEF PagesSignedIn
<1>6. FormOnLoginPage' /\ Forms'
  BY <1>1, CallsFacts DEF FormOnLoginPage, Forms
<1>7. AfterLogout'
  BY <1>1 DEF AfterLogout
<1>8. TokensLive'
  BY <1>1, <1>2, <1>3 DEF TokensLive, Present
<1>9. ShownUserOwnsTokens' /\ ExpiryHidden'
  BY <1>1 DEF ShownUserOwnsTokens, Shown, ExpiryHidden
<1>10. QED
  BY <1>4, <1>5, <1>6, <1>7, <1>8, <1>9

\* Every step keeps the invariant.
LEMMA NextInv ==
  ASSUME TypeOK, Inv, [Next]_vars
  PROVE  Inv'
<1>1. CASE \E c \in Calls : CallStep(c)
  BY <1>1, CallInv
<1>2. CASE (\E c \in Pages : PageCall(c)) \/ (\E c \in Logouts : Logout(c))
  BY <1>2, AskInv
<1>3. CASE \E u \in Users \cup {NoUser} : Submit(u)
  BY <1>3, SubmitInv DEF Names
<1>4. CASE \E r \in {"login", "app"} : Reload(r)
  BY <1>4, ReloadInv
<1>5. CASE Expire \/ RefreshEnds
  BY <1>5, AgeInv
<1>6. CASE UNCHANGED vars
  BY <1>6 DEF vars, Inv, CallsFit, FormOnLoginPage, Forms, ShownUserOwnsTokens, Shown, AfterLogout,
              TokensLive, PagesSignedIn, ExpiryHidden, Active, Present
<1>7. QED
  BY <1>1, <1>2, <1>3, <1>4, <1>5, <1>6 DEF Next

\* The invariant holds always.
LEMMA InvHolds == Spec => []Inv
<1>1. Init => TypeOK /\ Inv
  BY InitTypeOK, InitInv
<1>2. TypeOK /\ Inv /\ [Next]_vars => TypeOK' /\ Inv'
  BY NextTypeOK, NextInv
<1>3. QED
  BY <1>1, <1>2, PTL DEF Spec

\* Unless a call of an ended session has come late, the dashboard shows the owner of the tokens it acts with.
THEOREM ShownUserOwnsTokensHolds == Spec => []ShownUserOwnsTokens
<1>1. Inv => ShownUserOwnsTokens
  BY DEF Inv
<1>2. QED
  BY <1>1, InvHolds, PTL

\* After a logout the tokens and the user stay gone until somebody signs in, with the same exception.
THEOREM LogoutDiscardsHolds == Spec => []LogoutDiscards
<1>1. Inv => LogoutDiscards
  BY DEF Inv, AfterLogout, LogoutDiscards
<1>2. QED
  BY <1>1, InvHolds, PTL

\* However often access tokens expire, a page sees a 401 only if its session ended under it.
THEOREM ExpiryHiddenHolds == Spec => []ExpiryHidden
<1>1. Inv => ExpiryHidden
  BY DEF Inv
<1>2. QED
  BY <1>1, InvHolds, PTL
=============================================================================
