------------------------------- MODULE KeysPage -------------------------------
(***************************************************************************)
(* The page Virtual Keys (keys/page.tsx): the list of keys and users, the  *)
(* revocation of a key, the drawer that generates one and the alert that   *)
(* shows the new key once. See Requests for the list.                      *)
(***************************************************************************)
EXTENDS Requests

CONSTANT MaxChanges   \* bound: changes of the list, here and elsewhere
VARIABLE pg

\* drawer, saving: the state of that name. typed: the form of the drawer holds something the admin
\* entered. createdKey: the key in the alert (0: none), named by the request that made it.
Mounted ==
  {WithList([page |-> "keys", drawer |-> FALSE, typed |-> FALSE, saving |-> FALSE, createdKey |-> 0])}

Here == pg.page = "keys"
CanChange == Here /\ pg.changes < MaxChanges

Serve == Here /\ \E r \in Waiting(pg) : pg' = Served(pg, r)
Elsewhere_ == CanChange /\ pg' = Elsewhere(pg)

\* New rows are new users too, and with them the effect of the open drawer resets its form.
ListLoaded ==
  Here /\ \E r \in Ready(pg, "load") :
            pg' = [Loaded(pg, r) EXCEPT !.typed = @ /\ ~pg.drawer]

MutantListFails ==
  Here /\ \E r \in pg.reqs : r.kind = "load" /\ pg' = [NotLoaded(pg, r) EXCEPT !.typed = @ /\ ~pg.drawer]

ListFails == Here /\ \E r \in pg.reqs : r.kind = "load" /\ pg' = NotLoaded(pg, r)

\* The dialog of the trash button is confirmed.
Revoke == CanChange /\ HasRows(pg) /\ pg' = Change(pg, "revoke")
Revoked == Here /\ \E r \in Ready(pg, "revoke") : pg' = Confirmed(pg, r)
RevokeFails == Here /\ \E r \in pg.reqs : r.kind = "revoke" /\ pg' = Refused(pg, r)

OpenDrawer == Here /\ ~pg.drawer /\ pg' = [pg EXCEPT !.drawer = TRUE, !.typed = FALSE]
CloseDrawer == Here /\ pg.drawer /\ pg' = [pg EXCEPT !.drawer = FALSE]
Type == Here /\ pg.drawer /\ pg' = [pg EXCEPT !.typed = TRUE]

\* Generate is busy while a key is being made, but the drawer can be closed and opened again.
Generate ==
  /\ CanChange /\ pg.drawer /\ ~pg.saving
  /\ pg' = [Change(pg, "create") EXCEPT !.saving = TRUE]

Generated ==
  Here /\ \E r \in Ready(pg, "create") :
            pg' = [Confirmed(pg, r) EXCEPT !.createdKey = r.id, !.drawer = FALSE, !.saving = FALSE]

MutantGenerateFails ==
  Here /\ \E r \in pg.reqs : r.kind = "create" /\ pg' = Refused(pg, r)

GenerateFails ==
  Here /\ \E r \in pg.reqs : r.kind = "create" /\ pg' = [Refused(pg, r) EXCEPT !.saving = FALSE]

Dismiss == Here /\ pg.createdKey # 0 /\ pg' = [pg EXCEPT !.createdKey = 0]

Answers == ListLoaded \/ ListFails \/ Revoked \/ RevokeFails \/ Generated \/ GenerateFails

Next ==
  \/ Serve \/ Answers \/ Elsewhere_
  \/ Revoke \/ OpenDrawer \/ CloseDrawer \/ Type \/ Generate \/ Dismiss

-----------------------------------------------------------------------------
TypeOK ==
  Here => /\ ListingOK(pg, MaxChanges)
          /\ pg.drawer \in BOOLEAN /\ pg.typed \in BOOLEAN /\ pg.saving \in BOOLEAN
          /\ pg.createdKey \in 0..pg.asked

\* Once nothing is in flight the list shows every key this page has revoked or generated. Excepted: after
\* the last of these changes was confirmed, a load failed or an older answer came after a newer one.
ListFollowsChanges == Here /\ Quiet(pg) /\ ~pg.excused => pg.shown >= pg.mine

\* What the admin types into the open drawer stays until it closes. Excepted: a list that arrives resets the
\* form (keys/page.tsx:134-136); a request that is served, refused or confirmed, or a list that fails before
\* the gateway has answered, does not.
TypingKept ==
  [][Here /\ pg'.page = "keys" /\ pg.drawer /\ pg'.drawer /\ pg.typed =>
       pg'.typed \/ ~(Ready(pg, "load") \subseteq pg'.reqs)]_pg
=============================================================================
