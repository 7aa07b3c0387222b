------------------------------ MODULE UsersPage ------------------------------
(***************************************************************************)
(* The page Users & Teams (users/page.tsx): the list, deletion, and one    *)
(* drawer that adds a user or edits the user of a row. 0 stands for the    *)
(* empty form and for no user. See Requests for the list.                  *)
(***************************************************************************)
EXTENDS Requests

CONSTANTS MaxChanges, UserIds   \* UserIds: the rows of the list, positive numbers
VARIABLE pg

\* drawer, editing, saving: the state of that name. form: whose data the form was filled with. typed: the
\* admin has changed it. sent: what Save sent: to whom, and filled with whose data.
Mounted ==
  {WithList([page |-> "users", drawer |-> FALSE, editing |-> 0, form |-> 0, typed |-> FALSE,
             saving |-> FALSE, sent |-> [to |-> 0, from |-> 0]])}

Here == pg.page = "users"
CanChange == Here /\ pg.changes < MaxChanges

Serve == Here /\ \E r \in Waiting(pg) : pg' = Served(pg, r)
Elsewhere_ == CanChange /\ pg' = Elsewhere(pg)
ListLoaded == Here /\ \E r \in Ready(pg, "load") : pg' = Loaded(pg, r)
ListFails == Here /\ \E r \in pg.reqs : r.kind = "load" /\ pg' = NotLoaded(pg, r)

Delete == CanChange /\ HasRows(pg) /\ pg' = Change(pg, "delete")
Deleted == Here /\ \E r \in Ready(pg, "delete") : pg' = Confirmed(pg, r)
DeleteFails == Here /\ \E r \in pg.reqs : r.kind = "delete" /\ pg' = Refused(pg, r)

\* Add user (u = 0) or the pencil of a row: the effect fills the form as the drawer opens.
MutantOpenDrawer(u) ==
  /\ Here /\ ~pg.drawer /\ (u # 0 => HasRows(pg))
  /\ pg' = [pg EXCEPT !.drawer = TRUE, !.editing = u, !.form = IF u = 0 THEN @ ELSE u, !.typed = FALSE]

OpenDrawer(u) ==
  /\ Here /\ ~pg.drawer /\ (u # 0 => HasRows(pg))
  /\ pg' = [pg EXCEPT !.drawer = TRUE, !.editing = u, !.form = u, !.typed = FALSE]

CloseDrawer == Here /\ pg.drawer /\ pg' = [pg EXCEPT !.drawer = FALSE]
Type == Here /\ pg.drawer /\ pg' = [pg EXCEPT !.typed = TRUE]

Save ==
  /\ CanChange /\ pg.drawer /\ ~pg.saving
  /\ pg' = [Change(pg, "save") EXCEPT !.saving = TRUE, !.sent = [to |-> pg.editing, from |-> pg.form]]

\* onSaved closes the drawer, even one opened for somebody else meanwhile.
Saved ==
  Here /\ \E r \in Ready(pg, "save") :
            pg' = [Confirmed(pg, r) EXCEPT !.drawer = FALSE, !.saving = FALSE]

SaveFails ==
  Here /\ \E r \in pg.reqs : r.kind = "save" /\ pg' = [Refused(pg, r) EXCEPT !.saving = FALSE]

Answers == ListLoaded \/ ListFails \/ Deleted \/ DeleteFails \/ Saved \/ SaveFails

Next ==
  \/ Serve \/ Answers \/ Elsewhere_
  \/ Delete \/ CloseDrawer \/ Type \/ Save
  \/ \E u \in UserIds \cup {0} : OpenDrawer(u)

-----------------------------------------------------------------------------
TypeOK ==
  Here => /\ ListingOK(pg, MaxChanges)
          /\ pg.drawer \in BOOLEAN /\ pg.typed \in BOOLEAN /\ pg.saving \in BOOLEAN
          /\ {pg.editing, pg.form} \subseteq UserIds \cup {0}
          /\ pg.sent \in [to : UserIds \cup {0}, from : UserIds \cup {0}]

\* Once nothing is in flight the page shows every change it has made itself. Excepted: after the last of
\* them was confirmed, a load failed or an older answer came after a newer one.
ListFollowsChanges == Here /\ Quiet(pg) /\ ~pg.excused => pg.shown >= pg.mine

\* Nobody is saved with the data of another: what Save sends to a user was filled from that user, and a
\* new user starts from an empty form, in whatever order drawers were opened, closed by hand and closed
\* by answers that came late.
SavedToItsOwner == Here => pg.sent.to = pg.sent.from

\* What the admin types into an open form stays until the drawer closes: loading the list does not
\* touch it.
TypingKept ==
  [][Here /\ pg'.page = "users" /\ pg.drawer /\ pg'.drawer /\ pg.typed => pg'.typed]_pg
=============================================================================
