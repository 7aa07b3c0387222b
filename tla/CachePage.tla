------------------------------- MODULE CachePage -------------------------------
(***************************************************************************)
(* The page Cache Management (cache/page.tsx): the statistics of the cache *)
(* and the button that invalidates all of it. See Requests for the data.   *)
(***************************************************************************)
EXTENDS Requests

CONSTANT MaxChanges
VARIABLE pg

Mounted == {WithList([page |-> "cache"])}
Here == pg.page = "cache"
CanChange == Here /\ pg.changes < MaxChanges

Serve == Here /\ \E r \in Waiting(pg) : pg' = Served(pg, r)
StatsChange == CanChange /\ pg' = Elsewhere(pg)
StatsLoaded == Here /\ \E r \in Ready(pg, "load") : pg' = Loaded(pg, r)
StatsFail == Here /\ \E r \in pg.reqs : r.kind = "load" /\ pg' = NotLoaded(pg, r)

\* The page is a spinner until the statistics are there; the button may be pressed at any time after.
Invalidate == CanChange /\ ~pg.loading /\ pg' = Change(pg, "invalidate")
Invalidated == Here /\ \E r \in Ready(pg, "invalidate") : pg' = Confirmed(pg, r)
InvalidateFails == Here /\ \E r \in pg.reqs : r.kind = "invalidate" /\ pg' = Refused(pg, r)

Answers == StatsLoaded \/ StatsFail \/ Invalidated \/ InvalidateFails
Next == Serve \/ StatsChange \/ Answers \/ Invalidate
-----------------------------------------------------------------------------
TypeOK == Here => ListingOK(pg, MaxChanges)

\* Once nothing is in flight the page shows every change it has made itself. Excepted: after the last of
\* them was confirmed, a load failed or an older answer came after a newer one.
ListFollowsChanges == Here /\ Quiet(pg) /\ ~pg.excused => pg.shown >= pg.mine
=============================================================================
