------------------------------- MODULE Requests -------------------------------
(***************************************************************************)
(* What the list pages of the admin panel have in common: requests that    *)
(* the gateway serves and that are answered in any order, a list that is   *)
(* loaded when the page is mounted and again after every change, and no    *)
(* cancellation. The data are versions: the number of changes the list on  *)
(* the gateway has seen. p is the state of the mounted page, a record with *)
(* at least the fields of Listing.                                         *)
(***************************************************************************)
EXTENDS Integers

\* loading: the page's state of that name. reqs: requests in flight, v = 0 until served. asked: how many
\* were sent. db: version on the gateway. shown: version on screen. mine: version of the last change of
\* this page that was confirmed. changes: changes so far, here and elsewhere. History: excused, since
\* the last confirmed change a load has failed or its answer came after that of a newer one.
Listing == [loading |-> TRUE, reqs |-> {[id |-> 1, kind |-> "load", v |-> 0]}, asked |-> 1,
            db |-> 1, shown |-> 0, mine |-> 0, changes |-> 0, excused |-> FALSE]

\* The state of a page whose own fields are those of own.
WithList(own) ==
  [f \in DOMAIN own \cup DOMAIN Listing |-> IF f \in DOMAIN own THEN own[f] ELSE Listing[f]]

Send(p, kind) ==
  [p EXCEPT !.reqs = @ \cup {[id |-> p.asked + 1, kind |-> kind, v |-> 0]}, !.asked = @ + 1]

\* A click that changes the list on the gateway; one change costs one request and one load.
Change(p, kind) == [Send(p, kind) EXCEPT !.changes = @ + 1]

\* The gateway serves a request: a load reads the list, anything else changes it.
MutantServed(p, r) == [p EXCEPT !.db = @ + 1, !.reqs = (@ \ {r}) \cup {[r EXCEPT !.v = p.db + 1]}]

Served(p, r) ==
  LET now == IF r.kind = "load" THEN p.db ELSE p.db + 1
  IN  [p EXCEPT !.db = now, !.reqs = (@ \ {r}) \cup {[r EXCEPT !.v = now]}]

\* load() after its await.
Loaded(p, r) ==
  [p EXCEPT !.reqs = @ \ {r}, !.shown = r.v, !.loading = FALSE, !.excused = @ \/ r.v < p.shown]

NotLoaded(p, r) == [p EXCEPT !.reqs = @ \ {r}, !.loading = FALSE, !.excused = TRUE]

\* A change is confirmed and the list loaded again.
MutantConfirmed(p, r) ==
  [p EXCEPT !.reqs = @ \ {r}, !.mine = IF r.v > p.mine THEN r.v ELSE p.mine, !.excused = FALSE]

Confirmed(p, r) ==
  Send([p EXCEPT !.reqs = @ \ {r}, !.mine = IF r.v > p.mine THEN r.v ELSE p.mine, !.excused = FALSE], "load")

Refused(p, r) == [p EXCEPT !.reqs = @ \ {r}]

\* Another admin changes the list.
Elsewhere(p) == [p EXCEPT !.db = @ + 1, !.changes = @ + 1]

Waiting(p) == {r \in p.reqs : r.v = 0}
Ready(p, kind) == {r \in p.reqs : r.v # 0 /\ r.kind = kind}
Quiet(p) == p.reqs = {}

\* A list that was never loaded has no rows, and no buttons in them.
HasRows(p) == p.shown # 0
-----------------------------------------------------------------------------
ListingOK(p, bound) ==
  /\ p.loading \in BOOLEAN /\ p.excused \in BOOLEAN
  /\ p.changes \in 0..bound /\ p.asked \in 1..(2 * bound + 1)
  /\ p.db \in 1..(bound + 1) /\ {p.shown, p.mine} \subseteq 0..p.db
  /\ \A r \in p.reqs : r.id \in 1..p.asked /\ r.v \in 0..p.db
  /\ \A r, s \in p.reqs : r.id = s.id => r = s
=============================================================================
