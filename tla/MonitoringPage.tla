---------------------------- MODULE MonitoringPage ----------------------------
(***************************************************************************)
(* The page Monitoring / Audit (monitoring/page.tsx) and the pagination of *)
(* the table it uses (cg/Table.tsx): a filter and a page number whose      *)
(* every change loads a page of request logs; no load is cancelled. A page *)
(* of rows is what it was asked for.                                       *)
(***************************************************************************)
EXTENDS Integers

CONSTANTS Filters,    \* texts of the filter
          PagesOf,    \* for every filter, the number of pages its logs fill
          MaxLoads    \* bound: loads while the page is mounted
VARIABLE pg

Key(f, n) == [filter |-> f, n |-> n]

\* now: modelFilter and page. shown: what the rows on screen were asked for; total: the pages of the
\* total that came with them. History: excused, the newest load failed or an older answer came after its
\* own; strayed, the page number was chosen among those of another filter, whose rows were still on screen.
Mounted ==
  {[page |-> "monitoring", loading |-> TRUE, now |-> Key(f, 1), shown |-> Key(f, 0), total |-> 0,
    reqs |-> {[id |-> 1, of |-> Key(f, 1)]}, asked |-> 1, last |-> 0, excused |-> FALSE,
    strayed |-> FALSE]
    : f \in {CHOOSE f \in Filters : TRUE}}

Here == pg.page = "monitoring"

\* The effect of load: it depends on the filter and the page, so it runs when one of them changes.
LoadOf(p) ==
  IF p.now = pg.now THEN p
  ELSE [p EXCEPT !.loading = TRUE, !.asked = @ + 1, !.excused = FALSE,
                 !.reqs = @ \cup {[id |-> p.asked + 1, of |-> p.now]}]

\* Typing in the filter goes back to the first page.
MutantSetFilter(f) == Here /\ pg.asked < MaxLoads /\ pg' = LoadOf([pg EXCEPT !.now = Key(f, pg.now.n), !.strayed = FALSE])
SetFilter(f) == Here /\ pg.asked < MaxLoads /\ pg' = LoadOf([pg EXCEPT !.now = Key(f, 1), !.strayed = FALSE])

\* The table offers its pages when there is more than one, and it stays in use while rows are loading.
TotalPages == IF pg.total = 0 THEN 1 ELSE pg.total

SetPage(n) ==
  /\ Here /\ pg.asked < MaxLoads
  /\ pg.total > 1 /\ n \in 1..TotalPages
  /\ pg' = LoadOf([pg EXCEPT !.now = Key(pg.now.filter, n),
                             !.strayed = @ \/ pg.shown.filter # pg.now.filter])

Loaded(r) ==
  /\ Here /\ r \in pg.reqs
  /\ pg' = [pg EXCEPT !.reqs = @ \ {r}, !.loading = FALSE, !.shown = r.of, !.total = PagesOf[r.of.filter],
                      !.last = r.id, !.excused = @ \/ r.id < pg.last]

NotLoaded(r) ==
  /\ Here /\ r \in pg.reqs
  /\ pg' = [pg EXCEPT !.reqs = @ \ {r}, !.loading = FALSE, !.excused = @ \/ r.id = pg.asked]

Answers == Here /\ \E r \in pg.reqs : Loaded(r) \/ NotLoaded(r)

Next ==
  \/ \E f \in Filters : SetFilter(f)
  \/ Here /\ \E n \in 1..TotalPages : SetPage(n)
  \/ Answers
-----------------------------------------------------------------------------
TypeOK ==
  Here => LET keys == [filter : Filters, n : Nat]
          IN  /\ {pg.now, pg.shown} \subseteq keys /\ pg.total \in Nat
              /\ pg.loading \in BOOLEAN /\ {pg.excused, pg.strayed} \subseteq BOOLEAN
              /\ pg.asked \in 1..MaxLoads /\ pg.last \in 0..pg.asked
              /\ pg.reqs \subseteq [id : 1..pg.asked, of : keys]

\* When the page comes to rest it shows the rows of its filter and page number, and the number is one the
\* table offers, so the admin can always leave it, whatever became of earlier loads. Excepted: the newest
\* load failed, or an older answer came after its own; and a number picked for the rows of another filter.
RowsMatchControls ==
  Here /\ pg.reqs = {} /\ ~pg.excused =>
    pg.shown = pg.now /\ (~pg.strayed => pg.now.n \in 1..TotalPages)
=============================================================================
