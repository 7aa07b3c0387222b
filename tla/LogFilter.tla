------------------------------- MODULE LogFilter -------------------------------
(***************************************************************************)
(* The filters of the page System Logs: the level chips and cards over the *)
(* rows the stream or a query put on screen, and the inspector of one row  *)
(* with its search in the context (logs/page.tsx). It shares no state with *)
(* the stream but the rows, which here may become any others at any time.  *)
(***************************************************************************)
EXTENDS Integers, FiniteSets

CONSTANTS Rows,      \* log records
          LevelOf,   \* the level of each
          NoRow      \* null
VARIABLE pg

LEVELS == {"DEBUG", "INFO", "WARNING", "ERROR", "CRITICAL"}
Groups == {"ALL", "INFO", "WARNING", "ERROR"}   \* the cards

\* activeLevels, selectedLog: the state of that name. metaSearch: whether it holds a text. history:
\* typedFor, the row that text was typed for.
Mounted ==
  {[page |-> "filter", rows |-> {}, activeLevels |-> LEVELS, selectedLog |-> NoRow, metaSearch |-> FALSE,
    typedFor |-> NoRow]}

Here == pg.page = "filter"

NewRows(s) == Here /\ pg' = [pg EXCEPT !.rows = s]

Without(l) == pg.activeLevels \ l
With(l) == pg.activeLevels \cup l

ToggleLevel(l) ==
  Here /\ pg' = [pg EXCEPT !.activeLevels = IF l \in @ THEN Without({l}) ELSE With({l})]

\* The levels a card switches; it is lit when one of them is active, the first when all are.
Card(g) == IF g = "ALL" THEN LEVELS ELSE IF g = "ERROR" THEN {"ERROR", "CRITICAL"} ELSE {g}
Lit(p, g) == IF g = "ALL" THEN Cardinality(p.activeLevels) = Cardinality(LEVELS)
             ELSE p.activeLevels \cap Card(g) # {}

MutantToggleLevelGroup(g) ==
  Here /\ pg' = [pg EXCEPT !.activeLevels = IF Card(g) \subseteq @ THEN Without(Card(g)) ELSE With({g})]

ToggleLevelGroup(g) ==
  Here /\ pg' = [pg EXCEPT !.activeLevels = IF Lit(pg, g) THEN Without(Card(g)) ELSE With(Card(g))]

\* filteredLogs
Filtered(p) == {r \in p.rows : LevelOf[r] \in p.activeLevels}

\* A row that is on screen is clicked: its inspector opens with an empty search.
MutantInspect(r) == Here /\ r \in Filtered(pg) /\ pg.selectedLog = NoRow /\ pg' = [pg EXCEPT !.selectedLog = r]

Inspect(r) ==
  /\ Here /\ r \in Filtered(pg) /\ pg.selectedLog = NoRow
  /\ pg' = [pg EXCEPT !.selectedLog = r, !.metaSearch = FALSE]

SearchContext ==
  /\ Here /\ pg.selectedLog # NoRow
  /\ pg' = [pg EXCEPT !.metaSearch = TRUE, !.typedFor = pg.selectedLog]

\* Closing leaves the text of the search behind.
CloseInspector == Here /\ pg.selectedLog # NoRow /\ pg' = [pg EXCEPT !.selectedLog = NoRow]

Next ==
  \/ \E s \in SUBSET Rows : NewRows(s)
  \/ \E l \in LEVELS : ToggleLevel(l)
  \/ \E g \in Groups : ToggleLevelGroup(g)
  \/ \E r \in Rows : Inspect(r)
  \/ SearchContext \/ CloseInspector
-----------------------------------------------------------------------------
TypeOK ==
  Here => /\ pg.rows \subseteq Rows /\ pg.activeLevels \subseteq LEVELS /\ pg.metaSearch \in BOOLEAN
          /\ {pg.selectedLog, pg.typedFor} \subseteq Rows \cup {NoRow}

\* A click on a card is seen: it turns the light of that card on or off.
CardClickSeen == [][Here => \A g \in Groups : ToggleLevelGroup(g) => Lit(pg', g) # Lit(pg, g)]_pg

\* The inspector never hides context of one record because of a text typed for another.
InspectorOwnsSearch == Here /\ pg.selectedLog # NoRow /\ pg.metaSearch => pg.typedFor = pg.selectedLog
=============================================================================
