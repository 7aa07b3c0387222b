----------------------------- MODULE ProviderInfo -----------------------------
(***************************************************************************)
(* The info drawer of the providers page (ProviderInfoDrawer in            *)
(* providers/page.tsx): it opens for a provider and loads the numbers of   *)
(* that provider; the request is not cancelled when it closes. A request   *)
(* and what it returns are named by the provider.                          *)
(***************************************************************************)
EXTENDS Integers

CONSTANTS Providers, NoProvider,
          Bare,       \* providers without deployments
          MaxOpens    \* bound: how often the drawer opens
VARIABLE pg

\* provider, info, loading, error: the state of that name. inflight: requests, numbered. opens: their
\* number. History: crossed, the numbers kept are those of an earlier opening, which came after its drawer
\* had been closed.
Mounted ==
  {[page |-> "info", provider |-> NoProvider, info |-> NoProvider, loading |-> FALSE, error |-> FALSE,
    inflight |-> {}, opens |-> 0, crossed |-> FALSE]}

Here == pg.page = "info"

\* What is on screen: skeletons while loading, then the cards of one provider or dashes, below them its
\* deployments or the note that it has none.
Cards(p) == IF p.loading THEN {} ELSE {p.info} \ {NoProvider}
Table(p) == Cards(p) \ Bare
NoteOfNone(p) == ~p.loading /\ Table(p) = {}

\* The info button of a row; the effect asks, and leaves the numbers on screen as they are.
Open(p) ==
  /\ Here /\ pg.provider = NoProvider /\ pg.opens < MaxOpens
  /\ pg' = [pg EXCEPT !.provider = p, !.loading = TRUE, !.error = FALSE, !.opens = @ + 1,
                      !.inflight = @ \cup {[id |-> pg.opens + 1, of |-> p]}]

MutantClose ==
  Here /\ pg.provider # NoProvider /\ pg' = [pg EXCEPT !.provider = NoProvider, !.crossed = FALSE]

\* Closing clears the numbers.
Close ==
  /\ Here /\ pg.provider # NoProvider
  /\ pg' = [pg EXCEPT !.provider = NoProvider, !.info = NoProvider, !.crossed = FALSE]

Ended(r) == [pg EXCEPT !.inflight = @ \ {r}, !.loading = FALSE]
Stray(r) == r.id < pg.opens \/ pg.provider = NoProvider

\* An answer is shown whoever asked.
Loaded(r) == Here /\ r \in pg.inflight /\ pg' = [Ended(r) EXCEPT !.info = r.of, !.crossed = Stray(r)]
Failed(r) == Here /\ r \in pg.inflight /\ pg' = [Ended(r) EXCEPT !.error = TRUE]

Answers == Here /\ \E r \in pg.inflight : Loaded(r) \/ Failed(r)
Next == \/ \E p \in Providers : Open(p)
        \/ Close \/ Answers
-----------------------------------------------------------------------------
TypeOK ==
  Here => /\ {pg.provider, pg.info} \subseteq Providers \cup {NoProvider}
          /\ pg.loading \in BOOLEAN /\ pg.error \in BOOLEAN /\ pg.crossed \in BOOLEAN
          /\ pg.opens \in 0..MaxOpens
          /\ pg.inflight \subseteq [id : 1..pg.opens, of : Providers]

\* What is on screen is true of the provider in the title: the numbers are its own, and unless an error
\* is shown too, only a provider without deployments is said to have none; answers that fail late change
\* nothing in that. Excepted: numbers that come after their drawer was closed are kept, and shown under the
\* next title until its own numbers come or the drawer closes.
InfoOfProvider ==
  Here /\ pg.provider # NoProvider /\ ~pg.crossed =>
    Cards(pg) \subseteq {pg.provider} /\ (NoteOfNone(pg) => pg.provider \in Bare \/ pg.error)
=============================================================================
