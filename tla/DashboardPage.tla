---------------------------- MODULE DashboardPage ----------------------------
(***************************************************************************)
(* The page Dashboard (app/(dashboard)/page.tsx): the first pair of        *)
(* requests and two pollers (createPollingClient in lib/sse.ts) that fetch *)
(* metrics and provider health for ever and ignore every error. A snapshot *)
(* of the gateway is its version.                                          *)
(***************************************************************************)
EXTENDS Integers, Sequences

CONSTANTS MaxSnapshots,  \* bound: versions of the gateway's metrics
          MaxHistory     \* points of the chart: 30
VARIABLE pg

\* first: what the chain fetchMetrics().then(fetchHealth) awaits; metricsPoller, healthPoller: "timer" or
\* awaiting its fetch. A fetch awaited holds the version it was served with, 0 until then.
Fetchers == {"first", "metricsPoller", "healthPoller"}
NoFetch == [what |-> "none", v |-> 0]
Fetch(what) == [what |-> what, v |-> 0]

Mounted ==
  {[page |-> "dashboard", loading |-> TRUE, metrics |-> 0, health |-> 0, history |-> <<>>, now |-> 1,
    at |-> [f \in Fetchers |-> IF f = "first" THEN Fetch("metrics") ELSE NoFetch]]}

Here == pg.page = "dashboard"

Snapshot == Here /\ pg.now < MaxSnapshots /\ pg' = [pg EXCEPT !.now = @ + 1]

\* The timer of a poller fires: tick.
Polled == [metricsPoller |-> "metrics", healthPoller |-> "health"]

Tick(f) ==
  /\ Here /\ f # "first" /\ pg.at[f] = NoFetch
  /\ pg' = [pg EXCEPT !.at = [@ EXCEPT ![f] = Fetch(Polled[f])]]

Serve(f) ==
  /\ Here /\ pg.at[f].what # "none" /\ pg.at[f].v = 0
  /\ pg' = [pg EXCEPT !.at = [@ EXCEPT ![f].v = pg.now]]

\* A fetch ends, ok or not: the first chain goes on to health, a poller sets its timer again.
MutantEnded(p, f, ok) ==
  [p EXCEPT !.at = [@ EXCEPT ![f] = IF f = "first" /\ p.at[f].what = "metrics" THEN Fetch("health")
                                    ELSE IF ok THEN NoFetch ELSE Fetch("nothing")]]

Ended(p, f, ok) ==
  [p EXCEPT !.at = [@ EXCEPT ![f] = IF f = "first" /\ p.at[f].what = "metrics" THEN Fetch("health") ELSE NoFetch]]

Last30(s) == IF Len(s) > MaxHistory THEN SubSeq(s, Len(s) - MaxHistory + 1, Len(s)) ELSE s

MutantGotMetrics(f) ==
  /\ Here /\ pg.at[f].what = "metrics" /\ pg.at[f].v # 0
  /\ pg' = [Ended(pg, f, TRUE) EXCEPT
              !.metrics = pg.at[f].v, !.loading = FALSE,
              !.history = IF pg.at[f].v < pg.metrics THEN @ ELSE Last30(Append(@, pg.at[f].v))]

GotMetrics(f) ==
  /\ Here /\ pg.at[f].what = "metrics" /\ pg.at[f].v # 0
  /\ pg' = [Ended(pg, f, TRUE) EXCEPT
              !.metrics = pg.at[f].v, !.loading = FALSE, !.history = Last30(Append(@, pg.at[f].v))]

GotHealth(f) ==
  /\ Here /\ pg.at[f].what = "health" /\ pg.at[f].v # 0
  /\ pg' = [Ended(pg, f, TRUE) EXCEPT !.health = pg.at[f].v]

Failed(f) == Here /\ pg.at[f].what # "none" /\ pg' = Ended(pg, f, FALSE)

Step(f) == Tick(f) \/ Serve(f) \/ GotMetrics(f) \/ GotHealth(f) \/ Failed(f)

Next == Snapshot \/ \E f \in Fetchers : Step(f)

\* Timers fire and requests are answered or fail.
Fairness == \A f \in Fetchers : WF_pg(Step(f))
-----------------------------------------------------------------------------
TypeOK ==
  Here => /\ {pg.metrics, pg.health} \subseteq 0..pg.now /\ pg.now \in 1..MaxSnapshots
          /\ pg.history \in Seq(1..MaxSnapshots) /\ pg.loading \in BOOLEAN
          /\ pg.at \in [Fetchers -> [what : {"none", "metrics", "health"}, v : 0..pg.now]]

\* The chart ends with the numbers of the cards above it and holds no more than its 30 points, although
\* the first fetch and the poller run side by side and either may answer last.
ChartEndsWithCards ==
  Here => /\ Len(pg.history) <= MaxHistory
          /\ pg.loading <=> pg.history = <<>>
          /\ pg.history # <<>> => pg.history[Len(pg.history)] = pg.metrics

\* Polling goes on for as long as the page is mounted: whatever requests fail, the poller comes back to
\* its timer again and again.
PollingGoesOn == []<>(~Here \/ pg.at["metricsPoller"] = NoFetch)
=============================================================================
