# Formal models of Clever Gate

Clever Gate is an OpenAI-compatible gateway in front of LLM providers: a FastAPI backend run as four
gunicorn workers (`docker/supervisord.conf`), one Redis, one PostgreSQL and a Next.js admin panel.
This directory holds TLA+ modules for the parts of the backend and of the panel in which concurrency,
failure and ordering decide whether the code is right, TLC configurations that check them on small
instances, and TLAPS proofs of the properties that matter most, for every value of the constants.

Paths below are relative to `src/`; `app/` stands for `backend/app/` and `panel/` for
`frontend/app/(dashboard)/`.

## 1. Inventory

All request handling is asyncio: in one worker, coroutines interleave at awaits; between workers,
only Redis and PostgreSQL are shared. Every Redis command, every SQL round trip and every await of a
lock or queue is a point where another coroutine, another worker, the clock, a failure or the death of
the process may come in between. That is the granularity of the models.

| component | source | state | operations | what makes it correct |
|---|---|---|---|---|
| rate limiter | `app/middleware/rate_limit.py` | `cg:ratelimit:<hash>` (sorted set, expiry), `cg:keyrl:<id>` (cached limit) in Redis | look up the limit (cache, then `rate_limits`), fill the cache, run the sliding-window pipeline | no window of admitted requests exceeds the limit; a 429 is deserved; the limit used is fresh |
| router builder | `app/providers/router_builder.py`, `app/api/admin/providers.py` | `_router`, `_version`, `_lock` per worker; the configuration tables | `build`, `get_or_build`, `_reload_router` after each change of a provider, deployment or key | an admin sees its own write; no worker goes back to an older configuration; the lock is always freed; every worker learns of a change |
| load balancer, breaker, cooldown | `app/routing/balancer.py`, `breaker.py`, `cooldown.py` | `cg:breaker:<id>:fails` (no TTL), `cg:cooldown:<id>` (TTL) in Redis | select a deployment, check availability, retry, record failure or success | circuits open at the threshold, not long before, and close again |
| log consumer | `app/observability/log_consumer.py` | consumer group and pending entries of `cg:logs:stream`, `system_logs`, the buffer of each worker | read, insert and commit, acknowledge, sleep and reconnect, flush on cancellation | acknowledged implies stored; no duplicates; every entry is stored |
| log capture and transport | `app/observability/log_pipeline.py` | bounded thread-safe queue, batch, stream | `_enqueue`, `_transport_loop`, `_flush_batch`, `stop_log_transport` | order, bounded retention, loss only where designed, drained at shutdown |
| lifespan | `app/main.py` | the tasks and pools of a worker | start-up, shutdown hook | the hook reaches its end; nothing blocks the event loop |
| core engine | `app/core/engine.py` | none of its own | cache lookup, select, dispatch (split or not), fill, stream | a caller gets one whole answer to its own question, and a split is merged; circuit-breaker protection of D6 |
| response cache | `app/cache/exact.py`, `app/services/cache.py` | full and streamed entries, one index set per model, TTLs | get, set, invalidate by pattern or by model | the index of a model covers its entries; an invalidation deletes what was cached before it |
| splitting and aggregation | `app/payload/*` | none | token counts, recursive text split, merge of partial answers | chunks within the limit, no text lost, answers merged in order |
| endpoints | `app/api/v1/*` | none | authenticate, limit, check the model, dispatch | order of the checks |
| authentication | `app/auth/*`, `app/api/admin/auth.py` | users, keys, tokens | login, refresh, verify a key | expiry, revocation |
| admin endpoints | `app/api/admin/*`, `app/services/*` | tables | CRUD, reports, admin seed at start-up | one admin account |
| live log stream | `app/api/admin/ws.py`, `app/api/admin/logs.py` | pub/sub subscription | relay, reconnect | events in order, no relay outlives its socket |
| admin session | `frontend/lib/api.ts`, `frontend/lib/auth.tsx`, `panel/layout.tsx`, `frontend/app/(auth)/login/page.tsx` | the token pair in localStorage, the shown user, `loading`, the route, any number of calls in flight | boot, login, logout, page calls with refresh and retry, reload | the panel acts for the user it shows; a logout stays one; expiry is never visible; the blank page ends |
| system logs page | `panel/logs/page.tsx` | socket, timer, renewal, buffer, rows on screen, queries in flight, level filters, inspector | stream, reconnect, renew, pause, clear, switch to history and back, search, filter | one line to the gateway; no row lost, doubled or reordered on screen; a click on a card is seen |
| keys, users and cache pages | `panel/keys`, `users`, `cache/page.tsx`, `Table.tsx`, `Drawer.tsx`, `Confirm.tsx` of `frontend/components/cg` | a list, a drawer with a form, requests in flight | load, revoke, delete, generate, add, edit, invalidate | the list shows the page's own changes; what is saved goes to the record it was typed for |
| providers page | `panel/providers/page.tsx` | tab, lists, one editing record for three drawers, clone records, info drawer | switch, open, edit, clone, save, delete, show numbers | a form holds what it was opened for; numbers belong to the provider in the title |
| settings page | `panel/settings/page.tsx` | the draft of all settings | edit, save all, reload | a save alters what the admin typed, not what others changed |
| monitoring page | `panel/monitoring/page.tsx` | filter, page number, rows | filter, turn the page | rows belong to filter and number, and the number exists |
| dashboard | `panel/page.tsx`, `frontend/lib/sse.ts` | metrics, health, chart, two pollers | first fetch, poll | the chart ends with what the cards show; polling survives every error |
| pools, sessions, concurrency helpers | `app/core/pooling.py`, `app/db/session.py`, `app/core/concurrency.py`, `app/core/streaming.py` | connection pools, process pool, semaphores, buffers | open, resend, close | their failures are branches of the other models |
| schemas, ORM, migrations, metrics, logging set-up, presentation, deployment | see `PROJECT.json` | | | declarations, presentation, configuration |

How they interact. A model request runs `enforce_rate_limit`, then `CoreEngine`: response cache, the
worker's router (built on first use), a deployment from the load balancer, the LiteLLM adapter, and
the cache fill. The admin panel changes the configuration tables and rebuilds the router of the worker
that served it. Every log line of every thread goes queue -> transport task -> Redis stream (and
pub/sub for the live view) -> consumer group, one member per worker -> `system_logs`. The shutdown
hook of a worker cancels its consumer, then stops its transport, then closes the pools.

In the browser all code of a tab runs on one event loop: a handler or an effect of React runs to its
next await, and between two awaits anything else may happen: another handler, the answer of another
request, a timer, another page. Nothing is cancelled in the panel but the socket and the pollers, so an
answer may find another filter, another drawer, another user. `apiFetch` is shared by all pages: each
call that is refused with 401 refreshes the pair on its own and repeats itself.

The hazards (what is hard to test, each at its line, with the properties that cover it) are listed in
`PROJECT.json`, including some no property covers, with the reason. Smaller ones, with no property
either: a failed lookup lets a request through without a limit (`app/middleware/rate_limit.py:205`, on
purpose); a build without deployments drops the router and keeps its version (`router_builder.py:57`);
LiteLLM may call another deployment than the one charged (`balancer.py:117`); the stream forgets its
oldest entries at 50000 (`log_pipeline.py:200`); the index is named after the model a provider reports
(`exact.py:68`); the arithmetic of the splitter (`splitter.py:100`); the insertion of the admin account
by every worker at start-up (`services/users.py:96`); a sign-in whose question for the user fails keeps
its tokens (`auth.tsx:51`).

## 2. Modules

| module | role |
|---|---|
| `RateLimiter` | the rate limiter for one key: any number of requests, an operator, the clock |
| `HotReload` | router builders of all workers, admins, clients, deaths of workers |
| `ConfigView` | abstract specification: a published version number and monotone views of it |
| `Breaker` | the calls of one model name over its deployments, Redis command by Redis command |
| `LogConsumer` | the consumer group, the consumer loops, their failures, shutdown and respawn |
| `LogTransport` | queue, transport loop, stream, and the shutdown hook of one worker |
| `ResponseCache` | the response cache between the engine's requests and the invalidations of the admins |
| `Answers` | abstract specification: what a cache promises to callers, in terms of upstream answers |
| `AdminSession` | one browser tab: tokens, shown user, route, and all calls in flight |
| `LogsPage`, `LogFilter` | the system log page: stream and history; level filters and inspector |
| `Requests` | what the list pages share: loads and changes served and answered in any order |
| `KeysPage`, `UsersPage`, `CachePage` | three list pages over `Requests` |
| `ProvidersPage`, `ProviderInfo` | tabs and drawers of the providers page; its info drawer |
| `SettingsPage`, `MonitoringPage`, `DashboardPage` | the pages of these names |
| `Panel` | composes the pages: one is mounted at a time and its state is lost when it is left |
| `MC*` | the instance TLC checks, with the symmetry of that instance where it is sound |
| `*_proofs` | inductive invariants and TLAPS proofs |

Definitions named `Mutant...` are deliberately wrong variants of the definition that follows them; no
action uses them. They show that a property can fail: with the variant in place of the definition, TLC
finds the property violated.

### RateLimiter

State: the clock, the configured limit `rpm` (0: no active row), the cached limit `rlCache` with its
expiry, the sorted set `zset` (each request is one member, its score is its `stamp`) with its expiry,
and per request where it is in `enforce_rate_limit`. Actions follow the awaits: `CacheHit`/`CacheMiss`
(the GET), `QueryLimit` (the SELECT), `FillCache` (the SETEX), `Execute` (the MULTI/EXEC that evicts,
adds, counts and refreshes the expiry). `Decide` reads the clock in the same step in which the limit
becomes known, as the code does: the pipeline runs later, with an old clock. `LookupFails` and
`ExecuteTimesOut` are the error paths; the latter includes the client's one resend
(`retry_on_timeout`), which repeats the same member. `Configure` and `Tick` are the environment.

- `WindowLimit`: of the requests admitted within any `Window - MaxDelay` seconds there are at most as
  many as the limit one of them was admitted under. It cannot hold for `Window`: a pipeline whose clock
  was read `MaxDelay` ago runs on a set that a fresher pipeline has already trimmed by its own, later,
  cut-off. Milliseconds in 60 s, in practice.
- `DenialJustified`: a denied request had more than its limit of requests in the window before it, each
  counted once although pipelines are resent.
- `LimitFresh`: a limit in use was configured at some time in the last cache TTL plus the duration of
  two runs of the dependency: one that filled the cache late and one that used it late.

### HotReload and ConfigView

The configuration is its version number and whether any enabled deployment is left; a router is the
snapshot it was built from. `Mutate` commits a change (and may fail after the commit, without a
reload), `Acquire`/`LoadModels`/`Swap` are `RouterBuilder.build`, `BuildFails` its exceptions (which
`_reload_router` only logs), `Serve`/`NeedRouter` are `get_or_build`, `Respawn` is the death of a
worker. `MonotoneView` is the refinement: `published` is `config.ver` and the view of a worker is the
version of its router, and hot reload implements `ConfigView`, whose views only ever move forward (a
respawned worker starts again from nothing).

- `OwnWriteVisible`: after a reload succeeded, the worker routes by that change or a newer one,
  whatever other rebuilds overlapped it. It depends on the load being inside the lock.
- `BuildsEnd`: no failing rebuild or dying worker leaves the lock taken.

### Breaker

Every call of the load balancer: `Select` walks the candidates in order, `CheckCooldown` and
`CheckFails` are `is_available`, `UpstreamOk`/`UpstreamFails` the upstream call with tenacity's
retries, and `Incr`/`SetCooldown`/`DeleteCounter` the separate commands of `record_failure` and
`record_success`. Calls of the engine only select and then call the adapter. `faulty` is chosen in the
initial state: in a faulty run Redis commands fail or are applied twice, and calls die.

- `CounterDrains`, `ThresholdOpens`, `EligibleAgain` (without faults): the counter never rests at its
  threshold, concurrent failures are not lost, a deployment in cooldown becomes eligible again. With
  faults they fail, and the code is exposed to it: the counter has no TTL, so when its reset is lost
  after `set_cooldown`, `is_available` refuses the deployment until somebody deletes the key.
- `NoSpuriousOpening` (also with faults): a circuit opens only after at least half of `MaxFails` failed
  dispatches; an INCR that is resent counts twice, no more. It may also count twice and raise, when the
  replies to both sends are lost.

Which deployment LiteLLM really calls is its own choice inside `router.acompletion(model=...)`: the
model lets it pick any deployment of the group. A deployment can therefore be charged with another
one's failures, and for calls of the engine nothing is recorded at all (section 4).

### LogConsumer

Entries are numbers; `delivered` and `pending` are the consumer group; `rows` counts the rows of each
entry. `Read`, `ReadEmpty`, `Commit`, `Ack`, `Wake` are the loop; `ReadFails`, `InsertRaises`,
`CommitFails` its error paths, each with and without the command having been applied; `Cancel` the
cancellation at any await with the last flush of its handler. The await that is cancelled may have been
carried out (`Interrupted`): a commit, an acknowledgement, or a read, whose batch Redis has then delivered to
this consumer while the reply is thrown away with the task (the ghost `dropped`). `Crash` and `Respawn` are
a worker that is killed and its successor, under another consumer name. `faults`, chosen in the initial
state, says which kinds of failure this behaviour has.

- `AckedStored`: the group never forgets an entry that has no row. It is the order of commit and ack,
  and the early return after a failed commit, that make it true.
- `DuplicatesOnlyAtShutdown`: an entry has one row, or two when a shutdown interrupted a flush that had
  committed.
- `EventuallyStored`: when nothing worse than shutdowns happens, every entry that parses gets a row, except
  those of a read that was cancelled after Redis had delivered it: they are pending under the name of a
  consumer that is gone and in no buffer the handler could flush, and only new entries are ever read.
  `Durable`, the same whatever fails, is what the documentation says and the code does not do.

### LogTransport

Events are numbered as they are offered. `Enqueue` is `put_nowait`, which drops when the queue is full.
`Get`, `GetSentinel`, `GetEmpty`, `Flush`, `FlushFails`, `Wake`, `LastFlush` are `_transport_loop`
from one queue access or await to the next; a failed pipeline may have been applied. `Shutdown`,
`ConsumerEnded`, `PutSentinel`, `Join`, `JoinTimeout`, `Exit` are the shutdown hook: `PutSentinel`
is the blocking put of `stop_log_transport`, so while `lpc = "put"` nothing else of the event loop
runs (`Runs`).

- `BatchBounded`: an outage keeps at most the newest `MaxBatch` events and the one just taken, in order.
- `FirstSeenInOrder`: the stream shows events for the first time in the order they were logged,
  although lost replies make it repeat parts of batches and the trim makes it skip.
- `LostOnlyByTrimming`, `DrainedAtShutdown`, `EventuallyPublished`: what was accepted is lost only for
  newer events or in a shutdown; a shutdown with a working Redis drains what precedes the sentinel; and
  the rest is published.

### ResponseCache and Answers

State: the keys of Redis with their values and expiry (`redis`: a full response, a stream or the index
of a model), the position of each request in `chat_completion` or `stream_chat_completion` with its
question, what its upstream has answered so far (`sent`, `named`) and the answer its caller got, and the
position of each call of `/cache/invalidate`. A response is abstracted to who produced it and, for a
stream, how many chunks of it there are.

- Requests: `AskHit` and `AskMiss` are the GET (an error of Redis counts as a miss, so a miss is always
  possible); `ChatAnswers`, `PartAnswers`, `Chunk`, `StreamEnds` the upstream, where a large
  conversation is answered in parts; `DispatchFails` every exception of the dispatch, also in the middle
  of a stream, and a caller that goes away; `Fill` the pipeline of `set` or `set_stream`, after which
  the request returns or, its reply lost, sends the pipeline again; `FillFails` the swallowed error;
  `Gone` the caller or worker that disappears during the fill.
- Invalidations: `ReadIndex` is the SMEMBERS of `invalidate_by_model`, `DeleteBatch` its pipeline.
  `StartScan`, `Visit`, `EndScan` are `invalidate`: a scan visits any keys in any order and must visit
  those that exist from its beginning to its end (`pending`). `InvalidationFails` ends either half-way.
- `Tick`: the clock of Redis, which removes what expires.

A stream has its answer when the upstream is exhausted (`[DONE]` is sent before the cache is filled), a
chat after its fill. A command that Redis executes only after its client gave up is not modelled.

The properties speak of two ghosts. `doomed[i]` are the writers whose entries invalidation `i` has to
remove: those of all entries when it is a scan; for a model, of the full responses filed under it and
the streams of the same questions. Only entries whose requests had ended count. `exposed` are
the writers whose entries met an invalidation that was already under way, or a full scan; the index
need not cover those, and with the code as it is, it does not.

- `IndexCovers`: a full response that is not exposed is in the index of its model, and the index does
  not expire before it.
- `InvalidationEffective`: after an invalidation returned without an error, nothing it had to remove is
  left to be served, however fills and other invalidations interleave. For an invalidation by model this
  rests on `IndexCovers`; for a scan, on every key being there for all of the scan or gone.
- `ImplementsAnswers`: the cache implements `Answers`. `Answers` knows questions, whole upstream answers
  and whose answer a caller was given; `Given` maps an answer that is not whole to a value outside its
  types. Hits, resent fills, broken streams and failed parts map to its steps or stutter.

What the cache does not promise, and no property claims: an answer under way when an invalidation ran is
cached after it; an entry filled between the SMEMBERS and the pipeline of an invalidation by model stays
without an index; a stream whose question was never answered whole is not found by model.

### AdminSession

`store` is the pair in localStorage, `user`, `loading` and `route` the state of the AuthProvider and of
the router, `at` and `tok` say for each call where it is in `apiFetch` and which pair its last request
used. There is one boot, one form and one question after it (`me`), as the busy button allows, and any
number of page calls and of clicks on logout. `Answer` is the first answer with what the caller makes of
it (`Succeed`), the refresh when it is a 401 with a pair in store (`Answer401`) or the failure (`Fail`);
`Renewed`, `NotRenewed` and `Retried` the rest of `apiFetch`; `Leave` what a failed boot and every logout
do; `Breaks` a network error; `Expire` and `RefreshEnds` the passing of time; `Reload` a new page load.
`faulty` is chosen in the initial state: only then do requests fail and refresh tokens end.

The code renews whatever pair it finds and stores the new one whatever has become of the session
meanwhile. So a call of an ended session that comes back late can bring tokens back after a logout or put
those of one admin under the name of another. The history variable `old` names the calls whose session
ended while they were in flight and `crossed` becomes true when one of them changes the present session;
the properties say that this is the only way in which they fail:

- `ShownUserOwnsTokens`: unless crossed, the dashboard acts with tokens of the user it shows.
- `LogoutDiscards`: unless crossed, tokens and user stay gone after a logout until somebody signs in.
- `ExpiryHidden`: without faults and unless crossed, however many calls refresh at once, only a call
  whose session was ended under it sees a 401.
- `LoadingEnds`: the blank page of the first load ends, whatever fails.

### The pages and Panel

Each page module gives the set `Mounted` of states right after its first effects, one action per handler,
effect and answer, and properties of the form "while this page is here". All share the variable `pg`, a
record whose field `page` says which page it is: React destroys the state of a page that is left, and
`Panel` does so in two steps, `Leave` and `Arrive`. Answers to requests of a page that is gone find
nobody. `LogFilter` and `ProviderInfo` are parts of their pages that share no state with the rest, and
are mounted like pages of their own. Data are versions, identities or small sets. In `LogsPage`,
`Connect`, `Opened`, `Refused`, `Closes` (`onclose`), `Renewed`, `Reconnect` and `Cleanup` are the live
effect, its handlers and its cancellation; `Publish` and `Receive` the gateway and `onmessage`, where an
event may be lost while the relay of the gateway is between two subscriptions.

The pages state their properties, each with its exceptions, and `Panel` groups them by what they promise:

- `LineAndBadge`: `OneConnection` and `BadgeFollowsSocket` of the log page. The badge says Live exactly while
  the socket is open, with one exception: `Cleanup` and `connect` do not reset it, so after live, history,
  live it still says what it said before, until the new socket opens or closes, or for good when there is no
  token to open one with. The history field `heldOver` marks that time.
- `StreamFaithful`: `BufferOrdered` (order, no repetition, bounded) and `LiveViewIsBuffer` (a running
  stream shows its buffer; the late answer of a history query is the exception).
- `ListFollowsChanges`: at rest a list shows every change of its page. Excepted (`excused`): the reload after
  the last of these changes, or a load after it, failed or was overtaken by an older answer, which the pages
  take for the newest. A confirmed change starts from a clean slate.
- `DrawersOwnRecords`: `FormMatchesIntent` (providers), `SavedToItsOwner` (users), `InfoOfProvider`,
  `InspectorOwnsSearch` (the search in one log record does not survive it). Excepted: the copy left in a tab
  whose drawer a late confirmation closed (`late`), and numbers of a provider that come after their drawer
  was closed (`crossed`).
- `ShownTogether`: `RowsMatchControls` (monitoring; excepted when the newest load failed or was overtaken, or
  the page number was picked while the rows of another filter were shown), `ChartEndsWithCards` (dashboard).
- `InputStands`: `TypingKept` (keys, users and providers), `EditsKept` and `SaveTouchesEdits` (settings),
  `PausedViewStands` and `CardClickSeen` (log page). What the admin types, reads in a pause or clicks on
  stands against every step but the answers that fill a form anew, and these are named: the list of users
  sets the drawer of a key to its defaults (`panel/keys/page.tsx:134-136`), the list of providers refills the
  drawers of a deployment and of a provider's key (`panel/providers/page.tsx:697-709`, `766-768`), and the
  settings replace their draft, also what was typed during a save (`panel/settings/page.tsx:62-64`).
- `WaitsEnd`: spinners and save buttons, `StreamRecovers`, `PollingGoesOn`.

A group has one mutant for each of its parts.

## 3. Runs

| run | instance | question |
|---|---|---|
| `rate_window` | 3 requests, limits 0 (none) and 2, window 2, TTL 1, delay 1, 5 ticks | are the limits, the denials and the cached limit right, under every interleaving and resend |
| `reload_rebuild` | 2 workers, 2 changes, 1 request, one respawn each, failures | overlapping rebuilds: own write, monotone views, the lock |
| `reload_workers` | 2 workers, 1 change, no failures | violation: other workers never learn of the change |
| `breaker_circuit` | 2 deployments, 3 balancer calls, 1 engine call, threshold 3, 2 attempts, with and without faults | opening and closing of circuits |
| `consumer_group` | 2 workers with 3 lives, 4 entries (one unparsable), shutdowns only or all faults | loss and duplication; with shutdowns only, every entry is stored but those of a cancelled read |
| `consumer_crash` | 1 worker that is killed once | violation: what it had read is never stored |
| `transport_pipeline` | 6 events, queue 3, flush at 2, cap 3, 3 failing pipelines, shutdown | order, loss, retention, draining, progress |
| `transport_shutdown` | 2 events, the consumer task ends cancelled | violation: the hook ends before it stops the transport |
| `cache_shared` | 2 requests, 3 keys (one asked both ways, one large), 1 model name, 2 invalidations, TTL 2, 3 ticks | index, invalidations and whole answers, under every interleaving, resend and failure |
| `session_races` | 2 admins, 1 page call, 2 logout clicks, 1 reload, with and without faults | whose tokens the panel acts with, what a logout leaves, hidden expiry, the end of the blank page |
| `panel_pages` | all pages: 3 events, buffer of 2, 2 queries, 1 dropped connection; 2 changes by others or the page per list; 2 settings of 2 values, 2 saves; 4 loads; 3 snapshots, chart of 2; 4 operations on providers; 3 openings of the info drawer, 2 providers | what each page shows, sends and waits for while answers come late, out of order or not at all |
| `logs_expired` | the log page alone, refused handshakes reported as 1006 | violation: a stream whose token expired reconnects with it for ever |

Bounds and why they are enough. Three requests against a limit of two are the least that can exceed
it, and let a late pipeline, a fresh one and a resent one meet; five ticks exceed both the window and
the staleness bound of the cache. Two changes and a request give three rebuilds that compete for a
lock, in one worker or in two. Three failures reach a threshold of three with every interleaving of
INCR, SETEX and DEL, and one failed dispatch whose INCRs are resent must not open the circuit.
Two consumers with batches of two over four entries give full and partial batches, an unparsable entry
inside a batch, and every fault at every await. Six events against a queue of three and a cap of three
overflow both. Two requests are the least that can share an answer, put two entries of different ages in
one index, or ask one question both ways; two invalidations the least that can overlap; a TTL of two with
three ticks lets an entry expire before, with or after another. Two admins are the least that can be
confused; a boot, a form, a page call and two logouts may be in flight together, each with its own
refresh, which covers late calls of every kind against a session of every kind, and the reload drops the
calls but not the tokens. On the pages two requests of a kind are the least that can overtake each other;
three events overflow a buffer of two; four loads of the monitoring page and four operations on the
providers let a second answer arrive between the steps of the first. The pages share nothing but `pg`, so
the states of `panel_pages` are the sum, not the product, of theirs.

The counters that the code does not bound are bounded by the guards on `MaxClock`, `MaxBoots`, `M`,
`MaxLives`, `MaxFaults`, `MaxChunks`, and for the panel `MaxReloads`, `MaxEvents`, `MaxQueries`,
`MaxDrops`, `MaxChanges`, `MaxSaves`, `MaxForeign`, `MaxLoads`, `MaxSnapshots`, `MaxOps`, `MaxOpens`;
`MaxDelay` bounds the time a request spends in the dependency.

`CHECK_DEADLOCK FALSE` is set where the modelled system really stops: all requests, changes, calls or
entries have been handled and the clock is at its bound, or the process has exited.

Symmetry is used only in runs without liveness properties, over sets of model values that no
definition tells apart.

Fairness. The event loop runs every coroutine that is ready, and every await of Redis or PostgreSQL
returns or raises because sockets have timeouts: weak fairness of the steps of a coroutine. Waiters of
an `asyncio.Lock` are woken in the order they came: strong fairness of `Acquire`, no task waits for ever
while others pass the lock on. Redis expires keys (`CooldownExpires`) and gunicorn respawns workers
(`Respawn` of `LogConsumer`). In the panel every request is answered or fails, timers fire, handshakes
succeed or are refused. Nothing is assumed about the environment: no thread has to log, no admin
to change anything, no worker to die or survive, no fault to happen or end, other than by its bound.

## 4. What the violations show

Four runs check what a comment or a document says of the program and find that the code does not.

- `reload_workers`: `docs/DESIGN-EN.md:325` promises that a change in the panel re-triggers the builder,
  by Redis pub/sub for several instances. `_reload_router` rebuilds the router of its own worker; with
  four workers the other three go on with the old configuration until they restart.
- `consumer_crash`: `app/observability/log_pipeline.py:8-9` calls the stream durable. Entries delivered to
  a worker that is killed stay pending under a consumer name that contains its pid, and nobody claims them.
  An orderly shutdown can do the same to one batch, when it cancels a read that Redis has already answered
  (`log_consumer.py:81`): the exception of `EventuallyStored`.
- `transport_shutdown`: `app/main.py:74` "Stop log pipeline": the awaited cancelled consumer raises
  `CancelledError`, which is not an `Exception`, and the hook ends there.
- `logs_expired`: `panel/logs/page.tsx:136` says that an expired token is refreshed before the stream
  reconnects. The page does so on close code 1008, but the gateway refuses the handshake before accepting
  the socket (`app/api/admin/ws.py:46-48`), which a browser reports as 1006: the page tries again with the
  same token until another call of the panel renews it.

Other divergences follow from one line and need no run; the models do what the code does.

- `app/core/engine.py:9-10` says that upstream calls get circuit-breaker protection. The engine selects
  with the load balancer and then calls the adapter itself; `dispatch_chat` and `dispatch_stream` have
  no caller, so nothing is recorded and no circuit opens.
- `app/observability/log_pipeline.py:3` says "all non-blocking": the sentinel is put with the blocking
  `put` (line 234) on the thread of the event loop, into a queue that only a task of this loop empties.
- `app/core/engine.py:374-377`: the responses of a split conversation "are merged with
  `reduce_responses`". That is a coroutine function, and line 407 calls it without `await`: the coroutine
  goes to `model_validate`, which raises, and every split conversation ends in an error after its
  sub-requests were answered. Streams are never split.
- The badge of the log page says Live, and its tooltip "Connected to log pipeline" (`panel/logs/page.tsx:588-597`),
  after a return from history while no socket is open: during the handshake, and for good when the pair of
  tokens is gone (`:117-124`). The exception of `BadgeFollowsSocket`.
- The gauge of the dashboard (`panel/page.tsx:128`) counts the field `is_open`; the gateway sends
  `is_available` (`app/routing/breaker.py:73-77`).

## 5. Proofs

All theorems are about `Spec` (no fairness) and hold for every value of the constants that satisfies
the named assumption of the module; TLC evaluates the assumptions on every run.

| module | theorems | inductive invariant and why it is needed |
|---|---|---|
| `RateLimiter_proofs` | `TypeCorrect`, `WindowLimitHolds`, `DenialJustifiedHolds`, `LimitFreshHolds` | `Timely` (a coroutine's clock is at most `MaxDelay` old) and `Held` (the sorted set still holds every admitted request of the last window, and its expiry is not reached before they leave it): then the count of the pipeline that admits a request includes all admitted requests close to it. `Tallied` (the sorted set holds only counted members, whose clock reading is final): what a verdict counted can be counted again later. `Dated` and `Aged` (an entry is as old as the run that wrote it plus its TTL, the limit of a request as the entry it was found in plus its own run) |
| `HotReload_proofs` | `TypeCorrect`, `OwnWriteVisibleHolds`, `Refinement` (hot reload implements `ConfigView`) | `Owned` (who builds holds the lock) and `Snapshot` (what was loaded is not older than the router in place nor than the change of the task): a swap then never goes back |
| `Breaker_proofs` | `TypeCorrect`, `CounterDrainsHolds`, `ThresholdOpensHolds`, `NoSpuriousOpeningHolds` | `Recorders` (only balancer calls record failures); a step that raises the counter to its threshold leaves its own call before the reset. `Counted` (the counter and twice what is still to be counted are at most twice the failures charged) and `Exact` (without faults, and until a success or an opening resets it, counter and pending failures are exactly those charged) |
| `LogConsumer_proofs` | `TypeCorrect`, `AckedStoredHolds`, `DuplicatesOnlyAtShutdownHolds` | `Buffers` (buffers are disjoint and delivered; nothing undelivered is stored) and `Counts` (how often what is still in a buffer has been stored, by program counter) |
| `LogTransport_proofs` | `TypeCorrect`, `BatchBoundedHolds`, `FirstSeenInOrderHolds`, `LostOnlyByTrimmingHolds`, `DrainedAtShutdownHolds` | `Ordered` (batch before queue, both increasing), `Published` (every event of the batch was published before or is newer than all that was), `Sized`: an older event that is appended after a newer one was published before, and by induction its first entry precedes the newer one. `Owned` (what waits or is in the batch was accepted) and `Faultless` (without a fault every accepted event is somewhere until the loop is closed, and a transport that ended holds nothing): the trim keeps `MaxBatch` events of the ordered batch, each newer than what it drops |
| `ResponseCache_proofs` | `TypeCorrect`, `Implementation` (the cache implements `Answers`), `IndexCoversHolds`, `InvalidationEffectiveHolds` | `Genuine` (every entry is a whole answer to the question of its key) and `OnCourse` (by program counter, what a request has asked, produced and been given) make each step a step of `Answers`; `Bounded` (no entry outlives a TTL from now), so that the index refreshed by a fill outlives what it names; `Batched` (an invalidation that has read the index holds the key of every covered entry it will uncover) and `Scanned` (what a running scan may uncover is exposed), so that taking an index away leaves no covered entry behind; `Doomed` (entries to be removed belong to requests that have ended, so nobody writes them again, and are still in the batch or ahead of the scan) |
| `AdminSession_proofs` | `TypeCorrect`, `ShownUserOwnsTokensHolds`, `LogoutDiscardsHolds`, `ExpiryHiddenHolds` | `CallsFit` (a call of the present session carries tokens of its owner, so what it renews or answers belongs to it), `FormOnLoginPage` and `Forms` (a login changes the tokens only while no dashboard is shown, and asks one thing at a time), `AfterLogout` (whatever is in flight after a logout is old, but for a form just sent: only a crossing call can bring tokens back), `TokensLive` and `PagesSignedIn` (without faults a refresh succeeds and a page call has a pair, so a 401 is final only when the pair was taken away) |
| `Panel_proofs` | `TypeCorrect`, `LineAndBadgeHolds`, `StreamFaithfulHolds`, `ListFollowsChangesHolds`, `DrawersOwnRecordsHolds`, `ShownTogetherHolds`, `InputStandsHolds` | `PanelInv`: no page, or the invariant of the one that is mounted (below) |

`Panel_proofs` has a section per page. A page takes steps only while it is mounted (`StepsAtHome`), so the
invariants of the pages do not meet: each holds of the page as it is mounted, is kept by the steps of the
page, and ends when the page is left; what is said of a page holds trivially while it is away. The three
list pages share their lists: `WithList` makes their state a function on field names, and the lemmas about
the operators of `Requests` are proved once for every function that has the fields of a list.

| invariant | what it adds to the types, and why |
|---|---|
| `Listed` (keys, users, cache) | `Accounted`: the changes on their way leave room for the requests and versions they will cost; `Numbered`: no version is newer than the gateway's; `OnItsWay`: while the list lacks a confirmed change, a load that will show it is in flight. At rest nothing is in flight, so nothing is lacking |
| `UsersInv` | what was sent, and the form of an open drawer, belong to the user the drawer was opened for |
| `FilterInv` | a search is that of the selected row |
| `SettingsInv` | `AlteredKnown`: a setting that differs between the gateway and the draft, or a save on its way, was typed or has moved on the gateway |
| `MonitoringInv` | `LoadsKnown` and `NewestComes`: the newest load asks for the controls of now and is in flight or on screen, if it did not fail and was not overtaken; `PageOffered`: the page was chosen among those of its rows |
| `DashboardInv` | `NothingNewer` and `ChartGood`: cards and chart change in one step, so they end alike whoever fetched last |
| `ProvidersInv` | `TabsNumbered` bounds loads and refreshes by operations; `FormGood`: a record to be cloned belongs to the open drawer, or to a tab in which a late confirmation closed the drawer; apart from that the form holds what it was opened for |
| `InfoInv` | `NumbersOwned`: unless numbers of an earlier opening came late, the numbers are those of the provider in the title, or the newest request is in flight for it |
| `LogsInv` | `LineOK` (the two properties of the line need each other: a timer that fires finds no socket and a badge that is off; in live mode the badge is on while the socket is open or it is held over from before a visit to history), `OrderOK` (buffer, wire and the events still to come are in order, so that a batch moved from the wire extends the buffer and what is appended to the wire is newest) and `ViewOK` (a running stream shows its buffer) |

`LogsPage` states the assumption on its bounds as a definition, because `Panel` instantiates it; it is part
of `PanelAssumption`, the only assumption of `Panel_proofs`.

Left to TLC: liveness (`BuildsEnd`, `EligibleAgain`, `EventuallyStored`, `EventuallyPublished`,
`LoadingEnds`, `WaitsEnd`) and the violations, since liveness under fairness and ENABLED are beyond the
prover used here. Every invariant and action property that a run checks is proved. Induction over
recursively defined data and RECURSIVE operators are out of its reach too; none of the modules uses them.

## 6. Plan

The order is by what a fault would cost: admission of requests, routing, persistence of logs, the response
cache with the engine's request path, then the session of the admins and the pages of the panel. These are
done. What is left:

1. `Splitter`: the recursive splitter and the merge of `reduce_responses` as operators over short texts,
   against a reference definition (TLC only).
2. `LogPath`: transport and consumer composed over a stream trimmed to a maximal length, with a poison
   entry; abstract specification: an append-only log of which each reader sees a prefix with gaps.
3. `AdminSeed`: the start-up race of the workers. The relay of `ws.py` with its own reconnection.
4. A composition of `ResponseCache` with the checks of the endpoints (key, limit, allowed model), and of
   two tabs of the panel that share localStorage.
5. Proofs: an abstract at-most-`limit` window that `RateLimiter` implements.

## 7. Not modelled

Pure input and output and declarations: schemas, ORM models, migrations, metrics, logging set-up, the
embedding of log lines, the adapter's translation of requests, the container scripts, icons, animations
and colours. `StreamingBuffer`, the deployment semaphores, `clear_cooldown` and `RateLimitMiddleware`
have no caller; `get_state` and the cache's `stats` only read, for the dashboard. The payloads of
requests, responses and logs are abstracted to identities. The pub/sub copy of each log event is followed
only as far as `LogsPage` receives or loses it.

Of the panel: the models and the spend page (one load when mounted), texts and toasts, the text of
queries, the growing delay between two attempts to connect, following the end of the terminal, the
export, the names of clones and the connection test of the providers page, the choice of a theme, mock
data, and a second tab on the same localStorage, whose effect on the log page is `TokenChanges` and on
`AdminSession` is left out. The Back button of the browser to `/login` while signed in is left out too: the form
shown there would start a second session over the first. What the components of section 6 do is not covered
yet; `PROJECT.json` gives the state of every component.
