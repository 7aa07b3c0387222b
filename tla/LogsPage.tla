------------------------------- MODULE LogsPage -------------------------------
(***************************************************************************)
(* The page System Logs: a live stream over a WebSocket that reconnects by *)
(* itself, a pause button over a bounded buffer, and a history mode whose  *)
(* queries answer when they like (logs/page.tsx). The state of the mounted *)
(* page is the record pg; leaving the page destroys it. The event handlers *)
(* and effects of React run to their next await, so each is one step; an   *)
(* effect runs in the step that changes what it depends on. An event of    *)
(* the stream is its number in the order of publication. What a query asks *)
(* for and the growing delay between two attempts are abstracted.          *)
(***************************************************************************)
EXTENDS Integers, Sequences

CONSTANTS MaxEvents,   \* bound: events published while the page is mounted
          MaxLive,     \* MAX_LIVE_LOGS
          MaxQueries,  \* bound: history queries
          MaxDrops,    \* bound: failures of the network
          RejectCodes  \* close codes the browser may report for a refused handshake

\* Assumed by the modules that use this one.
LogsAssumption ==
  /\ MaxEvents \in Nat
  /\ MaxLive \in Nat \ {0}
  /\ MaxQueries \in Nat
  /\ MaxDrops \in Nat
  /\ RejectCodes \subseteq {1006, 1008}

VARIABLE pg   \* the mounted page of the panel and its state

Tokens == {"ok", "expired", "gone"}   \* the pair in localStorage: its access token, or no pair

\* mode, live, loading, connected: the page's state of that name. view: the rows on screen, src = 0
\* for the buffer and q for the answer of query q. buf: bufferRef. sock: the socket of the current
\* effect, offered: the token it was opened with, wire: sent to it and not yet delivered. timer:
\* reconnectTimer. renewing: refreshToken awaited, oldRenew: the same by an effect that has been
\* cancelled. reject: what a refused handshake looks like. published, asked, drops: counters. History:
\* heldOver, the badge still shows what it showed when history was entered.
Mounted ==
  { [page |-> "logs", mode |-> "live", live |-> TRUE, view |-> [src |-> 0, rows |-> <<>>],
     buf |-> <<>>, loading |-> FALSE, connected |-> FALSE, heldOver |-> FALSE, sock |-> "connecting",
     offered |-> t, wire |-> <<>>, timer |-> FALSE, renewing |-> FALSE, oldRenew |-> FALSE, token |-> t,
     reject |-> r, published |-> 0, inflight |-> {}, asked |-> 0, drops |-> 0]
    : t \in {"ok", "expired"}, r \in RejectCodes }

Here == pg.page = "logs"

\* connect(): without a token it gives up for good.
MutantConnect(p) == IF p.token = "gone" THEN p ELSE [p EXCEPT !.sock = "connecting"]

Connect(p) ==
  IF p.token = "gone" THEN p ELSE [p EXCEPT !.sock = "connecting", !.offered = p.token]

Reconnect == Here /\ pg.timer /\ pg' = Connect([pg EXCEPT !.timer = FALSE])

Opened ==
  /\ Here /\ pg.sock = "connecting" /\ pg.offered = "ok"
  /\ pg' = [pg EXCEPT !.sock = "open", !.connected = TRUE, !.heldOver = FALSE]

\* onclose: a policy violation renews the tokens first, anything else only waits.
MutantCloses(p, code) ==
  [p EXCEPT !.sock = "none", !.heldOver = FALSE, !.wire = <<>>,
            !.renewing = (code = 1008 /\ p.token # "gone"),
            !.timer = (code # 1008)]

Closes(p, code) ==
  [p EXCEPT !.sock = "none", !.connected = FALSE, !.heldOver = FALSE, !.wire = <<>>,
            !.renewing = (code = 1008 /\ p.token # "gone"),
            !.timer = (code # 1008)]

Refused ==
  /\ Here /\ pg.sock = "connecting" /\ pg.offered # "ok"
  /\ pg' = Closes(pg, pg.reject)

Dropped ==
  /\ Here /\ pg.sock # "none" /\ pg.drops < MaxDrops
  /\ pg' = Closes([pg EXCEPT !.drops = @ + 1], 1006)

\* The answer of the refresh endpoint: the new pair is stored whatever localStorage holds by now.
Renewed ==
  /\ Here /\ pg.renewing
  /\ pg' = [pg EXCEPT !.renewing = FALSE, !.token = "ok", !.timer = TRUE]

NotRenewed ==
  /\ Here /\ pg.renewing
  /\ pg' = [pg EXCEPT !.renewing = FALSE]

\* The effect that asked has been cancelled: only the tokens change.
OldRenewal ==
  /\ Here /\ pg.oldRenew
  /\ \E t \in {pg.token, "ok"} : pg' = [pg EXCEPT !.oldRenew = FALSE, !.token = t]

\* The access token ages; other calls, other tabs and the admin replace or remove the pair.
TokenChanges == Here /\ \E t \in Tokens \ {pg.token} : pg' = [pg EXCEPT !.token = t]

MutantLatest(s) == s

Latest(s) == IF Len(s) > MaxLive THEN SubSeq(s, Len(s) - MaxLive + 1, Len(s)) ELSE s

\* The gateway relays an event to an open stream, or loses it while its own subscription is broken.
Publish ==
  /\ Here /\ pg.published < MaxEvents
  /\ \E lost \in BOOLEAN :
       pg' = [pg EXCEPT !.published = @ + 1,
                        !.wire = IF pg.sock = "open" /\ ~lost THEN Append(@, pg.published + 1) ELSE @]

\* onmessage: a batch goes to the buffer, and to the screen unless the stream is paused.
MutantReceive(k) ==
  LET b == Latest(pg.buf \o SubSeq(pg.wire, 1, k))
  IN  /\ Here /\ k \in 1..Len(pg.wire)
      /\ pg' = [pg EXCEPT !.wire = SubSeq(@, k + 1, Len(@)), !.buf = b,
                          !.view = [src |-> 0, rows |-> b]]

Receive(k) ==
  LET b == Latest(pg.buf \o SubSeq(pg.wire, 1, k))
  IN  /\ Here /\ k \in 1..Len(pg.wire)
      /\ pg' = [pg EXCEPT !.wire = SubSeq(@, k + 1, Len(@)), !.buf = b,
                          !.view = IF pg.live THEN [src |-> 0, rows |-> b] ELSE @]

MutantTogglePause ==
  /\ Here /\ pg.mode = "live"
  /\ pg' = [pg EXCEPT !.live = ~@]

TogglePause ==
  /\ Here /\ pg.mode = "live"
  /\ pg' = [pg EXCEPT !.live = ~@,
                      !.view = IF pg.live THEN @ ELSE [src |-> 0, rows |-> pg.buf]]

Clear == Here /\ pg' = [pg EXCEPT !.view = [src |-> 0, rows |-> <<>>], !.buf = <<>>]

\* runQuery up to its await.
Ask(p) == [p EXCEPT !.loading = TRUE, !.asked = @ + 1, !.inflight = @ \cup {p.asked + 1}]

\* The cleanup of the live effect. The error event of a handshake cut short comes before anything else.
MutantCleanup(p) == [p EXCEPT !.sock = "none", !.heldOver = FALSE, !.wire = <<>>]

Cleanup(p) ==
  [p EXCEPT !.sock = "none", !.heldOver = FALSE, !.wire = <<>>, !.timer = FALSE,
            !.renewing = FALSE, !.oldRenew = p.renewing \/ p.oldRenew,
            !.connected = p.connected /\ p.sock # "connecting"]

\* The mode switch, or the Semantic chip. The effect of history mode asks at once.
ToHistory ==
  /\ Here /\ pg.mode = "live" /\ pg.asked < MaxQueries
  /\ pg' = Ask(Cleanup([pg EXCEPT !.mode = "history"]))

\* Nothing resets the badge: it says what it said when history was entered until the new socket speaks.
ToLive ==
  /\ Here /\ pg.mode = "history"
  /\ pg' = Connect([pg EXCEPT !.mode = "live", !.view = [src |-> 0, rows |-> pg.buf],
                              !.heldOver = pg.connected])

\* Enter in the search field; Apply is the same while nothing is loading.
Search ==
  /\ Here /\ pg.mode = "history" /\ pg.asked < MaxQueries
  /\ pg' = Ask(pg)

\* An answer is shown when it comes, whatever mode or query it finds.
Answered(q) ==
  /\ Here /\ q \in pg.inflight
  /\ pg' = [pg EXCEPT !.inflight = @ \ {q}, !.loading = FALSE, !.view = [src |-> q, rows |-> <<>>]]

MutantFailed(q) ==
  /\ Here /\ q \in pg.inflight
  /\ pg' = [pg EXCEPT !.inflight = @ \ {q}]

Failed(q) ==
  /\ Here /\ q \in pg.inflight
  /\ pg' = [pg EXCEPT !.inflight = @ \ {q}, !.loading = FALSE]

\* What the line to the gateway is waiting for: a timer, a handshake or a renewal.
Line == Reconnect \/ Opened \/ Refused \/ Renewed \/ NotRenewed
Answers == \E q \in 1..MaxQueries : Answered(q) \/ Failed(q)

Next ==
  \/ Line \/ Dropped \/ OldRenewal \/ TokenChanges
  \/ Publish \/ \E k \in 1..MaxEvents : Receive(k)
  \/ TogglePause \/ Clear \/ ToHistory \/ ToLive \/ Search \/ Answers

\* Timers fire, handshakes end, and requests are answered or fail.
Fairness == WF_pg(Line) /\ WF_pg(Answers)

Init == pg \in Mounted
Spec == Init /\ [][Next]_pg /\ Fairness
-----------------------------------------------------------------------------
Events == 1..MaxEvents
Page ==
  [page : {"logs"}, mode : {"live", "history"}, live : BOOLEAN,
   view : [src : 0..MaxQueries, rows : Seq(Events)], buf : Seq(Events), loading : BOOLEAN,
   connected : BOOLEAN, heldOver : BOOLEAN, sock : {"none", "connecting", "open"}, offered : Tokens,
   wire : Seq(Events), timer : BOOLEAN, renewing : BOOLEAN, oldRenew : BOOLEAN, token : Tokens,
   reject : RejectCodes, published : 0..MaxEvents, inflight : SUBSET (1..MaxQueries),
   asked : 0..MaxQueries, drops : 0..MaxDrops]

TypeOK == Here => pg \in Page

Flag(b) == IF b THEN 1 ELSE 0

\* The page keeps one line to the gateway: a socket, the timer of the next attempt or the renewal of
\* the tokens before it, never two of them, and none in history mode.
OneConnection ==
  Here => LET lines == Flag(pg.sock # "none") + Flag(pg.timer) + Flag(pg.renewing)
          IN  lines <= IF pg.mode = "live" THEN 1 ELSE 0

\* The buffer holds the newest events the page has received, in the order of their publication and
\* without repetition, however often the connection was lost, and never more than MAX_LIVE_LOGS.
BufferOrdered ==
  Here => /\ Len(pg.buf) <= MaxLive
          /\ \A i, j \in 1..Len(pg.buf) : i < j => pg.buf[i] < pg.buf[j]
          /\ \A i \in 1..Len(pg.buf), j \in 1..Len(pg.wire) : pg.buf[i] < pg.wire[j]

\* A stream that runs shows its buffer: after a pause, a clear, a visit to history or a reconnection no
\* row is missing. Excepted: the answer of a query that came after its mode had been left.
LiveViewIsBuffer == Here /\ pg.mode = "live" /\ pg.live /\ pg.view.src = 0 => pg.view.rows = pg.buf

\* In live mode the badge says Live while the socket is open and Offline otherwise, in particular while the
\* page waits to reconnect. Excepted: after a visit to history that began with an open socket it goes on
\* saying Live until the new socket opens or closes, and for good when there is no token to open one with.
BadgeFollowsSocket ==
  Here /\ pg.mode = "live" =>
    /\ pg.connected <=> pg.sock = "open" \/ pg.heldOver
    /\ pg.timer \/ pg.renewing => ~pg.connected

\* What a paused admin is reading stays on the screen: only Clear, or the late answer of a query,
\* changes the rows of a paused stream.
PausedViewStands ==
  [][Here /\ pg.mode = "live" /\ ~pg.live /\ pg'.page = "logs" /\ pg'.mode = "live" /\ ~pg'.live
       => pg'.view = pg.view \/ pg'.view.rows = <<>>]_pg

\* A stream that waits to reconnect, with a good token, comes back.
StreamRecovers ==
  Here /\ pg.timer /\ pg.token = "ok" ~> ~Here \/ pg.sock = "open" \/ pg.mode # "live" \/ pg.token # "ok"

\* logs/page.tsx:136: "Auth rejection (expired token) - try refreshing before reconnecting": a stream
\* that was closed while its token had expired does not wait for ever with the expired token.
StreamResumes == Here /\ pg.timer /\ pg.token = "expired" ~> ~Here \/ pg.token # "expired" \/ pg.mode # "live"
=============================================================================
