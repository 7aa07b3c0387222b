-------------------------------- MODULE Panel --------------------------------
(***************************************************************************)
(* The dashboard of the admin panel: one page is mounted at a time and pg  *)
(* is its state. The links of the sidebar mount another page; the state of *)
(* the page that is left is lost, and answers to its requests find nobody. *)
(* The filters and inspectors that share no state with their page are      *)
(* mounted like pages of their own.                                        *)
(***************************************************************************)
EXTENDS Integers, Sequences

CONSTANTS MaxEvents, MaxLive, MaxQueries, MaxDrops, RejectCodes,   \* LogsPage
          Rows, LevelOf, NoRow,                                    \* LogFilter
          MaxChanges, UserIds,                                     \* KeysPage, UsersPage, CachePage
          SettingKeys, MaxValue, MaxSaves, MaxForeign,             \* SettingsPage
          Filters, PagesOf, MaxLoads,                              \* MonitoringPage
          MaxSnapshots, MaxHistory,                                \* DashboardPage
          MaxOps,                                                  \* ProvidersPage
          Providers, NoProvider, Bare, MaxOpens                    \* ProviderInfo
VARIABLE pg

Logs == INSTANCE LogsPage
LogFilters == INSTANCE LogFilter
Keys == INSTANCE KeysPage
Users == INSTANCE UsersPage
Cache == INSTANCE CachePage
Settings == INSTANCE SettingsPage
Monitoring == INSTANCE MonitoringPage
Dashboard == INSTANCE DashboardPage
ProviderTabs == INSTANCE ProvidersPage
Info == INSTANCE ProviderInfo

\* Bounds are numbers. Of the rest: records have levels, a filter may be empty and its logs fill a number of
\* pages, the chart has points.
ASSUME PanelAssumption ==
  /\ Logs!LogsAssumption
  /\ LevelOf \in [Rows -> LogFilters!LEVELS]
  /\ MaxChanges \in Nat
  /\ {MaxValue, MaxSaves, MaxForeign} \subseteq Nat
  /\ Filters # {} /\ PagesOf \in [Filters -> Nat] /\ MaxLoads \in Nat \ {0}
  /\ {MaxSnapshots, MaxHistory} \subseteq Nat \ {0}
  /\ MaxOps \in Nat \ {0}
  /\ MaxOpens \in Nat

Pages ==
  Logs!Mounted \cup LogFilters!Mounted \cup Keys!Mounted \cup Users!Mounted \cup Cache!Mounted
  \cup Settings!Mounted \cup Monitoring!Mounted \cup Dashboard!Mounted
  \cup ProviderTabs!Mounted \cup Info!Mounted

Nowhere == [page |-> "none"]   \* between two pages: the old one is unmounted before the new one is mounted

Init == pg = Nowhere

\* A link of the sidebar, in two steps.
Leave == pg # Nowhere /\ pg' = Nowhere
Arrive == pg = Nowhere /\ pg' \in Pages

Next ==
  \/ Leave \/ Arrive
  \/ Logs!Next \/ LogFilters!Next \/ Keys!Next \/ Users!Next \/ Cache!Next
  \/ Settings!Next \/ Monitoring!Next \/ Dashboard!Next
  \/ ProviderTabs!Next \/ Info!Next

\* Every request of the mounted page is served, and answered or failed, in the end.
Requested ==
  \/ Logs!Answers \/ Monitoring!Answers \/ ProviderTabs!Answers \/ Info!Answers
  \/ Keys!Serve \/ Keys!Answers \/ Users!Serve \/ Users!Answers
  \/ Cache!Serve \/ Cache!Answers \/ Settings!Serve \/ Settings!Answers

Fairness == WF_pg(Requested) /\ WF_pg(Logs!Line) /\ Dashboard!Fairness

Spec == Init /\ [][Next]_pg /\ Fairness
-----------------------------------------------------------------------------
TypeOK ==
  /\ \E p \in Pages \cup {Nowhere} : p.page = pg.page /\ DOMAIN p = DOMAIN pg
  /\ Logs!TypeOK /\ LogFilters!TypeOK /\ Keys!TypeOK /\ Users!TypeOK /\ Cache!TypeOK
  /\ Settings!TypeOK /\ Monitoring!TypeOK /\ Dashboard!TypeOK
  /\ ProviderTabs!TypeOK /\ Info!TypeOK

\* The properties of the pages are stated and explained in their modules. Here they hold while the admin
\* moves between the pages at will, grouped by what they promise.

\* The log page keeps at most one line to the gateway, none in history, however often the connection breaks
\* and the mode changes. In live mode its badge says Live exactly while the socket is open, with one
\* exception: what it said when history was entered stands after the return until the new socket opens or
\* closes.
LineAndBadge == Logs!OneConnection /\ Logs!BadgeFollowsSocket

\* The stream on screen is the buffer, and the buffer the newest events in the order of publication, after
\* any pauses, clears, visits to history and reconnections. Excepted on screen: the answer of a history query
\* that came after its mode had been left.
StreamFaithful == Logs!BufferOrdered /\ Logs!LiveViewIsBuffer

\* At rest every list shows the changes its page has made, although changes and loads overlap. Excepted: the
\* reload after the last of these changes, or a load after it, failed or was overtaken by an older answer.
ListFollowsChanges == Keys!ListFollowsChanges /\ Users!ListFollowsChanges /\ Cache!ListFollowsChanges

\* What a drawer shows, holds and sends belongs to the record it was opened for, although one drawer serves
\* many records and saves end after it was closed or opened for another. Excepted: a copy left in a tab of
\* the providers whose drawer a late confirmation closed, and numbers of a provider that come after their
\* drawer was closed.
DrawersOwnRecords ==
  /\ ProviderTabs!FormMatchesIntent
  /\ Users!SavedToItsOwner
  /\ Info!InfoOfProvider
  /\ LogFilters!InspectorOwnsSearch

\* What a page shows side by side belongs together: rows and the controls that chose them, the chart and the
\* numbers above it. Excepted: the newest load of the rows failed or was overtaken by an older answer, or the
\* page number was picked while the rows of another filter were on screen.
ShownTogether ==
  /\ Monitoring!RowsMatchControls
  /\ Dashboard!ChartEndsWithCards

\* What the admin typed, reads in a pause or clicks on stands against everything but the answers that fill a
\* form anew. Those do overwrite it: a list of users in the drawer of a key, a list of providers in the
\* drawers of a deployment and of a provider's key, the settings in their draft. The drawers of a user and of
\* a provider keep it against any answer, a save alters no setting nobody touched, the paused stream stands
\* still but for a clear and the late answer of a query, and a click on a card is seen.
InputStands ==
  /\ Keys!TypingKept /\ Users!TypingKept /\ ProviderTabs!TypingKept
  /\ Settings!EditsKept /\ Settings!SaveTouchesEdits
  /\ Logs!PausedViewStands
  /\ LogFilters!CardClickSeen

\* The page, the drawer or the query of the mounted page is loading; the save button of a drawer is busy.
Loading ==
  /\ pg.page \in {"logs", "keys", "users", "cache", "settings", "monitoring", "providers", "info"}
  /\ pg.loading
Saving == pg.page \in {"keys", "users"} /\ pg.saving

\* No wait is for ever: spinners end although loads overlap, fail and come back in any order; save buttons
\* are free again; a stream with a good token comes back; polling goes on after errors. The dashboard is not
\* among the spinners: it shows its own until metrics come.
WaitsEnd ==
  /\ Loading ~> ~Loading
  /\ Saving ~> ~Saving
  /\ Logs!StreamRecovers
  /\ Dashboard!PollingGoesOn
=============================================================================
