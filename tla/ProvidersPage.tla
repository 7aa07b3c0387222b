---------------------------- MODULE ProvidersPage ----------------------------
(***************************************************************************)
(* The page Providers Management (providers/page.tsx): three tabs, each    *)
(* with a list and a drawer, over one editing record, one flag that opens  *)
(* the drawer of the current tab, and a clone record for two of the tabs.  *)
(* A drawer is modal, but it can be closed while its save is under way.    *)
(* What the lists hold is abstracted: what matters is which record a form  *)
(* was filled from.                                                        *)
(***************************************************************************)
EXTENDS Integers

CONSTANT MaxOps   \* bound: tabs loaded, saves and deletions together
VARIABLE pg

Tabs == {"providers", "deployments", "keys"}
Cloneable == {"providers", "deployments"}
Intents(t) == IF t = "keys" THEN {"add"} ELSE {"add", "edit", "clone"}

\* tab, drawer (drawerOpen), loading: the page's state of that name; editing, clone: whether the record
\* of that name is set. form: what the form of the open drawer was filled from, typed: the admin has
\* changed it. loads: lists being loaded, with a negative chain when no spinner waits for them; have: tabs
\* whose list has been loaded; chains, refreshes: counters. saving, deleting: requests in flight. History:
\* intent, what the drawer was opened for; late, tabs whose drawer was closed by the late confirmation of a
\* save in another tab and whose clone record nothing has cleared since.
LoadsOf(t, c) == {[what |-> w, chain |-> c] : w \in {t, "providers"}}

Mounted ==
  {[page |-> "providers", tab |-> "providers", loading |-> TRUE, loads |-> LoadsOf("providers", 1),
    have |-> {}, chains |-> 1, refreshes |-> 0,
    drawer |-> FALSE, editing |-> FALSE, clone |-> [t \in Cloneable |-> FALSE], form |-> "add",
    typed |-> FALSE, saving |-> {}, deleting |-> {}, changes |-> 0,
    intent |-> "add", late |-> {}]}

Here == pg.page = "providers"
MoreOps == pg.chains + pg.changes < MaxOps

\* What the effect of a drawer fills its form from: editing ?? clone ?? nothing.
Source(p) ==
  IF p.tab = "keys" THEN "add"
  ELSE IF p.editing THEN "edit" ELSE IF p.clone[p.tab] THEN "clone" ELSE "add"

Filled(p) == [p EXCEPT !.form = Source(p), !.typed = FALSE]

\* Another tab: its effect loads its lists; the loads of the tab before go on.
SwitchTab(t) ==
  /\ Here /\ ~pg.drawer /\ t \in Tabs \ {pg.tab} /\ MoreOps
  /\ pg' = [pg EXCEPT !.tab = t, !.loading = TRUE, !.chains = @ + 1,
                      !.loads = @ \cup LoadsOf(t, pg.chains + 1)]

\* A list arrives, or its request fails. A new list of providers fills the form of an open drawer anew,
\* except that of a provider. The spinner ends with the last list of any chain.
MutantListEnds(l, ok) ==
  LET rest == pg.loads \ {l}
      done == l.chain > 0 /\ \A m \in rest : m.chain # l.chain
      p == [pg EXCEPT !.loads = rest, !.loading = @ /\ ~done, !.have = IF ok THEN @ \cup {l.what} ELSE @]
  IN  /\ Here /\ l \in pg.loads
      /\ pg' = IF ok /\ l.what = "providers" /\ pg.drawer THEN Filled(p) ELSE p

ListEnds(l, ok) ==
  LET rest == pg.loads \ {l}
      done == l.chain > 0 /\ \A m \in rest : m.chain # l.chain
      p == [pg EXCEPT !.loads = rest, !.loading = @ /\ ~done, !.have = IF ok THEN @ \cup {l.what} ELSE @]
  IN  /\ Here /\ l \in pg.loads
      /\ pg' = IF ok /\ l.what = "providers" /\ pg.drawer /\ pg.tab # "providers" THEN Filled(p) ELSE p

\* The table of the tab is on screen and has rows.
HasRows == ~pg.loading /\ pg.tab \in pg.have

\* Add, the pencil or the copy button of a row. Add and the pencil leave a clone record as it is.
Open(i) ==
  /\ Here /\ ~pg.drawer /\ i \in Intents(pg.tab) /\ (i # "add" => HasRows)
  /\ pg' = Filled([pg EXCEPT !.drawer = TRUE, !.editing = (i = "edit"), !.intent = i,
                             !.clone = IF i = "clone" THEN [@ EXCEPT ![pg.tab] = TRUE] ELSE @])

WithoutClone(p, t) == IF t \in Cloneable THEN [p EXCEPT !.clone = [@ EXCEPT ![t] = FALSE]] ELSE p

MutantClose == Here /\ pg.drawer /\ pg' = [pg EXCEPT !.drawer = FALSE, !.late = @ \ {pg.tab}]

Close ==
  /\ Here /\ pg.drawer
  /\ pg' = WithoutClone([pg EXCEPT !.drawer = FALSE, !.late = @ \ {pg.tab}], pg.tab)

Type == Here /\ pg.drawer /\ pg' = [pg EXCEPT !.typed = TRUE]

\* The button of each drawer is busy until its own save has ended.
Save ==
  /\ Here /\ pg.drawer /\ pg.tab \notin pg.saving /\ MoreOps
  /\ pg' = [pg EXCEPT !.saving = @ \cup {pg.tab}, !.changes = @ + 1]

\* The list of a tab is loaded again.
Refreshed(t) ==
  [pg EXCEPT !.refreshes = @ + 1, !.loads = @ \cup {[what |-> t, chain |-> 0 - (pg.refreshes + 1)]}]

\* onSaved: whichever drawer is open closes, but only the clone record of the saved tab is cleared, and the
\* list of that tab is loaded.
Saved(t) ==
  /\ Here /\ t \in pg.saving
  /\ LET cut == IF pg.drawer THEN {pg.tab} ELSE {}
     IN  pg' = WithoutClone([Refreshed(t) EXCEPT !.drawer = FALSE, !.saving = @ \ {t},
                                                 !.late = (@ \cup cut) \ {t}], t)

SaveFails(t) == Here /\ t \in pg.saving /\ pg' = [pg EXCEPT !.saving = @ \ {t}]

\* The dialog of the trash button is confirmed.
Delete ==
  /\ Here /\ ~pg.drawer /\ HasRows /\ pg.tab \notin pg.deleting /\ MoreOps
  /\ pg' = [pg EXCEPT !.deleting = @ \cup {pg.tab}, !.changes = @ + 1]

Deleted(t, ok) ==
  /\ Here /\ t \in pg.deleting
  /\ pg' = [(IF ok THEN Refreshed(t) ELSE pg) EXCEPT !.deleting = @ \ {t}]

Answers ==
  \/ Here /\ \E l \in pg.loads, ok \in BOOLEAN : ListEnds(l, ok)
  \/ \E t \in Tabs, ok \in BOOLEAN : Saved(t) \/ SaveFails(t) \/ Deleted(t, ok)

Next ==
  \/ \E t \in Tabs : SwitchTab(t)
  \/ \E i \in {"add", "edit", "clone"} : Open(i)
  \/ Close \/ Type \/ Save \/ Delete \/ Answers
-----------------------------------------------------------------------------
TypeOK ==
  Here => /\ pg.tab \in Tabs /\ pg.loading \in BOOLEAN /\ pg.drawer \in BOOLEAN /\ pg.editing \in BOOLEAN
          /\ pg.have \subseteq Tabs /\ pg.loads \in SUBSET [what : Tabs, chain : (0 - MaxOps)..MaxOps]
          /\ pg.clone \in [Cloneable -> BOOLEAN] /\ pg.typed \in BOOLEAN /\ pg.late \subseteq Tabs
          /\ {pg.form, pg.intent} \subseteq Intents("providers")
          /\ pg.saving \subseteq Tabs /\ pg.deleting \subseteq Tabs
          /\ pg.chains \in 1..MaxOps /\ pg.changes \in 0..MaxOps /\ pg.refreshes \in 0..pg.changes

\* The open drawer holds what it was opened for: an empty form, the record of the row, or its copy, after
\* any sequence of tabs and drawers and saves confirmed late. Excepted: when such a confirmation closed the
\* drawer of another tab, a copy may be left in that tab and turn up in the next form Add opens there.
FormMatchesIntent ==
  Here /\ pg.drawer /\ (pg.tab \in pg.late => pg.intent # "add") => pg.form = pg.intent

\* What is typed into a form stays until its drawer closes. Excepted: a list of providers that arrives fills
\* the form of a deployment or of a key anew (providers/page.tsx:697-709, 766-768); no other answer does,
\* and the form of a provider survives that one too.
TypingKept ==
  [][Here /\ pg'.page = "providers" /\ pg.drawer /\ pg'.drawer /\ pg.typed =>
       \/ pg'.typed
       \/ pg.tab # "providers" /\ \E l \in pg.loads \ pg'.loads : l.what = "providers"]_pg
=============================================================================
