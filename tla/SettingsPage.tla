----------------------------- MODULE SettingsPage -----------------------------
(***************************************************************************)
(* The page Settings (settings/page.tsx): a draft of every setting, edited *)
(* in place, and a button that sends the whole draft. A value is a number; *)
(* writing it as JSON and reading it back gives the same value, which is   *)
(* all that is used of the conversion. The button is never busy, so        *)
(* several saves may be under way.                                         *)
(***************************************************************************)
EXTENDS Integers

CONSTANTS SettingKeys,   \* the keys of the settings
          MaxValue,      \* bound: values 0..MaxValue
          MaxSaves,      \* bound: saves while the page is mounted
          MaxForeign     \* bound: changes by other admins
VARIABLE pg

Values == 0..MaxValue
NoDraft == [k \in SettingKeys |-> 0]

\* draft, loading: the page's state of that name; listed: settings holds rows, so that there is a form. db:
\* the settings on the gateway. loads, saves: requests in flight; served: whether the gateway has acted.
\* asked, saved, foreign: counters. History: edited, keys typed in since the draft was filled; differ, keys
\* whose value on the gateway has changed since; may, of a save, the keys that were in either when it was
\* sent or have changed on the gateway since.
Mounted ==
  {[page |-> "settings", loading |-> TRUE, listed |-> FALSE, draft |-> NoDraft, db |-> NoDraft,
    loads |-> {[id |-> 1, served |-> FALSE, rows |-> NoDraft]}, saves |-> {}, asked |-> 1, saved |-> 0,
    foreign |-> 0, edited |-> {}, differ |-> {}]}

Here == pg.page = "settings"
Changed(a, b) == {k \in SettingKeys : a[k] # b[k]}

ServeLoad ==
  Here /\ \E l \in pg.loads :
            /\ ~l.served
            /\ pg' = [pg EXCEPT !.loads = (@ \ {l}) \cup {[l EXCEPT !.served = TRUE, !.rows = pg.db]}]

\* load() after its await fills the draft anew, whatever has been typed.
Loaded ==
  Here /\ \E l \in pg.loads :
            /\ l.served
            /\ pg' = [pg EXCEPT !.loads = @ \ {l}, !.loading = FALSE, !.listed = TRUE, !.draft = l.rows, !.edited = {},
                                !.differ = Changed(l.rows, pg.db)]

MutantLoadFails ==
  Here /\ \E l \in pg.loads :
            pg' = [pg EXCEPT !.loads = @ \ {l}, !.loading = FALSE, !.draft = NoDraft, !.edited = {}]

LoadFails == Here /\ \E l \in pg.loads : pg' = [pg EXCEPT !.loads = @ \ {l}, !.loading = FALSE]

Edit(k, v) ==
  /\ Here /\ pg.listed
  /\ pg' = [pg EXCEPT !.draft = [@ EXCEPT ![k] = v], !.edited = @ \cup {k}]

\* handleSave: every key of the draft is sent.
MutantSave ==
  /\ Here /\ pg.listed /\ pg.saved < MaxSaves
  /\ pg' = [pg EXCEPT !.saved = @ + 1,
                      !.saves = @ \cup {[id |-> pg.saved + 1, served |-> FALSE,
                                         rows |-> [k \in SettingKeys |-> IF k \in pg.edited THEN pg.draft[k] ELSE 0],
                                         may |-> pg.edited \cup pg.differ]}]

Save ==
  /\ Here /\ pg.listed /\ pg.saved < MaxSaves
  /\ pg' = [pg EXCEPT !.saved = @ + 1,
                      !.saves = @ \cup {[id |-> pg.saved + 1, served |-> FALSE, rows |-> pg.draft,
                                         may |-> pg.edited \cup pg.differ]}]

Marked(saves, ks) == {[s EXCEPT !.may = @ \cup ks] : s \in saves}

\* The gateway stores what it is sent, one transaction per request.
ServeSave ==
  Here /\ \E s \in pg.saves :
            /\ ~s.served
            /\ LET ks == Changed(s.rows, pg.db)
               IN  pg' = [pg EXCEPT !.db = s.rows, !.differ = @ \cup ks,
                                    !.saves = Marked(@ \ {s}, ks) \cup {[s EXCEPT !.served = TRUE]}]

Saved ==
  Here /\ \E s \in pg.saves :
            /\ s.served
            /\ pg' = [pg EXCEPT !.saves = @ \ {s}, !.asked = @ + 1,
                                !.loads = @ \cup {[id |-> pg.asked + 1, served |-> FALSE, rows |-> NoDraft]}]

SaveFails == Here /\ \E s \in pg.saves : pg' = [pg EXCEPT !.saves = @ \ {s}]

\* Another admin saves: saves of this page already under way will overwrite it too.
Elsewhere(k, v) ==
  /\ Here /\ pg.foreign < MaxForeign /\ v # pg.db[k]
  /\ pg' = [pg EXCEPT !.foreign = @ + 1, !.db = [@ EXCEPT ![k] = v], !.differ = @ \cup {k},
                      !.saves = Marked(@, {k})]

Serve == ServeLoad \/ ServeSave
Answers == Loaded \/ LoadFails \/ Saved \/ SaveFails

Next ==
  \/ Serve \/ Answers \/ Save
  \/ \E k \in SettingKeys, v \in Values : Edit(k, v) \/ Elsewhere(k, v)
-----------------------------------------------------------------------------
TypeOK ==
  Here => LET settings == [SettingKeys -> Values]
          IN  /\ {pg.draft, pg.db} \subseteq settings /\ {pg.loading, pg.listed} \subseteq BOOLEAN
              /\ pg.loads \subseteq [id : 1..pg.asked, served : BOOLEAN, rows : settings]
              /\ pg.saves \subseteq [id : 1..pg.saved, served : BOOLEAN, rows : settings, may : SUBSET SettingKeys]
              /\ pg.asked \in 1..(MaxSaves + 1) /\ pg.saved \in 0..MaxSaves /\ pg.foreign \in 0..MaxForeign
              /\ pg.edited \subseteq SettingKeys /\ pg.differ \subseteq SettingKeys

\* Although the whole draft is sent, a save alters only keys the admin had typed in, or keys whose value
\* moved on the gateway after the draft was filled: that lost update is the price of sending it all.
SaveTouchesEdits ==
  [][Here /\ pg'.page = "settings" /\ pg'.foreign = pg.foreign =>
       \E s \in pg.saves \cup {[may |-> {}]} : Changed(pg'.db, pg.db) \subseteq s.may]_pg

\* What was typed into the form stays, and nothing else changes in it, while saves are confirmed or fail and
\* loads fail unanswered. Excepted: the settings that arrive after a save, or when the page is mounted,
\* replace the whole draft and what has been typed meanwhile (settings/page.tsx:62-64).
EditsKept ==
  [][Here /\ pg'.page = "settings" /\ {l \in pg.loads : l.served} \subseteq pg'.loads =>
       pg.edited \subseteq pg'.edited /\ Changed(pg'.draft, pg.draft) \subseteq pg'.edited]_pg
=============================================================================
