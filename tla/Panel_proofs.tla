----------------------------- MODULE Panel_proofs -----------------------------
(***************************************************************************)
(* Proofs about Panel: what every page of the admin panel promises holds,  *)
(* for any numbers of events, queries, changes, saves, loads and openings, *)
(* any rows, settings, filters and providers, and any order of visits. A   *)
(* section per page gives its inductive invariant, which says nothing of   *)
(* the other pages; the last ones put them together.                       *)
(***************************************************************************)
EXTENDS Panel, Requests, FiniteSetTheorems, TLAPS
-----------------------------------------------------------------------------
(* The list pages. Their state is a function on the names of its fields,   *)
(* those of Listing and some of their own; the steps of Requests concern   *)
(* the former only. pg is such a function, so the operators of Requests    *)
(* can be reasoned about once for the three pages.                         *)

IsRecord(p) == p = [f \in DOMAIN p |-> p[f]]
ListFields == {"loading", "reqs", "asked", "db", "shown", "mine", "changes", "excused"}

Kinds == {"load", "revoke", "create", "delete", "save", "invalidate"}
Request == [id : Nat, kind : Kinds, v : Nat]

\* Changes on their way, and those the gateway has not served.
Pending(p) == {r \in p.reqs : r.kind # "load"}
Unserved(p) == {r \in p.reqs : r.kind # "load" /\ r.v = 0}

ListTypes(p) ==
  /\ p.loading \in BOOLEAN /\ p.excused \in BOOLEAN
  /\ p.reqs \in SUBSET Request /\ IsFiniteSet(p.reqs)
  /\ p.asked \in Nat /\ p.db \in Nat /\ p.shown \in Nat /\ p.mine \in Nat /\ p.changes \in Nat

\* Requests are numbered, and no version is newer than that of the gateway.
Numbered(p) ==
  /\ p.asked >= 1 /\ p.db >= 1 /\ p.shown <= p.db /\ p.mine <= p.db
  /\ \A r \in p.reqs : r.id \in 1..p.asked /\ r.v \in 0..p.db
  /\ \A r, s \in p.reqs : r.id = s.id => r = s

\* A change costs a request, a version and, once confirmed, a load.
Accounted(p) ==
  /\ p.asked + Cardinality(Pending(p)) <= 2 * p.changes + 1
  /\ p.db + Cardinality(Unserved(p)) <= p.changes + 1

\* While the list lacks a confirmed change, a load that will show it is in flight.
OnItsWay(p) ==
  ~p.excused /\ p.shown < p.mine => \E r \in p.reqs : r.kind = "load" /\ (r.v = 0 \/ r.v >= p.mine)

Listed(p) ==
  /\ IsRecord(p) /\ ListFields \subseteq DOMAIN p
  /\ ListTypes(p) /\ Numbered(p) /\ Accounted(p) /\ OnItsWay(p)

\* q differs from p in fields of the list only.
SameOwn(p, q) == DOMAIN q = DOMAIN p /\ \A f \in DOMAIN p \ ListFields : q[f] = p[f]

\* The changes on their way are finitely many.
LEMMA FiniteChanges ==
  ASSUME NEW p, ListTypes(p)
  PROVE  /\ IsFiniteSet(Pending(p)) /\ Cardinality(Pending(p)) \in Nat
         /\ IsFiniteSet(Unserved(p)) /\ Cardinality(Unserved(p)) \in Nat
<1>1. Pending(p) \subseteq p.reqs /\ Unserved(p) \subseteq p.reqs
  BY DEF Pending, Unserved
<1>2. IsFiniteSet(p.reqs)
  BY DEF ListTypes
<1>3. IsFiniteSet(Pending(p)) /\ IsFiniteSet(Unserved(p))
  BY <1>1, <1>2, FS_Subset
<1>. QED
  BY <1>3, FS_CardinalityType

\* The fields of the list after a request was sent.
LEMMA SendFacts ==
  ASSUME NEW p, IsRecord(p), ListFields \subseteq DOMAIN p, NEW kind
  PROVE  LET q == Send(p, kind)
         IN  /\ IsRecord(q) /\ SameOwn(p, q)
             /\ q.reqs = p.reqs \cup {[id |-> p.asked + 1, kind |-> kind, v |-> 0]}
             /\ q.asked = p.asked + 1 /\ q.loading = p.loading /\ q.db = p.db /\ q.shown = p.shown
             /\ q.mine = p.mine /\ q.changes = p.changes /\ q.excused = p.excused
BY DEF Send, IsRecord, SameOwn, ListFields

\* The fields of the list after a click that changes it.
LEMMA ChangeFacts ==
  ASSUME NEW p, IsRecord(p), ListFields \subseteq DOMAIN p, NEW kind
  PROVE  LET q == Change(p, kind)
         IN  /\ IsRecord(q) /\ SameOwn(p, q)
             /\ q.reqs = p.reqs \cup {[id |-> p.asked + 1, kind |-> kind, v |-> 0]}
             /\ q.asked = p.asked + 1 /\ q.loading = p.loading /\ q.db = p.db /\ q.shown = p.shown
             /\ q.mine = p.mine /\ q.changes = p.changes + 1 /\ q.excused = p.excused
BY DEF Change, Send, IsRecord, SameOwn, ListFields

\* The fields of the list after the gateway served a request.
LEMMA ServedFacts ==
  ASSUME NEW p, IsRecord(p), ListFields \subseteq DOMAIN p, NEW r
  PROVE  LET q == Served(p, r)
         IN  /\ IsRecord(q) /\ SameOwn(p, q)
             /\ q.db = (IF r.kind = "load" THEN p.db ELSE p.db + 1)
             /\ q.reqs = (p.reqs \ {r}) \cup {[r EXCEPT !.v = q.db]}
             /\ q.asked = p.asked /\ q.loading = p.loading /\ q.shown = p.shown
             /\ q.mine = p.mine /\ q.changes = p.changes /\ q.excused = p.excused
BY DEF Served, IsRecord, SameOwn, ListFields

\* The fields of the list after a load arrived.
LEMMA LoadedFacts ==
  ASSUME NEW p, IsRecord(p), ListFields \subseteq DOMAIN p, NEW r
  PROVE  LET q == Loaded(p, r)
         IN  /\ IsRecord(q) /\ SameOwn(p, q)
             /\ q.reqs = p.reqs \ {r} /\ q.shown = r.v /\ q.loading = FALSE
             /\ q.excused = (p.excused \/ r.v < p.shown)
             /\ q.asked = p.asked /\ q.db = p.db /\ q.mine = p.mine /\ q.changes = p.changes
BY DEF Loaded, IsRecord, SameOwn, ListFields

\* The fields of the list after a load failed.
LEMMA NotLoadedFacts ==
  ASSUME NEW p, IsRecord(p), ListFields \subseteq DOMAIN p, NEW r
  PROVE  LET q == NotLoaded(p, r)
         IN  /\ IsRecord(q) /\ SameOwn(p, q)
             /\ q.reqs = p.reqs \ {r} /\ q.loading = FALSE /\ q.excused = TRUE
             /\ q.asked = p.asked /\ q.db = p.db /\ q.shown = p.shown
             /\ q.mine = p.mine /\ q.changes = p.changes
BY DEF NotLoaded, IsRecord, SameOwn, ListFields

\* The fields of the list after a change was confirmed.
LEMMA ConfirmedFacts ==
  ASSUME NEW p, IsRecord(p), ListFields \subseteq DOMAIN p, NEW r
  PROVE  LET q == Confirmed(p, r)
         IN  /\ IsRecord(q) /\ SameOwn(p, q)
             /\ q.reqs = (p.reqs \ {r}) \cup {[id |-> p.asked + 1, kind |-> "load", v |-> 0]}
             /\ q.mine = (IF r.v > p.mine THEN r.v ELSE p.mine)
             /\ q.asked = p.asked + 1 /\ q.loading = p.loading /\ q.db = p.db /\ q.shown = p.shown
             /\ q.changes = p.changes /\ q.excused = FALSE
BY DEF Confirmed, Send, IsRecord, SameOwn, ListFields

\* The fields of the list after a change failed, and after another admin changed it.
LEMMA RefusedFacts ==
  ASSUME NEW p, IsRecord(p), ListFields \subseteq DOMAIN p, NEW r
  PROVE  LET q == Refused(p, r)
         IN  /\ IsRecord(q) /\ SameOwn(p, q) /\ q.reqs = p.reqs \ {r}
             /\ q.asked = p.asked /\ q.loading = p.loading /\ q.db = p.db /\ q.shown = p.shown
             /\ q.mine = p.mine /\ q.changes = p.changes /\ q.excused = p.excused
BY DEF Refused, IsRecord, SameOwn, ListFields

\* The fields of the list after another admin changed it.
LEMMA ElsewhereFacts ==
  ASSUME NEW p, IsRecord(p), ListFields \subseteq DOMAIN p
  PROVE  LET q == Elsewhere(p)
         IN  /\ IsRecord(q) /\ SameOwn(p, q) /\ q.db = p.db + 1 /\ q.changes = p.changes + 1
             /\ q.asked = p.asked /\ q.loading = p.loading /\ q.reqs = p.reqs /\ q.shown = p.shown
             /\ q.mine = p.mine /\ q.excused = p.excused
BY DEF Elsewhere, IsRecord, SameOwn, ListFields
-----------------------------------------------------------------------------
(* Every step of the list keeps what is known of it. *)

\* How the number of elements changes with one element.
LEMMA OneMore ==
  ASSUME NEW S, IsFiniteSet(S), NEW x, NEW T, T \subseteq S \cup {x}
  PROVE  IsFiniteSet(T) /\ Cardinality(T) <= Cardinality(S) + 1
<1>1. IsFiniteSet(S \cup {x}) /\ Cardinality(S \cup {x}) <= Cardinality(S) + 1 /\ Cardinality(S) \in Nat
  BY FS_AddElement, FS_CardinalityType
<1>2. IsFiniteSet(T) /\ Cardinality(T) <= Cardinality(S \cup {x})
  BY <1>1, FS_Subset
<1>. QED
  BY <1>1, <1>2, FS_CardinalityType

\* And with one less.
LEMMA OneLess ==
  ASSUME NEW S, IsFiniteSet(S), NEW x \in S, NEW T, T \subseteq S \ {x}
  PROVE  IsFiniteSet(T) /\ Cardinality(T) + 1 <= Cardinality(S)
<1>1. IsFiniteSet(S \ {x}) /\ Cardinality(S \ {x}) = Cardinality(S) - 1 /\ Cardinality(S) \in Nat
  BY FS_RemoveElement, FS_CardinalityType
<1>2. IsFiniteSet(T) /\ Cardinality(T) <= Cardinality(S \ {x})
  BY <1>1, FS_Subset
<1>. QED
  BY <1>1, <1>2, FS_CardinalityType

\* And when one element takes the place of another.
LEMMA OneOther ==
  ASSUME NEW S, IsFiniteSet(S), NEW x \in S, NEW y, NEW T, T \subseteq (S \ {x}) \cup {y}
  PROVE  IsFiniteSet(T) /\ Cardinality(T) <= Cardinality(S)
<1>1. IsFiniteSet(S \ {x}) /\ Cardinality(S \ {x}) + 1 <= Cardinality(S) /\ Cardinality(S) \in Nat
  BY OneLess, FS_CardinalityType
<1>2. IsFiniteSet(T) /\ Cardinality(T) <= Cardinality(S \ {x}) + 1
  BY <1>1, OneMore
<1>. QED
  BY <1>1, <1>2, FS_CardinalityType

\* The gateway serves a request.
LEMMA ServedKeeps ==
  ASSUME NEW p, Listed(p), NEW r \in Waiting(p)
  PROVE  Listed(Served(p, r))
<1>. DEFINE q == Served(p, r)
            n == [r EXCEPT !.v = q.db]
<1>1. /\ IsRecord(q) /\ DOMAIN q = DOMAIN p
      /\ q.db = (IF r.kind = "load" THEN p.db ELSE p.db + 1)
      /\ q.reqs = (p.reqs \ {r}) \cup {n}
      /\ q.asked = p.asked /\ q.loading = p.loading /\ q.shown = p.shown
      /\ q.mine = p.mine /\ q.changes = p.changes /\ q.excused = p.excused
  BY ServedFacts DEF Listed, SameOwn
<1>2. r \in p.reqs /\ r.v = 0 /\ r \in Request
  BY DEF Waiting, Listed, ListTypes
<1>3. q.db \in Nat /\ q.db >= p.db
  BY <1>1 DEF Listed, ListTypes
<1>4. n \in Request /\ n.id = r.id /\ n.kind = r.kind /\ n.v = q.db
  BY <1>2, <1>3, Zenon DEF Request
<1>. HIDE DEF q, n
<1>5. ListTypes(q)
  <2>1. IsFiniteSet((p.reqs \ {r}) \cup {n})
    BY SMTT(30), <1>2, OneOther DEF Listed, ListTypes
  <2>. QED
    BY <1>1, <1>3, <1>4, <2>1 DEF Listed, ListTypes
<1>6. Numbered(q)
  BY <1>1, <1>2, <1>3, <1>4 DEF Listed, ListTypes, Numbered
<1>7. /\ Cardinality(Pending(p)) \in Nat /\ IsFiniteSet(Pending(p))
      /\ Cardinality(Unserved(p)) \in Nat /\ IsFiniteSet(Unserved(p))
      /\ Cardinality(Pending(q)) \in Nat /\ Cardinality(Unserved(q)) \in Nat
  BY <1>5, FiniteChanges DEF Listed
<1>8. Cardinality(Pending(q)) <= Cardinality(Pending(p))
  <2>1. CASE r.kind = "load"
    <3>1. Pending(q) \subseteq Pending(p)
      BY <1>1, <1>4, <2>1 DEF Pending
    <3>. QED
      BY <1>7, <3>1, FS_Subset
  <2>2. CASE r.kind # "load"
    <3>1. r \in Pending(p) /\ Pending(q) \subseteq (Pending(p) \ {r}) \cup {n}
      BY <1>1, <1>2, <2>2 DEF Pending
    <3>. QED
      BY <1>7, <3>1, OneOther
  <2>. QED
    BY <2>1, <2>2
<1>9. q.db + Cardinality(Unserved(q)) <= p.db + Cardinality(Unserved(p))
  <2>1. CASE r.kind = "load"
    <3>1. Unserved(q) \subseteq Unserved(p) /\ q.db = p.db
      BY <1>1, <1>4, <2>1 DEF Unserved
    <3>2. Cardinality(Unserved(q)) <= Cardinality(Unserved(p))
      BY <1>7, <3>1, FS_Subset
    <3>. QED
      BY <1>3, <1>7, <3>1, <3>2 DEF Listed, ListTypes
  <2>2. CASE r.kind # "load"
    <3>1. q.db = p.db + 1 /\ r \in Unserved(p)
      BY <1>1, <1>2, <2>2 DEF Unserved
    <3>2. n.v # 0
      BY <1>4, <3>1 DEF Listed, ListTypes
    <3>3. Unserved(q) \subseteq Unserved(p) \ {r}
      BY <1>1, <3>2 DEF Unserved
    <3>4. Cardinality(Unserved(q)) + 1 <= Cardinality(Unserved(p))
      BY <1>7, <3>1, <3>3, OneLess
    <3>. QED
      BY <1>7, <3>1, <3>4 DEF Listed, ListTypes
  <2>. QED
    BY <2>1, <2>2
<1>10. Accounted(q)
  BY <1>1, <1>3, <1>7, <1>8, <1>9 DEF Listed, ListTypes, Accounted
<1>11. OnItsWay(q)
  <2>. SUFFICES ASSUME ~q.excused, q.shown < q.mine
                PROVE  \E s \in q.reqs : s.kind = "load" /\ (s.v = 0 \/ s.v >= q.mine)
    BY DEF OnItsWay
  <2>1. PICK s \in p.reqs : s.kind = "load" /\ (s.v = 0 \/ s.v >= p.mine)
    BY <1>1 DEF Listed, OnItsWay
  <2>2. CASE s = r
    BY <1>1, <1>3, <1>4, <2>1, <2>2 DEF Listed, ListTypes, Numbered
  <2>3. CASE s # r
    BY <1>1, <2>1, <2>3
  <2>. QED
    BY <2>2, <2>3
<1>12. Listed(q)
  BY <1>1, <1>5, <1>6, <1>10, <1>11 DEF Listed
<1>. QED
  BY <1>12 DEF q

\* A request leaves the page: its answer is a list, a failure or a refusal.
LEMMA TakenKeeps ==
  ASSUME NEW p, Listed(p), NEW r \in p.reqs, NEW q, IsRecord(q), DOMAIN q = DOMAIN p,
         q.reqs = p.reqs \ {r}, q.loading \in BOOLEAN, q.asked = p.asked, q.db = p.db, q.mine = p.mine,
         q.changes = p.changes, q.excused \in BOOLEAN, q.shown \in {p.shown, r.v}
  PROVE  /\ IsRecord(q) /\ ListFields \subseteq DOMAIN q
         /\ ListTypes(q) /\ Numbered(q) /\ Accounted(q)
<1>1. r \in Request /\ r.v \in Nat
  BY Zenon DEF Listed, ListTypes, Request
<1>2. ListTypes(q)
  <2>1. IsFiniteSet(p.reqs \ {r})
    BY OneLess DEF Listed, ListTypes
  <2>. QED
    BY <1>1, <2>1 DEF Listed, ListTypes
<1>3. Numbered(q)
  BY <1>1 DEF Listed, ListTypes, Numbered
<1>4. /\ Cardinality(Pending(p)) \in Nat /\ IsFiniteSet(Pending(p))
      /\ Cardinality(Unserved(p)) \in Nat /\ IsFiniteSet(Unserved(p))
      /\ Cardinality(Pending(q)) \in Nat /\ Cardinality(Unserved(q)) \in Nat
  BY <1>2, FiniteChanges DEF Listed
<1>5. Pending(q) \subseteq Pending(p) /\ Unserved(q) \subseteq Unserved(p)
  BY DEF Pending, Unserved
<1>6. /\ Cardinality(Pending(q)) <= Cardinality(Pending(p))
      /\ Cardinality(Unserved(q)) <= Cardinality(Unserved(p))
  BY <1>4, <1>5, FS_Subset
<1>7. Accounted(q)
  BY <1>4, <1>6 DEF Listed, ListTypes, Accounted
<1>. QED
  BY <1>2, <1>3, <1>7 DEF Listed

\* A load arrives. If it is not the one the page waits for, that one is still on its way.
LEMMA LoadedKeeps ==
  ASSUME NEW p, Listed(p), NEW r \in Ready(p, "load")
  PROVE  Listed(Loaded(p, r))
<1>. DEFINE q == Loaded(p, r)
<1>1. /\ IsRecord(q) /\ DOMAIN q = DOMAIN p
      /\ q.reqs = p.reqs \ {r} /\ q.shown = r.v /\ q.loading = FALSE
      /\ q.excused = (p.excused \/ r.v < p.shown)
      /\ q.asked = p.asked /\ q.db = p.db /\ q.mine = p.mine /\ q.changes = p.changes
  BY DEF Listed, Loaded, IsRecord, ListFields
<1>2. r \in p.reqs /\ r.v # 0 /\ r.v \in Nat /\ p.shown \in Nat /\ p.mine \in Nat
  BY DEF Ready, Listed, ListTypes, Numbered
<1>. HIDE DEF q
<1>3. /\ IsRecord(q) /\ ListFields \subseteq DOMAIN q
      /\ ListTypes(q) /\ Numbered(q) /\ Accounted(q)
  BY <1>1, <1>2, TakenKeeps DEF Listed, ListTypes
<1>4. OnItsWay(q)
  <2>. SUFFICES ASSUME ~q.excused, q.shown < q.mine
                PROVE  \E s \in q.reqs : s.kind = "load" /\ (s.v = 0 \/ s.v >= q.mine)
    BY DEF OnItsWay
  <2>1. ~p.excused /\ ~(r.v < p.shown)
    BY <1>1, Zenon
  <2>2. r.v < p.mine
    BY <1>1
  <2>3. p.shown < p.mine
    BY <1>2, <2>1, <2>2
  <2>4. PICK s \in p.reqs : s.kind = "load" /\ (s.v = 0 \/ s.v >= p.mine)
    BY <2>1, <2>3 DEF Listed, OnItsWay
  <2>5. s # r
    BY <1>2, <2>2, <2>4
  <2>. QED
    BY <1>1, <2>4, <2>5
<1>5. Listed(q)
  BY <1>3, <1>4 DEF Listed
<1>. QED
  BY <1>5 DEF q

\* A load fails: the list is excused.
LEMMA NotLoadedKeeps ==
  ASSUME NEW p, Listed(p), NEW r \in p.reqs
  PROVE  Listed(NotLoaded(p, r))
<1>. DEFINE q == NotLoaded(p, r)
<1>1. /\ IsRecord(q) /\ DOMAIN q = DOMAIN p
      /\ q.reqs = p.reqs \ {r} /\ q.loading = FALSE /\ q.excused = TRUE
      /\ q.asked = p.asked /\ q.db = p.db /\ q.shown = p.shown
      /\ q.mine = p.mine /\ q.changes = p.changes
  BY DEF Listed, NotLoaded, IsRecord, ListFields
<1>. HIDE DEF q
<1>2. /\ IsRecord(q) /\ ListFields \subseteq DOMAIN q
      /\ ListTypes(q) /\ Numbered(q) /\ Accounted(q)
  BY <1>1, TakenKeeps
<1>3. Listed(q)
  BY <1>1, <1>2 DEF Listed, OnItsWay
<1>. QED
  BY <1>3 DEF q

\* A change fails: the load a page waits for is another request.
LEMMA RefusedKeeps ==
  ASSUME NEW p, Listed(p), NEW r \in p.reqs, r.kind # "load"
  PROVE  Listed(Refused(p, r))
<1>. DEFINE q == Refused(p, r)
<1>1. /\ IsRecord(q) /\ DOMAIN q = DOMAIN p /\ q.reqs = p.reqs \ {r}
      /\ q.asked = p.asked /\ q.loading = p.loading /\ q.db = p.db /\ q.shown = p.shown
      /\ q.mine = p.mine /\ q.changes = p.changes /\ q.excused = p.excused
  BY RefusedFacts DEF Listed, SameOwn
<1>. HIDE DEF q
<1>2. /\ IsRecord(q) /\ ListFields \subseteq DOMAIN q
      /\ ListTypes(q) /\ Numbered(q) /\ Accounted(q)
  BY <1>1, TakenKeeps DEF Listed, ListTypes
<1>3. OnItsWay(q)
  BY <1>1 DEF Listed, OnItsWay
<1>4. Listed(q)
  BY <1>2, <1>3 DEF Listed
<1>. QED
  BY <1>4 DEF q

\* The next request has a new number.
LEMMA NewRequest ==
  ASSUME NEW p, Listed(p), NEW k \in Kinds
  PROVE  LET n == [id |-> p.asked + 1, kind |-> k, v |-> 0]
         IN  /\ n \in Request /\ n.id = p.asked + 1 /\ n.kind = k /\ n.v = 0
             /\ \A r \in p.reqs : r.id # n.id
BY DEF Listed, ListTypes, Numbered, Request

\* A click sends a change.
LEMMA ChangeKeeps ==
  ASSUME NEW p, Listed(p), NEW k \in Kinds \ {"load"}
  PROVE  Listed(Change(p, k))
<1>. DEFINE q == Change(p, k)
            n == [id |-> p.asked + 1, kind |-> k, v |-> 0]
<1>1. /\ IsRecord(q) /\ DOMAIN q = DOMAIN p /\ q.reqs = p.reqs \cup {n}
      /\ q.asked = p.asked + 1 /\ q.loading = p.loading /\ q.db = p.db /\ q.shown = p.shown
      /\ q.mine = p.mine /\ q.changes = p.changes + 1 /\ q.excused = p.excused
  BY ChangeFacts DEF Listed, SameOwn
<1>2. n \in Request /\ n.id = p.asked + 1 /\ n.kind = k /\ n.v = 0 /\ \A r \in p.reqs : r.id # n.id
  BY NewRequest
<1>. HIDE DEF q, n
<1>3. ListTypes(q)
  <2>1. IsFiniteSet(p.reqs \cup {n})
    BY OneMore DEF Listed, ListTypes
  <2>. QED
    BY <1>1, <1>2, <2>1 DEF Listed, ListTypes
<1>4. Numbered(q)
  BY <1>1, <1>2 DEF Listed, ListTypes, Numbered
<1>5. /\ Cardinality(Pending(p)) \in Nat /\ IsFiniteSet(Pending(p))
      /\ Cardinality(Unserved(p)) \in Nat /\ IsFiniteSet(Unserved(p))
      /\ Cardinality(Pending(q)) \in Nat /\ Cardinality(Unserved(q)) \in Nat
  BY <1>3, FiniteChanges DEF Listed
<1>6. Pending(q) \subseteq Pending(p) \cup {n} /\ Unserved(q) \subseteq Unserved(p) \cup {n}
  BY <1>1 DEF Pending, Unserved
<1>7. /\ Cardinality(Pending(q)) <= Cardinality(Pending(p)) + 1
      /\ Cardinality(Unserved(q)) <= Cardinality(Unserved(p)) + 1
  BY <1>5, <1>6, OneMore
<1>8. Accounted(q)
  BY <1>1, <1>5, <1>7 DEF Listed, ListTypes, Accounted
<1>9. OnItsWay(q)
  BY <1>1 DEF Listed, OnItsWay
<1>10. Listed(q)
  BY <1>1, <1>3, <1>4, <1>8, <1>9 DEF Listed
<1>. QED
  BY <1>10 DEF q

\* A change is confirmed: the load that follows will show it.
LEMMA ConfirmedKeeps ==
  ASSUME NEW p, Listed(p), NEW r \in p.reqs, r.kind # "load"
  PROVE  Listed(Confirmed(p, r))
<1>. DEFINE q == Confirmed(p, r)
            n == [id |-> p.asked + 1, kind |-> "load", v |-> 0]
<1>1. /\ IsRecord(q) /\ DOMAIN q = DOMAIN p /\ q.reqs = (p.reqs \ {r}) \cup {n}
      /\ q.mine = (IF r.v > p.mine THEN r.v ELSE p.mine)
      /\ q.asked = p.asked + 1 /\ q.loading = p.loading /\ q.db = p.db /\ q.shown = p.shown
      /\ q.changes = p.changes /\ q.excused = FALSE
  BY ConfirmedFacts DEF Listed, SameOwn
<1>2. "load" \in Kinds
  BY DEF Kinds
<1>3. n \in Request /\ n.id = p.asked + 1 /\ n.kind = "load" /\ n.v = 0 /\ \A s \in p.reqs : s.id # n.id
  BY <1>2, NewRequest
<1>4. r.v \in 0..p.db
  BY DEF Listed, Numbered
<1>. HIDE DEF q, n
<1>5. ListTypes(q)
  <2>1. IsFiniteSet((p.reqs \ {r}) \cup {n})
    BY OneOther DEF Listed, ListTypes
  <2>2. q.loading \in BOOLEAN /\ q.excused \in BOOLEAN
    BY <1>1, Zenon DEF Listed, ListTypes
  <2>. QED
    BY <1>1, <1>3, <1>4, <2>1, <2>2 DEF Listed, ListTypes
<1>6. Numbered(q)
  BY <1>1, <1>3, <1>4 DEF Listed, ListTypes, Numbered
<1>7. /\ Cardinality(Pending(p)) \in Nat /\ IsFiniteSet(Pending(p))
      /\ Cardinality(Unserved(p)) \in Nat /\ IsFiniteSet(Unserved(p))
      /\ Cardinality(Pending(q)) \in Nat /\ Cardinality(Unserved(q)) \in Nat
  BY <1>5, FiniteChanges DEF Listed
<1>8. /\ r \in Pending(p) /\ Pending(q) \subseteq Pending(p) \ {r}
      /\ Unserved(q) \subseteq Unserved(p)
  BY <1>1, <1>3 DEF Pending, Unserved
<1>9. /\ Cardinality(Pending(q)) + 1 <= Cardinality(Pending(p))
      /\ Cardinality(Unserved(q)) <= Cardinality(Unserved(p))
  BY <1>7, <1>8, OneLess, FS_Subset
<1>10. Accounted(q)
  BY <1>1, <1>7, <1>9 DEF Listed, ListTypes, Accounted
<1>11. OnItsWay(q)
  BY <1>1, <1>3 DEF OnItsWay
<1>12. Listed(q)
  BY <1>1, <1>5, <1>6, <1>10, <1>11 DEF Listed
<1>. QED
  BY <1>12 DEF q

\* Another admin changes the list.
LEMMA ElsewhereKeeps ==
  ASSUME NEW p, Listed(p)
  PROVE  Listed(Elsewhere(p))
<1>. DEFINE q == Elsewhere(p)
<1>1. /\ IsRecord(q) /\ DOMAIN q = DOMAIN p /\ q.db = p.db + 1 /\ q.changes = p.changes + 1
      /\ q.asked = p.asked /\ q.loading = p.loading /\ q.reqs = p.reqs /\ q.shown = p.shown
      /\ q.mine = p.mine /\ q.excused = p.excused
  BY ElsewhereFacts DEF Listed, SameOwn
<1>. HIDE DEF q
<1>2. ListTypes(q) /\ Numbered(q) /\ OnItsWay(q)
  BY <1>1 DEF Listed, ListTypes, Numbered, OnItsWay
<1>3. Pending(q) = Pending(p) /\ Unserved(q) = Unserved(p)
  BY <1>1 DEF Pending, Unserved
<1>4. Cardinality(Pending(p)) \in Nat /\ Cardinality(Unserved(p)) \in Nat
  BY FiniteChanges DEF Listed
<1>5. Accounted(q)
  BY <1>1, <1>3, <1>4 DEF Listed, ListTypes, Accounted
<1>6. Listed(q)
  BY <1>1, <1>2, <1>5 DEF Listed
<1>. QED
  BY <1>6 DEF q

\* q differs from p in fields of the page only.
SameList(p, q) ==
  /\ IsRecord(q) /\ DOMAIN q = DOMAIN p
  /\ q.loading = p.loading /\ q.reqs = p.reqs /\ q.asked = p.asked /\ q.db = p.db /\ q.shown = p.shown
  /\ q.mine = p.mine /\ q.changes = p.changes /\ q.excused = p.excused

\* Fields of its own that a page sets do not concern the list.
LEMMA OwnKeeps ==
  ASSUME NEW p, Listed(p), NEW q, SameList(p, q)
  PROVE  Listed(q)
BY DEF SameList, Listed, ListTypes, Numbered, Accounted, OnItsWay, Pending, Unserved

\* The list of a page that has just been mounted.
LEMMA MountedListed ==
  ASSUME NEW own, DOMAIN own \cap ListFields = {}
  PROVE  LET p == WithList(own)
         IN  Listed(p) /\ DOMAIN p = DOMAIN own \cup ListFields /\ p.changes = 0
             /\ \A f \in DOMAIN own : p[f] = own[f]
<1>. DEFINE p == WithList(own)
            n == [id |-> 1, kind |-> "load", v |-> 0]
<1>1. DOMAIN Listing = ListFields
  BY DEF Listing, ListFields
<1>2. DOMAIN p = DOMAIN own \cup ListFields /\ IsRecord(p)
  BY <1>1 DEF WithList, IsRecord
<1>3. \A f \in ListFields : p[f] = Listing[f]
  BY <1>1 DEF WithList
<1>4. \A f \in DOMAIN own : p[f] = own[f]
  BY DEF WithList
<1>5. /\ p.loading = TRUE /\ p.reqs = {n} /\ p.asked = 1 /\ p.db = 1 /\ p.shown = 0
      /\ p.mine = 0 /\ p.changes = 0 /\ p.excused = FALSE
  BY <1>3 DEF Listing, ListFields
<1>6. n \in Request /\ n.id = 1 /\ n.kind = "load" /\ n.v = 0
  BY DEF Request, Kinds
<1>. HIDE DEF p, n
<1>7. IsFiniteSet({n})
  BY FS_Singleton
<1>8. ListTypes(p) /\ Numbered(p) /\ OnItsWay(p)
  <2>1. p.loading \in BOOLEAN /\ p.excused \in BOOLEAN /\ p.reqs \in SUBSET Request
    BY <1>5, <1>6, Zenon
  <2>2. ListTypes(p)
    BY <1>5, <1>7, <2>1 DEF ListTypes
  <2>3. Numbered(p) /\ OnItsWay(p)
    BY <1>5, <1>6 DEF Numbered, OnItsWay
  <2>. QED
    BY <2>2, <2>3
<1>9. Pending(p) = {} /\ Unserved(p) = {}
  BY <1>5, <1>6 DEF Pending, Unserved
<1>10. Accounted(p)
  BY <1>5, <1>9, FS_EmptySet DEF Accounted
<1>11. Listed(p)
  BY <1>2, <1>8, <1>10 DEF Listed
<1>. QED
  BY <1>2, <1>4, <1>5, <1>11 DEF p

\* What is known of the list gives its types and that it follows the changes of its page.
LEMMA ListedProperties ==
  ASSUME MaxChanges \in Nat, NEW p, Listed(p), p.changes <= MaxChanges
  PROVE  ListingOK(p, MaxChanges) /\ (Quiet(p) /\ ~p.excused => p.shown >= p.mine)
<1>1. Cardinality(Pending(p)) \in Nat /\ Cardinality(Unserved(p)) \in Nat
  BY FiniteChanges DEF Listed
<1>2. p.asked \in 1..(2 * MaxChanges + 1) /\ p.db \in 1..(MaxChanges + 1)
  BY <1>1 DEF Listed, ListTypes, Numbered, Accounted
<1>3. ListingOK(p, MaxChanges)
  BY <1>2 DEF Listed, ListTypes, Numbered, ListingOK
<1>4. Quiet(p) /\ ~p.excused => p.shown >= p.mine
  BY DEF Listed, ListTypes, OnItsWay, Quiet
<1>. QED
  BY <1>3, <1>4
-----------------------------------------------------------------------------
(* The page of the keys. *)

\* Its list is that of Requests.
LEMMA KeysList ==
  ASSUME NEW p, NEW r, NEW k
  PROVE  /\ Keys!Served(p, r) = Served(p, r) /\ Keys!Elsewhere(p) = Elsewhere(p)
         /\ Keys!Loaded(p, r) = Loaded(p, r) /\ Keys!NotLoaded(p, r) = NotLoaded(p, r)
         /\ Keys!Change(p, k) = Change(p, k) /\ Keys!Confirmed(p, r) = Confirmed(p, r)
         /\ Keys!Refused(p, r) = Refused(p, r)
         /\ Keys!Waiting(p) = Waiting(p) /\ Keys!Ready(p, k) = Ready(p, k)
BY DEF Keys!Served, Served, Keys!Elsewhere, Elsewhere, Keys!Loaded, Loaded, Keys!NotLoaded, NotLoaded,
       Keys!Change, Change, Keys!Send, Send, Keys!Confirmed, Confirmed, Keys!Refused, Refused,
       Keys!Waiting, Waiting, Keys!Ready, Ready

KeysFields == ListFields \cup {"page", "drawer", "typed", "saving", "createdKey"}

KeysTypes(p) ==
  /\ p.page = "keys" /\ DOMAIN p = KeysFields /\ p.changes <= MaxChanges
  /\ p.drawer \in BOOLEAN /\ p.typed \in BOOLEAN /\ p.saving \in BOOLEAN /\ p.createdKey \in 0..p.asked

KeysInv == Listed(pg) /\ KeysTypes(pg)

\* The page as it is mounted.
LEMMA KeysMounted ==
  ASSUME MaxChanges \in Nat, NEW p \in Keys!Mounted
  PROVE  Listed(p) /\ KeysTypes(p)
<1>. DEFINE own == [page |-> "keys", drawer |-> FALSE, typed |-> FALSE, saving |-> FALSE, createdKey |-> 0]
<1>1. p = WithList(own)
  BY DEF Keys!Mounted, Keys!WithList, WithList, Keys!Listing, Listing
<1>2. DOMAIN own = {"page", "drawer", "typed", "saving", "createdKey"} /\ DOMAIN own \cap ListFields = {}
  BY DEF ListFields
<1>3. /\ own["page"] = "keys" /\ own["drawer"] = FALSE /\ own["typed"] = FALSE
      /\ own["saving"] = FALSE /\ own["createdKey"] = 0
  OBVIOUS
<1>. HIDE DEF own
<1>4. Listed(p) /\ DOMAIN p = KeysFields /\ p.changes = 0 /\ \A f \in DOMAIN own : p[f] = own[f]
  BY <1>1, <1>2, MountedListed DEF KeysFields
<1>5. p.asked \in Nat
  BY <1>4 DEF Listed, ListTypes
<1>6. p.page = "keys" /\ p.drawer = FALSE /\ p.typed = FALSE /\ p.saving = FALSE /\ p.createdKey = 0
  BY <1>2, <1>3, <1>4
<1>7. p.drawer \in BOOLEAN /\ p.typed \in BOOLEAN /\ p.saving \in BOOLEAN
  BY <1>6, Zenon
<1>8. KeysTypes(p)
  BY <1>4, <1>5, <1>6, <1>7 DEF KeysTypes
<1>. QED
  BY <1>4, <1>8

\* The fields a step of the list leaves alone.
LEMMA KeysOwn ==
  ASSUME NEW p, KeysTypes(p), NEW q, SameOwn(p, q)
  PROVE  /\ DOMAIN q = KeysFields /\ q.page = "keys" /\ q.drawer = p.drawer /\ q.typed = p.typed
         /\ q.saving = p.saving /\ q.createdKey = p.createdKey
BY DEF KeysTypes, KeysFields, ListFields, SameOwn

\* A step of the list and, in the same step, of the fields of the page.
LEMMA KeysStep ==
  ASSUME MaxChanges \in Nat, KeysInv, NEW q, Listed(q), SameOwn(pg, q), q.changes <= MaxChanges,
         q.asked >= pg.asked, SameList(q, pg'), pg'.page = q.page,
         pg'.drawer \in BOOLEAN, pg'.typed \in BOOLEAN, pg'.saving \in BOOLEAN,
         pg'.createdKey \in {0, pg.createdKey} \cup 1..pg.asked
  PROVE  KeysInv'
<1>1. Listed(pg')
  BY OwnKeeps
<1>2. DOMAIN pg' = KeysFields /\ pg'.page = "keys"
  BY KeysOwn DEF KeysInv, SameList
<1>3. pg.asked \in Nat /\ q.asked \in Nat /\ pg'.asked = q.asked /\ pg'.changes = q.changes
  BY DEF KeysInv, Listed, ListTypes, SameList
<1>4. pg'.createdKey \in 0..pg'.asked
  BY <1>3 DEF KeysInv, KeysTypes
<1>. QED
  BY <1>1, <1>2, <1>3, <1>4 DEF KeysInv, KeysTypes

\* Every step of the page keeps what is known of it.
LEMMA KeysNext ==
  ASSUME MaxChanges \in Nat, KeysInv, Keys!Next
  PROVE  KeysInv'
<1>. USE DEF KeysInv
<1>1. /\ IsRecord(pg) /\ ListFields \subseteq DOMAIN pg /\ DOMAIN pg = KeysFields /\ pg.changes <= MaxChanges
      /\ pg.drawer \in BOOLEAN /\ pg.typed \in BOOLEAN /\ pg.saving \in BOOLEAN /\ pg.asked \in Nat
      /\ pg.changes \in Nat
  BY DEF Listed, KeysTypes, ListTypes
<1>2. ASSUME NEW q, Listed(q), SameOwn(pg, q), q.changes <= MaxChanges, q.asked >= pg.asked, pg' = q
      PROVE  KeysInv'
  <2>1. SameList(q, pg')
    BY <1>2 DEF SameList, Listed
  <2>2. /\ pg'.page = q.page /\ pg'.drawer \in BOOLEAN /\ pg'.typed \in BOOLEAN /\ pg'.saving \in BOOLEAN
        /\ pg'.createdKey \in {0, pg.createdKey} \cup 1..pg.asked
    BY <1>1, <1>2, KeysOwn
  <2>. QED
    BY <1>2, <2>1, <2>2, KeysStep
<1>3. CASE Keys!Serve
  <2>1. PICK r \in Waiting(pg) : pg' = Served(pg, r)
    BY <1>3, KeysList DEF Keys!Serve
  <2>. QED
    BY <1>1, <1>2, <2>1, ServedKeeps, ServedFacts
<1>4. CASE Keys!Elsewhere_
  <2>1. pg' = Elsewhere(pg) /\ pg.changes < MaxChanges
    BY <1>4, KeysList DEF Keys!Elsewhere_, Keys!CanChange
  <2>. QED
    BY <1>1, <1>2, <2>1, ElsewhereKeeps, ElsewhereFacts
<1>5. CASE Keys!ListLoaded
  <2>. DEFINE t == pg.typed /\ ~pg.drawer
  <2>0. PICK r \in Keys!Ready(pg, "load") : pg' = [Keys!Loaded(pg, r) EXCEPT !.typed = @ /\ ~pg.drawer]
    BY <1>5 DEF Keys!ListLoaded
  <2>. DEFINE q == Loaded(pg, r)
  <2>1. r \in Ready(pg, "load") /\ pg' = [q EXCEPT !.typed = @ /\ ~pg.drawer]
    BY <2>0, KeysList
  <2>2. Listed(q) /\ SameOwn(pg, q) /\ IsRecord(q) /\ q.changes = pg.changes /\ q.asked = pg.asked
    BY <1>1, <2>1, LoadedKeeps, LoadedFacts, Zenon
  <2>3. DOMAIN q = KeysFields /\ q.page = "keys" /\ q.drawer = pg.drawer /\ q.typed = pg.typed
        /\ q.saving = pg.saving /\ q.createdKey = pg.createdKey
    BY <2>2, KeysOwn
  <2>4. pg' = [q EXCEPT !.typed = t]
    BY <2>1, <2>3
  <2>. HIDE DEF q
  <2>5. t \in BOOLEAN
    OBVIOUS
  <2>. HIDE DEF t
  <2>6. SameList(q, pg') /\ pg'.page = q.page /\ pg'.drawer = q.drawer /\ pg'.typed = t
        /\ pg'.saving = q.saving /\ pg'.createdKey = q.createdKey
    BY <2>2, <2>3, <2>4 DEF SameList, IsRecord, KeysFields, ListFields
  <2>9. pg'.drawer \in BOOLEAN /\ pg'.typed \in BOOLEAN /\ pg'.saving \in BOOLEAN
    BY <1>1, <2>3, <2>5, <2>6, Zenon
  <2>. QED
    BY <1>1, <2>9, <2>2, <2>3, <2>5, <2>6, KeysStep
<1>6. CASE Keys!ListFails
  <2>1. PICK r \in pg.reqs : pg' = NotLoaded(pg, r)
    BY <1>6, KeysList DEF Keys!ListFails
  <2>2. Listed(pg') /\ SameOwn(pg, pg') /\ pg'.changes = pg.changes /\ pg'.asked = pg.asked
    BY <1>1, <2>1, NotLoadedKeeps, NotLoadedFacts
  <2>. QED
    BY <1>1, <1>2, <2>2
<1>7. CASE Keys!Revoke
  <2>1. pg' = Change(pg, "revoke") /\ pg.changes < MaxChanges /\ "revoke" \in Kinds \ {"load"}
    BY <1>7, KeysList DEF Keys!Revoke, Keys!CanChange, Kinds
  <2>. QED
    BY <1>1, <1>2, <2>1, ChangeKeeps, ChangeFacts
<1>8. CASE Keys!Revoked
  <2>1. PICK r \in Ready(pg, "revoke") : pg' = Confirmed(pg, r)
    BY <1>8, KeysList DEF Keys!Revoked
  <2>2. r \in pg.reqs /\ r.kind # "load"
    BY DEF Ready
  <2>3. Listed(pg') /\ SameOwn(pg, pg') /\ pg'.changes = pg.changes /\ pg'.asked = pg.asked + 1
    BY <1>1, <2>1, <2>2, ConfirmedKeeps, ConfirmedFacts
  <2>. QED
    BY <1>1, <1>2, <2>3
<1>9. CASE Keys!RevokeFails
  <2>1. PICK r \in pg.reqs : r.kind = "revoke" /\ pg' = Refused(pg, r)
    BY <1>9, KeysList DEF Keys!RevokeFails
  <2>. QED
    BY <1>1, <1>2, <2>1, RefusedKeeps, RefusedFacts
<1>10. CASE Keys!OpenDrawer \/ Keys!CloseDrawer \/ Keys!Type \/ Keys!Dismiss
  <2>1. SameList(pg, pg') /\ pg'.page = pg.page
    BY <1>1, <1>10 DEF Keys!OpenDrawer, Keys!CloseDrawer, Keys!Type, Keys!Dismiss,
                      SameList, IsRecord, KeysFields, ListFields
  <2>2. /\ pg'.drawer \in BOOLEAN /\ pg'.typed \in BOOLEAN /\ pg'.saving \in BOOLEAN
        /\ pg'.createdKey \in {0, pg.createdKey}
    BY <1>1, <1>10 DEF Keys!OpenDrawer, Keys!CloseDrawer, Keys!Type, Keys!Dismiss, IsRecord, KeysFields
  <2>3. SameOwn(pg, pg)
    BY DEF SameOwn
  <2>. QED
    BY <1>1, <2>1, <2>2, <2>3, KeysStep
<1>11. CASE Keys!Generate
  <2>. DEFINE q == Change(pg, "create")
  <2>1. /\ pg' = [q EXCEPT !.saving = TRUE]
        /\ pg.changes < MaxChanges /\ "create" \in Kinds \ {"load"}
    BY <1>11, KeysList DEF Keys!Generate, Keys!CanChange, Kinds
  <2>2. Listed(q) /\ SameOwn(pg, q) /\ IsRecord(q) /\ q.changes = pg.changes + 1 /\ q.asked = pg.asked + 1
    BY <1>1, <2>1, ChangeKeeps, ChangeFacts
  <2>3. DOMAIN q = KeysFields /\ q.page = "keys" /\ q.drawer = pg.drawer /\ q.typed = pg.typed
        /\ q.saving = pg.saving /\ q.createdKey = pg.createdKey
    BY <2>2, KeysOwn
  <2>. HIDE DEF q
  <2>4. SameList(q, pg') /\ pg'.page = q.page /\ pg'.drawer = q.drawer /\ pg'.typed = q.typed
        /\ pg'.saving = TRUE /\ pg'.createdKey = q.createdKey
    BY <2>1, <2>2, <2>3 DEF SameList, IsRecord, KeysFields, ListFields
  <2>9. pg'.drawer \in BOOLEAN /\ pg'.typed \in BOOLEAN /\ pg'.saving \in BOOLEAN
    BY <1>1, <2>3, <2>4, Zenon
  <2>10. q.changes <= MaxChanges /\ q.asked >= pg.asked
    BY <1>1, <2>1, <2>2
  <2>. QED
    BY <2>2, <2>3, <2>4, <2>9, <2>10, KeysStep
<1>12. CASE Keys!Generated
  <2>1. PICK r \in Ready(pg, "create") :
          pg' = [Confirmed(pg, r) EXCEPT !.createdKey = r.id, !.drawer = FALSE, !.saving = FALSE]
    BY <1>12, KeysList DEF Keys!Generated
  <2>. DEFINE q == Confirmed(pg, r)
  <2>2. r \in pg.reqs /\ r.kind # "load" /\ r.id \in 1..pg.asked
    BY DEF Ready, Listed, Numbered
  <2>3. Listed(q) /\ SameOwn(pg, q) /\ IsRecord(q) /\ q.changes = pg.changes /\ q.asked = pg.asked + 1
    BY <1>1, <2>2, ConfirmedKeeps, ConfirmedFacts
  <2>4. DOMAIN q = KeysFields /\ q.page = "keys" /\ q.drawer = pg.drawer /\ q.typed = pg.typed
        /\ q.saving = pg.saving /\ q.createdKey = pg.createdKey
    BY <2>3, KeysOwn
  <2>. HIDE DEF q
  <2>5. SameList(q, pg') /\ pg'.page = q.page /\ pg'.drawer = FALSE /\ pg'.typed = q.typed
        /\ pg'.saving = FALSE /\ pg'.createdKey = r.id
    BY <2>1, <2>3, <2>4 DEF SameList, IsRecord, KeysFields, ListFields, q
  <2>9. pg'.drawer \in BOOLEAN /\ pg'.typed \in BOOLEAN /\ pg'.saving \in BOOLEAN
    BY <1>1, <2>4, <2>5, Zenon
  <2>. QED
    BY <1>1, <2>9, <2>2, <2>3, <2>4, <2>5, KeysStep
<1>13. CASE Keys!GenerateFails
  <2>1. PICK r \in pg.reqs : r.kind = "create" /\ pg' = [Refused(pg, r) EXCEPT !.saving = FALSE]
    BY <1>13, KeysList DEF Keys!GenerateFails
  <2>. DEFINE q == Refused(pg, r)
  <2>2. Listed(q) /\ SameOwn(pg, q) /\ IsRecord(q) /\ q.changes = pg.changes /\ q.asked = pg.asked
    BY <1>1, <2>1, RefusedKeeps, RefusedFacts
  <2>3. DOMAIN q = KeysFields /\ q.page = "keys" /\ q.drawer = pg.drawer /\ q.typed = pg.typed
        /\ q.saving = pg.saving /\ q.createdKey = pg.createdKey
    BY <2>2, KeysOwn
  <2>4. pg' = [q EXCEPT !.saving = FALSE]
    BY <2>1
  <2>. HIDE DEF q
  <2>5. SameList(q, pg') /\ pg'.page = q.page /\ pg'.drawer = q.drawer /\ pg'.typed = q.typed
        /\ pg'.saving = FALSE /\ pg'.createdKey = q.createdKey
    BY <2>2, <2>3, <2>4 DEF SameList, IsRecord, KeysFields, ListFields
  <2>9. pg'.drawer \in BOOLEAN /\ pg'.typed \in BOOLEAN /\ pg'.saving \in BOOLEAN
    BY <1>1, <2>3, <2>5, Zenon
  <2>. QED
    BY <1>1, <2>9, <2>2, <2>3, <2>5, KeysStep
<1>. QED
  BY <1>3, <1>4, <1>5, <1>6, <1>7, <1>8, <1>9, <1>10, <1>11, <1>12, <1>13 DEF Keys!Next, Keys!Answers

\* What the admin types into an open form stays, unless a served load is taken.
KeysTypingStays ==
  pg.drawer /\ pg'.drawer /\ pg.typed => pg'.typed \/ ~(Keys!Ready(pg, "load") \subseteq pg'.reqs)

LEMMA KeysKeepTyping ==
  ASSUME KeysInv, Keys!Next
  PROVE  KeysTypingStays
<1>1. IsRecord(pg) /\ ListFields \subseteq DOMAIN pg /\ DOMAIN pg = KeysFields /\ KeysTypes(pg)
  BY DEF KeysInv, Listed, KeysTypes
<1>2. ASSUME NEW q, SameOwn(pg, q), pg' = q PROVE KeysTypingStays
  <2>1. pg'.typed = pg.typed
    BY <1>1, <1>2, KeysOwn
  <2>. QED
    BY <2>1, Zenon DEF KeysTypingStays
<1>3. CASE Keys!ListLoaded
  <2>1. PICK r \in Keys!Ready(pg, "load") : pg' = [Keys!Loaded(pg, r) EXCEPT !.typed = @ /\ ~pg.drawer]
    BY <1>3 DEF Keys!ListLoaded
  <2>. DEFINE q == Loaded(pg, r)
  <2>2. pg' = [q EXCEPT !.typed = @ /\ ~pg.drawer]
    BY <2>1, KeysList
  <2>3. IsRecord(q) /\ q.reqs = pg.reqs \ {r}
    BY <1>1, LoadedFacts
  <2>. HIDE DEF q
  <2>4. pg'.reqs = q.reqs
    BY <2>2, <2>3 DEF IsRecord
  <2>. QED
    BY <2>1, <2>3, <2>4 DEF KeysTypingStays
<1>4. CASE Keys!Serve
  <2>1. PICK r \in Waiting(pg) : pg' = Served(pg, r)
    BY <1>4, KeysList DEF Keys!Serve
  <2>. QED
    BY <1>1, <1>2, <2>1, ServedFacts
<1>5. CASE Keys!Elsewhere_
  <2>1. pg' = Elsewhere(pg)
    BY <1>5, KeysList DEF Keys!Elsewhere_
  <2>. QED
    BY <1>1, <1>2, <2>1, ElsewhereFacts
<1>6. CASE Keys!ListFails
  <2>1. PICK r \in pg.reqs : pg' = NotLoaded(pg, r)
    BY <1>6, KeysList DEF Keys!ListFails
  <2>. QED
    BY <1>1, <1>2, <2>1, NotLoadedFacts
<1>7. CASE Keys!Revoke
  <2>1. pg' = Change(pg, "revoke")
    BY <1>7, KeysList DEF Keys!Revoke
  <2>. QED
    BY <1>1, <1>2, <2>1, ChangeFacts
<1>8. CASE Keys!Revoked
  <2>1. PICK r \in Ready(pg, "revoke") : pg' = Confirmed(pg, r)
    BY <1>8, KeysList DEF Keys!Revoked
  <2>2. SameOwn(pg, pg')
    BY <1>1, <2>1, ConfirmedFacts
  <2>. QED
    BY <1>2, <2>2
<1>9. CASE Keys!RevokeFails
  <2>1. PICK r \in pg.reqs : pg' = Refused(pg, r)
    BY <1>9, KeysList DEF Keys!RevokeFails
  <2>. QED
    BY <1>1, <1>2, <2>1, RefusedFacts
<1>10. CASE Keys!OpenDrawer \/ Keys!CloseDrawer \/ Keys!Type \/ Keys!Dismiss
  BY <1>1, <1>10 DEF Keys!OpenDrawer, Keys!CloseDrawer, Keys!Type, Keys!Dismiss, IsRecord, KeysFields,
                     KeysTypingStays
<1>11. ASSUME NEW q, SameOwn(pg, q), IsRecord(q), pg' = [q EXCEPT !.saving = pg'.saving] PROVE KeysTypingStays
  <2>1. q.typed = pg.typed /\ DOMAIN q = KeysFields
    BY <1>1, <1>11, KeysOwn
  <2>2. pg'.typed = q.typed
    BY <1>11, <2>1 DEF IsRecord, KeysFields
  <2>. QED
    BY <2>1, <2>2, Zenon DEF KeysTypingStays
<1>12. CASE Keys!Generate
  <2>. DEFINE q == Change(pg, "create")
  <2>1. pg' = [q EXCEPT !.saving = TRUE]
    BY <1>12, KeysList DEF Keys!Generate
  <2>2. SameOwn(pg, q) /\ IsRecord(q)
    BY <1>1, ChangeFacts
  <2>3. DOMAIN q = KeysFields
    BY <1>1, <2>2, KeysOwn
  <2>. HIDE DEF q
  <2>4. pg' = [q EXCEPT !.saving = pg'.saving]
    BY <2>1, <2>2, <2>3 DEF IsRecord, KeysFields
  <2>. QED
    BY <1>11, <2>2, <2>4
<1>13. CASE Keys!Generated
  <2>1. PICK r : pg' = [Confirmed(pg, r) EXCEPT !.createdKey = r.id, !.drawer = FALSE, !.saving = FALSE]
    BY <1>13, KeysList DEF Keys!Generated
  <2>. DEFINE q == Confirmed(pg, r)
  <2>2. SameOwn(pg, q) /\ IsRecord(q)
    BY <1>1, ConfirmedFacts
  <2>3. DOMAIN q = KeysFields
    BY <1>1, <2>2, KeysOwn
  <2>4. pg' = [q EXCEPT !.createdKey = r.id, !.drawer = FALSE, !.saving = FALSE]
    BY <2>1
  <2>. HIDE DEF q
  <2>5. pg'.drawer = FALSE
    BY <2>2, <2>3, <2>4 DEF IsRecord, KeysFields
  <2>. QED
    BY <2>5 DEF KeysTypingStays
<1>14. CASE Keys!GenerateFails
  <2>1. PICK r : pg' = [Refused(pg, r) EXCEPT !.saving = FALSE]
    BY <1>14, KeysList DEF Keys!GenerateFails
  <2>. DEFINE q == Refused(pg, r)
  <2>2. SameOwn(pg, q) /\ IsRecord(q)
    BY <1>1, RefusedFacts
  <2>3. DOMAIN q = KeysFields
    BY <1>1, <2>2, KeysOwn
  <2>4. pg' = [q EXCEPT !.saving = FALSE]
    BY <2>1
  <2>. HIDE DEF q
  <2>5. pg' = [q EXCEPT !.saving = pg'.saving]
    BY <2>2, <2>3, <2>4 DEF IsRecord, KeysFields
  <2>. QED
    BY <1>11, <2>2, <2>5
<1>. QED
  BY <1>3, <1>4, <1>5, <1>6, <1>7, <1>8, <1>9, <1>10, <1>12, <1>13, <1>14 DEF Keys!Next, Keys!Answers

\* What follows: the types of the page, and the list shows its changes.
LEMMA KeysProperties ==
  ASSUME MaxChanges \in Nat, KeysInv
  PROVE  Keys!TypeOK /\ Keys!ListFollowsChanges
<1>1. Keys!ListingOK(pg, MaxChanges) = ListingOK(pg, MaxChanges) /\ Keys!Quiet(pg) = Quiet(pg)
  BY DEF Keys!ListingOK, ListingOK, Keys!Quiet, Quiet
<1>2. ListingOK(pg, MaxChanges) /\ (Quiet(pg) /\ ~pg.excused => pg.shown >= pg.mine)
  BY ListedProperties DEF KeysInv, KeysTypes
<1>. QED
  BY <1>1, <1>2 DEF Keys!TypeOK, Keys!ListFollowsChanges, KeysInv, KeysTypes
-----------------------------------------------------------------------------
(* The page of the users: moreover, the form belongs to the user it edits. *)

\* Its list is that of Requests.
LEMMA UsersList ==
  ASSUME NEW p, NEW r, NEW k
  PROVE  /\ Users!Served(p, r) = Served(p, r) /\ Users!Elsewhere(p) = Elsewhere(p)
         /\ Users!Loaded(p, r) = Loaded(p, r) /\ Users!NotLoaded(p, r) = NotLoaded(p, r)
         /\ Users!Change(p, k) = Change(p, k) /\ Users!Confirmed(p, r) = Confirmed(p, r)
         /\ Users!Refused(p, r) = Refused(p, r)
         /\ Users!Waiting(p) = Waiting(p) /\ Users!Ready(p, k) = Ready(p, k)
BY DEF Users!Served, Served, Users!Elsewhere, Elsewhere, Users!Loaded, Loaded, Users!NotLoaded, NotLoaded,
       Users!Change, Change, Users!Send, Send, Users!Confirmed, Confirmed, Users!Refused, Refused,
       Users!Waiting, Waiting, Users!Ready, Ready

UsersFields == ListFields \cup {"page", "drawer", "editing", "form", "typed", "saving", "sent"}

UsersTypes(p) ==
  /\ p.page = "users" /\ DOMAIN p = UsersFields /\ p.changes <= MaxChanges
  /\ p.drawer \in BOOLEAN /\ p.typed \in BOOLEAN /\ p.saving \in BOOLEAN
  /\ p.editing \in UserIds \cup {0} /\ p.form = p.editing
  /\ p.sent \in [to : UserIds \cup {0}, from : UserIds \cup {0}] /\ p.sent.to = p.sent.from

UsersInv == Listed(pg) /\ UsersTypes(pg)

\* The page as it is mounted.
LEMMA UsersMounted ==
  ASSUME MaxChanges \in Nat, NEW p \in Users!Mounted
  PROVE  Listed(p) /\ UsersTypes(p)
<1>. DEFINE nobody == [to |-> 0, from |-> 0]
            own == [page |-> "users", drawer |-> FALSE, editing |-> 0, form |-> 0, typed |-> FALSE,
                    saving |-> FALSE, sent |-> nobody]
<1>1. p = WithList(own)
  BY DEF Users!Mounted, Users!WithList, WithList, Users!Listing, Listing
<1>2. /\ DOMAIN own = {"page", "drawer", "editing", "form", "typed", "saving", "sent"}
      /\ DOMAIN own \cap ListFields = {}
  BY DEF ListFields
<1>3. /\ own["page"] = "users" /\ own["drawer"] = FALSE /\ own["editing"] = 0 /\ own["form"] = 0
      /\ own["typed"] = FALSE /\ own["saving"] = FALSE /\ own["sent"] = nobody
  OBVIOUS
<1>4. nobody \in [to : UserIds \cup {0}, from : UserIds \cup {0}] /\ nobody.to = nobody.from
  OBVIOUS
<1>. HIDE DEF own, nobody
<1>5. Listed(p) /\ DOMAIN p = UsersFields /\ p.changes = 0 /\ \A f \in DOMAIN own : p[f] = own[f]
  BY <1>1, <1>2, MountedListed DEF UsersFields
<1>6. /\ p.page = "users" /\ p.drawer = FALSE /\ p.typed = FALSE /\ p.saving = FALSE /\ p.editing = 0
      /\ p.form = 0 /\ p.sent = nobody
  BY <1>2, <1>3, <1>5
<1>7. p.drawer \in BOOLEAN /\ p.typed \in BOOLEAN /\ p.saving \in BOOLEAN
  BY <1>6, Zenon
<1>8. UsersTypes(p)
  BY <1>4, <1>5, <1>6, <1>7 DEF UsersTypes
<1>. QED
  BY <1>5, <1>8

\* The fields a step of the list leaves alone.
LEMMA UsersOwn ==
  ASSUME NEW p, UsersTypes(p), NEW q, SameOwn(p, q)
  PROVE  /\ DOMAIN q = UsersFields /\ q.page = "users" /\ q.drawer = p.drawer /\ q.typed = p.typed
         /\ q.saving = p.saving /\ q.editing = p.editing /\ q.form = p.form /\ q.sent = p.sent
BY DEF UsersTypes, UsersFields, ListFields, SameOwn

\* What the admin types into an open form stays.
TypedStays == pg.drawer /\ pg'.drawer /\ pg.typed => pg'.typed

\* A step of the list and, in the same step, of the fields of the page.
LEMMA UsersStep ==
  ASSUME UsersInv, NEW q, Listed(q), SameOwn(pg, q), q.changes <= MaxChanges, SameList(q, pg'),
         pg'.page = q.page, pg'.drawer \in BOOLEAN, pg'.typed \in BOOLEAN, pg'.saving \in BOOLEAN,
         pg'.editing \in UserIds \cup {0}, pg'.form = pg'.editing,
         pg'.sent \in {pg.sent, [to |-> pg.editing, from |-> pg.form]}
  PROVE  UsersInv'
<1>1. Listed(pg')
  BY OwnKeeps
<1>2. DOMAIN pg' = UsersFields /\ pg'.page = "users" /\ pg'.changes = q.changes
  BY UsersOwn DEF UsersInv, SameList
<1>3. pg'.sent \in [to : UserIds \cup {0}, from : UserIds \cup {0}] /\ pg'.sent.to = pg'.sent.from
  BY DEF UsersInv, UsersTypes
<1>. QED
  BY <1>1, <1>2, <1>3 DEF UsersInv, UsersTypes

\* Every step of the page keeps what is known of it, and what is typed.
LEMMA UsersNext ==
  ASSUME MaxChanges \in Nat, UsersInv, Users!Next
  PROVE  UsersInv' /\ TypedStays
<1>. USE DEF UsersInv
<1>1. /\ IsRecord(pg) /\ ListFields \subseteq DOMAIN pg /\ DOMAIN pg = UsersFields /\ pg.changes <= MaxChanges
      /\ pg.drawer \in BOOLEAN /\ pg.typed \in BOOLEAN /\ pg.saving \in BOOLEAN
      /\ pg.changes \in Nat /\ pg.editing \in UserIds \cup {0} /\ pg.form = pg.editing
  BY DEF Listed, UsersTypes, ListTypes
<1>2. ASSUME NEW q, Listed(q), SameOwn(pg, q), q.changes <= MaxChanges, pg' = q
      PROVE  UsersInv' /\ TypedStays
  <2>1. SameList(q, pg')
    BY <1>2 DEF SameList, Listed
  <2>2. /\ pg'.page = q.page /\ pg'.drawer = pg.drawer /\ pg'.typed = pg.typed /\ pg'.saving = pg.saving
        /\ pg'.editing = pg.editing /\ pg'.form = pg.form /\ pg'.sent = pg.sent
    BY <1>2, UsersOwn
  <2>3. UsersInv'
    BY <1>1, <1>2, <2>1, <2>2, UsersStep
  <2>. QED
    BY <2>2, <2>3 DEF TypedStays
<1>3. CASE Users!Serve
  <2>1. PICK r \in Waiting(pg) : pg' = Served(pg, r)
    BY <1>3, UsersList DEF Users!Serve
  <2>. QED
    BY <1>1, <1>2, <2>1, ServedKeeps, ServedFacts
<1>4. CASE Users!Elsewhere_
  <2>1. pg' = Elsewhere(pg) /\ pg.changes < MaxChanges
    BY <1>4, UsersList DEF Users!Elsewhere_, Users!CanChange
  <2>. QED
    BY <1>1, <1>2, <2>1, ElsewhereKeeps, ElsewhereFacts
<1>5. CASE Users!ListLoaded
  <2>1. PICK r \in Ready(pg, "load") : pg' = Loaded(pg, r)
    BY <1>5, UsersList DEF Users!ListLoaded
  <2>2. Listed(pg') /\ SameOwn(pg, pg') /\ pg'.changes = pg.changes
    BY <1>1, <2>1, LoadedKeeps, LoadedFacts
  <2>. QED
    BY <1>1, <1>2, <2>2
<1>6. CASE Users!ListFails
  <2>1. PICK r \in pg.reqs : pg' = NotLoaded(pg, r)
    BY <1>6, UsersList DEF Users!ListFails
  <2>2. Listed(pg') /\ SameOwn(pg, pg') /\ pg'.changes = pg.changes
    BY <1>1, <2>1, NotLoadedKeeps, NotLoadedFacts
  <2>. QED
    BY <1>1, <1>2, <2>2
<1>7. CASE Users!Delete
  <2>1. pg' = Change(pg, "delete") /\ pg.changes < MaxChanges /\ "delete" \in Kinds \ {"load"}
    BY <1>7, UsersList DEF Users!Delete, Users!CanChange, Kinds
  <2>. QED
    BY <1>1, <1>2, <2>1, ChangeKeeps, ChangeFacts
<1>8. CASE Users!Deleted
  <2>1. PICK r \in Ready(pg, "delete") : pg' = Confirmed(pg, r)
    BY <1>8, UsersList DEF Users!Deleted
  <2>2. r \in pg.reqs /\ r.kind # "load"
    BY DEF Ready
  <2>. QED
    BY <1>1, <1>2, <2>1, <2>2, ConfirmedKeeps, ConfirmedFacts
<1>9. CASE Users!DeleteFails
  <2>1. PICK r \in pg.reqs : r.kind = "delete" /\ pg' = Refused(pg, r)
    BY <1>9, UsersList DEF Users!DeleteFails
  <2>. QED
    BY <1>1, <1>2, <2>1, RefusedKeeps, RefusedFacts
<1>10. CASE Users!CloseDrawer
  <2>1. pg' = [pg EXCEPT !.drawer = FALSE]
    BY <1>10 DEF Users!CloseDrawer
  <2>2. /\ SameList(pg, pg') /\ pg'.page = pg.page /\ pg'.drawer = FALSE /\ pg'.typed = pg.typed
        /\ pg'.saving = pg.saving /\ pg'.editing = pg.editing /\ pg'.form = pg.form /\ pg'.sent = pg.sent
    BY <1>1, <2>1 DEF SameList, IsRecord, UsersFields, ListFields
  <2>3. SameOwn(pg, pg) /\ pg'.drawer \in BOOLEAN /\ pg'.typed \in BOOLEAN /\ pg'.saving \in BOOLEAN
    BY <1>1, <2>2, Zenon DEF SameOwn
  <2>4. UsersInv'
    BY <1>1, <2>2, <2>3, UsersStep
  <2>. QED
    BY <2>2, <2>4 DEF TypedStays
<1>11. CASE Users!Type
  <2>1. pg' = [pg EXCEPT !.typed = TRUE]
    BY <1>11 DEF Users!Type
  <2>2. /\ SameList(pg, pg') /\ pg'.page = pg.page /\ pg'.drawer = pg.drawer /\ pg'.typed = TRUE
        /\ pg'.saving = pg.saving /\ pg'.editing = pg.editing /\ pg'.form = pg.form /\ pg'.sent = pg.sent
    BY <1>1, <2>1 DEF SameList, IsRecord, UsersFields, ListFields
  <2>3. SameOwn(pg, pg) /\ pg'.drawer \in BOOLEAN /\ pg'.typed \in BOOLEAN /\ pg'.saving \in BOOLEAN
    BY <1>1, <2>2, Zenon DEF SameOwn
  <2>4. UsersInv'
    BY <1>1, <2>2, <2>3, UsersStep
  <2>. QED
    BY <2>2, <2>4 DEF TypedStays
<1>12. CASE \E u \in UserIds \cup {0} : Users!OpenDrawer(u)
  <2>1. PICK u \in UserIds \cup {0} :
          ~pg.drawer /\ pg' = [pg EXCEPT !.drawer = TRUE, !.editing = u, !.form = u, !.typed = FALSE]
    BY <1>12 DEF Users!OpenDrawer
  <2>2. /\ SameList(pg, pg') /\ pg'.page = pg.page /\ pg'.drawer = TRUE /\ pg'.typed = FALSE
        /\ pg'.saving = pg.saving /\ pg'.editing = u /\ pg'.form = u /\ pg'.sent = pg.sent
    BY <1>1, <2>1 DEF SameList, IsRecord, UsersFields, ListFields
  <2>3. SameOwn(pg, pg) /\ pg'.drawer \in BOOLEAN /\ pg'.typed \in BOOLEAN /\ pg'.saving \in BOOLEAN
    BY <1>1, <2>2, Zenon DEF SameOwn
  <2>4. UsersInv'
    BY <1>1, <2>1, <2>2, <2>3, UsersStep
  <2>. QED
    BY <2>1, <2>4 DEF TypedStays
<1>13. CASE Users!Save
  <2>. DEFINE q == Change(pg, "save")
              s == [to |-> pg.editing, from |-> pg.form]
  <2>1. pg' = [q EXCEPT !.saving = TRUE, !.sent = s] /\ pg.changes < MaxChanges /\ "save" \in Kinds \ {"load"}
    BY <1>13, UsersList DEF Users!Save, Users!CanChange, Kinds
  <2>2. Listed(q) /\ SameOwn(pg, q) /\ IsRecord(q) /\ q.changes = pg.changes + 1
    BY <1>1, <2>1, ChangeKeeps, ChangeFacts
  <2>3. /\ DOMAIN q = UsersFields /\ q.page = "users" /\ q.drawer = pg.drawer /\ q.typed = pg.typed
        /\ q.saving = pg.saving /\ q.editing = pg.editing /\ q.form = pg.form /\ q.sent = pg.sent
    BY <2>2, UsersOwn
  <2>. HIDE DEF q, s
  <2>4. /\ SameList(q, pg') /\ pg'.page = q.page /\ pg'.drawer = q.drawer /\ pg'.typed = q.typed
        /\ pg'.saving = TRUE /\ pg'.editing = q.editing /\ pg'.form = q.form /\ pg'.sent = s
    BY <2>1, <2>2, <2>3 DEF SameList, IsRecord, UsersFields, ListFields
  <2>5. pg'.drawer \in BOOLEAN /\ pg'.typed \in BOOLEAN /\ pg'.saving \in BOOLEAN
    BY <1>1, <2>3, <2>4, Zenon
  <2>6. q.changes <= MaxChanges
    BY <1>1, <2>1, <2>2
  <2>7. UsersInv'
    BY <1>1, <2>2, <2>3, <2>4, <2>5, <2>6, UsersStep DEF s
  <2>. QED
    BY <2>3, <2>4, <2>7 DEF TypedStays
<1>14. CASE Users!Saved
  <2>1. PICK r \in Ready(pg, "save") : pg' = [Confirmed(pg, r) EXCEPT !.drawer = FALSE, !.saving = FALSE]
    <3>1. \E r \in Users!Ready(pg, "save") :
             pg' = [Users!Confirmed(pg, r) EXCEPT !.drawer = FALSE, !.saving = FALSE]
      BY <1>14, Zenon DEF Users!Saved
    <3>2. Users!Ready(pg, "save") = Ready(pg, "save") /\ \A r : Users!Confirmed(pg, r) = Confirmed(pg, r)
      BY UsersList
    <3>. QED
      BY <3>1, <3>2, Zenon
  <2>. DEFINE q == Confirmed(pg, r)
  <2>2. r \in pg.reqs /\ r.kind # "load"
    BY DEF Ready
  <2>3. Listed(q) /\ SameOwn(pg, q) /\ IsRecord(q) /\ q.changes = pg.changes
    BY <1>1, <2>2, ConfirmedKeeps, ConfirmedFacts
  <2>4. /\ DOMAIN q = UsersFields /\ q.page = "users" /\ q.drawer = pg.drawer /\ q.typed = pg.typed
        /\ q.saving = pg.saving /\ q.editing = pg.editing /\ q.form = pg.form /\ q.sent = pg.sent
    BY <2>3, UsersOwn
  <2>5. pg' = [q EXCEPT !.drawer = FALSE, !.saving = FALSE]
    BY <2>1
  <2>. HIDE DEF q
  <2>6. /\ SameList(q, pg') /\ pg'.page = q.page /\ pg'.drawer = FALSE /\ pg'.typed = q.typed
        /\ pg'.saving = FALSE /\ pg'.editing = q.editing /\ pg'.form = q.form /\ pg'.sent = q.sent
    BY <2>3, <2>4, <2>5 DEF SameList, IsRecord, UsersFields, ListFields
  <2>7. pg'.drawer \in BOOLEAN /\ pg'.typed \in BOOLEAN /\ pg'.saving \in BOOLEAN
    BY <1>1, <2>4, <2>6, Zenon
  <2>8. UsersInv'
    BY <1>1, <2>3, <2>4, <2>6, <2>7, UsersStep
  <2>. QED
    BY <2>6, <2>8 DEF TypedStays
<1>15. CASE Users!SaveFails
  <2>1. PICK r \in pg.reqs : r.kind = "save" /\ pg' = [Refused(pg, r) EXCEPT !.saving = FALSE]
    BY <1>15, UsersList DEF Users!SaveFails
  <2>. DEFINE q == Refused(pg, r)
  <2>2. Listed(q) /\ SameOwn(pg, q) /\ IsRecord(q) /\ q.changes = pg.changes
    BY <1>1, <2>1, RefusedKeeps, RefusedFacts
  <2>3. /\ DOMAIN q = UsersFields /\ q.page = "users" /\ q.drawer = pg.drawer /\ q.typed = pg.typed
        /\ q.saving = pg.saving /\ q.editing = pg.editing /\ q.form = pg.form /\ q.sent = pg.sent
    BY <2>2, UsersOwn
  <2>4. pg' = [q EXCEPT !.saving = FALSE]
    BY <2>1
  <2>. HIDE DEF q
  <2>5. /\ SameList(q, pg') /\ pg'.page = q.page /\ pg'.drawer = q.drawer /\ pg'.typed = q.typed
        /\ pg'.saving = FALSE /\ pg'.editing = q.editing /\ pg'.form = q.form /\ pg'.sent = q.sent
    BY <2>2, <2>3, <2>4 DEF SameList, IsRecord, UsersFields, ListFields
  <2>6. pg'.drawer \in BOOLEAN /\ pg'.typed \in BOOLEAN /\ pg'.saving \in BOOLEAN
    BY <1>1, <2>3, <2>5, Zenon
  <2>7. UsersInv'
    BY <1>1, <2>2, <2>3, <2>5, <2>6, UsersStep
  <2>. QED
    BY <2>3, <2>5, <2>7 DEF TypedStays
<1>. QED
  BY <1>3, <1>4, <1>5, <1>6, <1>7, <1>8, <1>9, <1>10, <1>11, <1>12, <1>13, <1>14, <1>15
  DEF Users!Next, Users!Answers

\* What follows: types, the list shows its changes, and nobody is saved with the data of another.
LEMMA UsersProperties ==
  ASSUME MaxChanges \in Nat, UsersInv
  PROVE  Users!TypeOK /\ Users!ListFollowsChanges /\ Users!SavedToItsOwner
<1>1. Users!ListingOK(pg, MaxChanges) = ListingOK(pg, MaxChanges) /\ Users!Quiet(pg) = Quiet(pg)
  BY DEF Users!ListingOK, ListingOK, Users!Quiet, Quiet
<1>2. ListingOK(pg, MaxChanges) /\ (Quiet(pg) /\ ~pg.excused => pg.shown >= pg.mine)
  BY ListedProperties DEF UsersInv, UsersTypes
<1>. QED
  BY <1>1, <1>2 DEF Users!TypeOK, Users!ListFollowsChanges, Users!SavedToItsOwner, UsersInv, UsersTypes
-----------------------------------------------------------------------------
(* The page of the cache: a list and nothing else. *)

\* Its list is that of Requests.
LEMMA CacheList ==
  ASSUME NEW p, NEW r, NEW k
  PROVE  /\ Cache!Served(p, r) = Served(p, r) /\ Cache!Elsewhere(p) = Elsewhere(p)
         /\ Cache!Loaded(p, r) = Loaded(p, r) /\ Cache!NotLoaded(p, r) = NotLoaded(p, r)
         /\ Cache!Change(p, k) = Change(p, k) /\ Cache!Confirmed(p, r) = Confirmed(p, r)
         /\ Cache!Refused(p, r) = Refused(p, r)
         /\ Cache!Waiting(p) = Waiting(p) /\ Cache!Ready(p, k) = Ready(p, k)
BY DEF Cache!Served, Served, Cache!Elsewhere, Elsewhere, Cache!Loaded, Loaded, Cache!NotLoaded, NotLoaded,
       Cache!Change, Change, Cache!Send, Send, Cache!Confirmed, Confirmed, Cache!Refused, Refused,
       Cache!Waiting, Waiting, Cache!Ready, Ready

CacheFields == ListFields \cup {"page"}
CacheTypes(p) == p.page = "cache" /\ DOMAIN p = CacheFields /\ p.changes <= MaxChanges
CacheInv == Listed(pg) /\ CacheTypes(pg)

\* The page as it is mounted.
LEMMA CacheMounted ==
  ASSUME MaxChanges \in Nat, NEW p \in Cache!Mounted
  PROVE  Listed(p) /\ CacheTypes(p)
<1>. DEFINE own == [page |-> "cache"]
<1>1. p = WithList(own)
  BY DEF Cache!Mounted, Cache!WithList, WithList, Cache!Listing, Listing
<1>2. DOMAIN own = {"page"} /\ DOMAIN own \cap ListFields = {} /\ own["page"] = "cache"
  BY DEF ListFields
<1>. HIDE DEF own
<1>3. Listed(p) /\ DOMAIN p = CacheFields /\ p.changes = 0 /\ \A f \in DOMAIN own : p[f] = own[f]
  BY <1>1, <1>2, MountedListed DEF CacheFields
<1>. QED
  BY <1>2, <1>3 DEF CacheTypes

\* Every step of the page keeps what is known of it.
LEMMA CacheNext ==
  ASSUME MaxChanges \in Nat, CacheInv, Cache!Next
  PROVE  CacheInv'
<1>. USE DEF CacheInv
<1>1. /\ IsRecord(pg) /\ ListFields \subseteq DOMAIN pg /\ pg.changes <= MaxChanges /\ pg.changes \in Nat
  BY DEF Listed, CacheTypes, ListTypes
<1>2. ASSUME Listed(pg'), SameOwn(pg, pg'), pg'.changes <= MaxChanges
      PROVE  CacheInv'
  BY <1>2 DEF CacheTypes, CacheFields, ListFields, SameOwn
<1>3. CASE Cache!Serve
  <2>1. PICK r \in Waiting(pg) : pg' = Served(pg, r)
    BY <1>3, CacheList DEF Cache!Serve
  <2>. QED
    BY <1>1, <1>2, <2>1, ServedKeeps, ServedFacts
<1>4. CASE Cache!StatsChange
  <2>1. pg' = Elsewhere(pg) /\ pg.changes < MaxChanges
    BY <1>4, CacheList DEF Cache!StatsChange, Cache!CanChange
  <2>. QED
    BY <1>1, <1>2, <2>1, ElsewhereKeeps, ElsewhereFacts
<1>5. CASE Cache!StatsLoaded
  <2>1. PICK r \in Ready(pg, "load") : pg' = Loaded(pg, r)
    BY <1>5, CacheList DEF Cache!StatsLoaded
  <2>2. Listed(pg') /\ SameOwn(pg, pg') /\ pg'.changes = pg.changes
    BY <1>1, <2>1, LoadedKeeps, LoadedFacts
  <2>. QED
    BY <1>1, <1>2, <2>2
<1>6. CASE Cache!StatsFail
  <2>1. PICK r \in pg.reqs : pg' = NotLoaded(pg, r)
    BY <1>6, CacheList DEF Cache!StatsFail
  <2>2. Listed(pg') /\ SameOwn(pg, pg') /\ pg'.changes = pg.changes
    BY <1>1, <2>1, NotLoadedKeeps, NotLoadedFacts
  <2>. QED
    BY <1>1, <1>2, <2>2
<1>7. CASE Cache!Invalidate
  <2>1. pg' = Change(pg, "invalidate") /\ pg.changes < MaxChanges /\ "invalidate" \in Kinds \ {"load"}
    BY <1>7, CacheList DEF Cache!Invalidate, Cache!CanChange, Kinds
  <2>. QED
    BY <1>1, <1>2, <2>1, ChangeKeeps, ChangeFacts
<1>8. CASE Cache!Invalidated
  <2>1. PICK r \in Ready(pg, "invalidate") : pg' = Confirmed(pg, r)
    BY <1>8, CacheList DEF Cache!Invalidated
  <2>2. r \in pg.reqs /\ r.kind # "load"
    BY DEF Ready
  <2>. QED
    BY <1>1, <1>2, <2>1, <2>2, ConfirmedKeeps, ConfirmedFacts
<1>9. CASE Cache!InvalidateFails
  <2>1. PICK r \in pg.reqs : r.kind = "invalidate" /\ pg' = Refused(pg, r)
    BY <1>9, CacheList DEF Cache!InvalidateFails
  <2>. QED
    BY <1>1, <1>2, <2>1, RefusedKeeps, RefusedFacts
<1>. QED
  BY <1>3, <1>4, <1>5, <1>6, <1>7, <1>8, <1>9 DEF Cache!Next, Cache!Answers

\* What follows: types, and the numbers show what the page has done.
LEMMA CacheProperties ==
  ASSUME MaxChanges \in Nat, CacheInv
  PROVE  Cache!TypeOK /\ Cache!ListFollowsChanges
<1>1. Cache!ListingOK(pg, MaxChanges) = ListingOK(pg, MaxChanges) /\ Cache!Quiet(pg) = Quiet(pg)
  BY DEF Cache!ListingOK, ListingOK, Cache!Quiet, Quiet
<1>2. ListingOK(pg, MaxChanges) /\ (Quiet(pg) /\ ~pg.excused => pg.shown >= pg.mine)
  BY ListedProperties DEF CacheInv, CacheTypes
<1>. QED
  BY <1>1, <1>2 DEF Cache!TypeOK, Cache!ListFollowsChanges
-----------------------------------------------------------------------------
(* The filters and the inspector of the log page. *)

FilterPage ==
  [page : {"filter"}, rows : SUBSET Rows, activeLevels : SUBSET LogFilters!LEVELS,
   selectedLog : Rows \cup {NoRow}, metaSearch : BOOLEAN, typedFor : Rows \cup {NoRow}]

FilterInv == pg \in FilterPage /\ LogFilters!InspectorOwnsSearch

\* The page as it is mounted.
LEMMA FilterMounted ==
  ASSUME NEW p \in LogFilters!Mounted
  PROVE  p \in FilterPage /\ p.selectedLog = NoRow
<1>1. p = [page |-> "filter", rows |-> {}, activeLevels |-> LogFilters!LEVELS, selectedLog |-> NoRow,
           metaSearch |-> FALSE, typedFor |-> NoRow]
  BY DEF LogFilters!Mounted
<1>2. p \in FilterPage
  BY <1>1, Zenon DEF FilterPage
<1>. QED
  BY <1>1, <1>2

\* Every step of the page keeps what is known of it.
LEMMA FilterNext ==
  ASSUME FilterInv, LogFilters!Next
  PROVE  FilterInv'
<1>. USE DEF FilterInv, FilterPage, LogFilters!InspectorOwnsSearch, LogFilters!Here
<1>1. ASSUME NEW s \in SUBSET Rows, LogFilters!NewRows(s) PROVE FilterInv'
  BY <1>1 DEF LogFilters!NewRows
<1>2. ASSUME NEW s \in SUBSET LogFilters!LEVELS, pg' = [pg EXCEPT !.activeLevels = s] PROVE FilterInv'
  BY <1>2
<1>3. ASSUME NEW l \in LogFilters!LEVELS, LogFilters!ToggleLevel(l) PROVE FilterInv'
  <2>. DEFINE s == IF l \in pg.activeLevels THEN LogFilters!Without({l}) ELSE LogFilters!With({l})
  <2>1. s \in SUBSET LogFilters!LEVELS /\ pg' = [pg EXCEPT !.activeLevels = s]
    BY <1>3 DEF LogFilters!ToggleLevel, LogFilters!Without, LogFilters!With
  <2>. QED
    BY <1>2, <2>1
<1>4. ASSUME NEW g \in LogFilters!Groups, LogFilters!ToggleLevelGroup(g) PROVE FilterInv'
  <2>. DEFINE s == IF LogFilters!Lit(pg, g) THEN LogFilters!Without(LogFilters!Card(g))
                   ELSE LogFilters!With(LogFilters!Card(g))
  <2>1. pg' = [pg EXCEPT !.activeLevels = s]
    BY <1>4 DEF LogFilters!ToggleLevelGroup
  <2>2. LogFilters!Card(g) \subseteq LogFilters!LEVELS
    BY DEF LogFilters!Card, LogFilters!Groups, LogFilters!LEVELS
  <2>3. s \in SUBSET LogFilters!LEVELS
    BY <2>2 DEF LogFilters!Without, LogFilters!With
  <2>. QED
    BY <1>2, <2>1, <2>3
<1>5. ASSUME NEW r \in Rows, LogFilters!Inspect(r) PROVE FilterInv'
  BY <1>5 DEF LogFilters!Inspect
<1>6. CASE LogFilters!SearchContext
  BY <1>6 DEF LogFilters!SearchContext
<1>7. CASE LogFilters!CloseInspector
  BY <1>7 DEF LogFilters!CloseInspector
<1>. QED
  BY <1>1, <1>3, <1>4, <1>5, <1>6, <1>7 DEF LogFilters!Next

\* The levels are finitely many, so all of them are active when their number is.
LEMMA AllLevels ==
  ASSUME NEW s \in SUBSET LogFilters!LEVELS
  PROVE  LogFilters!Cardinality(s) = LogFilters!Cardinality(LogFilters!LEVELS) <=> s = LogFilters!LEVELS
<1>1. IsFiniteSet({"DEBUG"} \cup {"INFO"} \cup {"WARNING"} \cup {"ERROR"} \cup {"CRITICAL"})
  <2>1. IsFiniteSet({"DEBUG"} \cup {"INFO"})
    BY FS_Singleton, FS_AddElement
  <2>2. IsFiniteSet({"DEBUG"} \cup {"INFO"} \cup {"WARNING"})
    BY <2>1, FS_AddElement
  <2>3. IsFiniteSet({"DEBUG"} \cup {"INFO"} \cup {"WARNING"} \cup {"ERROR"})
    BY <2>2, FS_AddElement
  <2>. QED
    BY <2>3, FS_AddElement
<1>2. IsFiniteSet(LogFilters!LEVELS)
  <2>1. LogFilters!LEVELS = {"DEBUG"} \cup {"INFO"} \cup {"WARNING"} \cup {"ERROR"} \cup {"CRITICAL"}
    BY DEF LogFilters!LEVELS
  <2>. QED
    BY <1>1, <2>1
<1>3. Cardinality(s) = Cardinality(LogFilters!LEVELS) <=> s = LogFilters!LEVELS
  BY <1>2, FS_Subset, Zenon
<1>4. \A t : LogFilters!Cardinality(t) = Cardinality(t)
  BY DEF LogFilters!Cardinality, Cardinality
<1>. QED
  BY <1>3, <1>4

\* A click on a card turns its light on or off.
LEMMA CardClick ==
  ASSUME FilterInv, NEW g \in LogFilters!Groups, LogFilters!ToggleLevelGroup(g)
  PROVE  LogFilters!Lit(pg', g) # LogFilters!Lit(pg, g)
<1>. DEFINE a == pg.activeLevels
            b == pg'.activeLevels
            c == LogFilters!Card(g)
<1>1. a \in SUBSET LogFilters!LEVELS /\ b \in SUBSET LogFilters!LEVELS
  <2>1. FilterInv'
    BY FilterNext DEF LogFilters!Next
  <2>. QED
    BY <2>1 DEF FilterInv, FilterPage
<1>2. b = IF LogFilters!Lit(pg, g) THEN a \ c ELSE a \cup c
  BY DEF FilterInv, FilterPage, LogFilters!ToggleLevelGroup, LogFilters!Without, LogFilters!With
<1>3. CASE g = "ALL"
  <2>1. c = LogFilters!LEVELS /\ LogFilters!LEVELS # {}
    BY <1>3 DEF LogFilters!Card, LogFilters!LEVELS
  <2>2. LogFilters!Lit(pg, g) <=> a = LogFilters!LEVELS
    <3>1. LogFilters!Cardinality(a) = LogFilters!Cardinality(LogFilters!LEVELS) <=> a = LogFilters!LEVELS
      BY <1>1, AllLevels
    <3>. QED
      BY <1>3, <3>1 DEF LogFilters!Lit
  <2>3. LogFilters!Lit(pg', g) <=> b = LogFilters!LEVELS
    <3>1. LogFilters!Cardinality(b) = LogFilters!Cardinality(LogFilters!LEVELS) <=> b = LogFilters!LEVELS
      BY <1>1, AllLevels
    <3>. QED
      BY <1>3, <3>1 DEF LogFilters!Lit
  <2>4. LogFilters!Lit(pg', g) <=> ~LogFilters!Lit(pg, g)
    <3>. HIDE DEF a, b, c
    <3>1. a = LogFilters!LEVELS => b = {}
      BY <1>2, <2>1, <2>2
    <3>2. a # LogFilters!LEVELS => b = LogFilters!LEVELS
      BY <1>1, <1>2, <2>1, <2>2
    <3>. QED
      BY <2>1, <2>2, <2>3, <3>1, <3>2, Zenon
  <2>. QED
    BY <2>4, Zenon
<1>4. CASE g # "ALL"
  <2>1. c # {}
    BY <1>4 DEF LogFilters!Card
  <2>2. LogFilters!Lit(pg, g) <=> a \cap c # {}
    BY <1>4, Zenon DEF LogFilters!Lit
  <2>3. LogFilters!Lit(pg', g) <=> b \cap c # {}
    BY <1>4, Zenon DEF LogFilters!Lit
  <2>4. LogFilters!Lit(pg', g) <=> ~LogFilters!Lit(pg, g)
    <3>. HIDE DEF a, b, c
    <3>1. LogFilters!Lit(pg, g) => b \cap c = {}
      BY <1>2
    <3>2. ~LogFilters!Lit(pg, g) => b \cap c # {}
      BY <1>2, <2>1
    <3>. QED
      BY <2>3, <3>1, <3>2, Zenon
  <2>. QED
    BY <2>4, Zenon
<1>. QED
  BY <1>3, <1>4

\* What follows: types, and the search is that of the row.
LEMMA FilterProperties ==
  ASSUME FilterInv
  PROVE  LogFilters!TypeOK /\ LogFilters!InspectorOwnsSearch
BY DEF FilterInv, FilterPage, LogFilters!TypeOK
-----------------------------------------------------------------------------
(* The page of the settings. *)

Drafts == [SettingKeys -> 0..MaxValue]
LoadRequest == [id : Nat, served : BOOLEAN, rows : Drafts]
SaveRequest == [id : Nat, served : BOOLEAN, rows : Drafts, may : SUBSET SettingKeys]
SettingsRecord ==
  [page : {"settings"}, loading : BOOLEAN, listed : BOOLEAN, draft : Drafts, db : Drafts,
   loads : SUBSET LoadRequest, saves : SUBSET SaveRequest, asked : Nat, saved : 0..MaxSaves,
   foreign : 0..MaxForeign, edited : SUBSET SettingKeys, differ : SUBSET SettingKeys]

\* Requests are numbered; a save is still on its way or has become a load.
SettingsNumbered(p) ==
  /\ \A l \in p.loads : l.id \in 1..p.asked
  /\ \A s \in p.saves : s.id \in 1..p.saved
  /\ IsFiniteSet(p.saves) /\ p.asked >= 1 /\ p.asked + Cardinality(p.saves) <= p.saved + 1

\* What the draft, or a save on its way, would alter on the gateway is known to have been typed or to have
\* moved there.
AlteredKnown(p) ==
  /\ p.listed => Settings!Changed(p.draft, p.db) \subseteq p.edited \cup p.differ
  /\ \A s \in p.saves : ~s.served => Settings!Changed(s.rows, p.db) \subseteq s.may

SettingsGood(p) == p \in SettingsRecord /\ SettingsNumbered(p) /\ AlteredKnown(p)
SettingsInv == SettingsGood(pg)

\* The page as it is mounted.
LEMMA SettingsMounted ==
  ASSUME {MaxValue, MaxSaves, MaxForeign} \subseteq Nat, NEW p \in Settings!Mounted
  PROVE  SettingsGood(p)
<1>1. p = [page |-> "settings", loading |-> TRUE, listed |-> FALSE, draft |-> Settings!NoDraft,
           db |-> Settings!NoDraft, loads |-> {[id |-> 1, served |-> FALSE, rows |-> Settings!NoDraft]},
           saves |-> {}, asked |-> 1, saved |-> 0, foreign |-> 0, edited |-> {}, differ |-> {}]
  BY DEF Settings!Mounted
<1>2. Settings!NoDraft \in Drafts
  BY DEF Settings!NoDraft, Drafts
<1>3. [id |-> 1, served |-> FALSE, rows |-> Settings!NoDraft] \in LoadRequest
  BY <1>2 DEF LoadRequest
<1>4. 0 \in 0..MaxSaves /\ 0 \in 0..MaxForeign /\ 1 \in Nat
  OBVIOUS
<1>5. p \in SettingsRecord
  <2>1. {[id |-> 1, served |-> FALSE, rows |-> Settings!NoDraft]} \in SUBSET LoadRequest
    BY <1>3
  <2>. QED
    BY <1>1, <1>2, <1>4, <2>1, Zenon DEF SettingsRecord
<1>6. SettingsNumbered(p)
  BY <1>1, FS_EmptySet DEF SettingsNumbered
<1>7. AlteredKnown(p)
  BY <1>1 DEF AlteredKnown
<1>. QED
  BY <1>5, <1>6, <1>7 DEF SettingsGood

\* Marking saves does not add any.
LEMMA MarkedFinite ==
  ASSUME NEW S, IsFiniteSet(S), NEW ks
  PROVE  /\ IsFiniteSet(Settings!Marked(S, ks))
         /\ Cardinality(Settings!Marked(S, ks)) <= Cardinality(S)
<1>. DEFINE f == [s \in S |-> [s EXCEPT !.may = @ \cup ks]]
<1>1. f \in Surjection(S, Settings!Marked(S, ks))
  BY DEF Surjection, Settings!Marked
<1>. QED
  BY <1>1, FS_Surjection

\* A marked save, and where it came from.
LEMMA MarkedSaves ==
  ASSUME NEW S \in SUBSET SaveRequest, NEW ks \in SUBSET SettingKeys, NEW t \in Settings!Marked(S, ks)
  PROVE  /\ t \in SaveRequest
         /\ \E s \in S : t.id = s.id /\ t.served = s.served /\ t.rows = s.rows /\ t.may = s.may \cup ks
<1>1. PICK s \in S : t = [s EXCEPT !.may = @ \cup ks]
  BY DEF Settings!Marked
<1>2. s \in SaveRequest
  OBVIOUS
<1>3. t.id = s.id /\ t.served = s.served /\ t.rows = s.rows /\ t.may = s.may \cup ks
  BY <1>1, <1>2, Zenon DEF SaveRequest
<1>4. t \in SaveRequest
  BY <1>1, <1>2 DEF SaveRequest
<1>. QED
  BY <1>3, <1>4

\* What a setting differs in from a new value it differs in from the old one, or that has changed.
LEMMA ChangedFrom ==
  ASSUME NEW a, NEW b, NEW c
  PROVE  Settings!Changed(a, c) \subseteq Settings!Changed(a, b) \cup Settings!Changed(c, b)
BY DEF Settings!Changed

\* Every step of the page keeps what is known of it.
LEMMA SettingsNext ==
  ASSUME {MaxValue, MaxSaves, MaxForeign} \subseteq Nat, SettingsInv, Settings!Next
  PROVE  SettingsInv'
<1>1. /\ pg \in SettingsRecord /\ pg.page = "settings" /\ pg.draft \in Drafts /\ pg.db \in Drafts
      /\ pg.loads \in SUBSET LoadRequest /\ pg.saves \in SUBSET SaveRequest
      /\ pg.asked \in Nat /\ pg.saved \in 0..MaxSaves /\ pg.foreign \in 0..MaxForeign
      /\ pg.edited \in SUBSET SettingKeys /\ pg.differ \in SUBSET SettingKeys
  BY DEF SettingsInv, SettingsGood, SettingsRecord
<1>2. /\ IsFiniteSet(pg.saves) /\ pg.asked >= 1 /\ Cardinality(pg.saves) \in Nat
      /\ pg.asked + Cardinality(pg.saves) <= pg.saved + 1
      /\ \A l \in pg.loads : l.id \in 1..pg.asked
      /\ \A s \in pg.saves : s.id \in 1..pg.saved
  BY FS_CardinalityType DEF SettingsInv, SettingsGood, SettingsNumbered
<1>3. AlteredKnown(pg)
  BY DEF SettingsInv, SettingsGood
<1>4. CASE Settings!ServeLoad
  <2>1. PICK l \in pg.loads :
          pg' = [pg EXCEPT !.loads = (@ \ {l}) \cup {[l EXCEPT !.served = TRUE, !.rows = pg.db]}]
    BY <1>4 DEF Settings!ServeLoad
  <2>2. [l EXCEPT !.served = TRUE, !.rows = pg.db] \in LoadRequest
    BY <1>1 DEF LoadRequest
  <2>3. [l EXCEPT !.served = TRUE, !.rows = pg.db].id = l.id
    BY <1>1, Zenon DEF LoadRequest
  <2>. DEFINE n == [l EXCEPT !.served = TRUE, !.rows = pg.db]
  <2>. HIDE DEF n
  <2>4. pg' = [pg EXCEPT !.loads = (@ \ {l}) \cup {n}] /\ n \in LoadRequest /\ n.id = l.id
    BY <2>1, <2>2, <2>3 DEF n
  <2>5. pg' \in SettingsRecord
    BY <1>1, <2>4 DEF SettingsRecord
  <2>6. /\ pg'.loads = (pg.loads \ {l}) \cup {n} /\ pg'.saves = pg.saves /\ pg'.asked = pg.asked
        /\ pg'.saved = pg.saved
    BY <1>1, <2>4 DEF SettingsRecord
  <2>7. SettingsNumbered(pg')
    BY <1>2, <2>4, <2>6 DEF SettingsNumbered
  <2>8. AlteredKnown(pg')
    BY <1>1, <1>3, <2>4 DEF SettingsRecord, AlteredKnown
  <2>. QED
    BY <2>5, <2>7, <2>8 DEF SettingsInv, SettingsGood
<1>5. CASE Settings!Loaded
  <2>1. PICK l \in pg.loads :
          pg' = [pg EXCEPT !.loads = @ \ {l}, !.loading = FALSE, !.listed = TRUE, !.draft = l.rows,
                           !.edited = {}, !.differ = Settings!Changed(l.rows, pg.db)]
    BY <1>5 DEF Settings!Loaded
  <2>2. l.rows \in Drafts /\ Settings!Changed(l.rows, pg.db) \subseteq SettingKeys
    BY <1>1 DEF LoadRequest, Settings!Changed
  <2>3. pg' \in SettingsRecord
    BY <1>1, <2>1, <2>2 DEF SettingsRecord
  <2>4. /\ pg'.loads = pg.loads \ {l} /\ pg'.saves = pg.saves /\ pg'.asked = pg.asked
        /\ pg'.saved = pg.saved
    BY <1>1, <2>1 DEF SettingsRecord
  <2>5. SettingsNumbered(pg')
    BY <1>2, <2>4 DEF SettingsNumbered
  <2>6. pg'.draft = l.rows /\ pg'.differ = Settings!Changed(l.rows, pg.db) /\ pg'.db = pg.db
    BY <1>1, <2>1 DEF SettingsRecord
  <2>7. AlteredKnown(pg')
    BY <1>3, <2>4, <2>6 DEF AlteredKnown
  <2>. QED
    BY <2>3, <2>5, <2>7 DEF SettingsInv, SettingsGood
<1>6. CASE Settings!LoadFails
  <2>1. PICK l \in pg.loads : pg' = [pg EXCEPT !.loads = @ \ {l}, !.loading = FALSE]
    BY <1>6 DEF Settings!LoadFails
  <2>2. pg' \in SettingsRecord
    BY <1>1, <2>1 DEF SettingsRecord
  <2>3. SettingsNumbered(pg')
    BY <1>1, <1>2, <2>1 DEF SettingsRecord, SettingsNumbered
  <2>4. AlteredKnown(pg')
    BY <1>1, <1>3, <2>1 DEF SettingsRecord, AlteredKnown
  <2>. QED
    BY <2>2, <2>3, <2>4 DEF SettingsInv, SettingsGood
<1>7. ASSUME NEW k \in SettingKeys, NEW v \in Settings!Values, Settings!Edit(k, v)
      PROVE  SettingsInv'
  <2>1. pg' = [pg EXCEPT !.draft = [@ EXCEPT ![k] = v], !.edited = @ \cup {k}]
    BY <1>7 DEF Settings!Edit
  <2>. DEFINE d == [pg.draft EXCEPT ![k] = v]
  <2>2. d \in Drafts /\ Settings!Changed(d, pg.db) \subseteq Settings!Changed(pg.draft, pg.db) \cup {k}
    BY <1>1, <1>7 DEF Drafts, Settings!Changed, Settings!Values
  <2>3. pg' = [pg EXCEPT !.draft = d, !.edited = @ \cup {k}]
    BY <2>1
  <2>. HIDE DEF d
  <2>4. pg' \in SettingsRecord
    BY <1>1, <2>2, <2>3 DEF SettingsRecord
  <2>5. SettingsNumbered(pg')
    BY <1>1, <1>2, <2>3 DEF SettingsRecord, SettingsNumbered
  <2>6. /\ pg'.draft = d /\ pg'.edited = pg.edited \cup {k} /\ pg'.differ = pg.differ /\ pg'.db = pg.db
        /\ pg'.saves = pg.saves
    BY <1>1, <2>3 DEF SettingsRecord
  <2>7. pg'.listed = pg.listed
    BY <1>1, <2>3 DEF SettingsRecord
  <2>8. AlteredKnown(pg')
    BY <1>3, <2>2, <2>6, <2>7 DEF AlteredKnown
  <2>. QED
    BY <2>4, <2>5, <2>8 DEF SettingsInv, SettingsGood
<1>8. CASE Settings!Save
  <2>. DEFINE n == [id |-> pg.saved + 1, served |-> FALSE, rows |-> pg.draft,
                    may |-> pg.edited \cup pg.differ]
  <2>1. /\ pg.listed /\ pg.saved < MaxSaves
        /\ pg' = [pg EXCEPT !.saved = @ + 1, !.saves = @ \cup {n}]
    BY <1>8 DEF Settings!Save
  <2>2. n \in SaveRequest /\ n.id = pg.saved + 1
    BY <1>1 DEF SaveRequest
  <2>3. Settings!Changed(n.rows, pg.db) \subseteq n.may
    BY <1>3, <2>1 DEF AlteredKnown
  <2>. HIDE DEF n
  <2>4. pg.saved + 1 \in 0..MaxSaves
    BY <1>1, <2>1
  <2>5. pg' \in SettingsRecord
    BY <1>1, <2>1, <2>2, <2>4 DEF SettingsRecord
  <2>6. /\ pg'.saves = pg.saves \cup {n} /\ pg'.saved = pg.saved + 1 /\ pg'.asked = pg.asked
        /\ pg'.loads = pg.loads
    BY <1>1, <2>1 DEF SettingsRecord
  <2>7. /\ IsFiniteSet(pg'.saves) /\ Cardinality(pg'.saves) \in Nat
        /\ Cardinality(pg'.saves) <= Cardinality(pg.saves) + 1
    BY <1>2, <2>6, OneMore, FS_CardinalityType
  <2>8. pg'.asked + Cardinality(pg'.saves) <= pg'.saved + 1
    BY <1>1, <1>2, <2>6, <2>7
  <2>9. \A s \in pg'.saves : s.id \in 1..pg'.saved
    BY <1>1, <1>2, <2>2, <2>6
  <2>10. SettingsNumbered(pg')
    BY <1>2, <2>6, <2>7, <2>8, <2>9 DEF SettingsNumbered
  <2>11. AlteredKnown(pg')
    <3>1. pg'.draft = pg.draft /\ pg'.db = pg.db /\ pg'.edited = pg.edited /\ pg'.differ = pg.differ
      BY <1>1, <2>1 DEF SettingsRecord
    <3>. QED
      BY <1>3, <2>1, <2>3, <2>6, <3>1 DEF AlteredKnown
  <2>. QED
    BY <2>5, <2>10, <2>11 DEF SettingsInv, SettingsGood
<1>9. CASE Settings!ServeSave
  <2>1. PICK s \in pg.saves :
          /\ ~s.served
          /\ pg' = [pg EXCEPT !.db = s.rows, !.differ = @ \cup Settings!Changed(s.rows, pg.db),
                              !.saves = Settings!Marked(@ \ {s}, Settings!Changed(s.rows, pg.db))
                                        \cup {[s EXCEPT !.served = TRUE]}]
    BY <1>9 DEF Settings!ServeSave
  <2>. DEFINE ks == Settings!Changed(s.rows, pg.db)
              n == [s EXCEPT !.served = TRUE]
              old == pg.saves \ {s}
              rest == Settings!Marked(old, ks)
  <2>2. ks \in SUBSET SettingKeys /\ old \in SUBSET SaveRequest /\ s.rows \in Drafts
    BY <1>1 DEF Settings!Changed, SaveRequest
  <2>3. n \in SaveRequest
    BY <1>1 DEF SaveRequest
  <2>4. n.id = s.id /\ n.served
    BY <1>1, Zenon DEF SaveRequest
  <2>5. \A t \in rest : /\ t \in SaveRequest
                        /\ \E u \in old : /\ t.id = u.id /\ t.served = u.served /\ t.rows = u.rows
                                          /\ t.may = u.may \cup ks
    BY <2>2, MarkedSaves
  <2>6. pg' = [pg EXCEPT !.db = s.rows, !.differ = @ \cup ks, !.saves = rest \cup {n}]
    BY <2>1
  <2>7. /\ IsFiniteSet(rest) /\ Cardinality(rest) \in Nat
        /\ Cardinality(rest) + 1 <= Cardinality(pg.saves)
    <3>1. IsFiniteSet(old) /\ Cardinality(old) + 1 <= Cardinality(pg.saves) /\ Cardinality(old) \in Nat
      BY <1>2, OneLess, FS_CardinalityType
    <3>2. IsFiniteSet(rest) /\ Cardinality(rest) <= Cardinality(old)
      BY <3>1, MarkedFinite
    <3>. HIDE DEF rest, old
    <3>. QED
      BY <1>2, <3>1, <3>2, FS_CardinalityType
  <2>8. \A t \in rest : t.id \in 1..pg.saved
    BY <1>2, <2>5
  <2>9. \A t \in rest : ~t.served => Settings!Changed(t.rows, s.rows) \subseteq t.may
    <3>. SUFFICES ASSUME NEW t \in rest, ~t.served PROVE Settings!Changed(t.rows, s.rows) \subseteq t.may
      OBVIOUS
    <3>1. PICK u \in old : t.served = u.served /\ t.rows = u.rows /\ t.may = u.may \cup ks
      BY <2>5
    <3>2. Settings!Changed(u.rows, pg.db) \subseteq u.may
      BY <1>3, <3>1 DEF AlteredKnown
    <3>3. Settings!Changed(u.rows, s.rows) \subseteq Settings!Changed(u.rows, pg.db) \cup ks
      BY ChangedFrom
    <3>. HIDE DEF rest, old, ks
    <3>. QED
      BY <3>1, <3>2, <3>3
  <2>10. Settings!Changed(pg.draft, s.rows) \subseteq Settings!Changed(pg.draft, pg.db) \cup ks
    BY ChangedFrom
  <2>. HIDE DEF n, rest, old, ks
  <2>11. pg' \in SettingsRecord
    BY <1>1, <2>2, <2>3, <2>5, <2>6 DEF SettingsRecord
  <2>12. /\ pg'.saves = rest \cup {n} /\ pg'.saved = pg.saved /\ pg'.asked = pg.asked
         /\ pg'.loads = pg.loads /\ pg'.db = s.rows /\ pg'.differ = pg.differ \cup ks
         /\ pg'.draft = pg.draft /\ pg'.edited = pg.edited
    BY <1>1, <2>6 DEF SettingsRecord
  <2>13. pg'.listed = pg.listed
    BY <1>1, <2>6 DEF SettingsRecord
  <2>14. SettingsNumbered(pg')
    <3>1. /\ IsFiniteSet(pg'.saves) /\ Cardinality(pg'.saves) \in Nat
          /\ Cardinality(pg'.saves) <= Cardinality(rest) + 1
      BY <2>7, <2>12, OneMore, FS_CardinalityType
    <3>2. pg'.asked + Cardinality(pg'.saves) <= pg'.saved + 1
      BY <1>1, <1>2, <2>7, <2>12, <3>1
    <3>3. \A t \in pg'.saves : t.id \in 1..pg'.saved
      BY <1>2, <2>4, <2>8, <2>12
    <3>. QED
      BY <1>2, <2>12, <3>1, <3>2, <3>3 DEF SettingsNumbered
  <2>15. AlteredKnown(pg')
    <3>1. pg'.listed => Settings!Changed(pg'.draft, pg'.db) \subseteq pg'.edited \cup pg'.differ
      BY <1>3, <2>10, <2>12, <2>13 DEF AlteredKnown
    <3>2. \A t \in pg'.saves : ~t.served => Settings!Changed(t.rows, pg'.db) \subseteq t.may
      BY <2>4, <2>9, <2>12
    <3>. QED
      BY <3>1, <3>2 DEF AlteredKnown
  <2>. QED
    BY <2>11, <2>14, <2>15 DEF SettingsInv, SettingsGood
<1>10. CASE Settings!Saved
  <2>. DEFINE n == [id |-> pg.asked + 1, served |-> FALSE, rows |-> Settings!NoDraft]
  <2>1. PICK s \in pg.saves : pg' = [pg EXCEPT !.saves = @ \ {s}, !.asked = @ + 1, !.loads = @ \cup {n}]
    BY <1>10 DEF Settings!Saved
  <2>2. Settings!NoDraft \in Drafts
    BY DEF Settings!NoDraft, Drafts
  <2>3. n \in LoadRequest /\ n.id = pg.asked + 1
    BY <1>1, <2>2 DEF LoadRequest
  <2>. HIDE DEF n
  <2>4. pg' \in SettingsRecord
    <3>1. pg.asked + 1 \in Nat
      BY <1>1
    <3>. QED
      BY <1>1, <2>1, <2>3, <3>1 DEF SettingsRecord
  <2>5. /\ pg'.saves = pg.saves \ {s} /\ pg'.asked = pg.asked + 1 /\ pg'.loads = pg.loads \cup {n}
        /\ pg'.saved = pg.saved
    BY <1>1, <2>1 DEF SettingsRecord
  <2>6. SettingsNumbered(pg')
    <3>1. /\ IsFiniteSet(pg'.saves) /\ Cardinality(pg'.saves) \in Nat
          /\ Cardinality(pg'.saves) + 1 <= Cardinality(pg.saves)
      BY <1>2, <2>5, OneLess, FS_CardinalityType
    <3>2. pg'.asked + Cardinality(pg'.saves) <= pg'.saved + 1 /\ pg'.asked >= 1
      BY <1>1, <1>2, <2>5, <3>1
    <3>3. \A l \in pg'.loads : l.id \in 1..pg'.asked
      BY <1>1, <1>2, <2>3, <2>5
    <3>. QED
      BY <1>2, <2>5, <3>1, <3>2, <3>3 DEF SettingsNumbered
  <2>7. AlteredKnown(pg')
    BY <1>1, <1>3, <2>1 DEF SettingsRecord, AlteredKnown
  <2>. QED
    BY <2>4, <2>6, <2>7 DEF SettingsInv, SettingsGood
<1>11. CASE Settings!SaveFails
  <2>1. PICK s \in pg.saves : pg' = [pg EXCEPT !.saves = @ \ {s}]
    BY <1>11 DEF Settings!SaveFails
  <2>2. pg' \in SettingsRecord
    BY <1>1, <2>1 DEF SettingsRecord
  <2>3. /\ pg'.saves = pg.saves \ {s} /\ pg'.asked = pg.asked /\ pg'.loads = pg.loads
        /\ pg'.saved = pg.saved
    BY <1>1, <2>1 DEF SettingsRecord
  <2>4. SettingsNumbered(pg')
    <3>1. /\ IsFiniteSet(pg'.saves) /\ Cardinality(pg'.saves) \in Nat
          /\ Cardinality(pg'.saves) + 1 <= Cardinality(pg.saves)
      BY <1>2, <2>3, OneLess, FS_CardinalityType
    <3>2. pg'.asked + Cardinality(pg'.saves) <= pg'.saved + 1
      BY <1>1, <1>2, <2>3, <3>1
    <3>. QED
      BY <1>2, <2>3, <3>1, <3>2 DEF SettingsNumbered
  <2>5. AlteredKnown(pg')
    BY <1>1, <1>3, <2>1 DEF SettingsRecord, AlteredKnown
  <2>. QED
    BY <2>2, <2>4, <2>5 DEF SettingsInv, SettingsGood
<1>12. ASSUME NEW k \in SettingKeys, NEW v \in Settings!Values, Settings!Elsewhere(k, v)
       PROVE  SettingsInv'
  <2>. DEFINE d == [pg.db EXCEPT ![k] = v]
              rest == Settings!Marked(pg.saves, {k})
  <2>1. /\ pg.foreign < MaxForeign
        /\ pg' = [pg EXCEPT !.foreign = @ + 1, !.db = d, !.differ = @ \cup {k}, !.saves = rest]
    BY <1>12 DEF Settings!Elsewhere
  <2>2. d \in Drafts /\ Settings!Changed(d, pg.db) \subseteq {k}
    BY <1>1, <1>12 DEF Drafts, Settings!Changed, Settings!Values
  <2>3. \A a : Settings!Changed(a, d) \subseteq Settings!Changed(a, pg.db) \cup {k}
    BY <2>2, ChangedFrom
  <2>4. \A t \in rest : /\ t \in SaveRequest
                        /\ \E u \in pg.saves : /\ t.id = u.id /\ t.served = u.served /\ t.rows = u.rows
                                               /\ t.may = u.may \cup {k}
    <3>1. {k} \in SUBSET SettingKeys
      OBVIOUS
    <3>. QED
      BY <1>1, <3>1, MarkedSaves
  <2>5. /\ IsFiniteSet(rest) /\ Cardinality(rest) \in Nat /\ Cardinality(rest) <= Cardinality(pg.saves)
    BY <1>2, MarkedFinite, FS_CardinalityType
  <2>. HIDE DEF d, rest
  <2>6. pg' \in SettingsRecord
    <3>1. pg.foreign + 1 \in 0..MaxForeign
      BY <1>1, <2>1
    <3>. QED
      BY <1>1, <2>1, <2>2, <2>4, <3>1 DEF SettingsRecord
  <2>7. /\ pg'.saves = rest /\ pg'.saved = pg.saved /\ pg'.asked = pg.asked
        /\ pg'.loads = pg.loads /\ pg'.db = d /\ pg'.differ = pg.differ \cup {k}
        /\ pg'.draft = pg.draft /\ pg'.edited = pg.edited
    BY <1>1, <2>1 DEF SettingsRecord
  <2>8. pg'.listed = pg.listed
    BY <1>1, <2>1 DEF SettingsRecord
  <2>9. SettingsNumbered(pg')
    <3>1. pg'.asked + Cardinality(pg'.saves) <= pg'.saved + 1
      BY <1>1, <1>2, <2>5, <2>7
    <3>2. \A t \in pg'.saves : t.id \in 1..pg'.saved
      BY <1>2, <2>4, <2>7
    <3>. QED
      BY <1>2, <2>5, <2>7, <3>1, <3>2 DEF SettingsNumbered
  <2>10. AlteredKnown(pg')
    <3>1. pg'.listed => Settings!Changed(pg'.draft, pg'.db) \subseteq pg'.edited \cup pg'.differ
      BY <1>3, <2>3, <2>7, <2>8 DEF AlteredKnown
    <3>2. ASSUME NEW t \in pg'.saves, ~t.served PROVE Settings!Changed(t.rows, pg'.db) \subseteq t.may
      <4>1. PICK u \in pg.saves : t.served = u.served /\ t.rows = u.rows /\ t.may = u.may \cup {k}
        BY <2>4, <2>7
      <4>2. Settings!Changed(u.rows, pg.db) \subseteq u.may
        BY <1>3, <3>2, <4>1 DEF AlteredKnown
      <4>. QED
        BY <2>3, <2>7, <4>1, <4>2
    <3>. QED
      BY <3>1, <3>2 DEF AlteredKnown
  <2>. QED
    BY <2>6, <2>9, <2>10 DEF SettingsInv, SettingsGood
<1>. QED
  BY <1>4, <1>5, <1>6, <1>7, <1>8, <1>9, <1>10, <1>11, <1>12
  DEF Settings!Next, Settings!Serve, Settings!Answers

SaveStands ==
  pg'.foreign = pg.foreign => \E s \in pg.saves \cup {[may |-> {}]} : Settings!Changed(pg'.db, pg.db) \subseteq s.may

\* A save alters only what the admin typed, or what had moved on the gateway.
LEMMA SettingsSaves ==
  ASSUME SettingsInv, Settings!Next
  PROVE  SaveStands
<1>1. pg \in SettingsRecord /\ pg.foreign \in Int
  BY DEF SettingsInv, SettingsGood, SettingsRecord
<1>2. ASSUME pg'.db = pg.db PROVE SaveStands
  <2>1. Settings!Changed(pg'.db, pg.db) \subseteq [may |-> {}].may
    BY <1>2 DEF Settings!Changed
  <2>. QED
    BY <2>1 DEF SaveStands
<1>3. CASE Settings!ServeSave
  <2>1. PICK s \in pg.saves : ~s.served /\ pg'.db = s.rows
    BY <1>1, <1>3 DEF Settings!ServeSave, SettingsRecord
  <2>2. Settings!Changed(pg'.db, pg.db) \subseteq s.may
    BY <2>1 DEF SettingsInv, SettingsGood, AlteredKnown
  <2>. QED
    BY <2>2 DEF SaveStands
<1>4. ASSUME NEW k, NEW v, Settings!Elsewhere(k, v) PROVE SaveStands
  <2>1. pg'.foreign = pg.foreign + 1
    BY <1>1, <1>4 DEF Settings!Elsewhere, SettingsRecord
  <2>. QED
    BY <1>1, <2>1 DEF SaveStands
<1>5. ASSUME NEW k, NEW v, Settings!Edit(k, v) PROVE pg'.db = pg.db
  BY <1>1, <1>5 DEF Settings!Edit, SettingsRecord
<1>6. CASE Settings!ServeLoad \/ Settings!Loaded \/ Settings!LoadFails \/ Settings!Save \/ Settings!Saved
           \/ Settings!SaveFails
  <2>1. pg'.db = pg.db
    BY <1>1, <1>6 DEF Settings!ServeLoad, Settings!Loaded, Settings!LoadFails, Settings!Save, Settings!Saved,
                      Settings!SaveFails, SettingsRecord
  <2>. QED
    BY <1>2, <2>1
<1>. QED
  BY <1>2, <1>3, <1>4, <1>5, <1>6 DEF Settings!Next, Settings!Serve, Settings!Answers

\* What was typed stays, and nothing else changes in the draft, until a served load is taken.
EditsStand ==
  {l \in pg.loads : l.served} \subseteq pg'.loads =>
    pg.edited \subseteq pg'.edited /\ Settings!Changed(pg'.draft, pg.draft) \subseteq pg'.edited

LEMMA SettingsEdits ==
  ASSUME SettingsInv, Settings!Next
  PROVE  EditsStand
<1>1. pg \in SettingsRecord
  BY DEF SettingsInv, SettingsGood
<1>2. ASSUME pg'.draft = pg.draft, pg'.edited = pg.edited PROVE EditsStand
  BY <1>2 DEF EditsStand, Settings!Changed
<1>3. CASE Settings!Loaded
  <2>1. PICK l \in pg.loads : l.served /\ pg'.loads = pg.loads \ {l}
    BY <1>1, <1>3 DEF Settings!Loaded, SettingsRecord
  <2>. QED
    BY <2>1 DEF EditsStand
<1>4. ASSUME NEW k \in SettingKeys, NEW v, Settings!Edit(k, v) PROVE EditsStand
  <2>1. pg'.edited = pg.edited \cup {k} /\ pg'.draft = [pg.draft EXCEPT ![k] = v]
    BY <1>1, <1>4 DEF Settings!Edit, SettingsRecord
  <2>2. pg.draft \in [SettingKeys -> 0..MaxValue]
    BY <1>1 DEF SettingsRecord, Drafts
  <2>3. Settings!Changed(pg'.draft, pg.draft) \subseteq {k}
    BY <2>1, <2>2 DEF Settings!Changed
  <2>. QED
    BY <2>1, <2>3 DEF EditsStand
<1>5. ASSUME NEW k, NEW v, Settings!Elsewhere(k, v) PROVE pg'.draft = pg.draft /\ pg'.edited = pg.edited
  BY <1>1, <1>5 DEF Settings!Elsewhere, SettingsRecord
<1>6. CASE Settings!ServeLoad \/ Settings!LoadFails \/ Settings!Save \/ Settings!Saved \/ Settings!SaveFails
           \/ Settings!ServeSave
  <2>1. pg'.draft = pg.draft /\ pg'.edited = pg.edited
    BY <1>1, <1>6 DEF Settings!ServeLoad, Settings!LoadFails, Settings!Save, Settings!Saved,
                      Settings!SaveFails, Settings!ServeSave, SettingsRecord
  <2>. QED
    BY <1>2, <2>1
<1>. QED
  BY <1>2, <1>3, <1>4, <1>5, <1>6 DEF Settings!Next, Settings!Serve, Settings!Answers

\* What follows: types.
LEMMA SettingsProperties ==
  ASSUME {MaxValue, MaxSaves, MaxForeign} \subseteq Nat, SettingsInv
  PROVE  Settings!TypeOK
<1>1. pg \in SettingsRecord /\ SettingsNumbered(pg)
  BY DEF SettingsInv, SettingsGood
<1>2. pg.loads \subseteq [id : 1..pg.asked, served : BOOLEAN, rows : Drafts]
  BY <1>1 DEF SettingsRecord, SettingsNumbered, LoadRequest
<1>3. pg.saves \subseteq [id : 1..pg.saved, served : BOOLEAN, rows : Drafts, may : SUBSET SettingKeys]
  BY <1>1 DEF SettingsRecord, SettingsNumbered, SaveRequest
<1>4. pg.asked \in 1..(MaxSaves + 1) /\ pg.saved \in 0..MaxSaves /\ pg.foreign \in 0..MaxForeign
  <2>1. Cardinality(pg.saves) \in Nat
    BY <1>1, FS_CardinalityType DEF SettingsNumbered
  <2>. QED
    BY <1>1, <2>1 DEF SettingsRecord, SettingsNumbered
<1>5. {pg.loading, pg.listed} \subseteq BOOLEAN
  BY <1>1, Zenon DEF SettingsRecord
<1>6. {pg.draft, pg.db} \subseteq Drafts /\ pg.edited \subseteq SettingKeys /\ pg.differ \subseteq SettingKeys
  BY <1>1 DEF SettingsRecord
<1>. QED
  BY <1>2, <1>3, <1>4, <1>5, <1>6 DEF Settings!TypeOK, Drafts, Settings!Values
-----------------------------------------------------------------------------
(* The page of the request logs. *)

Controls == [filter : Filters, n : Nat]
PageRequest == [id : Nat, of : Controls]
MonitoringRecord ==
  [page : {"monitoring"}, loading : BOOLEAN, now : Controls, shown : Controls, total : Nat,
   reqs : SUBSET PageRequest, asked : 1..MaxLoads, last : Nat, excused : BOOLEAN, strayed : BOOLEAN]

\* Loads are numbered, and the newest is for the controls of now.
LoadsKnown(p) ==
  /\ \A r \in p.reqs : r.id \in 1..p.asked /\ (r.id = p.asked => r.of = p.now)
  /\ p.last <= p.asked

\* The newest load is on its way or on screen.
NewestComes(p) ==
  ~p.excused => \/ \E r \in p.reqs : r.id = p.asked
                \/ p.last = p.asked /\ p.shown = p.now /\ p.total = PagesOf[p.shown.filter]

\* The number of pages is that of the rows, and so is the page that was chosen among them.
PageOffered(p) ==
  /\ p.total = 0 \/ p.total = PagesOf[p.shown.filter]
  /\ p.now.n >= 1 /\ (~p.strayed => p.now.n = 1 \/ p.now.n <= PagesOf[p.now.filter])

MonitoringGood(p) == p \in MonitoringRecord /\ LoadsKnown(p) /\ NewestComes(p) /\ PageOffered(p)
MonitoringInv == MonitoringGood(pg)

\* The page as it is mounted.
LEMMA MonitoringMounted ==
  ASSUME Filters # {}, MaxLoads \in Nat \ {0}, NEW p \in Monitoring!Mounted
  PROVE  MonitoringGood(p)
<1>1. PICK f \in Filters :
        p = [page |-> "monitoring", loading |-> TRUE, now |-> [filter |-> f, n |-> 1],
             shown |-> [filter |-> f, n |-> 0], total |-> 0,
             reqs |-> {[id |-> 1, of |-> [filter |-> f, n |-> 1]]}, asked |-> 1, last |-> 0,
             excused |-> FALSE, strayed |-> FALSE]
  BY DEF Monitoring!Mounted, Monitoring!Key
<1>. DEFINE k == [filter |-> f, n |-> 1]
            k0 == [filter |-> f, n |-> 0]
            r == [id |-> 1, of |-> k]
<1>2. k \in Controls /\ k.n = 1 /\ k0 \in Controls
  BY DEF Controls
<1>3. r \in PageRequest /\ r.id = 1 /\ r.of = k
  BY <1>2 DEF PageRequest
<1>. HIDE DEF k, r, k0
<1>4. p = [page |-> "monitoring", loading |-> TRUE, now |-> k, shown |-> k0, total |-> 0,
           reqs |-> {r}, asked |-> 1, last |-> 0, excused |-> FALSE, strayed |-> FALSE]
  BY <1>1 DEF k, k0, r
<1>5. p \in MonitoringRecord
  <2>1. 1 \in 1..MaxLoads /\ 0 \in Nat /\ {r} \in SUBSET PageRequest
    BY <1>3
  <2>. QED
    BY <1>2, <1>4, <2>1, Zenon DEF MonitoringRecord
<1>6. LoadsKnown(p) /\ NewestComes(p) /\ PageOffered(p)
  BY <1>2, <1>3, <1>4 DEF LoadsKnown, NewestComes, PageOffered
<1>. QED
  BY <1>5, <1>6 DEF MonitoringGood

\* The controls change: what they say now is loaded.
LEMMA ControlsChange ==
  ASSUME MaxLoads \in Nat, MonitoringInv, pg.asked < MaxLoads, NEW k \in Controls, NEW st \in BOOLEAN,
         k.n >= 1, ~st => k.n = 1 \/ k.n <= PagesOf[k.filter],
         pg' = Monitoring!LoadOf([pg EXCEPT !.now = k, !.strayed = st])
  PROVE  MonitoringInv'
<1>1. pg \in MonitoringRecord /\ pg.asked \in 1..MaxLoads /\ pg.last \in Nat /\ pg.reqs \in SUBSET PageRequest
  BY DEF MonitoringInv, MonitoringGood, MonitoringRecord
<1>2. CASE k = pg.now
  <2>1. pg' = [pg EXCEPT !.now = k, !.strayed = st]
    BY <1>1, <1>2 DEF Monitoring!LoadOf, MonitoringRecord
  <2>2. pg' \in MonitoringRecord
    BY <1>1, <2>1 DEF MonitoringRecord
  <2>3. LoadsKnown(pg') /\ NewestComes(pg')
    BY <1>1, <1>2, <2>1 DEF MonitoringInv, MonitoringGood, MonitoringRecord, LoadsKnown, NewestComes
  <2>4. PageOffered(pg')
    BY <1>1, <1>2, <2>1 DEF MonitoringInv, MonitoringGood, MonitoringRecord, PageOffered
  <2>. QED
    BY <2>2, <2>3, <2>4 DEF MonitoringInv, MonitoringGood
<1>3. CASE k # pg.now
  <2>. DEFINE n == [id |-> pg.asked + 1, of |-> k]
  <2>1. pg' = [pg EXCEPT !.now = k, !.strayed = st, !.loading = TRUE, !.asked = @ + 1, !.excused = FALSE,
                         !.reqs = @ \cup {n}]
    BY <1>1, <1>3 DEF Monitoring!LoadOf, MonitoringRecord
  <2>2. n \in PageRequest /\ n.id = pg.asked + 1 /\ n.of = k
    BY <1>1 DEF PageRequest
  <2>. HIDE DEF n
  <2>3. pg.asked + 1 \in 1..MaxLoads
    BY <1>1
  <2>4. pg' \in MonitoringRecord
    <3>. DEFINE p == [pg EXCEPT !.now = k, !.strayed = st]
    <3>1. p \in MonitoringRecord /\ p.asked = pg.asked
      BY <1>1 DEF MonitoringRecord
    <3>. DEFINE a == pg.asked + 1
                s == pg.reqs \cup {n}
    <3>2. pg' = [p EXCEPT !.loading = TRUE, !.asked = a, !.excused = FALSE, !.reqs = s]
      BY <1>1, <2>1 DEF MonitoringRecord
    <3>3. a \in 1..MaxLoads /\ s \in SUBSET PageRequest
      BY <1>1, <2>2, <2>3
    <3>. HIDE DEF p, a, s
    <3>. QED
      BY <3>1, <3>2, <3>3 DEF MonitoringRecord
  <2>5. /\ pg'.now = k /\ pg'.shown = pg.shown /\ pg'.total = pg.total /\ pg'.asked = pg.asked + 1
        /\ pg'.reqs = pg.reqs \cup {n} /\ pg'.last = pg.last
    BY <1>1, <2>1 DEF MonitoringRecord
  <2>6. LoadsKnown(pg')
    BY <1>1, <2>2, <2>5 DEF MonitoringInv, MonitoringGood, LoadsKnown
  <2>7. NewestComes(pg')
    BY <2>2, <2>5 DEF NewestComes
  <2>8. PageOffered(pg')
    <3>1. pg'.strayed = st
      BY <1>1, <2>1 DEF MonitoringRecord
    <3>. QED
      BY <2>5, <3>1 DEF MonitoringInv, MonitoringGood, PageOffered
  <2>. QED
    BY <2>4, <2>6, <2>7, <2>8 DEF MonitoringInv, MonitoringGood
<1>. QED
  BY <1>2, <1>3

\* Every step of the page keeps what is known of it.
LEMMA MonitoringNext ==
  ASSUME PagesOf \in [Filters -> Nat], MaxLoads \in Nat, MonitoringInv, Monitoring!Next
  PROVE  MonitoringInv'
<1>1. /\ pg \in MonitoringRecord /\ pg.asked \in 1..MaxLoads /\ pg.last \in Nat /\ pg.total \in Nat
      /\ pg.reqs \in SUBSET PageRequest /\ pg.now \in Controls /\ pg.shown \in Controls
  BY DEF MonitoringInv, MonitoringGood, MonitoringRecord
<1>2. LoadsKnown(pg) /\ NewestComes(pg) /\ PageOffered(pg)
  BY DEF MonitoringInv, MonitoringGood
<1>3. ASSUME NEW f \in Filters, Monitoring!SetFilter(f) PROVE MonitoringInv'
  <2>. DEFINE k == [filter |-> f, n |-> 1]
  <2>1. k \in Controls /\ k.n = 1
    BY DEF Controls
  <2>2. /\ pg.asked < MaxLoads
        /\ pg' = Monitoring!LoadOf([pg EXCEPT !.now = k, !.strayed = FALSE])
    BY <1>3 DEF Monitoring!SetFilter, Monitoring!Key
  <2>. DEFINE st == FALSE
  <2>3. st \in BOOLEAN /\ k.n >= 1 /\ (~st => k.n = 1)
    BY <2>1
  <2>4. pg' = Monitoring!LoadOf([pg EXCEPT !.now = k, !.strayed = st])
    BY <2>2
  <2>. HIDE DEF k, st
  <2>. QED
    BY <2>1, <2>2, <2>3, <2>4, ControlsChange
<1>4. ASSUME NEW n \in 1..Monitoring!TotalPages, Monitoring!SetPage(n) PROVE MonitoringInv'
  <2>. DEFINE k == [filter |-> pg.now.filter, n |-> n]
              st == pg.strayed \/ pg.shown.filter # pg.now.filter
  <2>1. /\ pg.asked < MaxLoads /\ pg.total > 1
        /\ pg' = Monitoring!LoadOf([pg EXCEPT !.now = k, !.strayed = st])
    BY <1>4 DEF Monitoring!SetPage, Monitoring!Key
  <2>2. n \in 1..pg.total
    BY <1>1, <2>1 DEF Monitoring!TotalPages
  <2>3. k \in Controls /\ k.n = n /\ k.filter = pg.now.filter
    BY <1>1, <2>2 DEF Controls
  <2>4. pg.total = PagesOf[pg.shown.filter]
    BY <1>1, <1>2, <2>1 DEF PageOffered
  <2>5. st \in BOOLEAN
    OBVIOUS
  <2>6. ~st => k.n <= PagesOf[k.filter]
    <3>1. ~st => pg.shown.filter = pg.now.filter
      BY Zenon
    <3>. HIDE DEF st, k
    <3>. QED
      BY <2>2, <2>3, <2>4, <3>1
  <2>7. k.n >= 1
    BY <2>2, <2>3
  <2>. HIDE DEF st, k
  <2>. QED
    BY <2>1, <2>3, <2>5, <2>6, <2>7, ControlsChange
<1>5. ASSUME NEW r \in pg.reqs, Monitoring!Loaded(r) PROVE MonitoringInv'
  <2>1. r \in PageRequest /\ r.id \in 1..pg.asked /\ r.id \in Nat /\ r.of \in Controls
    BY <1>1, <1>2 DEF LoadsKnown, PageRequest
  <2>. DEFINE total == PagesOf[r.of.filter]
              late == pg.excused \/ r.id < pg.last
  <2>2. total \in Nat
    BY <2>1 DEF Controls
  <2>3. late \in BOOLEAN
    OBVIOUS
  <2>4. pg' = [pg EXCEPT !.reqs = @ \ {r}, !.loading = FALSE, !.shown = r.of, !.total = total, !.last = r.id,
                         !.excused = late]
    BY <1>5 DEF Monitoring!Loaded
  <2>5. ~late => ~pg.excused /\ ~(r.id < pg.last)
    BY Zenon
  <2>. HIDE DEF late, total
  <2>6. pg' \in MonitoringRecord
    BY <1>1, <2>1, <2>2, <2>3, <2>4 DEF MonitoringRecord
  <2>7. /\ pg'.now = pg.now /\ pg'.shown = r.of /\ pg'.total = total /\ pg'.asked = pg.asked
        /\ pg'.reqs = pg.reqs \ {r} /\ pg'.last = r.id /\ pg'.excused = late /\ pg'.strayed = pg.strayed
    BY <1>1, <2>4 DEF MonitoringRecord
  <2>8. LoadsKnown(pg')
    BY <1>1, <1>2, <2>1, <2>7 DEF LoadsKnown
  <2>9. NewestComes(pg')
    <3>. SUFFICES ASSUME ~late PROVE  (\E s \in pg.reqs \ {r} : s.id = pg.asked) \/ (r.id = pg.asked /\ r.of = pg.now)
      BY <2>7 DEF NewestComes, total
    <3>1. ~pg.excused /\ ~(r.id < pg.last)
      BY <2>5
    <3>2. CASE r.id = pg.asked
      BY <1>2, <3>2 DEF LoadsKnown
    <3>3. CASE r.id # pg.asked
      <4>1. pg.last # pg.asked
        BY <1>1, <2>1, <3>1, <3>3
      <4>2. PICK s \in pg.reqs : s.id = pg.asked
        BY <1>2, <3>1, <4>1 DEF NewestComes
      <4>3. s # r
        BY <3>3, <4>2
      <4>. QED
        BY <4>2, <4>3
    <3>. QED
      BY <3>2, <3>3
  <2>10. PageOffered(pg')
    <3>1. pg.now.n >= 1 /\ (~pg.strayed => pg.now.n = 1 \/ pg.now.n <= PagesOf[pg.now.filter])
      BY <1>2, Zenon DEF PageOffered
    <3>2. pg'.total = PagesOf[pg'.shown.filter]
      BY <2>7 DEF total
    <3>. QED
      BY <2>7, <3>1, <3>2, Zenon DEF PageOffered
  <2>. QED
    BY <2>6, <2>8, <2>9, <2>10 DEF MonitoringInv, MonitoringGood
<1>6. ASSUME NEW r \in pg.reqs, Monitoring!NotLoaded(r) PROVE MonitoringInv'
  <2>. DEFINE failed == pg.excused \/ r.id = pg.asked
  <2>0. failed \in BOOLEAN /\ (~failed => ~pg.excused /\ r.id # pg.asked)
    OBVIOUS
  <2>1. pg' = [pg EXCEPT !.reqs = @ \ {r}, !.loading = FALSE, !.excused = failed]
    BY <1>6 DEF Monitoring!NotLoaded
  <2>. HIDE DEF failed
  <2>2. pg' \in MonitoringRecord
    BY <1>1, <2>0, <2>1 DEF MonitoringRecord
  <2>3. /\ pg'.now = pg.now /\ pg'.shown = pg.shown /\ pg'.total = pg.total /\ pg'.asked = pg.asked
        /\ pg'.reqs = pg.reqs \ {r} /\ pg'.last = pg.last /\ pg'.excused = failed
    BY <1>1, <2>1 DEF MonitoringRecord
  <2>4. pg'.strayed = pg.strayed
    BY <1>1, <2>1 DEF MonitoringRecord
  <2>5. LoadsKnown(pg') /\ NewestComes(pg')
    BY <1>2, <2>0, <2>3 DEF LoadsKnown, NewestComes
  <2>6. PageOffered(pg')
    BY <1>2, <2>3, <2>4 DEF PageOffered
  <2>. QED
    BY <2>2, <2>5, <2>6 DEF MonitoringInv, MonitoringGood
<1>. QED
  BY <1>3, <1>4, <1>5, <1>6 DEF Monitoring!Next, Monitoring!Answers

\* What follows: types, and at rest the rows are those the controls ask for.
LEMMA MonitoringProperties ==
  ASSUME PagesOf \in [Filters -> Nat], MonitoringInv
  PROVE  Monitoring!TypeOK /\ Monitoring!RowsMatchControls
<1>1. pg \in MonitoringRecord /\ LoadsKnown(pg) /\ NewestComes(pg) /\ PageOffered(pg)
  BY DEF MonitoringInv, MonitoringGood
<1>2. Monitoring!TypeOK
  <2>1. {pg.now, pg.shown} \subseteq Controls /\ pg.total \in Nat /\ pg.asked \in 1..MaxLoads
    BY <1>1 DEF MonitoringRecord
  <2>2. pg.loading \in BOOLEAN /\ {pg.excused, pg.strayed} \subseteq BOOLEAN
    BY <1>1, Zenon DEF MonitoringRecord
  <2>3. pg.last \in 0..pg.asked /\ pg.reqs \subseteq [id : 1..pg.asked, of : Controls]
    BY <1>1 DEF MonitoringRecord, LoadsKnown, PageRequest
  <2>. QED
    BY <2>1, <2>2, <2>3 DEF Monitoring!TypeOK, Controls
<1>3. ASSUME pg.reqs = {}, ~pg.excused
      PROVE  pg.shown = pg.now /\ (~pg.strayed => pg.now.n \in 1..Monitoring!TotalPages)
  <2>1. pg.shown = pg.now /\ pg.total = PagesOf[pg.now.filter]
    BY <1>1, <1>3 DEF NewestComes
  <2>2. pg.now.n \in Nat /\ pg.total \in Nat
    BY <1>1 DEF MonitoringRecord, Controls
  <2>3. ASSUME ~pg.strayed PROVE pg.now.n \in 1..Monitoring!TotalPages
    <3>1. pg.now.n >= 1 /\ (pg.now.n = 1 \/ pg.now.n <= pg.total)
      BY <1>1, <2>1, <2>3 DEF PageOffered
    <3>. QED
      BY <2>2, <3>1 DEF Monitoring!TotalPages
  <2>. QED
    BY <2>1, <2>3
<1>. QED
  BY <1>2, <1>3, Zenon DEF Monitoring!RowsMatchControls
-----------------------------------------------------------------------------
(* The dashboard with its two pollers. *)

Awaited == [what : {"none", "metrics", "health"}, v : Nat]
DashboardRecord ==
  [page : {"dashboard"}, loading : BOOLEAN, metrics : Nat, health : Nat, history : Seq(1..MaxSnapshots),
   now : 1..MaxSnapshots, at : [Dashboard!Fetchers -> Awaited]]

\* Nothing is newer than the gateway.
NothingNewer(p) ==
  p.metrics <= p.now /\ p.health <= p.now /\ \A f \in Dashboard!Fetchers : p.at[f].v <= p.now

\* The chart is short, empty while nothing has come, and ends with the numbers of the cards.
ChartGood(p) ==
  /\ Len(p.history) <= MaxHistory
  /\ p.loading <=> p.history = <<>>
  /\ p.history # <<>> => p.history[Len(p.history)] = p.metrics

DashboardGood(p) == p \in DashboardRecord /\ NothingNewer(p) /\ ChartGood(p)
DashboardInv == DashboardGood(pg)

\* The page as it is mounted.
LEMMA DashboardMounted ==
  ASSUME {MaxSnapshots, MaxHistory} \subseteq Nat \ {0}, NEW p \in Dashboard!Mounted
  PROVE  DashboardGood(p)
<1>. DEFINE at == [f \in Dashboard!Fetchers |-> IF f = "first" THEN Dashboard!Fetch("metrics") ELSE Dashboard!NoFetch]
<1>1. at \in [Dashboard!Fetchers -> Awaited] /\ \A f \in Dashboard!Fetchers : at[f].v = 0
  BY DEF Dashboard!Fetch, Dashboard!NoFetch, Awaited
<1>2. p = [page |-> "dashboard", loading |-> TRUE, metrics |-> 0, health |-> 0, history |-> <<>>, now |-> 1,
           at |-> at]
  BY DEF Dashboard!Mounted
<1>. HIDE DEF at
<1>3. p \in DashboardRecord
  <2>1. 1 \in 1..MaxSnapshots /\ 0 \in Nat /\ <<>> \in Seq(1..MaxSnapshots)
    OBVIOUS
  <2>. QED
    BY <1>1, <1>2, <2>1, Zenon DEF DashboardRecord
<1>4. NothingNewer(p)
  BY <1>1, <1>2 DEF NothingNewer
<1>5. ChartGood(p)
  BY <1>2 DEF ChartGood
<1>. QED
  BY <1>3, <1>4, <1>5 DEF DashboardGood

\* The chart keeps the newest points.
LEMMA Last30Facts ==
  ASSUME MaxHistory \in Nat \ {0}, NEW S, NEW s \in Seq(S), s # <<>>
  PROVE  LET t == Dashboard!Last30(s)
         IN  t \in Seq(S) /\ t # <<>> /\ Len(t) <= MaxHistory /\ t[Len(t)] = s[Len(s)]
<1>1. Len(s) \in Nat /\ Len(s) >= 1
  OBVIOUS
<1>2. CASE Len(s) > MaxHistory
  <2>. DEFINE a == Len(s) - MaxHistory + 1
              t == SubSeq(s, a, Len(s))
  <2>1. a \in 1..Len(s) /\ Len(s) - a + 1 = MaxHistory /\ Len(s) \in a..Len(s)
    BY <1>1, <1>2
  <2>2. t \in Seq(S) /\ Len(t) = MaxHistory /\ t[MaxHistory] = s[Len(s)]
    <3>. HIDE DEF a
    <3>1. t \in Seq(S) /\ Len(t) = Len(s) - a + 1
      BY <1>1, <2>1
    <3>2. t[MaxHistory] = s[a + MaxHistory - 1]
      BY <1>1, <2>1
    <3>3. a + MaxHistory - 1 = Len(s)
      BY <1>1, <2>1
    <3>. QED
      BY <2>1, <3>1, <3>2, <3>3
  <2>3. Dashboard!Last30(s) = t
    BY <1>2 DEF Dashboard!Last30
  <2>. HIDE DEF t
  <2>4. t # <<>>
    BY <2>2
  <2>. QED
    BY <2>2, <2>3, <2>4
<1>3. CASE ~(Len(s) > MaxHistory)
  <2>1. Dashboard!Last30(s) = s
    BY <1>3 DEF Dashboard!Last30
  <2>. QED
    BY <1>1, <1>3, <2>1
<1>. QED
  BY <1>2, <1>3

\* A step changes what one fetcher awaits, and the cards and the chart together or not at all.
LEMMA DashboardStep ==
  ASSUME DashboardInv, NEW f \in Dashboard!Fetchers, NEW a \in Awaited, a.v <= pg.now,
         NEW h \in Nat, h <= pg.now, pg' = [pg EXCEPT !.at = [@ EXCEPT ![f] = a], !.health = h]
  PROVE  DashboardInv'
<1>1. /\ pg \in DashboardRecord /\ pg.at \in [Dashboard!Fetchers -> Awaited]
  BY DEF DashboardInv, DashboardGood, DashboardRecord
<1>. DEFINE at == [pg.at EXCEPT ![f] = a]
<1>2. at \in [Dashboard!Fetchers -> Awaited] /\ pg' = [pg EXCEPT !.at = at, !.health = h]
  BY <1>1
<1>3. \A g \in Dashboard!Fetchers : at[g].v <= pg.now
  BY <1>1 DEF DashboardInv, DashboardGood, NothingNewer
<1>. HIDE DEF at
<1>4. pg' \in DashboardRecord
  BY <1>1, <1>2 DEF DashboardRecord
<1>5. /\ pg'.at = at /\ pg'.health = h /\ pg'.metrics = pg.metrics /\ pg'.now = pg.now
      /\ pg'.history = pg.history
  BY <1>1, <1>2 DEF DashboardRecord
<1>6. pg'.loading = pg.loading
  BY <1>1, <1>2 DEF DashboardRecord
<1>7. NothingNewer(pg')
  BY <1>3, <1>5 DEF DashboardInv, DashboardGood, NothingNewer
<1>8. ChartGood(pg')
  BY <1>5, <1>6 DEF DashboardInv, DashboardGood, ChartGood
<1>. QED
  BY <1>4, <1>7, <1>8 DEF DashboardInv, DashboardGood

\* Every step of the page keeps what is known of it.
LEMMA DashboardNext ==
  ASSUME {MaxSnapshots, MaxHistory} \subseteq Nat \ {0}, DashboardInv, Dashboard!Next
  PROVE  DashboardInv'
<1>1. /\ pg \in DashboardRecord /\ pg.at \in [Dashboard!Fetchers -> Awaited]
      /\ pg.metrics \in Nat /\ pg.health \in Nat /\ pg.now \in 1..MaxSnapshots
      /\ pg.history \in Seq(1..MaxSnapshots)
  BY DEF DashboardInv, DashboardGood, DashboardRecord
<1>2. NothingNewer(pg) /\ pg.health <= pg.now /\ 0 <= pg.now
  BY <1>1 DEF DashboardInv, DashboardGood, NothingNewer
<1>3. /\ Dashboard!NoFetch \in Awaited /\ Dashboard!NoFetch.v = 0
      /\ Dashboard!Fetch("metrics") \in Awaited /\ Dashboard!Fetch("metrics").v = 0
      /\ Dashboard!Fetch("health") \in Awaited /\ Dashboard!Fetch("health").v = 0
  BY DEF Dashboard!Fetch, Dashboard!NoFetch, Awaited
<1>4. CASE Dashboard!Snapshot
  <2>1. pg.now < MaxSnapshots /\ pg' = [pg EXCEPT !.now = @ + 1]
    BY <1>4 DEF Dashboard!Snapshot
  <2>2. pg.now + 1 \in 1..MaxSnapshots
    BY <1>1, <2>1
  <2>3. pg' \in DashboardRecord
    BY <1>1, <2>1, <2>2 DEF DashboardRecord
  <2>4. NothingNewer(pg')
    <3>1. \A f \in Dashboard!Fetchers : pg.at[f].v \in Nat
      BY <1>1 DEF Awaited
    <3>2. pg'.now = pg.now + 1 /\ pg'.at = pg.at /\ pg'.metrics = pg.metrics /\ pg'.health = pg.health
      BY <1>1, <2>1 DEF DashboardRecord
    <3>. QED
      BY <1>1, <1>2, <3>1, <3>2 DEF NothingNewer
  <2>5. ChartGood(pg')
    BY <1>1, <2>1 DEF DashboardInv, DashboardGood, DashboardRecord, ChartGood
  <2>. QED
    BY <2>3, <2>4, <2>5 DEF DashboardInv, DashboardGood
<1>5. ASSUME NEW f \in Dashboard!Fetchers, Dashboard!Tick(f) PROVE DashboardInv'
  <2>. DEFINE a == Dashboard!Fetch(Dashboard!Polled[f])
  <2>1. f # "first" /\ pg' = [pg EXCEPT !.at = [@ EXCEPT ![f] = a]]
    BY <1>5 DEF Dashboard!Tick
  <2>2. a \in Awaited /\ a.v <= pg.now
    <3>1. Dashboard!Polled[f] \in {"metrics", "health"}
      BY <2>1 DEF Dashboard!Polled, Dashboard!Fetchers
    <3>. QED
      BY <1>2, <1>3, <3>1
  <2>. HIDE DEF a
  <2>3. pg' = [pg EXCEPT !.at = [@ EXCEPT ![f] = a], !.health = pg.health]
    BY <1>1, <2>1 DEF DashboardRecord
  <2>. QED
    BY <1>1, <1>2, <2>2, <2>3, DashboardStep
<1>6. ASSUME NEW f \in Dashboard!Fetchers, Dashboard!Serve(f) PROVE DashboardInv'
  <2>. DEFINE a == [pg.at[f] EXCEPT !.v = pg.now]
  <2>1. pg' = [pg EXCEPT !.at = [@ EXCEPT ![f] = a], !.health = pg.health]
    BY <1>1, <1>6 DEF Dashboard!Serve, DashboardRecord
  <2>2. a \in Awaited /\ a.v <= pg.now
    BY <1>1 DEF Awaited
  <2>. HIDE DEF a
  <2>. QED
    BY <1>1, <1>2, <2>1, <2>2, DashboardStep
<1>7. ASSUME NEW f \in Dashboard!Fetchers
      PROVE  \A ok : \E a \in Awaited : /\ a.v <= pg.now
                                        /\ Dashboard!Ended(pg, f, ok) = [pg EXCEPT !.at = [@ EXCEPT ![f] = a]]
  <2>. DEFINE a == IF f = "first" /\ pg.at[f].what = "metrics" THEN Dashboard!Fetch("health") ELSE Dashboard!NoFetch
  <2>1. a \in Awaited /\ a.v <= pg.now
    BY <1>2, <1>3
  <2>2. \A ok : Dashboard!Ended(pg, f, ok) = [pg EXCEPT !.at = [@ EXCEPT ![f] = a]]
    BY DEF Dashboard!Ended
  <2>. HIDE DEF a
  <2>. QED
    BY <2>1, <2>2
<1>8. ASSUME NEW f \in Dashboard!Fetchers, Dashboard!GotMetrics(f) PROVE DashboardInv'
  <2>. DEFINE v == pg.at[f].v
              h == Dashboard!Last30(Append(pg.history, v))
  <2>1. PICK a \in Awaited : /\ a.v <= pg.now
                             /\ Dashboard!Ended(pg, f, TRUE) = [pg EXCEPT !.at = [@ EXCEPT ![f] = a]]
    BY <1>7
  <2>2. v \in 1..MaxSnapshots /\ v \in Nat /\ v <= pg.now
    <3>1. v # 0
      BY <1>8 DEF Dashboard!GotMetrics
    <3>2. v \in Nat /\ v <= pg.now
      BY <1>1, <1>2 DEF Awaited, NothingNewer
    <3>. QED
      BY <1>1, <3>1, <3>2
  <2>3. /\ h \in Seq(1..MaxSnapshots) /\ h # <<>> /\ Len(h) <= MaxHistory /\ h[Len(h)] = v
    <3>. DEFINE s == Append(pg.history, v)
    <3>. HIDE DEF v
    <3>1. s \in Seq(1..MaxSnapshots) /\ s # <<>> /\ s[Len(s)] = v
      <4>1. s \in Seq(1..MaxSnapshots) /\ Len(s) = Len(pg.history) + 1
        BY <1>1, <2>2
      <4>2. s[Len(pg.history) + 1] = v /\ Len(s) # 0
        BY <1>1, <2>2, <4>1
      <4>. HIDE DEF s
      <4>. QED
        BY <4>1, <4>2
    <3>. HIDE DEF s
    <3>2. LET t == Dashboard!Last30(s)
          IN  t \in Seq(1..MaxSnapshots) /\ t # <<>> /\ Len(t) <= MaxHistory /\ t[Len(t)] = s[Len(s)]
      BY <3>1, Last30Facts
    <3>. QED
      BY <3>1, <3>2 DEF s
  <2>. DEFINE p == [pg EXCEPT !.at = [@ EXCEPT ![f] = a]]
  <2>4. pg' = [p EXCEPT !.metrics = v, !.loading = FALSE, !.history = h]
    <3>1. p.history = pg.history
      BY <1>1 DEF DashboardRecord
    <3>. HIDE DEF p
    <3>. QED
      BY <1>8, <2>1, <3>1 DEF Dashboard!GotMetrics, p
  <2>5. /\ p \in DashboardRecord /\ p.now = pg.now /\ p.health = pg.health
        /\ \A g \in Dashboard!Fetchers : p.at[g].v <= p.now
    <3>. DEFINE at == [pg.at EXCEPT ![f] = a]
    <3>1. at \in [Dashboard!Fetchers -> Awaited] /\ p = [pg EXCEPT !.at = at]
      BY <1>1
    <3>2. \A g \in Dashboard!Fetchers : at[g].v <= pg.now
      BY <1>1, <1>2, <2>1 DEF NothingNewer
    <3>. HIDE DEF at
    <3>. QED
      BY <1>1, <3>1, <3>2 DEF DashboardRecord
  <2>. HIDE DEF p, h, v
  <2>6. pg' \in DashboardRecord
    BY <2>2, <2>3, <2>4, <2>5 DEF DashboardRecord
  <2>7. /\ pg'.metrics = v /\ pg'.loading = FALSE /\ pg'.history = h /\ pg'.at = p.at /\ pg'.now = p.now
        /\ pg'.health = p.health
    BY <2>4, <2>5 DEF DashboardRecord
  <2>8. NothingNewer(pg')
    BY <1>2, <2>2, <2>5, <2>7 DEF NothingNewer
  <2>9. ChartGood(pg')
    BY <2>3, <2>7 DEF ChartGood
  <2>. QED
    BY <2>6, <2>8, <2>9 DEF DashboardInv, DashboardGood
<1>9. ASSUME NEW f \in Dashboard!Fetchers, Dashboard!GotHealth(f) PROVE DashboardInv'
  <2>1. PICK a \in Awaited : /\ a.v <= pg.now
                             /\ Dashboard!Ended(pg, f, TRUE) = [pg EXCEPT !.at = [@ EXCEPT ![f] = a]]
    BY <1>7
  <2>2. pg.at[f].v \in Nat /\ pg.at[f].v <= pg.now
    BY <1>1, <1>2 DEF Awaited, NothingNewer
  <2>3. pg' = [pg EXCEPT !.at = [@ EXCEPT ![f] = a], !.health = pg.at[f].v]
    BY <1>9, <2>1 DEF Dashboard!GotHealth
  <2>. QED
    BY <2>1, <2>2, <2>3, DashboardStep
<1>10. ASSUME NEW f \in Dashboard!Fetchers, Dashboard!Failed(f) PROVE DashboardInv'
  <2>1. PICK a \in Awaited : /\ a.v <= pg.now
                             /\ Dashboard!Ended(pg, f, FALSE) = [pg EXCEPT !.at = [@ EXCEPT ![f] = a]]
    BY <1>7
  <2>2. pg' = [pg EXCEPT !.at = [@ EXCEPT ![f] = a], !.health = pg.health]
    BY <1>1, <1>10, <2>1 DEF Dashboard!Failed, DashboardRecord
  <2>. QED
    BY <1>1, <1>2, <2>1, <2>2, DashboardStep
<1>. QED
  BY <1>4, <1>5, <1>6, <1>8, <1>9, <1>10 DEF Dashboard!Next, Dashboard!Step

\* What follows: types, and the chart that ends with the cards.
LEMMA DashboardProperties ==
  ASSUME {MaxSnapshots, MaxHistory} \subseteq Nat \ {0}, DashboardInv
  PROVE  Dashboard!TypeOK /\ Dashboard!ChartEndsWithCards
<1>1. pg \in DashboardRecord /\ NothingNewer(pg) /\ ChartGood(pg)
  BY DEF DashboardInv, DashboardGood
<1>2. Dashboard!TypeOK
  <2>1. {pg.metrics, pg.health} \subseteq 0..pg.now /\ pg.now \in 1..MaxSnapshots
        /\ pg.history \in Seq(1..MaxSnapshots)
    BY <1>1 DEF DashboardRecord, NothingNewer
  <2>2. pg.loading \in BOOLEAN
    BY <1>1, Zenon DEF DashboardRecord
  <2>3. pg.at \in [Dashboard!Fetchers -> [what : {"none", "metrics", "health"}, v : 0..pg.now]]
    BY <1>1 DEF DashboardRecord, NothingNewer, Awaited
  <2>. QED
    BY <2>1, <2>2, <2>3 DEF Dashboard!TypeOK
<1>. QED
  BY <1>1, <1>2 DEF ChartGood, Dashboard!ChartEndsWithCards
-----------------------------------------------------------------------------
(* The page of the providers with its three tabs. *)

Records == {"add", "edit", "clone"}   \* what a form may be filled from
Clones == [ProviderTabs!Cloneable -> BOOLEAN]
TabLoad == [what : ProviderTabs!Tabs, chain : Int]
ProvidersRecord ==
  [page : {"providers"}, tab : ProviderTabs!Tabs, loading : BOOLEAN, loads : SUBSET TabLoad,
   have : SUBSET ProviderTabs!Tabs, chains : Nat, refreshes : Nat, drawer : BOOLEAN, editing : BOOLEAN,
   clone : Clones, form : Records, typed : BOOLEAN, saving : SUBSET ProviderTabs!Tabs,
   deleting : SUBSET ProviderTabs!Tabs, changes : Nat, intent : Records, late : SUBSET ProviderTabs!Tabs]

\* A load belongs to a tab that was opened or to a list that is loaded again, and that to a change.
TabsNumbered(p) ==
  /\ \A l \in p.loads : 0 - p.refreshes <= l.chain /\ l.chain <= p.chains
  /\ IsFiniteSet(p.saving) /\ IsFiniteSet(p.deleting)
  /\ p.refreshes + Cardinality(p.saving) + Cardinality(p.deleting) <= p.changes
  /\ p.chains >= 1 /\ p.chains + p.changes <= MaxOps

\* A record to be cloned belongs to the open drawer, or was left in a tab by a late confirmation; and unless
\* Add opened the drawer in such a tab, its form holds what it was opened for.
FormGood(p) ==
  /\ \A u \in ProviderTabs!Cloneable : p.clone[u] => (p.drawer /\ p.tab = u) \/ u \in p.late
  /\ p.drawer /\ (p.tab \in p.late => p.intent # "add") => ProviderTabs!Source(p) = p.intent /\ p.form = p.intent

ProvidersGood(p) == p \in ProvidersRecord /\ TabsNumbered(p) /\ FormGood(p)
ProvidersInv == ProvidersGood(pg)

\* The page as it is mounted.
LEMMA ProvidersMounted ==
  ASSUME MaxOps \in Nat \ {0}, NEW p \in ProviderTabs!Mounted
  PROVE  ProvidersGood(p)
<1>. DEFINE clone == [t \in ProviderTabs!Cloneable |-> FALSE]
            loads == ProviderTabs!LoadsOf("providers", 1)
<1>1. p = [page |-> "providers", tab |-> "providers", loading |-> TRUE, loads |-> loads,
           have |-> {}, chains |-> 1, refreshes |-> 0, drawer |-> FALSE, editing |-> FALSE,
           clone |-> clone, form |-> "add", typed |-> FALSE, saving |-> {}, deleting |-> {}, changes |-> 0,
           intent |-> "add", late |-> {}]
  BY DEF ProviderTabs!Mounted
<1>2. clone \in Clones /\ \A u \in ProviderTabs!Cloneable : ~clone[u]
  BY DEF Clones
<1>3. loads \in SUBSET TabLoad /\ \A l \in loads : l.chain = 1
  BY DEF ProviderTabs!LoadsOf, TabLoad, ProviderTabs!Tabs
<1>. HIDE DEF clone, loads
<1>4. p \in ProvidersRecord
  <2>1. "providers" \in ProviderTabs!Tabs /\ "add" \in Records /\ 1 \in Nat /\ 0 \in Nat
    BY DEF ProviderTabs!Tabs, Records
  <2>. QED
    BY <1>1, <1>2, <1>3, <2>1, Zenon DEF ProvidersRecord
<1>5. TabsNumbered(p)
  <2>1. IsFiniteSet({}) /\ Cardinality({}) = 0
    BY FS_EmptySet
  <2>. QED
    BY <1>1, <1>3, <2>1 DEF TabsNumbered
<1>6. FormGood(p)
  <2>1. p.clone = clone /\ ~p.drawer
    BY <1>1, Zenon
  <2>. QED
    BY <1>2, <2>1, Zenon DEF FormGood
<1>. QED
  BY <1>4, <1>5, <1>6 DEF ProvidersGood

\* What a form is filled from depends on the tab and the two records.
LEMMA SourceFacts ==
  ASSUME NEW p
  PROVE  /\ ProviderTabs!Source(p) \in Records
         /\ \A q : q.tab = p.tab /\ q.editing = p.editing /\ q.clone = p.clone
                     => ProviderTabs!Source(q) = ProviderTabs!Source(p)
BY DEF ProviderTabs!Source, Records

\* A step that leaves the drawer as it is.
LEMMA DrawerKept ==
  ASSUME NEW p, FormGood(p), NEW q,
         q.late = p.late, q.tab = p.tab, q.editing = p.editing, q.clone = p.clone,
         q.drawer = p.drawer, q.form = p.form, q.intent = p.intent
  PROVE  FormGood(q)
<1>1. ProviderTabs!Source(q) = ProviderTabs!Source(p)
  BY SourceFacts
<1>. QED
  BY <1>1, Zenon DEF FormGood

\* A record that was to be cloned is forgotten.
LEMMA WithoutCloneFacts ==
  ASSUME NEW p, p \in ProvidersRecord, NEW t \in ProviderTabs!Tabs,
         NEW q, q = ProviderTabs!WithoutClone(p, t)
  PROVE  \E c \in Clones : /\ q = [p EXCEPT !.clone = c]
                           /\ \A u \in ProviderTabs!Cloneable : c[u] => u # t /\ p.clone[u]
<1>. DEFINE c == IF t \in ProviderTabs!Cloneable THEN [p.clone EXCEPT ![t] = FALSE] ELSE p.clone
<1>1. p.clone \in Clones
  BY DEF ProvidersRecord
<1>2. c \in Clones /\ \A u \in ProviderTabs!Cloneable : c[u] => u # t /\ p.clone[u]
  BY <1>1 DEF Clones
<1>3. q = [p EXCEPT !.clone = c]
  BY <1>1 DEF ProviderTabs!WithoutClone, ProvidersRecord
<1>. HIDE DEF c
<1>. QED
  BY <1>2, <1>3

\* What is typed into a form stays, unless a list of providers fills the form of another tab anew.
ProviderTypingStays ==
  pg.drawer /\ pg'.drawer /\ pg.typed =>
    \/ pg'.typed
    \/ pg.tab # "providers" /\ \E l \in pg.loads \ pg'.loads : l.what = "providers"

\* Every step of the page keeps what is known of it, and what is typed.
LEMMA ProvidersNext ==
  ASSUME MaxOps \in Nat \ {0}, ProvidersInv, ProviderTabs!Next
  PROVE  ProvidersInv' /\ ProviderTypingStays
<1>1. /\ pg \in ProvidersRecord /\ pg.tab \in ProviderTabs!Tabs /\ pg.loads \in SUBSET TabLoad
      /\ pg.chains \in Nat /\ pg.refreshes \in Nat /\ pg.changes \in Nat /\ pg.clone \in Clones
      /\ pg.saving \in SUBSET ProviderTabs!Tabs /\ pg.deleting \in SUBSET ProviderTabs!Tabs
      /\ pg.late \in SUBSET ProviderTabs!Tabs
  BY DEF ProvidersInv, ProvidersGood, ProvidersRecord
<1>2. TabsNumbered(pg) /\ FormGood(pg)
  BY DEF ProvidersInv, ProvidersGood
<1>3. /\ IsFiniteSet(pg.saving) /\ Cardinality(pg.saving) \in Nat
      /\ IsFiniteSet(pg.deleting) /\ Cardinality(pg.deleting) \in Nat
  BY <1>2, FS_CardinalityType DEF TabsNumbered
<1>4. ASSUME NEW t \in ProviderTabs!Tabs, ProviderTabs!SwitchTab(t)
      PROVE  ProvidersInv' /\ ProviderTypingStays
  <2>. DEFINE new == ProviderTabs!LoadsOf(t, pg.chains + 1)
  <2>1. /\ ~pg.drawer /\ pg.chains + pg.changes < MaxOps
        /\ pg' = [pg EXCEPT !.tab = t, !.loading = TRUE, !.chains = @ + 1, !.loads = @ \cup new]
    BY <1>4 DEF ProviderTabs!SwitchTab, ProviderTabs!MoreOps
  <2>2. new \in SUBSET TabLoad /\ \A l \in new : l.chain = pg.chains + 1
    BY <1>1 DEF ProviderTabs!LoadsOf, TabLoad, ProviderTabs!Tabs
  <2>. HIDE DEF new
  <2>3. pg.chains + 1 \in Nat
    BY <1>1
  <2>4. pg' \in ProvidersRecord
    BY <1>1, <2>1, <2>2, <2>3 DEF ProvidersRecord
  <2>5. /\ pg'.loads = pg.loads \cup new /\ pg'.chains = pg.chains + 1 /\ pg'.refreshes = pg.refreshes
        /\ pg'.changes = pg.changes /\ pg'.saving = pg.saving /\ pg'.deleting = pg.deleting
    BY <1>1, <2>1 DEF ProvidersRecord
  <2>6. TabsNumbered(pg')
    <3>1. \A l \in pg'.loads : 0 - pg'.refreshes <= l.chain /\ l.chain <= pg'.chains
      <4>1. \A l \in pg.loads : l.chain \in Int /\ 0 - pg.refreshes <= l.chain /\ l.chain <= pg.chains
        BY <1>1, <1>2 DEF TabsNumbered, TabLoad
      <4>. QED
        BY <1>1, <2>2, <2>5, <4>1
    <3>2. pg'.chains >= 1 /\ pg'.chains + pg'.changes <= MaxOps
      BY <1>1, <2>1, <2>5
    <3>. QED
      BY <1>2, <2>5, <3>1, <3>2 DEF TabsNumbered
  <2>7. pg'.clone = pg.clone /\ pg'.drawer = pg.drawer /\ pg'.late = pg.late
    BY <1>1, <2>1 DEF ProvidersRecord
  <2>8. FormGood(pg')
    BY <1>2, <2>1, <2>7, Zenon DEF FormGood
  <2>. QED
    BY <2>1, <2>4, <2>6, <2>8 DEF ProvidersInv, ProvidersGood, ProviderTypingStays
<1>5. ASSUME NEW l \in pg.loads, NEW ok \in BOOLEAN, ProviderTabs!ListEnds(l, ok)
      PROVE  ProvidersInv' /\ ProviderTypingStays
  <2>. DEFINE rest == pg.loads \ {l}
              done == l.chain > 0 /\ \A m \in rest : m.chain # l.chain
              busy == pg.loading /\ ~done
              have == IF ok THEN pg.have \cup {l.what} ELSE pg.have
              p == [pg EXCEPT !.loads = rest, !.loading = busy, !.have = have]
  <2>1. pg' = p \/ (pg' = ProviderTabs!Filled(p) /\ l.what = "providers" /\ pg.tab # "providers")
    BY <1>5 DEF ProviderTabs!ListEnds
  <2>2. busy \in BOOLEAN
    OBVIOUS
  <2>3. have \in SUBSET ProviderTabs!Tabs
    BY <1>1 DEF TabLoad, ProvidersRecord
  <2>4. p = [pg EXCEPT !.loads = rest, !.loading = busy, !.have = have]
    OBVIOUS
  <2>5. rest \in SUBSET TabLoad /\ rest \subseteq pg.loads /\ l \notin rest
    BY <1>1
  <2>. HIDE DEF p, rest, busy, have
  <2>6. p \in ProvidersRecord
    BY <1>1, <2>2, <2>3, <2>4, <2>5 DEF ProvidersRecord
  <2>7. /\ p.loads = rest /\ p.chains = pg.chains /\ p.refreshes = pg.refreshes
        /\ p.changes = pg.changes /\ p.saving = pg.saving /\ p.deleting = pg.deleting
    BY <1>1, <2>4 DEF ProvidersRecord
  <2>8. /\ p.tab = pg.tab /\ p.clone = pg.clone /\ p.drawer = pg.drawer /\ p.late = pg.late
        /\ p.editing = pg.editing /\ p.intent = pg.intent /\ p.form = pg.form /\ p.typed = pg.typed
    BY <1>1, <2>4 DEF ProvidersRecord
  <2>9. TabsNumbered(p)
    BY <1>2, <2>5, <2>7 DEF TabsNumbered
  <2>10. FormGood(p)
    BY <1>2, <2>8, DrawerKept
  <2>11. CASE pg' = p
    <3>1. ProvidersInv'
      BY <2>6, <2>9, <2>10, <2>11 DEF ProvidersInv, ProvidersGood
    <3>. QED
      BY <2>8, <2>11, <3>1 DEF ProviderTypingStays
  <2>12. CASE pg' = ProviderTabs!Filled(p) /\ l.what = "providers" /\ pg.tab # "providers"
    <3>1. ProviderTabs!Source(p) \in Records
      BY SourceFacts
    <3>2. pg' = [p EXCEPT !.form = ProviderTabs!Source(p), !.typed = FALSE]
      BY <2>12 DEF ProviderTabs!Filled
    <3>3. pg' \in ProvidersRecord
      BY <2>6, <3>1, <3>2 DEF ProvidersRecord
    <3>4. TabsNumbered(pg')
      BY <2>6, <2>9, <3>2 DEF ProvidersRecord, TabsNumbered
    <3>5. /\ pg'.tab = p.tab /\ pg'.clone = p.clone /\ pg'.drawer = p.drawer /\ pg'.late = p.late
          /\ pg'.editing = p.editing /\ pg'.intent = p.intent /\ pg'.form = ProviderTabs!Source(p)
          /\ pg'.loads = rest
      BY <2>6, <2>7, <3>2 DEF ProvidersRecord
    <3>6. ProviderTabs!Source(pg') = ProviderTabs!Source(p)
      BY <3>5, SourceFacts
    <3>7. FormGood(pg')
      BY <2>10, <3>5, <3>6, Zenon DEF FormGood
    <3>8. ProvidersInv'
      BY <3>3, <3>4, <3>7 DEF ProvidersInv, ProvidersGood
    <3>9. ProviderTypingStays
      BY <2>5, <2>12, <3>5 DEF ProviderTypingStays
    <3>. QED
      BY <3>8, <3>9
  <2>. QED
    BY <2>1, <2>11, <2>12
<1>6. ASSUME NEW i \in Records, ProviderTabs!Open(i)
      PROVE  ProvidersInv' /\ ProviderTypingStays
  <2>. DEFINE ed == i = "edit"
              clone == IF i = "clone" THEN [pg.clone EXCEPT ![pg.tab] = TRUE] ELSE pg.clone
              p == [pg EXCEPT !.drawer = TRUE, !.editing = ed, !.intent = i, !.clone = clone]
  <2>1. ~pg.drawer /\ i \in ProviderTabs!Intents(pg.tab) /\ pg' = ProviderTabs!Filled(p)
    BY <1>6 DEF ProviderTabs!Open
  <2>2. pg.tab \in ProviderTabs!Cloneable \/ (pg.tab = "keys" /\ i = "add")
    BY <1>1, <2>1 DEF ProviderTabs!Intents, ProviderTabs!Tabs, ProviderTabs!Cloneable
  <2>3. clone \in Clones /\ ed \in BOOLEAN
    BY <1>1 DEF Clones
  <2>4. \A u \in ProviderTabs!Cloneable : clone[u] => pg.clone[u] \/ (i = "clone" /\ u = pg.tab)
    BY <1>1 DEF Clones
  <2>5. i = "clone" => clone[pg.tab]
    BY <1>1, <2>2 DEF Clones
  <2>6. ed <=> i = "edit"
    OBVIOUS
  <2>7. p = [pg EXCEPT !.drawer = TRUE, !.editing = ed, !.intent = i, !.clone = clone]
    OBVIOUS
  <2>. HIDE DEF p, ed, clone
  <2>8. p \in ProvidersRecord
    BY <1>1, <2>3, <2>7 DEF ProvidersRecord
  <2>9. /\ p.loads = pg.loads /\ p.chains = pg.chains /\ p.refreshes = pg.refreshes
        /\ p.changes = pg.changes /\ p.saving = pg.saving /\ p.deleting = pg.deleting
    BY <1>1, <2>7 DEF ProvidersRecord
  <2>10. /\ p.tab = pg.tab /\ p.clone = clone /\ p.drawer = TRUE /\ p.late = pg.late
         /\ p.editing = ed /\ p.intent = i
    BY <1>1, <2>7 DEF ProvidersRecord
  <2>. DEFINE s == ProviderTabs!Source(p)
  <2>11. s \in Records
    BY SourceFacts
  <2>12. pg' = [p EXCEPT !.form = s, !.typed = FALSE]
    BY <2>1 DEF ProviderTabs!Filled
  <2>. HIDE DEF s
  <2>13. pg' \in ProvidersRecord
    BY <2>8, <2>11, <2>12 DEF ProvidersRecord
  <2>14. TabsNumbered(pg')
    BY <1>2, <2>8, <2>9, <2>12 DEF ProvidersRecord, TabsNumbered
  <2>15. /\ pg'.tab = p.tab /\ pg'.clone = p.clone /\ pg'.drawer = p.drawer /\ pg'.late = p.late
         /\ pg'.editing = p.editing /\ pg'.intent = p.intent /\ pg'.form = s
         /\ pg'.saving = p.saving
    BY <2>8, <2>12 DEF ProvidersRecord
  <2>16. FormGood(pg')
    <3>1. \A u \in ProviderTabs!Cloneable : pg.clone[u] => u \in pg.late
      BY <1>2, <2>1, Zenon DEF FormGood
    <3>2. ProviderTabs!Source(pg') = s /\ pg'.drawer
      BY <2>10, <2>15, SourceFacts, Zenon DEF s
    <3>. SUFFICES ASSUME pg.tab \in pg.late => i # "add"
                  PROVE  s = i
      BY <2>4, <2>10, <2>15, <3>1, <3>2, Zenon DEF FormGood
    <3>3. CASE pg.tab = "keys"
      <4>1. "keys" \notin ProviderTabs!Cloneable
        BY DEF ProviderTabs!Cloneable
      <4>2. s = "add"
        BY <2>10, <3>3, Zenon DEF s, ProviderTabs!Source
      <4>. QED
        BY <2>2, <3>3, <4>1, <4>2
    <3>4. CASE pg.tab # "keys"
      <4>1. s = IF ed THEN "edit" ELSE IF clone[pg.tab] THEN "clone" ELSE "add"
        BY <2>10, <3>4, Zenon DEF s, ProviderTabs!Source
      <4>2. pg.tab \in ProviderTabs!Cloneable
        BY <2>2, <3>4
      <4>3. clone[pg.tab] => i = "clone" \/ i # "add"
        BY <2>4, <3>1, <4>2, Zenon
      <4>. QED
        BY <2>5, <2>6, <4>1, <4>3 DEF Records
    <3>. QED
      BY <3>3, <3>4
  <2>17. ProvidersInv'
    BY <2>13, <2>14, <2>16 DEF ProvidersInv, ProvidersGood
  <2>. QED
    BY <2>1, <2>17 DEF ProviderTypingStays
<1>7. CASE ProviderTabs!Close
  <2>. DEFINE late == pg.late \ {pg.tab}
              p == [pg EXCEPT !.drawer = FALSE, !.late = late]
  <2>1. pg' = ProviderTabs!WithoutClone(p, pg.tab)
    BY <1>7 DEF ProviderTabs!Close
  <2>2. late \in SUBSET ProviderTabs!Tabs /\ \A u \in pg.late : u # pg.tab => u \in late
    BY <1>1
  <2>3. p = [pg EXCEPT !.drawer = FALSE, !.late = late]
    OBVIOUS
  <2>. HIDE DEF p, late
  <2>4. p \in ProvidersRecord /\ p.clone = pg.clone
    BY <1>1, <2>2, <2>3 DEF ProvidersRecord
  <2>5. PICK c \in Clones : /\ pg' = [p EXCEPT !.clone = c]
                            /\ \A u \in ProviderTabs!Cloneable : c[u] => u # pg.tab /\ p.clone[u]
    <3>1. pg.tab \in ProviderTabs!Tabs
      BY <1>1
    <3>. QED
      BY SMTT(30), <2>1, <2>4, <3>1, WithoutCloneFacts
  <2>6. pg' = [pg EXCEPT !.drawer = FALSE, !.late = late, !.clone = c]
    BY <1>1, <2>3, <2>5 DEF ProvidersRecord
  <2>7. pg' \in ProvidersRecord
    BY <2>4, <2>5 DEF ProvidersRecord
  <2>8. /\ pg'.loads = pg.loads /\ pg'.chains = pg.chains /\ pg'.refreshes = pg.refreshes
        /\ pg'.changes = pg.changes /\ pg'.saving = pg.saving /\ pg'.deleting = pg.deleting
    BY <1>1, <2>6 DEF ProvidersRecord
  <2>9. pg'.clone = c /\ pg'.drawer = FALSE /\ pg'.late = late
    BY <1>1, <2>6 DEF ProvidersRecord
  <2>10. TabsNumbered(pg')
    BY <1>2, <2>8 DEF TabsNumbered
  <2>11. FormGood(pg')
    <3>1. \A u \in ProviderTabs!Cloneable : c[u] => u \in late
      BY <1>2, <2>2, <2>4, <2>5, Zenon DEF FormGood
    <3>. QED
      BY <2>9, <3>1, Zenon DEF FormGood
  <2>. QED
    BY <2>7, <2>9, <2>10, <2>11 DEF ProvidersInv, ProvidersGood, ProviderTypingStays
<1>8. CASE ProviderTabs!Type
  <2>1. pg' = [pg EXCEPT !.typed = TRUE]
    BY <1>8 DEF ProviderTabs!Type
  <2>2. pg' \in ProvidersRecord /\ pg'.typed = TRUE
    BY <1>1, <2>1 DEF ProvidersRecord
  <2>3. TabsNumbered(pg')
    BY <1>1, <1>2, <2>1 DEF ProvidersRecord, TabsNumbered
  <2>4. FormGood(pg')
    <3>1. /\ pg'.tab = pg.tab /\ pg'.clone = pg.clone /\ pg'.drawer = pg.drawer /\ pg'.late = pg.late
          /\ pg'.editing = pg.editing /\ pg'.intent = pg.intent /\ pg'.form = pg.form
      BY <1>1, <2>1 DEF ProvidersRecord
    <3>. QED
      BY <1>2, <3>1, DrawerKept
  <2>. QED
    BY <2>2, <2>3, <2>4 DEF ProvidersInv, ProvidersGood, ProviderTypingStays
<1>9. CASE ProviderTabs!Save
  <2>. DEFINE saving == pg.saving \cup {pg.tab}
  <2>1. /\ pg.drawer /\ pg.tab \notin pg.saving /\ pg.chains + pg.changes < MaxOps
        /\ pg' = [pg EXCEPT !.saving = saving, !.changes = @ + 1]
    BY <1>9 DEF ProviderTabs!Save, ProviderTabs!MoreOps
  <2>2. saving \in SUBSET ProviderTabs!Tabs
    BY <1>1
  <2>3. /\ IsFiniteSet(saving) /\ Cardinality(saving) \in Nat
        /\ Cardinality(saving) <= Cardinality(pg.saving) + 1
    BY <1>3, OneMore, FS_CardinalityType
  <2>. HIDE DEF saving
  <2>5. pg' \in ProvidersRecord
    <3>1. pg.changes + 1 \in Nat
      BY <1>1
    <3>. QED
      BY <1>1, <2>1, <2>2, <3>1 DEF ProvidersRecord
  <2>6. /\ pg'.loads = pg.loads /\ pg'.chains = pg.chains /\ pg'.refreshes = pg.refreshes
        /\ pg'.changes = pg.changes + 1 /\ pg'.saving = saving /\ pg'.deleting = pg.deleting
    BY <1>1, <2>1 DEF ProvidersRecord
  <2>7. /\ pg'.tab = pg.tab /\ pg'.clone = pg.clone /\ pg'.drawer = pg.drawer /\ pg'.late = pg.late
        /\ pg'.editing = pg.editing /\ pg'.intent = pg.intent /\ pg'.form = pg.form
        /\ pg'.typed = pg.typed
    BY <1>1, <2>1 DEF ProvidersRecord
  <2>8. TabsNumbered(pg')
    <3>1. pg.refreshes + Cardinality(pg.saving) + Cardinality(pg.deleting) <= pg.changes
      BY <1>2 DEF TabsNumbered
    <3>2. /\ pg'.refreshes + Cardinality(pg'.saving) + Cardinality(pg'.deleting) <= pg'.changes
          /\ pg'.chains + pg'.changes <= MaxOps
      BY <1>1, <1>3, <2>1, <2>3, <2>6, <3>1
    <3>. QED
      BY <1>2, <2>2, <2>3, <2>6, <3>2 DEF TabsNumbered
  <2>9. FormGood(pg')
    BY <1>2, <2>7, DrawerKept
  <2>. QED
    BY <2>5, <2>7, <2>8, <2>9 DEF ProvidersInv, ProvidersGood, ProviderTypingStays
<1>10. ASSUME NEW t \in ProviderTabs!Tabs, NEW loads \in SUBSET TabLoad, NEW n,
              loads = pg.loads \cup {[what |-> t, chain |-> 0 - (pg.refreshes + 1)]},
              n = pg.refreshes + 1
       PROVE  /\ n \in Nat
              /\ \A l \in loads : 0 - n <= l.chain /\ l.chain <= pg.chains
  <2>1. \A l \in pg.loads : l.chain \in Int /\ 0 - pg.refreshes <= l.chain /\ l.chain <= pg.chains
    BY <1>1, <1>2 DEF TabsNumbered, TabLoad
  <2>. QED
    BY <1>1, <1>10, <2>1
<1>11. ASSUME NEW t \in ProviderTabs!Tabs
       PROVE  pg.loads \cup {[what |-> t, chain |-> 0 - (pg.refreshes + 1)]} \in SUBSET TabLoad
  BY <1>1 DEF TabLoad
<1>12. ASSUME NEW t \in ProviderTabs!Tabs, ProviderTabs!Saved(t)
       PROVE  ProvidersInv' /\ ProviderTypingStays
  <2>. DEFINE loads == pg.loads \cup {[what |-> t, chain |-> 0 - (pg.refreshes + 1)]}
              n == pg.refreshes + 1
              saving == pg.saving \ {t}
              cut == IF pg.drawer THEN {pg.tab} ELSE {}
              late == (pg.late \cup cut) \ {t}
              p == [pg EXCEPT !.refreshes = n, !.loads = loads, !.drawer = FALSE, !.saving = saving,
                              !.late = late]
  <2>1. t \in pg.saving /\ pg' = ProviderTabs!WithoutClone(p, t)
    <3>1. /\ t \in pg.saving
          /\ pg' = ProviderTabs!WithoutClone([ProviderTabs!Refreshed(t) EXCEPT !.drawer = FALSE,
                     !.saving = @ \ {t}, !.late = (@ \cup cut) \ {t}], t)
      BY <1>12 DEF ProviderTabs!Saved
    <3>2. [ProviderTabs!Refreshed(t) EXCEPT !.drawer = FALSE,
             !.saving = @ \ {t}, !.late = (@ \cup cut) \ {t}] = p
      BY <1>1 DEF ProviderTabs!Refreshed, ProvidersRecord
    <3>. HIDE DEF p
    <3>. QED
      BY <3>1, <3>2
  <2>2. /\ saving \in SUBSET ProviderTabs!Tabs
        /\ IsFiniteSet(saving) /\ Cardinality(saving) \in Nat
        /\ Cardinality(saving) + 1 <= Cardinality(pg.saving)
    BY <1>1, <1>2, <1>3, <2>1, OneLess, FS_CardinalityType DEF TabsNumbered
  <2>3. /\ loads \in SUBSET TabLoad /\ n \in Nat
        /\ \A l \in loads : 0 - n <= l.chain /\ l.chain <= pg.chains
    BY <1>10, <1>11
  <2>4. late \in SUBSET ProviderTabs!Tabs
    BY <1>1
  <2>5. \A u : u # t /\ (u \in pg.late \/ (pg.drawer /\ pg.tab = u)) => u \in late
    OBVIOUS
  <2>7. p = [pg EXCEPT !.refreshes = n, !.loads = loads, !.drawer = FALSE, !.saving = saving,
                       !.late = late]
    OBVIOUS
  <2>8. n = pg.refreshes + 1
    OBVIOUS
  <2>. HIDE DEF p, loads, n, saving, cut, late
  <2>9. p \in ProvidersRecord /\ p.clone = pg.clone
    BY <1>1, <2>2, <2>3, <2>4, <2>7 DEF ProvidersRecord
  <2>10. PICK c \in Clones : /\ pg' = [p EXCEPT !.clone = c]
                             /\ \A u \in ProviderTabs!Cloneable : c[u] => u # t /\ p.clone[u]
    BY <2>1, <2>9, WithoutCloneFacts
  <2>11. pg' \in ProvidersRecord
    BY <2>9, <2>10 DEF ProvidersRecord
  <2>12. /\ pg'.loads = loads /\ pg'.chains = pg.chains /\ pg'.refreshes = n
         /\ pg'.changes = pg.changes /\ pg'.saving = saving /\ pg'.deleting = pg.deleting
    BY <1>1, <2>7, <2>10 DEF ProvidersRecord
  <2>13. pg'.clone = c /\ pg'.drawer = FALSE /\ pg'.late = late
    BY <1>1, <2>7, <2>10 DEF ProvidersRecord
  <2>14. TabsNumbered(pg')
    <3>1. pg.refreshes + Cardinality(pg.saving) + Cardinality(pg.deleting) <= pg.changes
      BY <1>2 DEF TabsNumbered
    <3>2. pg'.refreshes + Cardinality(pg'.saving) + Cardinality(pg'.deleting) <= pg'.changes
      BY <1>1, <1>3, <2>2, <2>8, <2>12, <3>1
    <3>. QED
      BY <1>2, <2>2, <2>3, <2>12, <3>2 DEF TabsNumbered
  <2>15. FormGood(pg')
    <3>1. \A u \in ProviderTabs!Cloneable : c[u] => u \in late
      BY <1>2, <2>5, <2>9, <2>10, Zenon DEF FormGood
    <3>. QED
      BY <2>13, <3>1, Zenon DEF FormGood
  <2>. QED
    BY <2>11, <2>13, <2>14, <2>15 DEF ProvidersInv, ProvidersGood, ProviderTypingStays
<1>13. ASSUME NEW t \in ProviderTabs!Tabs, ProviderTabs!SaveFails(t)
       PROVE  ProvidersInv' /\ ProviderTypingStays
  <2>. DEFINE saving == pg.saving \ {t}
  <2>1. t \in pg.saving /\ pg' = [pg EXCEPT !.saving = saving]
    BY <1>13 DEF ProviderTabs!SaveFails
  <2>2. /\ saving \in SUBSET ProviderTabs!Tabs
        /\ IsFiniteSet(saving) /\ Cardinality(saving) \in Nat
        /\ Cardinality(saving) + 1 <= Cardinality(pg.saving)
    BY <1>1, <1>2, <1>3, <2>1, OneLess, FS_CardinalityType DEF TabsNumbered
  <2>. HIDE DEF saving
  <2>4. pg' \in ProvidersRecord
    BY <1>1, <2>1, <2>2 DEF ProvidersRecord
  <2>5. /\ pg'.loads = pg.loads /\ pg'.chains = pg.chains /\ pg'.refreshes = pg.refreshes
        /\ pg'.changes = pg.changes /\ pg'.saving = saving /\ pg'.deleting = pg.deleting
    BY <1>1, <2>1 DEF ProvidersRecord
  <2>6. /\ pg'.tab = pg.tab /\ pg'.clone = pg.clone /\ pg'.drawer = pg.drawer /\ pg'.late = pg.late
        /\ pg'.editing = pg.editing /\ pg'.intent = pg.intent /\ pg'.form = pg.form
        /\ pg'.typed = pg.typed
    BY <1>1, <2>1 DEF ProvidersRecord
  <2>7. TabsNumbered(pg')
    <3>1. pg.refreshes + Cardinality(pg.saving) + Cardinality(pg.deleting) <= pg.changes
      BY <1>2 DEF TabsNumbered
    <3>2. pg'.refreshes + Cardinality(pg'.saving) + Cardinality(pg'.deleting) <= pg'.changes
      BY <1>1, <1>3, <2>2, <2>5, <3>1
    <3>. QED
      BY <1>2, <2>2, <2>5, <3>2 DEF TabsNumbered
  <2>8. FormGood(pg')
    BY <1>2, <2>6, DrawerKept
  <2>. QED
    BY <2>4, <2>6, <2>7, <2>8 DEF ProvidersInv, ProvidersGood, ProviderTypingStays
<1>14. ASSUME NEW deleting \in SUBSET ProviderTabs!Tabs, IsFiniteSet(deleting), NEW n \in Nat,
              n + Cardinality(deleting) <= pg.refreshes + Cardinality(pg.deleting) + (pg'.changes - pg.changes),
              NEW m \in Nat, m = pg'.changes, pg.chains + m <= MaxOps,
              NEW loads \in SUBSET TabLoad, \A l \in loads : 0 - n <= l.chain /\ l.chain <= pg.chains,
              pg' = [pg EXCEPT !.deleting = deleting, !.refreshes = n, !.changes = m, !.loads = loads]
       PROVE  ProvidersInv' /\ ProviderTypingStays
  <2>1. pg' \in ProvidersRecord
    BY <1>1, <1>14 DEF ProvidersRecord
  <2>2. /\ pg'.loads = loads /\ pg'.chains = pg.chains /\ pg'.refreshes = n
        /\ pg'.saving = pg.saving /\ pg'.deleting = deleting
    BY <1>1, <1>14 DEF ProvidersRecord
  <2>3. /\ pg'.tab = pg.tab /\ pg'.clone = pg.clone /\ pg'.drawer = pg.drawer /\ pg'.late = pg.late
        /\ pg'.editing = pg.editing /\ pg'.intent = pg.intent /\ pg'.form = pg.form
        /\ pg'.typed = pg.typed
    BY <1>1, <1>14 DEF ProvidersRecord
  <2>4. TabsNumbered(pg')
    <3>1. pg.refreshes + Cardinality(pg.saving) + Cardinality(pg.deleting) <= pg.changes
      BY <1>2 DEF TabsNumbered
    <3>2. Cardinality(deleting) \in Nat
      BY <1>14, FS_CardinalityType
    <3>3. n + Cardinality(pg.saving) + Cardinality(deleting) <= m
      BY <1>1, <1>3, <1>14, <3>1, <3>2
    <3>. QED
      BY <1>2, <1>14, <2>2, <3>3 DEF TabsNumbered
  <2>5. FormGood(pg')
    BY <1>2, <2>3, DrawerKept
  <2>. QED
    BY <2>1, <2>3, <2>4, <2>5 DEF ProvidersInv, ProvidersGood, ProviderTypingStays
<1>15. CASE ProviderTabs!Delete
  <2>. DEFINE deleting == pg.deleting \cup {pg.tab}
              m == pg.changes + 1
  <2>1. pg.chains + pg.changes < MaxOps /\ pg' = [pg EXCEPT !.deleting = deleting, !.changes = m]
    BY <1>15 DEF ProviderTabs!Delete, ProviderTabs!MoreOps
  <2>2. /\ deleting \in SUBSET ProviderTabs!Tabs /\ IsFiniteSet(deleting) /\ Cardinality(deleting) \in Nat
        /\ Cardinality(deleting) <= Cardinality(pg.deleting) + 1
    BY <1>1, <1>3, OneMore, FS_CardinalityType
  <2>3. m \in Nat /\ pg.chains + m <= MaxOps /\ m = pg.changes + 1
    BY <1>1, <2>1
  <2>. HIDE DEF deleting, m
  <2>4. pg' = [pg EXCEPT !.deleting = deleting, !.refreshes = pg.refreshes, !.changes = m, !.loads = pg.loads]
    BY <1>1, <2>1 DEF ProvidersRecord
  <2>5. pg'.changes = m
    BY <1>1, <2>1 DEF ProvidersRecord
  <2>6. pg.refreshes + Cardinality(deleting) <= pg.refreshes + Cardinality(pg.deleting) + (pg'.changes - pg.changes)
    BY <1>1, <1>3, <2>2, <2>3, <2>5
  <2>7. \A l \in pg.loads : 0 - pg.refreshes <= l.chain /\ l.chain <= pg.chains
    BY <1>2 DEF TabsNumbered
  <2>. QED
    BY <1>1, <1>14, <2>2, <2>3, <2>4, <2>5, <2>6, <2>7
<1>16. ASSUME NEW t \in ProviderTabs!Tabs, NEW ok \in BOOLEAN, ProviderTabs!Deleted(t, ok)
       PROVE  ProvidersInv' /\ ProviderTypingStays
  <2>. DEFINE deleting == pg.deleting \ {t}
              loads == pg.loads \cup {[what |-> t, chain |-> 0 - (pg.refreshes + 1)]}
              n == pg.refreshes + 1
  <2>1. /\ t \in pg.deleting
        /\ pg' = [(IF ok THEN ProviderTabs!Refreshed(t) ELSE pg) EXCEPT !.deleting = @ \ {t}]
    BY <1>16 DEF ProviderTabs!Deleted
  <2>2. /\ deleting \in SUBSET ProviderTabs!Tabs /\ IsFiniteSet(deleting) /\ Cardinality(deleting) \in Nat
        /\ Cardinality(deleting) + 1 <= Cardinality(pg.deleting)
    BY <1>1, <1>3, <2>1, OneLess, FS_CardinalityType
  <2>3. /\ loads \in SUBSET TabLoad /\ n \in Nat
        /\ \A l \in loads : 0 - n <= l.chain /\ l.chain <= pg.chains
    BY <1>10, <1>11
  <2>4. ok => pg' = [pg EXCEPT !.deleting = deleting, !.refreshes = n, !.changes = pg.changes, !.loads = loads]
    BY <1>1, <2>1 DEF ProvidersRecord, ProviderTabs!Refreshed
  <2>5. ~ok => pg' = [pg EXCEPT !.deleting = deleting, !.refreshes = pg.refreshes, !.changes = pg.changes,
                                !.loads = pg.loads]
    BY <1>1, <2>1 DEF ProvidersRecord
  <2>6. n = pg.refreshes + 1
    OBVIOUS
  <2>. HIDE DEF deleting, loads, n
  <2>7. pg'.changes = pg.changes
    BY <1>1, <2>4, <2>5 DEF ProvidersRecord
  <2>8. pg.chains + pg.changes <= MaxOps /\ \A l \in pg.loads : 0 - pg.refreshes <= l.chain /\ l.chain <= pg.chains
    BY <1>2 DEF TabsNumbered
  <2>9. n + Cardinality(deleting) <= pg.refreshes + Cardinality(pg.deleting) + (pg'.changes - pg.changes)
    BY <1>1, <1>3, <2>2, <2>6, <2>7
  <2>10. pg.refreshes + Cardinality(deleting) <= pg.refreshes + Cardinality(pg.deleting) + (pg'.changes - pg.changes)
    BY <1>1, <1>3, <2>2, <2>7
  <2>11. CASE ok
    <3>1. pg' = [pg EXCEPT !.deleting = deleting, !.refreshes = n, !.changes = pg.changes, !.loads = loads]
      BY <2>4, <2>11
    <3>2. pg.changes \in Nat /\ pg.changes = pg'.changes /\ pg.chains + pg.changes <= MaxOps
      BY <1>1, <2>7, <2>8
    <3>. QED
      BY <1>14, <2>2, <2>3, <2>9, <3>1, <3>2
  <2>12. CASE ~ok
    BY <1>1, <1>14, <2>2, <2>5, <2>7, <2>8, <2>10, <2>12
  <2>. QED
    BY <2>11, <2>12
<1>17. CASE ProviderTabs!Answers
  <2>1. CASE \E l \in pg.loads, ok \in BOOLEAN : ProviderTabs!ListEnds(l, ok)
    BY <1>5, <2>1
  <2>2. CASE \E t \in ProviderTabs!Tabs, ok \in BOOLEAN :
               ProviderTabs!Saved(t) \/ ProviderTabs!SaveFails(t) \/ ProviderTabs!Deleted(t, ok)
    <3>1. PICK t \in ProviderTabs!Tabs, ok \in BOOLEAN :
            ProviderTabs!Saved(t) \/ ProviderTabs!SaveFails(t) \/ ProviderTabs!Deleted(t, ok)
      BY <2>2
    <3>. QED
      BY <1>12, <1>13, <1>16, <3>1
  <2>. QED
    BY <1>17, <2>1, <2>2, Zenon DEF ProviderTabs!Answers
<1>18. {"add", "edit", "clone"} = Records
  BY DEF Records
<1>. QED
  BY <1>4, <1>6, <1>7, <1>8, <1>9, <1>15, <1>17, <1>18, Zenon DEF ProviderTabs!Next

\* What follows: types, and a drawer that holds what it was opened for.
LEMMA ProvidersProperties ==
  ASSUME MaxOps \in Nat \ {0}, ProvidersInv
  PROVE  ProviderTabs!TypeOK /\ ProviderTabs!FormMatchesIntent
<1>1. pg \in ProvidersRecord /\ TabsNumbered(pg) /\ FormGood(pg)
  BY DEF ProvidersInv, ProvidersGood
<1>2. /\ pg.tab \in ProviderTabs!Tabs /\ pg.have \subseteq ProviderTabs!Tabs
      /\ {pg.form, pg.intent} \subseteq Records /\ pg.saving \subseteq ProviderTabs!Tabs
      /\ pg.deleting \subseteq ProviderTabs!Tabs /\ pg.clone \in Clones /\ pg.late \subseteq ProviderTabs!Tabs
      /\ pg.chains \in Nat /\ pg.changes \in Nat /\ pg.refreshes \in Nat
  BY <1>1 DEF ProvidersRecord
<1>3. pg.loading \in BOOLEAN /\ pg.drawer \in BOOLEAN /\ pg.editing \in BOOLEAN /\ pg.typed \in BOOLEAN
  BY <1>1, Zenon DEF ProvidersRecord
<1>4. /\ pg.chains \in 1..MaxOps /\ pg.changes \in 0..MaxOps /\ pg.refreshes \in 0..pg.changes
  <2>1. Cardinality(pg.saving) \in Nat /\ Cardinality(pg.deleting) \in Nat
    BY <1>1, FS_CardinalityType DEF TabsNumbered
  <2>. QED
    BY <1>1, <1>2, <2>1 DEF TabsNumbered
<1>5. pg.loads \in SUBSET [what : ProviderTabs!Tabs, chain : (0 - MaxOps)..MaxOps]
  <2>1. \A l \in pg.loads : l \in TabLoad /\ 0 - pg.refreshes <= l.chain /\ l.chain <= pg.chains
    BY <1>1 DEF ProvidersRecord, TabsNumbered
  <2>2. \A l \in pg.loads : l \in TabLoad /\ l.chain \in (0 - MaxOps)..MaxOps
    <3>1. \A l \in pg.loads : l.chain \in Int
      BY <2>1 DEF TabLoad
    <3>. QED
      BY <1>2, <1>4, <2>1, <3>1
  <2>. QED
    BY <2>2 DEF TabLoad
<1>6. Records = ProviderTabs!Intents("providers")
  BY DEF Records, ProviderTabs!Intents
<1>7. ProviderTabs!TypeOK
  BY <1>2, <1>3, <1>4, <1>5, <1>6 DEF ProviderTabs!TypeOK, Clones
<1>8. ProviderTabs!FormMatchesIntent
  BY <1>1, Zenon DEF FormGood, ProviderTabs!FormMatchesIntent
<1>. QED
  BY <1>7, <1>8
-----------------------------------------------------------------------------
(* The info drawer of the providers page. *)

Named == Providers \cup {NoProvider}
InfoRequest == [id : Nat, of : Providers]
InfoRecord ==
  [page : {"info"}, provider : Named, info : Named, loading : BOOLEAN, error : BOOLEAN,
   inflight : SUBSET InfoRequest, opens : 0..MaxOpens, crossed : BOOLEAN]

InfoNumbered(p) == \A r \in p.inflight : r.id \in 1..p.opens

\* The newest request is for the provider of the open drawer, and unless numbers of an earlier opening are
\* kept, those kept are its own, or its request has not been answered.
NumbersOwned(p) ==
  /\ p.provider # NoProvider => \A r \in p.inflight : r.id = p.opens => r.of = p.provider
  /\ ~p.crossed =>
       /\ p.provider = NoProvider => p.info = NoProvider
       /\ p.provider # NoProvider =>
            /\ p.info \in {NoProvider, p.provider}
            /\ p.loading \/ p.error \/ p.info = p.provider

InfoGood(p) == p \in InfoRecord /\ InfoNumbered(p) /\ NumbersOwned(p)
InfoInv == InfoGood(pg)

\* The drawer as it is mounted.
LEMMA InfoMounted ==
  ASSUME MaxOpens \in Nat, NEW p \in Info!Mounted
  PROVE  InfoGood(p)
<1>1. p = [page |-> "info", provider |-> NoProvider, info |-> NoProvider, loading |-> FALSE, error |-> FALSE,
           inflight |-> {}, opens |-> 0, crossed |-> FALSE]
  BY DEF Info!Mounted
<1>2. p \in InfoRecord
  <2>1. 0 \in 0..MaxOpens /\ NoProvider \in Named
    BY DEF Named
  <2>. QED
    BY <1>1, <2>1, Zenon DEF InfoRecord
<1>3. InfoNumbered(p) /\ NumbersOwned(p)
  BY <1>1 DEF InfoNumbered, NumbersOwned
<1>. QED
  BY <1>2, <1>3 DEF InfoGood

\* Every step of the drawer keeps what is known of it.
LEMMA InfoNext ==
  ASSUME MaxOpens \in Nat, InfoInv, Info!Next
  PROVE  InfoInv'
<1>1. /\ pg \in InfoRecord /\ pg.provider \in Named /\ pg.info \in Named
      /\ pg.inflight \in SUBSET InfoRequest /\ pg.opens \in 0..MaxOpens
  BY DEF InfoInv, InfoGood, InfoRecord
<1>2. InfoNumbered(pg) /\ NumbersOwned(pg)
  BY DEF InfoInv, InfoGood
<1>3. ASSUME NEW p \in Providers, Info!Open(p) PROVE InfoInv'
  <2>. DEFINE n == [id |-> pg.opens + 1, of |-> p]
  <2>1. /\ pg.provider = NoProvider /\ pg.opens < MaxOpens
        /\ pg' = [pg EXCEPT !.provider = p, !.loading = TRUE, !.error = FALSE, !.opens = @ + 1,
                            !.inflight = @ \cup {n}]
    BY <1>3 DEF Info!Open
  <2>2. n \in InfoRequest /\ n.id = pg.opens + 1 /\ n.of = p /\ pg.opens + 1 \in 0..MaxOpens
    BY <1>1, <2>1 DEF InfoRequest
  <2>. HIDE DEF n
  <2>3. pg' \in InfoRecord
    BY <1>1, <2>1, <2>2 DEF InfoRecord, Named
  <2>4. /\ pg'.provider = p /\ pg'.info = pg.info /\ pg'.loading = TRUE /\ pg'.opens = pg.opens + 1
        /\ pg'.inflight = pg.inflight \cup {n}
    BY <1>1, <2>1 DEF InfoRecord
  <2>5. InfoNumbered(pg')
    BY <1>1, <1>2, <2>2, <2>4 DEF InfoNumbered
  <2>6. \A r \in pg'.inflight : r.id = pg'.opens => r.of = p
    BY <1>1, <1>2, <2>2, <2>4 DEF InfoNumbered
  <2>7. NumbersOwned(pg')
    <3>1. pg'.crossed = pg.crossed
      BY <1>1, <2>1 DEF InfoRecord
    <3>2. pg'.loading
      BY <2>4, Zenon
    <3>3. ~pg.crossed => pg.info = NoProvider
      BY <1>2, <2>1, Zenon DEF NumbersOwned
    <3>. QED
      BY <2>4, <2>6, <3>1, <3>2, <3>3, Zenon DEF NumbersOwned
  <2>. QED
    BY <2>3, <2>5, <2>7 DEF InfoInv, InfoGood
<1>4. CASE Info!Close
  <2>1. pg' = [pg EXCEPT !.provider = NoProvider, !.info = NoProvider, !.crossed = FALSE]
    BY <1>4 DEF Info!Close
  <2>2. pg' \in InfoRecord
    BY <1>1, <2>1 DEF InfoRecord, Named
  <2>3. /\ pg'.provider = NoProvider /\ pg'.info = NoProvider /\ pg'.inflight = pg.inflight
        /\ pg'.opens = pg.opens
    BY <1>1, <2>1 DEF InfoRecord
  <2>4. InfoNumbered(pg') /\ NumbersOwned(pg')
    BY <1>2, <2>3 DEF InfoNumbered, NumbersOwned
  <2>. QED
    BY <2>2, <2>4 DEF InfoInv, InfoGood
<1>5. ASSUME NEW r \in pg.inflight, NEW info \in Named, NEW error \in BOOLEAN, NEW crossed \in BOOLEAN,
             pg' = [pg EXCEPT !.inflight = @ \ {r}, !.loading = FALSE, !.info = info, !.error = error,
                              !.crossed = crossed],
             ~crossed => /\ pg.provider = NoProvider => info = NoProvider
                         /\ pg.provider # NoProvider => /\ info \in {NoProvider, pg.provider}
                                                        /\ error \/ info = pg.provider
      PROVE  InfoInv'
  <2>1. pg' \in InfoRecord
    BY <1>1, <1>5 DEF InfoRecord
  <2>2. /\ pg'.inflight = pg.inflight \ {r} /\ pg'.provider = pg.provider /\ pg'.opens = pg.opens
        /\ pg'.info = info /\ pg'.error = error /\ pg'.crossed = crossed
    BY <1>1, <1>5 DEF InfoRecord
  <2>3. InfoNumbered(pg')
    BY <1>2, <2>2 DEF InfoNumbered
  <2>4. NumbersOwned(pg')
    <3>1. pg.provider # NoProvider => \A s \in pg.inflight \ {r} : s.id = pg.opens => s.of = pg.provider
      BY <1>2 DEF NumbersOwned
    <3>. QED
      BY <1>5, <2>2, <3>1, Zenon DEF NumbersOwned
  <2>. QED
    BY <2>1, <2>3, <2>4 DEF InfoInv, InfoGood
<1>6. ASSUME NEW r \in pg.inflight, Info!Loaded(r) PROVE InfoInv'
  <2>. DEFINE crossed == Info!Stray(r)
  <2>1. r.id \in 1..pg.opens /\ r.of \in Named
    BY <1>1, <1>2 DEF InfoNumbered, InfoRequest, Named
  <2>2. crossed \in BOOLEAN
    BY DEF Info!Stray
  <2>3. ~crossed => pg.provider # NoProvider /\ r.id = pg.opens
    BY <1>1, <2>1 DEF Info!Stray
  <2>4. ~crossed => pg.provider # NoProvider /\ r.of = pg.provider
    BY <1>2, <2>3 DEF NumbersOwned
  <2>5. pg.error \in BOOLEAN
    BY <1>1 DEF InfoRecord
  <2>6. pg' = [pg EXCEPT !.inflight = @ \ {r}, !.loading = FALSE, !.info = r.of, !.error = pg.error,
                         !.crossed = crossed]
    BY <1>1, <1>6 DEF Info!Loaded, Info!Ended, InfoRecord
  <2>. HIDE DEF crossed
  <2>. QED
    BY <1>5, <2>1, <2>2, <2>4, <2>5, <2>6
<1>7. ASSUME NEW r \in pg.inflight, Info!Failed(r) PROVE InfoInv'
  <2>. DEFINE error == TRUE
  <2>1. pg' = [pg EXCEPT !.inflight = @ \ {r}, !.loading = FALSE, !.info = pg.info, !.error = error,
                         !.crossed = pg.crossed]
    BY <1>1, <1>7 DEF Info!Failed, Info!Ended, InfoRecord
  <2>2. error \in BOOLEAN /\ error
    OBVIOUS
  <2>. HIDE DEF error
  <2>3. pg.crossed \in BOOLEAN
    BY <1>1 DEF InfoRecord
  <2>4. ~pg.crossed => /\ pg.provider = NoProvider => pg.info = NoProvider
                       /\ pg.provider # NoProvider => pg.info \in {NoProvider, pg.provider}
    BY <1>2, Zenon DEF NumbersOwned
  <2>. QED
    BY <1>1, <1>5, <2>1, <2>2, <2>3, <2>4
<1>. QED
  BY <1>3, <1>4, <1>6, <1>7 DEF Info!Next, Info!Answers

\* What follows: types, and numbers that are those of the provider in the title.
LEMMA InfoProperties ==
  ASSUME MaxOpens \in Nat, InfoInv
  PROVE  Info!TypeOK /\ Info!InfoOfProvider
<1>1. pg \in InfoRecord /\ InfoNumbered(pg) /\ NumbersOwned(pg)
  BY DEF InfoInv, InfoGood
<1>2. Info!TypeOK
  <2>1. /\ {pg.provider, pg.info} \subseteq Named /\ pg.opens \in 0..MaxOpens
        /\ pg.inflight \subseteq [id : 1..pg.opens, of : Providers]
    BY <1>1 DEF InfoRecord, InfoNumbered, InfoRequest
  <2>2. pg.loading \in BOOLEAN /\ pg.error \in BOOLEAN /\ pg.crossed \in BOOLEAN
    BY <1>1, Zenon DEF InfoRecord
  <2>. QED
    BY <2>1, <2>2 DEF Info!TypeOK, Named
<1>3. ASSUME pg.provider # NoProvider, ~pg.crossed
      PROVE  /\ Info!Cards(pg) \subseteq {pg.provider}
             /\ Info!NoteOfNone(pg) => pg.provider \in Bare \/ pg.error
  <2>1. /\ pg.info \in {NoProvider, pg.provider}
        /\ pg.loading \/ pg.error \/ pg.info = pg.provider
    BY <1>1, <1>3, Zenon DEF NumbersOwned
  <2>. QED
    BY <1>3, <2>1 DEF Info!Cards, Info!NoteOfNone, Info!Table
<1>. QED
  BY <1>2, <1>3, Zenon DEF Info!InfoOfProvider
-----------------------------------------------------------------------------
(* The page of the logs: its line to the gateway, its buffer and its screen. *)

\* The types of the fields of a page.
LEMMA LogsMembers ==
  ASSUME NEW p \in Logs!Page
  PROVE  /\ p.page = "logs" /\ p.mode \in {"live", "history"} /\ p.live \in BOOLEAN
         /\ p.buf \in Seq(Logs!Events) /\ p.wire \in Seq(Logs!Events)
         /\ p.connected \in BOOLEAN /\ p.heldOver \in BOOLEAN /\ p.sock \in {"none", "connecting", "open"}
         /\ p.offered \in Logs!Tokens /\ p.token \in Logs!Tokens
         /\ p.timer \in BOOLEAN /\ p.renewing \in BOOLEAN /\ p.oldRenew \in BOOLEAN
         /\ p.published \in 0..MaxEvents /\ p.inflight \in SUBSET (1..MaxQueries)
         /\ p.asked \in 0..MaxQueries /\ p.drops \in 0..MaxDrops
BY Zenon DEF Logs!Page
-----------------------------------------------------------------------------
(* The functions from page to page: the type they keep and what they do to *)
(* the line and the buffer.                                                *)

\* The fields the properties are about that an action leaves alone.
SameLine(p, q) == /\ q.mode = p.mode /\ q.sock = p.sock /\ q.timer = p.timer
                  /\ q.renewing = p.renewing /\ q.connected = p.connected /\ q.heldOver = p.heldOver
SameEvents(p, q) == q.buf = p.buf /\ q.wire = p.wire /\ q.published = p.published

\* Connecting changes the socket only.
LEMMA ConnectFacts ==
  ASSUME NEW p \in Logs!Page
  PROVE  /\ Logs!Connect(p) \in Logs!Page
         /\ Logs!Connect(p).sock \in {p.sock, "connecting"} /\ SameEvents(p, Logs!Connect(p))
         /\ Logs!Connect(p).mode = p.mode /\ Logs!Connect(p).timer = p.timer
         /\ Logs!Connect(p).renewing = p.renewing /\ Logs!Connect(p).connected = p.connected
         /\ Logs!Connect(p).heldOver = p.heldOver
<1>1. CASE p.token = "gone"
  BY <1>1, Zenon DEF Logs!Connect, SameEvents
<1>2. CASE p.token # "gone"
  <2>. DEFINE q == [p EXCEPT !.sock = "connecting", !.offered = p.token]
  <2>1. q \in Logs!Page
    BY Zenon DEF Logs!Page
  <2>2. /\ q.sock = "connecting" /\ q.buf = p.buf /\ q.wire = p.wire /\ q.published = p.published
        /\ q.mode = p.mode /\ q.timer = p.timer /\ q.renewing = p.renewing
        /\ q.connected = p.connected /\ q.heldOver = p.heldOver
    BY Zenon DEF Logs!Page
  <2>3. Logs!Connect(p) = q
    BY <1>2 DEF Logs!Connect
  <2>. QED
    BY <2>1, <2>2, <2>3, Zenon DEF SameEvents
<1>. QED
  BY <1>1, <1>2

\* A socket that closes leaves either a timer or a renewal, never both.
LEMMA ClosesFacts ==
  ASSUME NEW p \in Logs!Page, NEW code
  PROVE  LET q == Logs!Closes(p, code)
         IN  /\ q \in Logs!Page
             /\ q.sock = "none" /\ ~q.connected /\ ~q.heldOver /\ q.wire = <<>> /\ ~(q.timer /\ q.renewing)
             /\ q.mode = p.mode /\ q.buf = p.buf /\ q.published = p.published
<1>. DEFINE a == code = 1008 /\ p.token # "gone"
            b == code # 1008
            q == [p EXCEPT !.sock = "none", !.connected = FALSE, !.heldOver = FALSE, !.wire = <<>>,
                           !.renewing = a, !.timer = b]
<1>1. a \in BOOLEAN /\ b \in BOOLEAN /\ ~(a /\ b) /\ <<>> \in Seq(Logs!Events) /\ Logs!Closes(p, code) = q
  BY DEF Logs!Closes
<1>. HIDE DEF a, b
<1>2. q \in Logs!Page
  BY <1>1, Zenon DEF Logs!Page
<1>3. /\ q.sock = "none" /\ q.connected = FALSE /\ q.heldOver = FALSE /\ q.wire = <<>>
      /\ q.timer = b /\ q.renewing = a
      /\ q.mode = p.mode /\ q.buf = p.buf /\ q.published = p.published
  BY Zenon DEF Logs!Page
<1>. QED
  BY <1>1, <1>2, <1>3

\* The cleanup leaves neither socket nor timer.
LEMMA CleanupFacts ==
  ASSUME NEW p \in Logs!Page
  PROVE  LET q == Logs!Cleanup(p)
         IN  /\ q \in Logs!Page
             /\ q.sock = "none" /\ ~q.timer /\ ~q.renewing /\ q.wire = <<>>
             /\ q.mode = p.mode /\ q.buf = p.buf /\ q.published = p.published /\ q.asked = p.asked
<1>. DEFINE o == p.renewing \/ p.oldRenew
            c == p.connected /\ p.sock # "connecting"
            q == [p EXCEPT !.sock = "none", !.heldOver = FALSE, !.wire = <<>>, !.timer = FALSE,
                           !.renewing = FALSE, !.oldRenew = o, !.connected = c]
<1>1. o \in BOOLEAN /\ c \in BOOLEAN /\ <<>> \in Seq(Logs!Events) /\ Logs!Cleanup(p) = q
  BY DEF Logs!Cleanup
<1>. HIDE DEF o, c
<1>2. q \in Logs!Page
  BY <1>1, Zenon DEF Logs!Page
<1>3. /\ q.sock = "none" /\ q.timer = FALSE /\ q.renewing = FALSE /\ q.wire = <<>>
      /\ q.mode = p.mode /\ q.buf = p.buf /\ q.published = p.published /\ q.asked = p.asked
  BY Zenon DEF Logs!Page
<1>. QED
  BY <1>1, <1>2, <1>3

\* A query leaves line and buffer alone.
LEMMA AskFacts ==
  ASSUME Logs!LogsAssumption, NEW p \in Logs!Page, p.asked < MaxQueries
  PROVE  Logs!Ask(p) \in Logs!Page /\ SameLine(p, Logs!Ask(p)) /\ SameEvents(p, Logs!Ask(p))
<1>. DEFINE n == p.asked + 1
            f == p.inflight \cup {n}
            q == [p EXCEPT !.loading = TRUE, !.asked = n, !.inflight = f]
<1>1. n \in 0..MaxQueries /\ f \in SUBSET (1..MaxQueries)
  BY LogsMembers DEF Logs!LogsAssumption
<1>2. Logs!Ask(p) = q
  BY DEF Logs!Ask
<1>. HIDE DEF n, f
<1>3. q \in Logs!Page
  BY <1>1, Zenon DEF Logs!Page
<1>4. /\ q.mode = p.mode /\ q.sock = p.sock /\ q.timer = p.timer /\ q.renewing = p.renewing
      /\ q.connected = p.connected /\ q.heldOver = p.heldOver /\ q.buf = p.buf /\ q.wire = p.wire
      /\ q.published = p.published
  BY Zenon DEF Logs!Page
<1>. QED
  BY <1>2, <1>3, <1>4, Zenon DEF SameLine, SameEvents

\* What is on screen, from the buffer or from an answer.
LEMMA ViewType ==
  ASSUME NEW q \in 0..MaxQueries, NEW s \in Seq(Logs!Events)
  PROVE  [src |-> q, rows |-> s] \in [src : 0..MaxQueries, rows : Seq(Logs!Events)]
OBVIOUS

\* So does what is shown.
LEMMA ShowType ==
  ASSUME NEW p \in Logs!Page, NEW v \in [src : 0..MaxQueries, rows : Seq(Logs!Events)]
  PROVE  /\ [p EXCEPT !.view = v] \in Logs!Page
         /\ SameLine(p, [p EXCEPT !.view = v]) /\ SameEvents(p, [p EXCEPT !.view = v])
<1>. DEFINE q == [p EXCEPT !.view = v]
<1>1. q \in Logs!Page
  BY Zenon DEF Logs!Page
<1>2. /\ q.mode = p.mode /\ q.sock = p.sock /\ q.timer = p.timer /\ q.renewing = p.renewing
      /\ q.connected = p.connected /\ q.heldOver = p.heldOver /\ q.buf = p.buf /\ q.wire = p.wire
      /\ q.published = p.published
  BY Zenon DEF Logs!Page
<1>. QED
  BY <1>1, <1>2, Zenon DEF SameLine, SameEvents
-----------------------------------------------------------------------------
(* The actions. Those below touch neither the line nor the events. *)

QuietStep ==
  \/ Logs!OldRenewal \/ Logs!TokenChanges \/ Logs!TogglePause \/ Logs!Search \/ Logs!Answers

\* So do the steps that are about tokens, queries and the screen.
LEMMA QuietFacts ==
  ASSUME Logs!LogsAssumption, pg \in Logs!Page, QuietStep
  PROVE  pg' \in Logs!Page /\ SameLine(pg, pg') /\ SameEvents(pg, pg')
<1>1. ASSUME NEW o \in BOOLEAN, NEW t \in Logs!Tokens, pg' = [pg EXCEPT !.oldRenew = o, !.token = t]
      PROVE  pg' \in Logs!Page /\ SameLine(pg, pg') /\ SameEvents(pg, pg')
  <2>1. pg' \in Logs!Page
    BY <1>1, Zenon DEF Logs!Page
  <2>2. /\ pg'.mode = pg.mode /\ pg'.sock = pg.sock /\ pg'.timer = pg.timer /\ pg'.renewing = pg.renewing
        /\ pg'.connected = pg.connected /\ pg'.heldOver = pg.heldOver /\ pg'.buf = pg.buf
        /\ pg'.wire = pg.wire
        /\ pg'.published = pg.published
    BY <1>1, Zenon DEF Logs!Page
  <2>. QED
    BY <2>1, <2>2, Zenon DEF SameLine, SameEvents
<1>2. CASE Logs!OldRenewal
  <2>1. PICK t \in {pg.token, "ok"} : pg' = [pg EXCEPT !.oldRenew = FALSE, !.token = t]
    BY <1>2, Zenon DEF Logs!OldRenewal
  <2>2. t \in Logs!Tokens /\ FALSE \in BOOLEAN
    BY <2>1, LogsMembers DEF Logs!Tokens
  <2>. QED
    BY <1>1, <2>1, <2>2, Zenon
<1>3. CASE Logs!TokenChanges
  <2>1. PICK t \in Logs!Tokens : pg' = [pg EXCEPT !.token = t]
    BY <1>3 DEF Logs!TokenChanges
  <2>2. pg' \in Logs!Page
    BY <2>1, Zenon DEF Logs!Page
  <2>3. /\ pg'.mode = pg.mode /\ pg'.sock = pg.sock /\ pg'.timer = pg.timer /\ pg'.renewing = pg.renewing
        /\ pg'.connected = pg.connected /\ pg'.heldOver = pg.heldOver /\ pg'.buf = pg.buf
        /\ pg'.wire = pg.wire
        /\ pg'.published = pg.published
    BY <2>1, Zenon DEF Logs!Page
  <2>. QED
    BY <2>2, <2>3, Zenon DEF SameLine, SameEvents
<1>4. CASE Logs!TogglePause
  <2>. DEFINE l == ~pg.live
              w == IF pg.live THEN pg.view ELSE [src |-> 0, rows |-> pg.buf]
  <2>1. l \in BOOLEAN
    OBVIOUS
  <2>2. w \in [src : 0..MaxQueries, rows : Seq(Logs!Events)]
    <3>1. pg.view \in [src : 0..MaxQueries, rows : Seq(Logs!Events)]
      BY Zenon DEF Logs!Page
    <3>2. [src |-> 0, rows |-> pg.buf] \in [src : 0..MaxQueries, rows : Seq(Logs!Events)]
      BY ViewType, LogsMembers DEF Logs!LogsAssumption
    <3>. QED
      BY <3>1, <3>2
  <2>3. pg' = [pg EXCEPT !.live = l, !.view = w]
    BY <1>4 DEF Logs!TogglePause
  <2>. HIDE DEF l, w
  <2>4. pg' \in Logs!Page
    BY <2>1, <2>2, <2>3, Zenon DEF Logs!Page
  <2>5. /\ pg'.mode = pg.mode /\ pg'.sock = pg.sock /\ pg'.timer = pg.timer /\ pg'.renewing = pg.renewing
        /\ pg'.connected = pg.connected /\ pg'.heldOver = pg.heldOver /\ pg'.buf = pg.buf
        /\ pg'.wire = pg.wire
        /\ pg'.published = pg.published
    BY <2>3, Zenon DEF Logs!Page
  <2>. QED
    BY <2>4, <2>5, Zenon DEF SameLine, SameEvents
<1>5. CASE Logs!Search
  BY <1>5, AskFacts DEF Logs!Search
<1>6. CASE Logs!Answers
  <2>1. PICK q \in 1..MaxQueries : Logs!Answered(q) \/ Logs!Failed(q)
    BY <1>6 DEF Logs!Answers
  <2>2. \E f \in SUBSET (1..MaxQueries), w \in [src : 0..MaxQueries, rows : Seq(Logs!Events)] :
          pg' = [pg EXCEPT !.inflight = f, !.loading = FALSE, !.view = w]
               \/ pg' = [pg EXCEPT !.inflight = f, !.loading = FALSE]
    <3>1. pg.inflight \ {q} \in SUBSET (1..MaxQueries)
      BY LogsMembers
    <3>2. q \in 0..MaxQueries /\ 0 \in 0..MaxQueries /\ <<>> \in Seq(Logs!Events)
      BY DEF Logs!LogsAssumption
    <3>3. [src |-> q, rows |-> <<>>] \in [src : 0..MaxQueries, rows : Seq(Logs!Events)]
      BY <3>2, ViewType
    <3>. QED
      BY <2>1, <3>1, <3>3, Zenon DEF Logs!Answered, Logs!Failed
  <2>3. PICK f \in SUBSET (1..MaxQueries), w \in [src : 0..MaxQueries, rows : Seq(Logs!Events)] :
          pg' = [pg EXCEPT !.inflight = f, !.loading = FALSE, !.view = w]
               \/ pg' = [pg EXCEPT !.inflight = f, !.loading = FALSE]
    BY <2>2
  <2>4. pg' \in Logs!Page
    <3>1. [pg EXCEPT !.inflight = f, !.loading = FALSE, !.view = w] \in Logs!Page
      BY Zenon DEF Logs!Page
    <3>2. [pg EXCEPT !.inflight = f, !.loading = FALSE] \in Logs!Page
      BY Zenon DEF Logs!Page
    <3>. QED
      BY <2>3, <3>1, <3>2, Zenon
  <2>5. /\ pg'.mode = pg.mode /\ pg'.sock = pg.sock /\ pg'.timer = pg.timer /\ pg'.renewing = pg.renewing
        /\ pg'.connected = pg.connected /\ pg'.heldOver = pg.heldOver /\ pg'.buf = pg.buf
        /\ pg'.wire = pg.wire
        /\ pg'.published = pg.published
    BY <2>3, ZenonT(40) DEF Logs!Page
  <2>. QED
    BY <2>4, <2>5, Zenon DEF SameLine, SameEvents
<1>. QED
  BY <1>2, <1>3, <1>4, <1>5, <1>6 DEF QuietStep
-----------------------------------------------------------------------------
(* The line to the gateway. *)

LogsFields ==
  {"page", "mode", "live", "view", "buf", "loading", "connected", "heldOver", "sock", "offered", "wire",
   "timer", "renewing", "oldRenew", "token", "reject", "published", "inflight", "asked", "drops"}

\* At most one of socket, timer and renewal, none in history, and a badge that agrees with them unless it
\* is held over.
LineOK(p) ==
  /\ p.mode = "live" \/ (p.sock = "none" /\ ~p.timer /\ ~p.renewing)
  /\ ~(p.timer /\ p.renewing)
  /\ p.sock # "none" => ~p.timer /\ ~p.renewing
  /\ p.mode = "live" => (p.connected <=> p.sock = "open" \/ p.heldOver)
  /\ p.timer \/ p.renewing => ~p.connected

\* The line of a page as it is mounted.
LEMMA LogsLine ==
  ASSUME Logs!LogsAssumption, NEW p \in Logs!Mounted
  PROVE  /\ p \in Logs!Page /\ LineOK(p) /\ p.buf = <<>> /\ p.wire = <<>> /\ p.view.rows = <<>>
         /\ DOMAIN p = LogsFields
<1>1. PICK t \in {"ok", "expired"}, r \in RejectCodes :
        p = [page |-> "logs", mode |-> "live", live |-> TRUE, view |-> [src |-> 0, rows |-> <<>>],
             buf |-> <<>>, loading |-> FALSE, connected |-> FALSE, heldOver |-> FALSE, sock |-> "connecting",
             offered |-> t, wire |-> <<>>, timer |-> FALSE, renewing |-> FALSE, oldRenew |-> FALSE, token |-> t,
             reject |-> r, published |-> 0, inflight |-> {}, asked |-> 0, drops |-> 0]
  BY DEF Logs!Mounted
<1>2. /\ 0 \in 0..MaxQueries /\ 0 \in 0..MaxEvents /\ 0 \in 0..MaxDrops /\ <<>> \in Seq(Logs!Events)
      /\ {} \in SUBSET (1..MaxQueries) /\ t \in Logs!Tokens
      /\ [src |-> 0, rows |-> <<>>] \in [src : 0..MaxQueries, rows : Seq(Logs!Events)]
  BY ViewType DEF Logs!LogsAssumption, Logs!Tokens
<1>3. p \in Logs!Page
  BY <1>1, <1>2, Zenon DEF Logs!Page
<1>4. /\ p.mode = "live" /\ p.sock = "connecting" /\ p.timer = FALSE /\ p.renewing = FALSE
      /\ p.connected = FALSE /\ p.heldOver = FALSE /\ p.buf = <<>> /\ p.wire = <<>> /\ p.view.rows = <<>>
  BY <1>1
<1>5. DOMAIN p = LogsFields
  BY <1>1 DEF LogsFields
<1>. QED
  BY <1>3, <1>4, <1>5 DEF LineOK

\* What the events are after a step of the line: those on the wire of a closed socket are lost.
LineKeeps == pg'.buf = pg.buf /\ pg'.published = pg.published /\ pg'.wire \in {pg.wire, <<>>}

\* The steps of the line keep it consistent, and the events in order.
LEMMA LineFacts ==
  ASSUME Logs!LogsAssumption, pg \in Logs!Page, LineOK(pg), Logs!Line
  PROVE  pg' \in Logs!Page /\ LineOK(pg') /\ LineKeeps
<1>. USE DEF LineKeeps
<1>1. CASE Logs!Reconnect
  <2>. DEFINE q == [pg EXCEPT !.timer = FALSE]
  <2>1. q \in Logs!Page
    BY Zenon DEF Logs!Page
  <2>2. /\ q.mode = pg.mode /\ q.sock = pg.sock /\ q.timer = FALSE /\ q.renewing = pg.renewing
        /\ q.connected = pg.connected /\ q.heldOver = pg.heldOver /\ q.buf = pg.buf
        /\ q.wire = pg.wire /\ q.published = pg.published
    BY Zenon DEF Logs!Page
  <2>3. pg' = Logs!Connect(q) /\ pg.timer
    BY <1>1 DEF Logs!Reconnect
  <2>. HIDE DEF q
  <2>4. /\ Logs!Connect(q) \in Logs!Page /\ SameEvents(q, Logs!Connect(q))
        /\ Logs!Connect(q).sock \in {q.sock, "connecting"}
        /\ Logs!Connect(q).mode = q.mode /\ Logs!Connect(q).timer = q.timer /\ Logs!Connect(q).renewing = q.renewing
        /\ Logs!Connect(q).connected = q.connected /\ Logs!Connect(q).heldOver = q.heldOver
    BY <2>1, ConnectFacts
  <2>5. pg.sock = "none" /\ ~pg.renewing /\ ~pg.connected /\ ~pg.heldOver /\ pg.mode = "live"
    BY <2>3, LogsMembers DEF LineOK
  <2>. QED
    BY <2>2, <2>3, <2>4, <2>5 DEF LineOK, SameEvents
<1>2. CASE Logs!Opened
  <2>1. pg' = [pg EXCEPT !.sock = "open", !.connected = TRUE, !.heldOver = FALSE]
        /\ pg.sock = "connecting"
    BY <1>2 DEF Logs!Opened
  <2>2. pg' \in Logs!Page
    BY <2>1, Zenon DEF Logs!Page
  <2>3. /\ pg'.mode = pg.mode /\ pg'.sock = "open" /\ pg'.timer = pg.timer /\ pg'.renewing = pg.renewing
        /\ pg'.connected = TRUE /\ pg'.heldOver = FALSE /\ pg'.buf = pg.buf /\ pg'.wire = pg.wire
        /\ pg'.published = pg.published
    BY <2>1, Zenon DEF Logs!Page
  <2>. QED
    BY <2>1, <2>2, <2>3 DEF LineOK
<1>3. CASE Logs!Refused
  <2>1. pg' = Logs!Closes(pg, pg.reject) /\ pg.sock = "connecting"
    BY <1>3 DEF Logs!Refused
  <2>. QED
    BY <2>1, ClosesFacts DEF LineOK
<1>4. CASE Logs!Renewed
  <2>1. pg' = [pg EXCEPT !.renewing = FALSE, !.token = "ok", !.timer = TRUE] /\ pg.renewing
    BY <1>4 DEF Logs!Renewed
  <2>2. pg' \in Logs!Page
    BY <2>1, Zenon DEF Logs!Page, Logs!Tokens
  <2>3. /\ pg'.mode = pg.mode /\ pg'.sock = pg.sock /\ pg'.timer = TRUE /\ pg'.renewing = FALSE
        /\ pg'.connected = pg.connected /\ pg'.heldOver = pg.heldOver /\ pg'.buf = pg.buf
        /\ pg'.wire = pg.wire
        /\ pg'.published = pg.published
    BY <2>1, Zenon DEF Logs!Page
  <2>. QED
    BY <2>1, <2>2, <2>3, LogsMembers DEF LineOK
<1>5. CASE Logs!NotRenewed
  <2>1. pg' = [pg EXCEPT !.renewing = FALSE]
    BY <1>5 DEF Logs!NotRenewed
  <2>2. pg' \in Logs!Page
    BY <2>1, Zenon DEF Logs!Page
  <2>3. /\ pg'.mode = pg.mode /\ pg'.sock = pg.sock /\ pg'.timer = pg.timer /\ pg'.renewing = FALSE
        /\ pg'.connected = pg.connected /\ pg'.heldOver = pg.heldOver /\ pg'.buf = pg.buf
        /\ pg'.wire = pg.wire
        /\ pg'.published = pg.published
    BY <2>1, Zenon DEF Logs!Page
  <2>. QED
    BY <2>2, <2>3 DEF LineOK
<1>. QED
  BY <1>1, <1>2, <1>3, <1>4, <1>5 DEF Logs!Line

\* So do a dropped connection and a change between live and history.
LEMMA ModeFacts ==
  ASSUME Logs!LogsAssumption, pg \in Logs!Page, LineOK(pg), Logs!Dropped \/ Logs!ToHistory \/ Logs!ToLive
  PROVE  pg' \in Logs!Page /\ LineOK(pg') /\ LineKeeps
<1>. USE DEF LineKeeps
<1>1. CASE Logs!Dropped
  <2>. DEFINE n == pg.drops + 1
              q == [pg EXCEPT !.drops = n]
  <2>1. n \in 0..MaxDrops /\ pg' = Logs!Closes(q, 1006)
    BY <1>1, LogsMembers DEF Logs!Dropped, Logs!LogsAssumption
  <2>. HIDE DEF n
  <2>2. q \in Logs!Page
    BY <2>1, Zenon DEF Logs!Page
  <2>3. q.mode = pg.mode /\ q.buf = pg.buf /\ q.published = pg.published
    BY Zenon DEF Logs!Page
  <2>4. pg.mode = "live"
    BY <1>1, LogsMembers DEF Logs!Dropped, LineOK
  <2>. HIDE DEF q
  <2>. QED
    BY <2>1, <2>2, <2>3, <2>4, ClosesFacts DEF LineOK
<1>2. CASE Logs!ToHistory
  <2>. DEFINE q == [pg EXCEPT !.mode = "history"]
              r == Logs!Cleanup(q)
  <2>1. pg' = Logs!Ask(r) /\ pg.asked < MaxQueries
    BY <1>2 DEF Logs!ToHistory
  <2>2. q \in Logs!Page
    BY Zenon DEF Logs!Page
  <2>3. q.mode = "history" /\ q.buf = pg.buf /\ q.published = pg.published /\ q.asked = pg.asked
    BY Zenon DEF Logs!Page
  <2>. HIDE DEF q
  <2>4. /\ r \in Logs!Page /\ r.sock = "none" /\ ~r.timer /\ ~r.renewing /\ r.wire = <<>>
        /\ r.mode = "history" /\ r.buf = pg.buf /\ r.published = pg.published /\ r.asked = pg.asked
    BY <2>2, <2>3, CleanupFacts
  <2>. HIDE DEF r
  <2>5. Logs!Ask(r) \in Logs!Page /\ SameLine(r, Logs!Ask(r)) /\ SameEvents(r, Logs!Ask(r))
    BY <2>1, <2>4, AskFacts
  <2>. QED
    BY <2>1, <2>4, <2>5 DEF LineOK, SameLine, SameEvents
<1>3. CASE Logs!ToLive
  <2>. DEFINE v == [src |-> 0, rows |-> pg.buf]
              q == [pg EXCEPT !.mode = "live", !.view = v, !.heldOver = pg.connected]
  <2>1. pg' = Logs!Connect(q) /\ pg.mode = "history"
    BY <1>3 DEF Logs!ToLive
  <2>2. v \in [src : 0..MaxQueries, rows : Seq(Logs!Events)]
    BY ViewType, LogsMembers DEF Logs!LogsAssumption
  <2>. HIDE DEF v
  <2>3. q \in Logs!Page
    BY <2>2, Zenon DEF Logs!Page
  <2>4. /\ q.mode = "live" /\ q.sock = pg.sock /\ q.timer = pg.timer /\ q.renewing = pg.renewing
        /\ q.connected = pg.connected /\ q.heldOver = pg.connected /\ q.buf = pg.buf
        /\ q.wire = pg.wire /\ q.published = pg.published
    BY Zenon DEF Logs!Page
  <2>. HIDE DEF q
  <2>5. /\ Logs!Connect(q) \in Logs!Page /\ SameEvents(q, Logs!Connect(q))
        /\ Logs!Connect(q).sock \in {q.sock, "connecting"}
        /\ Logs!Connect(q).mode = q.mode /\ Logs!Connect(q).timer = q.timer /\ Logs!Connect(q).renewing = q.renewing
        /\ Logs!Connect(q).connected = q.connected /\ Logs!Connect(q).heldOver = q.heldOver
    BY <2>3, ConnectFacts
  <2>6. pg.sock = "none" /\ ~pg.timer /\ ~pg.renewing
    BY <2>1 DEF LineOK
  <2>. QED
    BY <2>1, <2>4, <2>5, <2>6 DEF LineOK, SameEvents
<1>. QED
  BY <1>1, <1>2, <1>3
-----------------------------------------------------------------------------
(* The events: published, received, cleared. *)

\* The newest MaxLive elements of a sequence are its last ones.
LEMMA LatestFacts ==
  ASSUME Logs!LogsAssumption, NEW s \in Seq(Logs!Events)
  PROVE  LET d == Len(s) - Len(Logs!Latest(s))
         IN  /\ Logs!Latest(s) \in Seq(Logs!Events) /\ Len(Logs!Latest(s)) <= MaxLive /\ d \in 0..Len(s)
             /\ \A i \in 1..Len(Logs!Latest(s)) : Logs!Latest(s)[i] = s[i + d]
<1>1. CASE Len(s) > MaxLive
  <2>1. Logs!Latest(s) = SubSeq(s, Len(s) - MaxLive + 1, Len(s))
    BY <1>1 DEF Logs!Latest
  <2>2. Len(s) - MaxLive + 1 \in 1..Len(s)
    BY <1>1 DEF Logs!LogsAssumption
  <2>3. Logs!Latest(s) \in Seq(Logs!Events) /\ Len(Logs!Latest(s)) = MaxLive
    BY <2>1, <2>2 DEF Logs!LogsAssumption
  <2>4. \A i \in 1..Len(Logs!Latest(s)) : Logs!Latest(s)[i] = s[i + (Len(s) - MaxLive)]
    BY <2>1, <2>2, <2>3 DEF Logs!LogsAssumption
  <2>. QED
    BY <1>1, <2>3, <2>4 DEF Logs!LogsAssumption
<1>2. CASE ~(Len(s) > MaxLive)
  BY <1>2 DEF Logs!Latest, Logs!LogsAssumption
<1>. QED
  BY <1>1, <1>2

\* An event is published, and reaches the wire or not.
LEMMA PublishFacts ==
  ASSUME Logs!LogsAssumption, pg \in Logs!Page, Logs!Publish
  PROVE  /\ pg' \in Logs!Page /\ SameLine(pg, pg') /\ pg'.buf = pg.buf
         /\ pg'.published = pg.published + 1
         /\ pg'.wire \in {pg.wire, Append(pg.wire, pg.published + 1)}
<1>. DEFINE n == pg.published + 1
<1>1. n \in 0..MaxEvents /\ n \in Logs!Events
  BY LogsMembers DEF Logs!Publish, Logs!Events, Logs!LogsAssumption
<1>2. PICK w \in {pg.wire, Append(pg.wire, n)} : pg' = [pg EXCEPT !.published = n, !.wire = w]
  BY DEF Logs!Publish
<1>3. w \in Seq(Logs!Events)
  <2>1. pg.wire \in Seq(Logs!Events)
    BY LogsMembers
  <2>2. Append(pg.wire, n) \in Seq(Logs!Events)
    BY <1>1, <2>1
  <2>. QED
    BY <1>2, <2>1, <2>2
<1>. HIDE DEF n
<1>4. pg' \in Logs!Page
  BY <1>1, <1>2, <1>3, Zenon DEF Logs!Page
<1>5. /\ pg'.mode = pg.mode /\ pg'.sock = pg.sock /\ pg'.timer = pg.timer /\ pg'.renewing = pg.renewing
      /\ pg'.connected = pg.connected /\ pg'.heldOver = pg.heldOver /\ pg'.buf = pg.buf
      /\ pg'.wire = w /\ pg'.published = n
  BY <1>2, Zenon DEF Logs!Page
<1>. QED
  BY <1>2, <1>4, <1>5, Zenon DEF SameLine, n

\* A batch moves from the wire to the buffer.
LEMMA ReceiveFacts ==
  ASSUME Logs!LogsAssumption, pg \in Logs!Page, NEW k \in 1..MaxEvents, Logs!Receive(k)
  PROVE  /\ pg' \in Logs!Page /\ SameLine(pg, pg') /\ pg'.published = pg.published
         /\ k \in 1..Len(pg.wire)
         /\ pg'.buf = Logs!Latest(pg.buf \o SubSeq(pg.wire, 1, k))
         /\ pg'.wire = SubSeq(pg.wire, k + 1, Len(pg.wire))
<1>. DEFINE b == Logs!Latest(pg.buf \o SubSeq(pg.wire, 1, k))
            w == SubSeq(pg.wire, k + 1, Len(pg.wire))
            v == IF pg.live THEN [src |-> 0, rows |-> b] ELSE pg.view
<1>1. k \in 1..Len(pg.wire) /\ pg.wire \in Seq(Logs!Events) /\ pg.buf \in Seq(Logs!Events) /\ Len(pg.wire) \in Nat
  BY LogsMembers DEF Logs!Receive
<1>2. SubSeq(pg.wire, 1, k) \in Seq(Logs!Events) /\ w \in Seq(Logs!Events)
  BY <1>1
<1>3. b \in Seq(Logs!Events)
  <2>1. pg.buf \o SubSeq(pg.wire, 1, k) \in Seq(Logs!Events)
    BY <1>1, <1>2
  <2>. QED
    BY <2>1, LatestFacts
<1>4. v \in [src : 0..MaxQueries, rows : Seq(Logs!Events)]
  <2>1. pg.view \in [src : 0..MaxQueries, rows : Seq(Logs!Events)]
    BY Zenon DEF Logs!Page
  <2>2. [src |-> 0, rows |-> b] \in [src : 0..MaxQueries, rows : Seq(Logs!Events)]
    BY <1>3, ViewType DEF Logs!LogsAssumption
  <2>. QED
    BY <2>1, <2>2
<1>5. pg' = [pg EXCEPT !.wire = w, !.buf = b, !.view = v]
  BY DEF Logs!Receive
<1>. HIDE DEF b, w, v
<1>6. pg' \in Logs!Page
  BY <1>2, <1>3, <1>4, <1>5, Zenon DEF Logs!Page
<1>7. /\ pg'.mode = pg.mode /\ pg'.sock = pg.sock /\ pg'.timer = pg.timer /\ pg'.renewing = pg.renewing
      /\ pg'.connected = pg.connected /\ pg'.heldOver = pg.heldOver /\ pg'.buf = b /\ pg'.wire = w
      /\ pg'.published = pg.published
  BY <1>5, Zenon DEF Logs!Page
<1>. QED
  BY <1>1, <1>6, <1>7, Zenon DEF SameLine, b, w

\* The buffer is emptied.
LEMMA ClearFacts ==
  ASSUME Logs!LogsAssumption, pg \in Logs!Page, Logs!Clear
  PROVE  /\ pg' \in Logs!Page /\ SameLine(pg, pg') /\ pg'.published = pg.published
         /\ pg'.buf = <<>> /\ pg'.wire = pg.wire
<1>. DEFINE v == [src |-> 0, rows |-> <<>>]
<1>1. v \in [src : 0..MaxQueries, rows : Seq(Logs!Events)] /\ <<>> \in Seq(Logs!Events)
  BY ViewType DEF Logs!LogsAssumption
<1>2. pg' = [pg EXCEPT !.view = v, !.buf = <<>>]
  BY DEF Logs!Clear
<1>. HIDE DEF v
<1>3. pg' \in Logs!Page
  BY <1>1, <1>2, Zenon DEF Logs!Page
<1>4. /\ pg'.mode = pg.mode /\ pg'.sock = pg.sock /\ pg'.timer = pg.timer /\ pg'.renewing = pg.renewing
      /\ pg'.connected = pg.connected /\ pg'.heldOver = pg.heldOver /\ pg'.buf = <<>> /\ pg'.wire = pg.wire
      /\ pg'.published = pg.published
  BY <1>2, Zenon DEF Logs!Page
<1>. QED
  BY <1>3, <1>4, Zenon DEF SameLine
-----------------------------------------------------------------------------
(* The order of the events: buffer, then wire, then what is still to be published. *)

InOrder(buf, wire, last) ==
  /\ \A i, j \in 1..Len(buf) : i < j => buf[i] < buf[j]
  /\ \A i, j \in 1..Len(wire) : i < j => wire[i] < wire[j]
  /\ \A i \in 1..Len(buf), j \in 1..Len(wire) : buf[i] < wire[j]
  /\ \A i \in 1..Len(buf) : buf[i] <= last
  /\ \A i \in 1..Len(wire) : wire[i] <= last

OrderOK(p) == Len(p.buf) <= MaxLive /\ InOrder(p.buf, p.wire, p.published)

\* The next event comes after all others.
LEMMA Appended ==
  ASSUME NEW buf \in Seq(Int), NEW wire \in Seq(Int), NEW last \in Int, InOrder(buf, wire, last)
  PROVE  InOrder(buf, Append(wire, last + 1), last + 1) /\ InOrder(buf, wire, last + 1)
<1>. DEFINE w == Append(wire, last + 1)
<1>1. Len(w) = Len(wire) + 1 /\ Len(wire) \in Nat /\ Len(buf) \in Nat
  OBVIOUS
<1>2. /\ w[Len(wire) + 1] = last + 1
      /\ \A i \in 1..Len(wire) : w[i] = wire[i] /\ wire[i] \in Int
      /\ \A i \in 1..Len(buf) : buf[i] \in Int
  OBVIOUS
<1>. HIDE DEF w
<1>3. \A i \in 1..Len(w) : i \in 1..Len(wire) \/ i = Len(wire) + 1
  BY <1>1
<1>4. ASSUME NEW i \in 1..Len(w), NEW j \in 1..Len(w), i < j
      PROVE  w[i] < w[j]
  <2>1. i \in 1..Len(wire)
    BY <1>1, <1>4
  <2>2. CASE j \in 1..Len(wire)
    BY <1>2, <1>4, <2>1, <2>2 DEF InOrder
  <2>3. CASE j = Len(wire) + 1
    <3>1. wire[i] <= last /\ w[i] = wire[i] /\ w[j] = last + 1 /\ wire[i] \in Int
      BY <1>2, <2>1, <2>3 DEF InOrder
    <3>. QED
      BY <3>1
  <2>. QED
    BY <1>3, <2>2, <2>3
<1>5. ASSUME NEW i \in 1..Len(buf), NEW j \in 1..Len(w)
      PROVE  buf[i] < w[j]
  <2>1. CASE j \in 1..Len(wire)
    BY <1>2, <2>1 DEF InOrder
  <2>2. CASE j = Len(wire) + 1
    <3>1. buf[i] <= last /\ w[j] = last + 1 /\ buf[i] \in Int
      BY <1>2, <2>2 DEF InOrder
    <3>. QED
      BY <3>1
  <2>. QED
    BY <1>3, <2>1, <2>2
<1>6. ASSUME NEW i \in 1..Len(w) PROVE w[i] <= last + 1
  <2>1. CASE i \in 1..Len(wire)
    <3>1. wire[i] <= last /\ w[i] = wire[i] /\ wire[i] \in Int
      BY <1>2, <2>1 DEF InOrder
    <3>. QED
      BY <3>1
  <2>2. CASE i = Len(wire) + 1
    BY <1>2, <2>2
  <2>. QED
    BY <1>3, <2>1, <2>2
<1>7. ASSUME NEW i \in 1..Len(buf) PROVE buf[i] <= last + 1
  BY <1>2 DEF InOrder
<1>8. ASSUME NEW i \in 1..Len(wire) PROVE wire[i] <= last + 1
  BY <1>2 DEF InOrder
<1>9. InOrder(buf, w, last + 1) /\ InOrder(buf, wire, last + 1)
  BY <1>4, <1>5, <1>6, <1>7, <1>8 DEF InOrder
<1>. QED
  BY <1>9 DEF w

\* A batch moves from the wire to the buffer.
LEMMA Moved ==
  ASSUME NEW buf \in Seq(Int), NEW wire \in Seq(Int), NEW last \in Int, InOrder(buf, wire, last),
         NEW k \in 1..Len(wire)
  PROVE  InOrder(buf \o SubSeq(wire, 1, k), SubSeq(wire, k + 1, Len(wire)), last)
<1>. DEFINE s == buf \o SubSeq(wire, 1, k)
            w == SubSeq(wire, k + 1, Len(wire))
            m == Len(buf)
            n == Len(wire)
<1>1. m \in Nat /\ n \in Nat /\ k \in 1..n
  OBVIOUS
<1>2. SubSeq(wire, 1, k) \in Seq(Int) /\ Len(SubSeq(wire, 1, k)) = k
      /\ \A i \in 1..k : SubSeq(wire, 1, k)[i] = wire[i]
  BY <1>1
<1>3. Len(s) = m + k
  BY <1>1, <1>2
<1>4. \A i \in 1..(m + k) : (i \in 1..m /\ s[i] = buf[i]) \/ (i - m \in 1..k /\ s[i] = wire[i - m])
  BY <1>1, <1>2
<1>5. Len(w) = n - k
  BY <1>1
<1>6. \A i \in 1..(n - k) : w[i] = wire[i + k] /\ i + k \in 1..n
  BY <1>1, SMTT(30)
<1>7. \A i \in 1..m : buf[i] \in Int
  OBVIOUS
<1>8. \A i \in 1..n : wire[i] \in Int
  OBVIOUS
<1>. HIDE DEF s, w, m, n
<1>9. /\ \A i, j \in 1..m : i < j => buf[i] < buf[j]
      /\ \A i, j \in 1..n : i < j => wire[i] < wire[j]
      /\ \A i \in 1..m, j \in 1..n : buf[i] < wire[j]
      /\ \A i \in 1..m : buf[i] <= last
      /\ \A i \in 1..n : wire[i] <= last
  BY DEF InOrder, m, n
<1>10. ASSUME NEW i \in 1..(m + k), NEW j \in 1..(m + k), i < j
       PROVE  s[i] < s[j]
  <2>1. CASE i \in 1..m /\ s[i] = buf[i]
    BY <1>1, <1>4, <1>9, <1>10, <2>1, SMTT(30)
  <2>2. CASE i - m \in 1..k /\ s[i] = wire[i - m]
    <3>1. j - m \in 1..k /\ s[j] = wire[j - m]
      <4>1. j \notin 1..m
        BY <1>1, <1>10, <2>2
      <4>. QED
        BY <1>4, <4>1
    <3>2. i - m \in 1..n /\ j - m \in 1..n /\ i - m < j - m
      BY <1>1, <1>10, <2>2, <3>1
    <3>. QED
      BY <1>9, <2>2, <3>1, <3>2
  <2>. QED
    BY <1>4, <2>1, <2>2
<1>11. ASSUME NEW i \in 1..(n - k), NEW j \in 1..(n - k), i < j
       PROVE  w[i] < w[j]
  <2>1. i + k < j + k
    BY <1>1, <1>11
  <2>. QED
    BY <1>6, <1>9, <2>1
<1>12. ASSUME NEW i \in 1..(m + k), NEW j \in 1..(n - k)
       PROVE  s[i] < w[j]
  <2>1. w[j] = wire[j + k] /\ j + k \in 1..n
    BY <1>6
  <2>2. CASE i \in 1..m /\ s[i] = buf[i]
    BY <1>9, <2>1, <2>2
  <2>3. CASE i - m \in 1..k /\ s[i] = wire[i - m]
    <3>1. i - m \in 1..n /\ i - m < j + k
      BY <1>1, <2>3
    <3>. QED
      BY <1>9, <2>1, <2>3, <3>1
  <2>. QED
    BY <1>4, <2>2, <2>3
<1>13. ASSUME NEW i \in 1..(m + k) PROVE s[i] <= last
  <2>1. CASE i \in 1..m /\ s[i] = buf[i]
    BY <1>9, <2>1
  <2>2. CASE i - m \in 1..k /\ s[i] = wire[i - m]
    <3>1. i - m \in 1..n
      BY <1>1, <2>2
    <3>. QED
      BY <1>9, <2>2, <3>1
  <2>. QED
    BY <1>4, <2>1, <2>2
<1>14. ASSUME NEW i \in 1..(n - k) PROVE w[i] <= last
  BY <1>6, <1>9
<1>15. InOrder(s, w, last)
  BY <1>3, <1>5, <1>10, <1>11, <1>12, <1>13, <1>14 DEF InOrder
<1>. QED
  BY <1>15 DEF s, w, n

\* The oldest events leave the buffer.
LEMMA Trimmed ==
  ASSUME Logs!LogsAssumption, NEW buf \in Seq(Logs!Events), NEW wire \in Seq(Int), NEW last \in Int,
         InOrder(buf, wire, last)
  PROVE  InOrder(Logs!Latest(buf), wire, last)
<1>. DEFINE b == Logs!Latest(buf)
            d == Len(buf) - Len(b)
<1>1. b \in Seq(Logs!Events) /\ d \in 0..Len(buf) /\ \A i \in 1..Len(b) : b[i] = buf[i + d]
  BY LatestFacts
<1>2. Len(b) \in Nat /\ Len(buf) \in Nat
  BY <1>1
<1>3. \A i \in 1..Len(b) : i + d \in 1..Len(buf)
  BY <1>1, <1>2
<1>. HIDE DEF b
<1>4. ASSUME NEW i \in 1..Len(b), NEW j \in 1..Len(b), i < j PROVE b[i] < b[j]
  <2>1. i + d < j + d
    BY <1>1, <1>2, <1>4
  <2>. QED
    BY <1>1, <1>3, <2>1 DEF InOrder
<1>5. \A i \in 1..Len(b), j \in 1..Len(wire) : b[i] < wire[j]
  BY <1>1, <1>3 DEF InOrder
<1>6. \A i \in 1..Len(b) : b[i] <= last
  BY <1>1, <1>3 DEF InOrder
<1>7. InOrder(b, wire, last)
  BY <1>4, <1>5, <1>6 DEF InOrder
<1>. QED
  BY <1>7 DEF b

\* Sequences of events are sequences of numbers.
LEMMA Numbers ==
  ASSUME Logs!LogsAssumption
  PROVE  \A s \in Seq(Logs!Events) : s \in Seq(Int)
BY DEF Logs!Events, Logs!LogsAssumption

\* An event that is published keeps the order.
LEMMA PublishOrder ==
  ASSUME Logs!LogsAssumption, pg \in Logs!Page, OrderOK(pg), Logs!Publish
  PROVE  OrderOK(pg')
<1>1. /\ pg'.buf = pg.buf /\ pg'.published = pg.published + 1
      /\ pg'.wire \in {pg.wire, Append(pg.wire, pg.published + 1)}
  BY PublishFacts
<1>2. pg.buf \in Seq(Int) /\ pg.wire \in Seq(Int) /\ pg.published \in Int
  BY LogsMembers, Numbers DEF Logs!LogsAssumption
<1>3. InOrder(pg.buf, pg.wire, pg.published) /\ Len(pg.buf) <= MaxLive
  BY DEF OrderOK, InOrder
<1>4. InOrder(pg'.buf, pg'.wire, pg'.published)
  BY <1>1, <1>2, <1>3, Appended
<1>. QED
  BY <1>1, <1>3, <1>4 DEF OrderOK, InOrder

\* A batch that is received keeps the order.
LEMMA ReceiveOrder ==
  ASSUME Logs!LogsAssumption, pg \in Logs!Page, OrderOK(pg), NEW k \in 1..MaxEvents, Logs!Receive(k)
  PROVE  OrderOK(pg')
<1>. DEFINE s == pg.buf \o SubSeq(pg.wire, 1, k)
            w == SubSeq(pg.wire, k + 1, Len(pg.wire))
<1>1. pg'.published = pg.published /\ k \in 1..Len(pg.wire) /\ pg'.buf = Logs!Latest(s) /\ pg'.wire = w
  BY ReceiveFacts
<1>2. /\ pg.buf \in Seq(Logs!Events) /\ pg.wire \in Seq(Logs!Events) /\ pg.published \in Int
      /\ pg.buf \in Seq(Int) /\ pg.wire \in Seq(Int)
  BY LogsMembers, Numbers DEF Logs!LogsAssumption
<1>3. InOrder(pg.buf, pg.wire, pg.published)
  BY DEF OrderOK, InOrder
<1>4. InOrder(s, w, pg.published)
  BY <1>1, <1>2, <1>3, Moved
<1>5. SubSeq(pg.wire, 1, k) \in Seq(Logs!Events)
  BY <1>1, <1>2
<1>6. s \in Seq(Logs!Events) /\ w \in Seq(Int)
  BY <1>1, <1>2, <1>5
<1>. HIDE DEF s, w
<1>7. InOrder(Logs!Latest(s), w, pg.published) /\ Len(Logs!Latest(s)) <= MaxLive
  BY <1>2, <1>4, <1>6, Trimmed, LatestFacts
<1>. QED
  BY <1>1, <1>7 DEF OrderOK, InOrder
-----------------------------------------------------------------------------
(* The stream on screen. *)

ViewOK(p) == p.mode = "live" /\ p.live /\ p.view.src = 0 => p.view.rows = p.buf

SameScreen(p, q) == q.mode = p.mode /\ q.live = p.live /\ q.view = p.view /\ q.buf = p.buf

PausedStands ==
  pg.mode = "live" /\ ~pg.live /\ pg'.mode = "live" /\ ~pg'.live => pg'.view = pg.view \/ pg'.view.rows = <<>>

\* Neither the line nor a query touches the screen before there is an answer.
LEMMA ScreenFacts ==
  ASSUME NEW p \in Logs!Page
  PROVE  /\ SameScreen(p, Logs!Connect(p)) /\ SameScreen(p, Logs!Ask(p))
         /\ \A code : SameScreen(p, Logs!Closes(p, code))
<1>1. SameScreen(p, Logs!Connect(p))
  <2>1. CASE p.token = "gone"
    BY <2>1, Zenon DEF Logs!Connect, SameScreen
  <2>2. CASE p.token # "gone"
    <3>. DEFINE q == [p EXCEPT !.sock = "connecting", !.offered = p.token]
    <3>1. SameScreen(p, q)
      BY Zenon DEF Logs!Page, SameScreen
    <3>2. Logs!Connect(p) = q
      BY <2>2 DEF Logs!Connect
    <3>. QED
      BY <3>1, <3>2, Zenon
  <2>. QED
    BY <2>1, <2>2
<1>2. SameScreen(p, Logs!Ask(p))
  BY Zenon DEF Logs!Page, SameScreen, Logs!Ask
<1>3. ASSUME NEW code PROVE SameScreen(p, Logs!Closes(p, code))
  <2>. DEFINE a == code = 1008 /\ p.token # "gone"
              b == code # 1008
              q == [p EXCEPT !.sock = "none", !.connected = FALSE, !.heldOver = FALSE, !.wire = <<>>,
                           !.renewing = a, !.timer = b]
  <2>1. Logs!Closes(p, code) = q
    BY DEF Logs!Closes
  <2>. HIDE DEF a, b
  <2>2. SameScreen(p, q)
    BY Zenon DEF Logs!Page, SameScreen
  <2>. QED
    BY <2>1, <2>2
<1>. QED
  BY <1>1, <1>2, <1>3

\* The steps that leave the screen alone.
LEMMA SameScreenSteps ==
  ASSUME Logs!LogsAssumption, pg \in Logs!Page,
         \/ Logs!Line \/ Logs!Dropped \/ Logs!OldRenewal \/ Logs!TokenChanges \/ Logs!Publish
         \/ Logs!Search \/ \E q \in 1..MaxQueries : Logs!Failed(q)
  PROVE  SameScreen(pg, pg')
<1>1. CASE Logs!Reconnect
  <2>. DEFINE q == [pg EXCEPT !.timer = FALSE]
  <2>1. q \in Logs!Page /\ SameScreen(pg, q)
    BY Zenon DEF Logs!Page, SameScreen
  <2>2. pg' = Logs!Connect(q)
    BY <1>1 DEF Logs!Reconnect
  <2>. HIDE DEF q
  <2>3. SameScreen(q, Logs!Connect(q))
    BY <2>1, ScreenFacts
  <2>. QED
    BY <2>1, <2>2, <2>3, Zenon DEF SameScreen
<1>2. CASE Logs!Opened
  BY <1>2, Zenon DEF Logs!Opened, Logs!Page, SameScreen
<1>3. CASE Logs!Refused
  BY <1>3, ScreenFacts DEF Logs!Refused
<1>4. CASE Logs!Renewed
  BY <1>4, Zenon DEF Logs!Renewed, Logs!Page, SameScreen
<1>5. CASE Logs!NotRenewed
  BY <1>5, Zenon DEF Logs!NotRenewed, Logs!Page, SameScreen
<1>6. CASE Logs!Dropped
  <2>. DEFINE n == pg.drops + 1
              q == [pg EXCEPT !.drops = n]
  <2>1. pg' = Logs!Closes(q, 1006) /\ n \in 0..MaxDrops
    BY <1>6, LogsMembers DEF Logs!Dropped, Logs!LogsAssumption
  <2>. HIDE DEF n
  <2>2. q \in Logs!Page /\ SameScreen(pg, q)
    BY <2>1, Zenon DEF Logs!Page, SameScreen
  <2>. HIDE DEF q
  <2>3. SameScreen(q, pg')
    BY <2>1, <2>2, ScreenFacts
  <2>. QED
    BY <2>2, <2>3 DEF SameScreen
<1>7. CASE Logs!OldRenewal
  BY <1>7, Zenon DEF Logs!OldRenewal, Logs!Page, SameScreen
<1>8. CASE Logs!TokenChanges
  BY <1>8, Zenon DEF Logs!TokenChanges, Logs!Page, SameScreen
<1>9. CASE Logs!Publish
  <2>. DEFINE n == pg.published + 1
  <2>1. PICK w \in {pg.wire, Append(pg.wire, n)} : pg' = [pg EXCEPT !.published = n, !.wire = w]
    BY <1>9 DEF Logs!Publish
  <2>. HIDE DEF n
  <2>. QED
    BY <2>1, Zenon DEF Logs!Page, SameScreen
<1>10. CASE Logs!Search
  BY <1>10, ScreenFacts DEF Logs!Search
<1>11. CASE \E q \in 1..MaxQueries : Logs!Failed(q)
  BY <1>11, Zenon DEF Logs!Failed, Logs!Page, SameScreen
<1>. QED
  BY <1>1, <1>2, <1>3, <1>4, <1>5, <1>6, <1>7, <1>8, <1>9, <1>10, <1>11 DEF Logs!Line

\* A running stream shows its buffer after every step, and a paused one what it showed before.
LEMMA ViewFacts ==
  ASSUME Logs!LogsAssumption, pg \in Logs!Page, ViewOK(pg), Logs!Next
  PROVE  ViewOK(pg') /\ PausedStands
<1>. DEFINE Shown(w) == [src |-> 0, rows |-> w]
<1>1. ASSUME SameScreen(pg, pg') PROVE ViewOK(pg') /\ PausedStands
  BY <1>1, Zenon DEF SameScreen, ViewOK, PausedStands
<1>2. CASE Logs!ToHistory
  <2>1. pg'.mode = "history"
    <3>. DEFINE q == [pg EXCEPT !.mode = "history"]
    <3>1. pg' = Logs!Ask(Logs!Cleanup(q))
      BY <1>2 DEF Logs!ToHistory
    <3>2. q \in Logs!Page /\ q.mode = "history"
      BY Zenon DEF Logs!Page
    <3>. HIDE DEF q
    <3>3. Logs!Cleanup(q) \in Logs!Page /\ Logs!Cleanup(q).mode = "history"
      BY <3>2, CleanupFacts
    <3>. QED
      BY <3>1, <3>3, ScreenFacts DEF SameScreen
  <2>2. pg'.mode # "live"
    BY <2>1
  <2>. QED
    BY <2>2, Zenon DEF ViewOK, PausedStands
<1>3. CASE Logs!ToLive
  <2>. DEFINE v == Shown(pg.buf)
              q == [pg EXCEPT !.mode = "live", !.view = v, !.heldOver = pg.connected]
  <2>1. pg' = Logs!Connect(q) /\ pg.mode = "history"
    BY <1>3 DEF Logs!ToLive
  <2>2. v \in [src : 0..MaxQueries, rows : Seq(Logs!Events)] /\ v.rows = pg.buf
    BY ViewType, LogsMembers DEF Logs!LogsAssumption
  <2>. HIDE DEF v
  <2>3. q \in Logs!Page /\ q.view = v /\ q.buf = pg.buf
    BY <2>2, Zenon DEF Logs!Page
  <2>. HIDE DEF q
  <2>4. pg'.view.rows = pg'.buf
    BY <2>1, <2>2, <2>3, ScreenFacts DEF SameScreen
  <2>5. pg.mode # "live"
    BY <2>1
  <2>. QED
    BY <2>4, <2>5, Zenon DEF ViewOK, PausedStands
<1>4. CASE Logs!Clear
  <2>. DEFINE v == Shown(<<>>)
  <2>1. pg' = [pg EXCEPT !.view = v, !.buf = <<>>] /\ v.rows = <<>>
    BY <1>4 DEF Logs!Clear
  <2>. HIDE DEF v
  <2>2. pg'.view.rows = <<>> /\ pg'.buf = <<>>
    BY <2>1, Zenon DEF Logs!Page
  <2>3. pg'.view.rows = pg'.buf
    BY <2>2
  <2>. QED
    BY <2>2, <2>3, Zenon DEF ViewOK, PausedStands
<1>5. CASE \E k \in 1..MaxEvents : Logs!Receive(k)
  <2>1. PICK w, b : pg' = [pg EXCEPT !.wire = w, !.buf = b, !.view = IF pg.live THEN Shown(b) ELSE pg.view]
    BY <1>5 DEF Logs!Receive
  <2>. DEFINE v == Shown(b)
  <2>2. v.rows = b
    OBVIOUS
  <2>. HIDE DEF v
  <2>3. CASE pg.live
    <3>1. pg' = [pg EXCEPT !.wire = w, !.buf = b, !.view = v]
      BY <2>1, <2>3 DEF v
    <3>2. pg'.view = v /\ pg'.buf = b /\ pg'.live = pg.live
      BY <3>1, Zenon DEF Logs!Page
    <3>3. pg'.view.rows = pg'.buf
      BY <2>2, <3>2
    <3>. QED
      BY <2>3, <3>3, Zenon DEF ViewOK, PausedStands
  <2>4. CASE ~pg.live
    <3>1. pg' = [pg EXCEPT !.wire = w, !.buf = b, !.view = pg.view]
      BY <2>1, <2>4
    <3>2. pg'.view = pg.view /\ pg'.live = pg.live
      BY <3>1, Zenon DEF Logs!Page
    <3>. QED
      BY <2>4, <3>2, Zenon DEF ViewOK, PausedStands
  <2>. QED
    BY <2>3, <2>4, Zenon
<1>6. CASE Logs!TogglePause
  <2>. DEFINE v == Shown(pg.buf)
  <2>1. v.rows = pg.buf
    OBVIOUS
  <2>2. CASE pg.live
    <3>1. pg' = [pg EXCEPT !.live = ~pg.live, !.view = pg.view]
      BY <1>6, <2>2 DEF Logs!TogglePause
    <3>2. pg'.live = ~pg.live
      BY <3>1, Zenon DEF Logs!Page
    <3>. QED
      BY <2>2, <3>2, Zenon DEF ViewOK, PausedStands
  <2>3. CASE ~pg.live
    <3>1. pg' = [pg EXCEPT !.live = ~pg.live, !.view = v]
      BY <1>6, <2>3 DEF Logs!TogglePause
    <3>. HIDE DEF v
    <3>2. pg'.live = ~pg.live /\ pg'.view = v /\ pg'.buf = pg.buf
      BY <3>1, Zenon DEF Logs!Page
    <3>3. pg'.view.rows = pg'.buf
      BY <2>1, <3>2
    <3>. QED
      BY <2>3, <3>2, <3>3, Zenon DEF ViewOK, PausedStands
  <2>. QED
    BY <2>2, <2>3, Zenon
<1>7. CASE \E q \in 1..MaxQueries : Logs!Answered(q)
  <2>1. PICK q \in 1..MaxQueries :
          pg' = [pg EXCEPT !.inflight = pg.inflight \ {q}, !.loading = FALSE,
                           !.view = [src |-> q, rows |-> <<>>]]
    BY <1>7 DEF Logs!Answered
  <2>. DEFINE v == [src |-> q, rows |-> <<>>]
  <2>2. v.src # 0 /\ v.rows = <<>>
    BY DEF Logs!LogsAssumption
  <2>3. pg'.view = v
    BY <2>1, Zenon DEF Logs!Page
  <2>. HIDE DEF v
  <2>4. pg'.view.src # 0 /\ pg'.view.rows = <<>>
    BY <2>2, <2>3
  <2>. QED
    BY <2>4, Zenon DEF ViewOK, PausedStands
<1>8. \/ SameScreen(pg, pg')
      \/ Logs!ToHistory \/ Logs!ToLive \/ Logs!Clear \/ Logs!TogglePause
      \/ \E k \in 1..MaxEvents : Logs!Receive(k)
      \/ \E q \in 1..MaxQueries : Logs!Answered(q)
  BY SameScreenSteps, Zenon DEF Logs!Next, Logs!Answers
<1>. QED
  BY <1>1, <1>2, <1>3, <1>4, <1>5, <1>6, <1>7, <1>8, Zenon
-----------------------------------------------------------------------------
(* The invariant of the page. *)

LogsInv == pg \in Logs!Page /\ LineOK(pg) /\ OrderOK(pg) /\ ViewOK(pg)

\* The page as it is mounted.
LEMMA LogsMounted ==
  ASSUME Logs!LogsAssumption, NEW p \in Logs!Mounted
  PROVE  p \in Logs!Page /\ LineOK(p) /\ OrderOK(p) /\ ViewOK(p)
<1>1. p \in Logs!Page /\ LineOK(p) /\ p.buf = <<>> /\ p.wire = <<>> /\ p.view.rows = <<>>
  BY LogsLine
<1>2. OrderOK(p)
  BY <1>1 DEF OrderOK, InOrder, Logs!LogsAssumption
<1>3. p.view.rows = p.buf
  BY <1>1
<1>. QED
  BY <1>1, <1>2, <1>3, Zenon DEF ViewOK

\* Every step of the page keeps the invariant.
LEMMA LogsNext ==
  ASSUME Logs!LogsAssumption, LogsInv, Logs!Next
  PROVE  LogsInv' /\ PausedStands
<1>1. pg \in Logs!Page /\ LineOK(pg) /\ OrderOK(pg) /\ ViewOK(pg)
  BY DEF LogsInv
<1>2. ViewOK(pg') /\ PausedStands
  BY <1>1, ViewFacts
<1>3. pg' \in Logs!Page /\ LineOK(pg') /\ OrderOK(pg')
  <2>1. CASE QuietStep
    BY <1>1, <2>1, QuietFacts DEF SameLine, SameEvents, LineOK, OrderOK
  <2>2. CASE Logs!Line \/ Logs!Dropped \/ Logs!ToHistory \/ Logs!ToLive
    <3>1. pg' \in Logs!Page /\ LineOK(pg') /\ LineKeeps
      BY <1>1, <2>2, LineFacts, ModeFacts
    <3>2. CASE pg'.wire = pg.wire
      BY <1>1, <3>1, <3>2 DEF LineKeeps, OrderOK
    <3>3. CASE pg'.wire = <<>>
      BY <1>1, <3>1, <3>3 DEF LineKeeps, OrderOK, InOrder
    <3>. QED
      BY <3>1, <3>2, <3>3 DEF LineKeeps
  <2>3. CASE Logs!Publish
    BY <1>1, <2>3, PublishFacts, PublishOrder DEF SameLine, LineOK
  <2>4. CASE \E k \in 1..MaxEvents : Logs!Receive(k)
    BY <1>1, <2>4, ReceiveFacts, ReceiveOrder DEF SameLine, LineOK
  <2>5. CASE Logs!Clear
    <3>1. /\ pg' \in Logs!Page /\ SameLine(pg, pg') /\ pg'.published = pg.published
          /\ pg'.buf = <<>> /\ pg'.wire = pg.wire
      BY <1>1, <2>5, ClearFacts
    <3>. QED
      BY <1>1, <3>1 DEF SameLine, LineOK, OrderOK, InOrder, Logs!LogsAssumption
  <2>. QED
    BY <2>1, <2>2, <2>3, <2>4, <2>5 DEF Logs!Next, QuietStep
<1>. QED
  BY <1>2, <1>3, Zenon DEF LogsInv

\* What follows from it: one line and its badge, the order of the buffer, the stream on screen.
LEMMA LogsProperties ==
  ASSUME LogsInv
  PROVE  /\ Logs!TypeOK /\ Logs!OneConnection /\ Logs!BadgeFollowsSocket
         /\ Logs!BufferOrdered /\ Logs!LiveViewIsBuffer
<1>1. pg \in Logs!Page /\ LineOK(pg) /\ OrderOK(pg) /\ ViewOK(pg)
  BY DEF LogsInv
<1>2. Logs!TypeOK
  BY <1>1 DEF Logs!TypeOK
<1>3. Logs!OneConnection
  BY <1>1, LogsMembers DEF LineOK, Logs!OneConnection, Logs!Flag
<1>4. Logs!BadgeFollowsSocket
  BY <1>1 DEF LineOK, Logs!BadgeFollowsSocket
<1>5. Logs!BufferOrdered
  BY <1>1 DEF OrderOK, InOrder, Logs!BufferOrdered
<1>6. Logs!LiveViewIsBuffer
  BY <1>1, Zenon DEF ViewOK, Logs!LiveViewIsBuffer
<1>. QED
  BY <1>2, <1>3, <1>4, <1>5, <1>6
-----------------------------------------------------------------------------
(* The panel: the invariant of the page that is mounted, or no page.       *)

PanelInv ==
  \/ pg = Nowhere
  \/ LogsInv \/ FilterInv \/ KeysInv \/ UsersInv \/ CacheInv
  \/ SettingsInv \/ MonitoringInv \/ DashboardInv \/ ProvidersInv \/ InfoInv

\* The name of the page, and its fields: those of a page as it is mounted.
Shaped(name, pages) == pg.page = name /\ \E p \in pages : p.page = pg.page /\ DOMAIN p = DOMAIN pg

\* The invariants of the list pages tell which page it is.
LEMMA ListShapes ==
  ASSUME MaxChanges \in Nat
  PROVE  /\ KeysInv => Shaped("keys", Keys!Mounted)
         /\ UsersInv => Shaped("users", Users!Mounted)
         /\ CacheInv => Shaped("cache", Cache!Mounted)
<1>1. ASSUME KeysInv PROVE Shaped("keys", Keys!Mounted)
  <2>1. PICK p \in Keys!Mounted : TRUE
    BY DEF Keys!Mounted
  <2>2. p.page = "keys" /\ DOMAIN p = KeysFields
    BY KeysMounted DEF KeysTypes
  <2>. QED
    BY <1>1, <2>2 DEF KeysInv, KeysTypes, Shaped
<1>2. ASSUME UsersInv PROVE Shaped("users", Users!Mounted)
  <2>1. PICK p \in Users!Mounted : TRUE
    BY DEF Users!Mounted
  <2>2. p.page = "users" /\ DOMAIN p = UsersFields
    BY UsersMounted DEF UsersTypes
  <2>. QED
    BY <1>2, <2>2 DEF UsersInv, UsersTypes, Shaped
<1>3. ASSUME CacheInv PROVE Shaped("cache", Cache!Mounted)
  <2>1. PICK p \in Cache!Mounted : TRUE
    BY DEF Cache!Mounted
  <2>2. p.page = "cache" /\ DOMAIN p = CacheFields
    BY CacheMounted DEF CacheTypes
  <2>. QED
    BY <1>3, <2>2 DEF CacheInv, CacheTypes, Shaped
<1>. QED
  BY <1>1, <1>2, <1>3

\* The page of the logs has a witness with its own reject.
LEMMA LogsShape ==
  ASSUME Logs!LogsAssumption, LogsInv
  PROVE  Shaped("logs", Logs!Mounted)
<1>1. pg \in Logs!Page
  BY DEF LogsInv
<1>2. pg.page = "logs" /\ DOMAIN pg = LogsFields /\ pg.reject \in RejectCodes
  BY <1>1 DEF Logs!Page, LogsFields
<1>. DEFINE Start(t, r) ==
              [page |-> "logs", mode |-> "live", live |-> TRUE, view |-> [src |-> 0, rows |-> <<>>],
               buf |-> <<>>, loading |-> FALSE, connected |-> FALSE, heldOver |-> FALSE, sock |-> "connecting",
               offered |-> t, wire |-> <<>>, timer |-> FALSE, renewing |-> FALSE, oldRenew |-> FALSE,
               token |-> t, reject |-> r, published |-> 0, inflight |-> {}, asked |-> 0, drops |-> 0]
            p == Start("ok", pg.reject)
<1>3. p \in Logs!Mounted
  <2>1. Logs!Mounted = {Start(t, r) : t \in {"ok", "expired"}, r \in RejectCodes}
    BY DEF Logs!Mounted
  <2>. HIDE DEF Start
  <2>. QED
    BY <1>2, <2>1
<1>. HIDE DEF p
<1>4. p \in Logs!Page /\ DOMAIN p = LogsFields
  BY <1>3, LogsLine
<1>5. p.page = "logs"
  BY <1>4, LogsMembers
<1>. QED
  BY <1>2, <1>3, <1>4, <1>5 DEF Shaped

\* So do the invariants of the other pages.
LEMMA RecordShapes ==
  /\ FilterInv => Shaped("filter", LogFilters!Mounted)
  /\ SettingsInv => Shaped("settings", Settings!Mounted)
  /\ MonitoringInv => Shaped("monitoring", Monitoring!Mounted)
  /\ DashboardInv => Shaped("dashboard", Dashboard!Mounted)
  /\ ProvidersInv => Shaped("providers", ProviderTabs!Mounted)
  /\ InfoInv => Shaped("info", Info!Mounted)
<1>1. ASSUME FilterInv PROVE Shaped("filter", LogFilters!Mounted)
  <2>1. pg.page = "filter" /\ DOMAIN pg = {"page", "rows", "activeLevels", "selectedLog", "metaSearch", "typedFor"}
    BY <1>1 DEF FilterInv, FilterPage
  <2>. QED
    BY <2>1 DEF Shaped, LogFilters!Mounted
<1>2. ASSUME SettingsInv PROVE Shaped("settings", Settings!Mounted)
  <2>1. /\ pg.page = "settings"
        /\ DOMAIN pg = {"page", "loading", "listed", "draft", "db", "loads", "saves", "asked", "saved",
                        "foreign", "edited", "differ"}
    BY <1>2 DEF SettingsInv, SettingsGood, SettingsRecord
  <2>. QED
    BY <2>1 DEF Shaped, Settings!Mounted
<1>3. ASSUME MonitoringInv PROVE Shaped("monitoring", Monitoring!Mounted)
  <2>1. /\ pg.page = "monitoring"
        /\ DOMAIN pg = {"page", "loading", "now", "shown", "total", "reqs", "asked", "last", "excused",
                        "strayed"}
    BY <1>3 DEF MonitoringInv, MonitoringGood, MonitoringRecord
  <2>. DEFINE f == CHOOSE f \in Filters : TRUE
              p == [page |-> "monitoring", loading |-> TRUE, now |-> Monitoring!Key(f, 1),
                    shown |-> Monitoring!Key(f, 0), total |-> 0,
                    reqs |-> {[id |-> 1, of |-> Monitoring!Key(f, 1)]}, asked |-> 1, last |-> 0,
                    excused |-> FALSE, strayed |-> FALSE]
  <2>2. p \in Monitoring!Mounted
    BY Zenon DEF Monitoring!Mounted
  <2>3. /\ p.page = "monitoring"
        /\ DOMAIN p = {"page", "loading", "now", "shown", "total", "reqs", "asked", "last", "excused",
                       "strayed"}
    OBVIOUS
  <2>. HIDE DEF p
  <2>. QED
    BY <2>1, <2>2, <2>3 DEF Shaped
<1>4. ASSUME DashboardInv PROVE Shaped("dashboard", Dashboard!Mounted)
  <2>1. /\ pg.page = "dashboard"
        /\ DOMAIN pg = {"page", "loading", "metrics", "health", "history", "now", "at"}
    BY <1>4 DEF DashboardInv, DashboardGood, DashboardRecord
  <2>. QED
    BY <2>1 DEF Shaped, Dashboard!Mounted
<1>5. ASSUME ProvidersInv PROVE Shaped("providers", ProviderTabs!Mounted)
  <2>1. /\ pg.page = "providers"
        /\ DOMAIN pg = {"page", "tab", "loading", "loads", "have", "chains", "refreshes", "drawer",
                        "editing", "clone", "form", "typed", "saving", "deleting", "changes", "intent",
                        "late"}
    BY <1>5 DEF ProvidersInv, ProvidersGood, ProvidersRecord
  <2>. QED
    BY <2>1 DEF Shaped, ProviderTabs!Mounted
<1>6. ASSUME InfoInv PROVE Shaped("info", Info!Mounted)
  <2>1. /\ pg.page = "info"
        /\ DOMAIN pg = {"page", "provider", "info", "loading", "error", "inflight", "opens", "crossed"}
    BY <1>6 DEF InfoInv, InfoGood, InfoRecord
  <2>. QED
    BY <2>1 DEF Shaped, Info!Mounted
<1>. QED
  BY <1>1, <1>2, <1>3, <1>4, <1>5, <1>6
-----------------------------------------------------------------------------
(* A page takes steps only while it is mounted.                            *)

\* Every handler of a page belongs to that page.
LEMMA StepsAtHome ==
  /\ Logs!Next => pg.page = "logs"
  /\ LogFilters!Next => pg.page = "filter"
  /\ Keys!Next => pg.page = "keys"
  /\ Users!Next => pg.page = "users"
  /\ Cache!Next => pg.page = "cache"
  /\ Settings!Next => pg.page = "settings"
  /\ Monitoring!Next => pg.page = "monitoring"
  /\ Dashboard!Next => pg.page = "dashboard"
  /\ ProviderTabs!Next => pg.page = "providers"
  /\ Info!Next => pg.page = "info"
<1>1. Logs!Next => pg.page = "logs"
  BY Zenon DEF Logs!Next, Logs!Line, Logs!Reconnect, Logs!Opened, Logs!Refused, Logs!Renewed, Logs!NotRenewed,
     Logs!Dropped, Logs!OldRenewal, Logs!TokenChanges, Logs!Publish, Logs!Receive, Logs!TogglePause,
     Logs!Clear, Logs!ToHistory, Logs!ToLive, Logs!Search, Logs!Answers, Logs!Answered, Logs!Failed,
     Logs!Here
<1>2. LogFilters!Next => pg.page = "filter"
  BY Zenon DEF LogFilters!Next, LogFilters!NewRows, LogFilters!ToggleLevel, LogFilters!ToggleLevelGroup,
     LogFilters!Inspect, LogFilters!SearchContext, LogFilters!CloseInspector, LogFilters!Here
<1>3. Keys!Next => pg.page = "keys"
  BY Zenon DEF Keys!Next, Keys!Serve, Keys!Answers, Keys!Elsewhere_, Keys!Revoke, Keys!OpenDrawer,
     Keys!CloseDrawer, Keys!Type, Keys!Generate, Keys!Dismiss, Keys!ListLoaded, Keys!ListFails,
     Keys!Revoked, Keys!RevokeFails, Keys!Generated, Keys!GenerateFails, Keys!CanChange, Keys!Here
<1>4. Users!Next => pg.page = "users"
  BY Zenon DEF Users!Next, Users!Serve, Users!Answers, Users!Elsewhere_, Users!Delete, Users!OpenDrawer,
     Users!CloseDrawer, Users!Type, Users!Save, Users!ListLoaded, Users!ListFails, Users!Deleted,
     Users!DeleteFails, Users!Saved, Users!SaveFails, Users!CanChange, Users!Here
<1>5. Cache!Next => pg.page = "cache"
  BY Zenon DEF Cache!Next, Cache!Serve, Cache!StatsChange, Cache!Answers, Cache!Invalidate,
     Cache!StatsLoaded, Cache!StatsFail, Cache!Invalidated, Cache!InvalidateFails, Cache!CanChange,
     Cache!Here
<1>6. Settings!Next => pg.page = "settings"
  BY Zenon DEF Settings!Next, Settings!Serve, Settings!Answers, Settings!ServeLoad, Settings!ServeSave,
     Settings!Loaded, Settings!LoadFails, Settings!Saved, Settings!SaveFails, Settings!Save,
     Settings!Edit, Settings!Elsewhere, Settings!Here
<1>7. Monitoring!Next => pg.page = "monitoring"
  BY Zenon DEF Monitoring!Next, Monitoring!SetFilter, Monitoring!Answers, Monitoring!Here
<1>8. Dashboard!Next => pg.page = "dashboard"
  BY Zenon DEF Dashboard!Next, Dashboard!Snapshot, Dashboard!Step, Dashboard!Tick, Dashboard!Serve,
     Dashboard!GotMetrics, Dashboard!GotHealth, Dashboard!Failed, Dashboard!Here
<1>9. ProviderTabs!Next => pg.page = "providers"
  BY Zenon DEF ProviderTabs!Next, ProviderTabs!SwitchTab, ProviderTabs!Open, ProviderTabs!Close,
     ProviderTabs!Type, ProviderTabs!Save, ProviderTabs!Delete, ProviderTabs!Answers, ProviderTabs!Saved,
     ProviderTabs!SaveFails, ProviderTabs!Deleted, ProviderTabs!Here
<1>10. Info!Next => pg.page = "info"
  BY Zenon DEF Info!Next, Info!Open, Info!Close, Info!Answers, Info!Here
<1>. QED
  BY <1>1, <1>2, <1>3, <1>4, <1>5, <1>6, <1>7, <1>8, <1>9, <1>10

\* What is said of a page holds while another is mounted.
LEMMA Away ==
  /\ pg.page # "logs" => /\ Logs!TypeOK /\ Logs!OneConnection /\ Logs!BadgeFollowsSocket
                         /\ Logs!BufferOrdered /\ Logs!LiveViewIsBuffer
  /\ pg.page # "filter" => LogFilters!TypeOK /\ LogFilters!InspectorOwnsSearch
  /\ pg.page # "keys" => Keys!TypeOK /\ Keys!ListFollowsChanges
  /\ pg.page # "users" => Users!TypeOK /\ Users!ListFollowsChanges /\ Users!SavedToItsOwner
  /\ pg.page # "cache" => Cache!TypeOK /\ Cache!ListFollowsChanges
  /\ pg.page # "settings" => Settings!TypeOK
  /\ pg.page # "monitoring" => Monitoring!TypeOK /\ Monitoring!RowsMatchControls
  /\ pg.page # "dashboard" => Dashboard!TypeOK /\ Dashboard!ChartEndsWithCards
  /\ pg.page # "providers" => ProviderTabs!TypeOK /\ ProviderTabs!FormMatchesIntent
  /\ pg.page # "info" => Info!TypeOK /\ Info!InfoOfProvider
BY Zenon DEF Logs!TypeOK, Logs!OneConnection, Logs!BadgeFollowsSocket, Logs!BufferOrdered,
   Logs!LiveViewIsBuffer, Logs!Here, LogFilters!TypeOK, LogFilters!InspectorOwnsSearch, LogFilters!Here, Keys!TypeOK, Keys!ListFollowsChanges, Keys!Here,
   Users!TypeOK, Users!ListFollowsChanges, Users!SavedToItsOwner, Users!Here, Cache!TypeOK,
   Cache!ListFollowsChanges, Cache!Here, Settings!TypeOK, Settings!Here, Monitoring!TypeOK,
   Monitoring!RowsMatchControls, Monitoring!Here, Dashboard!TypeOK, Dashboard!ChartEndsWithCards,
   Dashboard!Here, ProviderTabs!TypeOK, ProviderTabs!FormMatchesIntent, ProviderTabs!Here,
   Info!TypeOK, Info!InfoOfProvider, Info!Here

\* The invariant of the panel holds at the start, and every step keeps it.
LEMMA PanelInit == Init => PanelInv
BY DEF Init, PanelInv


\* Nobody is at home on no page.
LEMMA NowhereHome == ASSUME pg = Nowhere PROVE pg.page = "none"
BY DEF Nowhere

\* The next page is one that has just been mounted.
LEMMA Arrivals ==
  ASSUME Arrive
  PROVE  PanelInv'
<1>1. pg' \in Pages
  BY DEF Arrive
<1>2. CASE pg' \in Logs!Mounted
  <2>1. pg' \in Logs!Page /\ LineOK(pg') /\ OrderOK(pg') /\ ViewOK(pg')
    BY <1>2, LogsMounted, PanelAssumption
  <2>. QED
    BY <2>1 DEF PanelInv, LogsInv
<1>3. CASE pg' \in LogFilters!Mounted
  <2>1. pg' \in FilterPage /\ pg'.selectedLog = NoRow
    BY <1>3, FilterMounted
  <2>2. (LogFilters!InspectorOwnsSearch)'
    BY <2>1, Zenon DEF LogFilters!InspectorOwnsSearch
  <2>. QED
    BY <2>1, <2>2 DEF PanelInv, FilterInv
<1>4. CASE pg' \in Keys!Mounted
  <2>1. Listed(pg') /\ KeysTypes(pg')
    BY <1>4, KeysMounted, PanelAssumption
  <2>. QED
    BY <2>1 DEF PanelInv, KeysInv
<1>5. CASE pg' \in Users!Mounted
  <2>1. Listed(pg') /\ UsersTypes(pg')
    BY <1>5, UsersMounted, PanelAssumption
  <2>. QED
    BY <2>1 DEF PanelInv, UsersInv
<1>6. CASE pg' \in Cache!Mounted
  <2>1. Listed(pg') /\ CacheTypes(pg')
    BY <1>6, CacheMounted, PanelAssumption
  <2>. QED
    BY <2>1 DEF PanelInv, CacheInv
<1>7. CASE pg' \in Settings!Mounted
  <2>1. SettingsGood(pg')
    BY <1>7, SettingsMounted, PanelAssumption
  <2>. QED
    BY <2>1 DEF PanelInv, SettingsInv
<1>8. CASE pg' \in Monitoring!Mounted
  <2>1. MonitoringGood(pg')
    BY <1>8, MonitoringMounted, PanelAssumption
  <2>. QED
    BY <2>1 DEF PanelInv, MonitoringInv
<1>9. CASE pg' \in Dashboard!Mounted
  <2>1. DashboardGood(pg')
    BY <1>9, DashboardMounted, PanelAssumption
  <2>. QED
    BY <2>1 DEF PanelInv, DashboardInv
<1>10. CASE pg' \in ProviderTabs!Mounted
  <2>1. ProvidersGood(pg')
    BY <1>10, ProvidersMounted, PanelAssumption
  <2>. QED
    BY <2>1 DEF PanelInv, ProvidersInv
<1>11. CASE pg' \in Info!Mounted
  <2>1. InfoGood(pg')
    BY <1>11, InfoMounted, PanelAssumption
  <2>. QED
    BY <2>1 DEF PanelInv, InfoInv
<1>. QED
  BY <1>1, <1>2, <1>3, <1>4, <1>5, <1>6, <1>7, <1>8, <1>9, <1>10, <1>11, Zenon DEF Pages

\* The name of the page tells which invariant holds.
LEMMA Home ==
  ASSUME PanelInv
  PROVE  /\ pg.page = "logs" => LogsInv
         /\ pg.page = "filter" => FilterInv
         /\ pg.page = "keys" => KeysInv
         /\ pg.page = "users" => UsersInv
         /\ pg.page = "cache" => CacheInv
         /\ pg.page = "settings" => SettingsInv
         /\ pg.page = "monitoring" => MonitoringInv
         /\ pg.page = "dashboard" => DashboardInv
         /\ pg.page = "providers" => ProvidersInv
         /\ pg.page = "info" => InfoInv
         /\ \/ pg = Nowhere
            \/ pg.page \in {"logs", "filter", "keys", "users", "cache", "settings", "monitoring",
                            "dashboard", "providers", "info"}
<1>1. /\ LogsInv => pg.page = "logs"
      /\ FilterInv => pg.page = "filter"
      /\ KeysInv => pg.page = "keys"
      /\ UsersInv => pg.page = "users"
      /\ CacheInv => pg.page = "cache"
      /\ SettingsInv => pg.page = "settings"
      /\ MonitoringInv => pg.page = "monitoring"
      /\ DashboardInv => pg.page = "dashboard"
      /\ ProvidersInv => pg.page = "providers"
      /\ InfoInv => pg.page = "info"
      /\ pg = Nowhere => pg.page = "none"
  BY LogsShape, ListShapes, RecordShapes, NowhereHome, PanelAssumption DEF Shaped
<1>. QED
  BY <1>1 DEF PanelInv

\* A step of the panel is taken by the mounted page, unless it is left.
LEMMA WhoseStep ==
  ASSUME Next
  PROVE  /\ pg.page = "logs" => Logs!Next \/ Leave
         /\ pg.page = "filter" => LogFilters!Next \/ Leave
         /\ pg.page = "keys" => Keys!Next \/ Leave
         /\ pg.page = "users" => Users!Next \/ Leave
         /\ pg.page = "cache" => Cache!Next \/ Leave
         /\ pg.page = "settings" => Settings!Next \/ Leave
         /\ pg.page = "monitoring" => Monitoring!Next \/ Leave
         /\ pg.page = "dashboard" => Dashboard!Next \/ Leave
         /\ pg.page = "providers" => ProviderTabs!Next \/ Leave
         /\ pg.page = "info" => Info!Next \/ Leave
         /\ pg = Nowhere => Arrive
<1>1. Arrive => pg.page = "none"
  BY NowhereHome DEF Arrive
<1>2. pg = Nowhere => pg.page = "none" /\ ~Leave
  BY NowhereHome DEF Leave
<1>3. \/ Leave \/ Arrive
      \/ Logs!Next \/ LogFilters!Next \/ Keys!Next \/ Users!Next \/ Cache!Next
      \/ Settings!Next \/ Monitoring!Next \/ Dashboard!Next \/ ProviderTabs!Next \/ Info!Next
  BY DEF Next
<1>. QED
  BY <1>1, <1>2, <1>3, StepsAtHome

\* A page keeps its invariant until it is left, and what the admin typed, reads and saved stands as the page
\* promises.
LEMMA PageSteps ==
  ASSUME PanelInv, Next, ~Leave
  PROVE  /\ pg.page = "logs" => LogsInv' /\ PausedStands
         /\ pg.page = "filter" => FilterInv'
         /\ pg.page = "keys" => KeysInv' /\ KeysTypingStays
         /\ pg.page = "users" => UsersInv' /\ TypedStays
         /\ pg.page = "cache" => CacheInv'
         /\ pg.page = "settings" => SettingsInv' /\ SaveStands /\ EditsStand
         /\ pg.page = "monitoring" => MonitoringInv'
         /\ pg.page = "dashboard" => DashboardInv'
         /\ pg.page = "providers" => ProvidersInv' /\ ProviderTypingStays
         /\ pg.page = "info" => InfoInv'
<1>1. ASSUME pg.page = "logs" PROVE LogsInv' /\ PausedStands
  BY <1>1, Home, WhoseStep, LogsNext, PanelAssumption
<1>2. ASSUME pg.page = "filter" PROVE FilterInv'
  BY <1>2, Home, WhoseStep, FilterNext
<1>3. ASSUME pg.page = "keys" PROVE KeysInv' /\ KeysTypingStays
  BY <1>3, Home, WhoseStep, KeysNext, KeysKeepTyping, PanelAssumption
<1>4. ASSUME pg.page = "users" PROVE UsersInv' /\ TypedStays
  BY <1>4, Home, WhoseStep, UsersNext, PanelAssumption
<1>5. ASSUME pg.page = "cache" PROVE CacheInv'
  BY <1>5, Home, WhoseStep, CacheNext, PanelAssumption
<1>6. ASSUME pg.page = "settings" PROVE SettingsInv' /\ SaveStands /\ EditsStand
  BY <1>6, Home, WhoseStep, SettingsNext, SettingsSaves, SettingsEdits, PanelAssumption
<1>7. ASSUME pg.page = "monitoring" PROVE MonitoringInv'
  BY <1>7, Home, WhoseStep, MonitoringNext, PanelAssumption
<1>8. ASSUME pg.page = "dashboard" PROVE DashboardInv'
  BY <1>8, Home, WhoseStep, DashboardNext, PanelAssumption
<1>9. ASSUME pg.page = "providers" PROVE ProvidersInv' /\ ProviderTypingStays
  BY <1>9, Home, WhoseStep, ProvidersNext, PanelAssumption
<1>10. ASSUME pg.page = "info" PROVE InfoInv'
  BY <1>10, Home, WhoseStep, InfoNext, PanelAssumption
<1>. QED
  BY <1>1, <1>2, <1>3, <1>4, <1>5, <1>6, <1>7, <1>8, <1>9, <1>10

\* Every step keeps the invariant of the panel.
LEMMA PanelNext ==
  ASSUME PanelInv, [Next]_pg
  PROVE  PanelInv'
<1>1. CASE UNCHANGED pg
  <2>1. CASE pg = Nowhere
    BY <1>1, <2>1 DEF PanelInv
  <2>2. CASE LogsInv
    BY <1>1, <2>2 DEF PanelInv, LogsInv
  <2>3. CASE FilterInv
    BY <1>1, <2>3, Zenon DEF PanelInv, FilterInv, LogFilters!InspectorOwnsSearch, LogFilters!Here
  <2>4. CASE KeysInv \/ UsersInv \/ CacheInv
    BY <1>1, <2>4 DEF PanelInv, KeysInv, UsersInv, CacheInv
  <2>5. CASE SettingsInv \/ MonitoringInv \/ DashboardInv \/ ProvidersInv \/ InfoInv
    BY <1>1, <2>5 DEF PanelInv, SettingsInv, MonitoringInv, DashboardInv, ProvidersInv, InfoInv
  <2>. QED
    BY <2>1, <2>2, <2>3, <2>4, <2>5 DEF PanelInv
<1>2. CASE Leave
  BY <1>2, Zenon DEF Leave, PanelInv, Nowhere
<1>3. CASE Next /\ ~Leave
  <2>1. CASE pg = Nowhere
    BY <1>3, <2>1, WhoseStep, Arrivals
  <2>2. CASE pg # Nowhere
    BY <1>3, <2>2, Home, PageSteps DEF PanelInv
  <2>. QED
    BY <2>1, <2>2
<1>. QED
  BY <1>1, <1>2, <1>3

\* It holds always.
LEMMA PanelInductive == Spec => []PanelInv
<1>. QED
  BY PanelInit, PanelNext, PTL DEF Spec

\* What the invariant says of the mounted page, and of the others, which are away.
LEMMA PanelProperties ==
  ASSUME PanelInv
  PROVE  /\ Logs!TypeOK /\ LogFilters!TypeOK /\ Keys!TypeOK /\ Users!TypeOK /\ Cache!TypeOK
         /\ Settings!TypeOK /\ Monitoring!TypeOK /\ Dashboard!TypeOK
         /\ ProviderTabs!TypeOK /\ Info!TypeOK
         /\ LineAndBadge /\ StreamFaithful /\ ListFollowsChanges /\ DrawersOwnRecords /\ ShownTogether
<1>1. /\ Logs!TypeOK /\ Logs!OneConnection /\ Logs!BadgeFollowsSocket
      /\ Logs!BufferOrdered /\ Logs!LiveViewIsBuffer
  BY Home, Away, LogsProperties
<1>2. LogFilters!TypeOK /\ LogFilters!InspectorOwnsSearch
  BY Home, Away, FilterProperties
<1>3. Keys!TypeOK /\ Keys!ListFollowsChanges
  BY Home, Away, KeysProperties, PanelAssumption
<1>4. Users!TypeOK /\ Users!ListFollowsChanges /\ Users!SavedToItsOwner
  BY Home, Away, UsersProperties, PanelAssumption
<1>5. Cache!TypeOK /\ Cache!ListFollowsChanges
  BY Home, Away, CacheProperties, PanelAssumption
<1>6. Settings!TypeOK
  BY Home, Away, SettingsProperties, PanelAssumption
<1>7. Monitoring!TypeOK /\ Monitoring!RowsMatchControls
  BY Home, Away, MonitoringProperties, PanelAssumption
<1>8. Dashboard!TypeOK /\ Dashboard!ChartEndsWithCards
  BY Home, Away, DashboardProperties, PanelAssumption
<1>9. ProviderTabs!TypeOK /\ ProviderTabs!FormMatchesIntent
  BY Home, Away, ProvidersProperties, PanelAssumption
<1>10. Info!TypeOK /\ Info!InfoOfProvider
  BY Home, Away, InfoProperties, PanelAssumption
<1>. QED
  BY <1>1, <1>2, <1>3, <1>4, <1>5, <1>6, <1>7, <1>8, <1>9, <1>10
  DEF LineAndBadge, StreamFaithful, ListFollowsChanges, DrawersOwnRecords, ShownTogether
-----------------------------------------------------------------------------
(* The theorems.                                                           *)

\* The state is that of a page of the panel, and the fields of each page keep their types.
THEOREM TypeCorrect == Spec => []TypeOK
<1>1. PanelInv => TypeOK
  <2>. SUFFICES ASSUME PanelInv PROVE TypeOK
    OBVIOUS
  <2>1. \E p \in Pages \cup {Nowhere} : p.page = pg.page /\ DOMAIN p = DOMAIN pg
    <3>1. CASE pg = Nowhere
      BY <3>1
    <3>2. CASE pg # Nowhere
      <4>1. \/ Shaped("logs", Logs!Mounted) \/ Shaped("filter", LogFilters!Mounted)
            \/ Shaped("keys", Keys!Mounted) \/ Shaped("users", Users!Mounted)
            \/ Shaped("cache", Cache!Mounted) \/ Shaped("settings", Settings!Mounted)
            \/ Shaped("monitoring", Monitoring!Mounted) \/ Shaped("dashboard", Dashboard!Mounted)
            \/ Shaped("providers", ProviderTabs!Mounted) \/ Shaped("info", Info!Mounted)
        BY <3>2, LogsShape, ListShapes, RecordShapes, PanelAssumption DEF PanelInv
      <4>. QED
        BY <4>1, Zenon DEF Shaped, Pages
    <3>. QED
      BY <3>1, <3>2
  <2>. QED
    BY <2>1, PanelProperties DEF TypeOK
<1>. QED
  BY <1>1, PanelInductive, PTL

\* The log page keeps at most one line to the gateway, none in history, under a badge that agrees with it or,
\* after a visit to history, is held over until the new socket opens or closes.
THEOREM LineAndBadgeHolds == Spec => []LineAndBadge
<1>1. PanelInv => LineAndBadge
  BY PanelProperties
<1>. QED
  BY <1>1, PanelInductive, PTL

\* The stream on screen is the buffer, and the buffer the newest events in the order of publication, except
\* that the answer of a history query may come to the screen after its mode has been left.
THEOREM StreamFaithfulHolds == Spec => []StreamFaithful
<1>1. PanelInv => StreamFaithful
  BY PanelProperties
<1>. QED
  BY <1>1, PanelInductive, PTL

\* At rest the lists of keys, users and cache statistics show the changes their page has made, unless the
\* reload of the last one, or a load after it, failed or was overtaken by an older answer.
THEOREM ListFollowsChangesHolds == Spec => []ListFollowsChanges
<1>1. PanelInv => ListFollowsChanges
  BY PanelProperties
<1>. QED
  BY <1>1, PanelInductive, PTL

\* What a drawer shows, holds and sends belongs to the record it was opened for, except for a copy left in a
\* tab whose drawer a late confirmation closed and for numbers that come after their drawer was closed.
THEOREM DrawersOwnRecordsHolds == Spec => []DrawersOwnRecords
<1>1. PanelInv => DrawersOwnRecords
  BY PanelProperties
<1>. QED
  BY <1>1, PanelInductive, PTL

\* Rows and the controls that chose them, and the chart and its cards, belong together, except after the
\* newest load failed or was overtaken and for a page number picked among those of another filter.
THEOREM ShownTogetherHolds == Spec => []ShownTogether
<1>1. PanelInv => ShownTogether
  BY PanelProperties
<1>. QED
  BY <1>1, PanelInductive, PTL

\* What the admin typed, reads in a pause or clicks on stands against every step of the panel, except that
\* lists and settings that arrive fill the drawers of keys, deployments and provider keys, and the draft of the
\* settings, anew, and that a clear and the late answer of a query change a paused stream.
THEOREM InputStandsHolds == Spec => InputStands
<1>1. Leave => pg'.page = "none"
  BY DEF Leave, Nowhere
<1>7. PanelInv /\ [Next]_pg =>
        [Keys!Here /\ pg'.page = "keys" /\ pg.drawer /\ pg'.drawer /\ pg.typed =>
           pg'.typed \/ ~(Keys!Ready(pg, "load") \subseteq pg'.reqs)]_pg
  <2>. SUFFICES ASSUME PanelInv, Next, Keys!Here, pg'.page = "keys" PROVE KeysTypingStays
    BY Zenon DEF KeysTypingStays
  <2>. QED
    BY <1>1, PageSteps DEF Keys!Here
<1>2. PanelInv /\ [Next]_pg =>
        [Users!Here /\ pg'.page = "users" /\ pg.drawer /\ pg'.drawer /\ pg.typed => pg'.typed]_pg
  <2>. SUFFICES ASSUME PanelInv, Next, Users!Here, pg'.page = "users" PROVE TypedStays
    BY Zenon DEF TypedStays
  <2>. QED
    BY <1>1, PageSteps DEF Users!Here
<1>3. PanelInv /\ [Next]_pg =>
        [ProviderTabs!Here /\ pg'.page = "providers" /\ pg.drawer /\ pg'.drawer /\ pg.typed =>
           \/ pg'.typed
           \/ pg.tab # "providers" /\ \E l \in pg.loads \ pg'.loads : l.what = "providers"]_pg
  <2>. SUFFICES ASSUME PanelInv, Next, ProviderTabs!Here, pg'.page = "providers" PROVE ProviderTypingStays
    BY Zenon DEF ProviderTypingStays
  <2>. QED
    BY <1>1, PageSteps DEF ProviderTabs!Here
<1>4. PanelInv /\ [Next]_pg =>
        [Settings!Here /\ pg'.page = "settings" /\ pg'.foreign = pg.foreign =>
           \E s \in pg.saves \cup {[may |-> {}]} : Settings!Changed(pg'.db, pg.db) \subseteq s.may]_pg
  <2>. SUFFICES ASSUME PanelInv, Next, Settings!Here, pg'.page = "settings" PROVE SaveStands
    BY Zenon DEF SaveStands
  <2>. QED
    BY <1>1, PageSteps DEF Settings!Here
<1>8. PanelInv /\ [Next]_pg =>
        [Settings!Here /\ pg'.page = "settings" /\ {l \in pg.loads : l.served} \subseteq pg'.loads =>
           pg.edited \subseteq pg'.edited /\ Settings!Changed(pg'.draft, pg.draft) \subseteq pg'.edited]_pg
  <2>. SUFFICES ASSUME PanelInv, Next, Settings!Here, pg'.page = "settings" PROVE EditsStand
    BY Zenon DEF EditsStand
  <2>. QED
    BY <1>1, PageSteps DEF Settings!Here
<1>5. PanelInv /\ [Next]_pg =>
        [Logs!Here /\ pg.mode = "live" /\ ~pg.live /\ pg'.page = "logs" /\ pg'.mode = "live" /\ ~pg'.live
           => pg'.view = pg.view \/ pg'.view.rows = <<>>]_pg
  <2>. SUFFICES ASSUME PanelInv, Next, Logs!Here, pg'.page = "logs" PROVE PausedStands
    BY Zenon DEF PausedStands
  <2>. QED
    BY <1>1, PageSteps DEF Logs!Here
<1>6. PanelInv /\ [Next]_pg =>
        [LogFilters!Here => \A g \in LogFilters!Groups :
           LogFilters!ToggleLevelGroup(g) => LogFilters!Lit(pg', g) # LogFilters!Lit(pg, g)]_pg
  BY Home, CardClick DEF LogFilters!Here
<1>. QED
  BY <1>2, <1>3, <1>4, <1>5, <1>6, <1>7, <1>8, PanelInductive, PTL
  DEF Spec, InputStands, Keys!TypingKept, Users!TypingKept, ProviderTabs!TypingKept, Settings!EditsKept,
      Settings!SaveTouchesEdits, Logs!PausedViewStands, LogFilters!CardClickSeen
=============================================================================
