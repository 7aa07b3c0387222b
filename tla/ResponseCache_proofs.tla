------------------------ MODULE ResponseCache_proofs ------------------------
(* The response cache, for any requests, keys, models and invalidations:   *)
(* TypeOK, and the refinement of Answers.                                  *)
EXTENDS ResponseCache, TLAPS

(* What lets a stored entry stand for an answer: it was written under the   *)
(* question of a request whose upstream answered to the end, and whose      *)
(* count of chunks is final; what a caller was given has the same form.     *)
Genuine ==
    \A s \in DOMAIN redis : s[1] # "index" =>
        /\ redis[s].by \in produced /\ redis[s].sent = sent[redis[s].by]
        /\ s = Slot(question[redis[s].by])

OnCourse(r) ==
    /\ pc[r] = "idle" => question[r] = None
    /\ pc[r] # "idle" => question[r] \in Questions
    /\ pc[r] \in {"idle", "dispatch"} => answer[r] = None /\ r \notin produced
    /\ pc[r] = "fill" => r \in produced
    /\ pc[r] = "fill" /\ question[r].kind = "chat" => answer[r] = None
    /\ answer[r] # None => /\ Whole(answer[r])
                           /\ question[answer[r].by] = question[r]

Progress == \A r \in Requests : OnCourse(r)

IInv == TypeOK /\ Genuine /\ Progress

-----------------------------------------------------------------------------
(* The invariant holds at the start. *)
LEMMA InitIInv == Init => IInv
  BY ResponseCacheAssumption DEF Init, IInv, TypeOK, Genuine, Progress, OnCourse, Answer, Ended

(* The names of entries and of indexes differ, and the name of an entry     *)
(* tells its question.                                                      *)
LEMMA SlotFacts ==
  ASSUME NEW q \in Questions
  PROVE  /\ Slot(q) \in Slots /\ Slot(q)[1] # "index"
         /\ \A p \in Questions : Slot(p) = Slot(q) => p = q
<1>1. q.key \in Keys /\ q.kind \in {"chat", "stream"}
  BY ResponseCacheAssumption
<1>2. ASSUME NEW p \in Questions, Slot(p) = Slot(q) PROVE p = q
  <2>1. p.key \in Keys /\ p.kind \in {"chat", "stream"}
    BY ResponseCacheAssumption
  <2>2. p.key = q.key /\ p.kind = q.kind
    BY <1>1, <1>2, <2>1 DEF Slot, Full, Stream
  <2>3. /\ p = [kind |-> p.kind, key |-> p.key]
        /\ q = [kind |-> q.kind, key |-> q.key]
    BY ResponseCacheAssumption
  <2>. QED  BY <2>2, <2>3
<1>. QED  BY <1>1, <1>2 DEF Slot, Slots, Full, Stream

(* What exists in Redis after a fill: the entry of the request, possibly    *)
(* the index of the model it names, and what there was.                     *)
LEMMA StoreFacts ==
  ASSUME TypeOK, NEW r \in Requests, question[r] \in Questions, Store(r),
         NEW s \in DOMAIN redis'
  PROVE  \/ s = Slot(question[r]) /\ redis'[s] = Entry(r)
         \/ /\ named[r] # None /\ s = Index(named[r])
            /\ redis'[s] = IndexEntry(named[r], question[r].key)
         \/ s \in DOMAIN redis /\ redis'[s] = redis[s]
  BY DEF Store, Written, Indexed

(* What exists in Redis after keys were removed. *)
LEMMA RemoveFacts ==
  ASSUME NEW slots, Remove(slots)
  PROVE  /\ DOMAIN redis' \subseteq DOMAIN redis
         /\ \A s \in DOMAIN redis' : redis'[s] = redis[s]
         /\ pending' = [i \in Invalidations |-> pending[i] \ slots]
  BY DEF Remove, Restrict

-----------------------------------------------------------------------------
(* Every step keeps the types. *)
LEMMA TypeOKStep == IInv /\ [Next]_vars => TypeOK'
<1>. SUFFICES ASSUME IInv, [Next]_vars PROVE TypeOK'
  OBVIOUS
<1>. USE ResponseCacheAssumption DEF TypeOK, IInv, requestVars, adminVars, Ended
<1>1. CASE Tick
  BY <1>1, RemoveFacts DEF Tick
<1>2. ASSUME NEW r \in Requests, NEW q \in Questions, AskHit(r, q) PROVE TypeOK'
  <2>1. [by |-> redis[Slot(q)].by, sent |-> redis[Slot(q)].sent] \in Answer
    BY <1>2, SlotFacts DEF AskHit
  <2>. QED  BY <1>2, <2>1 DEF AskHit
<1>3. ASSUME NEW r \in Requests, NEW q \in Questions, AskMiss(r, q) PROVE TypeOK'
  BY <1>3 DEF AskMiss
<1>4. ASSUME NEW r \in Requests, NEW m \in Models \cup {None}, ChatAnswers(r, m)
      PROVE  TypeOK'
  BY <1>4 DEF ChatAnswers
<1>5. ASSUME NEW r \in Requests, PartAnswers(r) \/ Chunk(r) PROVE TypeOK'
  BY <1>5 DEF PartAnswers, Chunk
<1>6. ASSUME NEW r \in Requests, StreamEnds(r) PROVE TypeOK'
  BY <1>6 DEF StreamEnds, Answer
<1>7. ASSUME NEW r \in Requests, DispatchFails(r) \/ Gone(r) PROVE TypeOK'
  BY <1>7 DEF DispatchFails, Gone
<1>8. ASSUME NEW r \in Requests, Fill(r) PROVE TypeOK'
  <2>1. question[r] \in Questions /\ question[r].key \in Keys
    BY <1>8 DEF Fill, Progress, OnCourse
  <2>2. Entry(r).exp \in Nat /\ Entry(r).by = r /\ Entry(r).sent = sent[r]
    BY DEF Entry
  <2>3. ASSUME NEW m \in Models
        PROVE  /\ IndexEntry(m, question[r].key).exp \in Nat
               /\ IndexEntry(m, question[r].key).keys \subseteq Keys
               /\ Index(m) \in Slots /\ Index(m)[1] = "index"
    <3>1. Members(m) \subseteq Keys
      BY DEF Members, Index
    <3>. QED  BY <2>1, <3>1 DEF IndexEntry, Index, Slots
  <2>4. ASSUME NEW s \in DOMAIN redis'
        PROVE  /\ s \in Slots /\ redis'[s].exp \in Nat
               /\ IF s[1] = "index" THEN redis'[s].keys \subseteq Keys
                  ELSE [by |-> redis'[s].by, sent |-> redis'[s].sent] \in Answer
    <3>1. CASE s = Slot(question[r]) /\ redis'[s] = Entry(r)
      BY <2>1, <2>2, <3>1, SlotFacts DEF Answer
    <3>2. CASE /\ named[r] # None /\ s = Index(named[r])
               /\ redis'[s] = IndexEntry(named[r], question[r].key)
      BY <2>3, <3>2
    <3>3. CASE s \in DOMAIN redis /\ redis'[s] = redis[s]
      BY <3>3
    <3>. QED  BY <1>8, <2>1, <3>1, <3>2, <3>3, StoreFacts DEF Fill
  <2>5. /\ pc' \in [Requests -> {"idle", "dispatch", "fill"} \cup Ended]
        /\ answer' \in [Requests -> Answer \cup {None}]
        /\ exposed' \subseteq Requests
    BY <1>8 DEF Fill, Returned, Answer
  <2>. QED  BY <1>8, <2>4, <2>5 DEF Fill
<1>9. ASSUME NEW r \in Requests, FillFails(r) PROVE TypeOK'
  BY <1>9 DEF FillFails, Returned, Answer
<1>10. ASSUME NEW i \in Invalidations, NEW m \in Models, ReadIndex(i, m) PROVE TypeOK'
  <2>1. Members(m) \subseteq Keys
    BY DEF Members, Index
  <2>2. Writers(Filed(m)) \subseteq Requests
    BY DEF Writers, Filed, Entries, Answer
  <2>. QED  BY <1>10, <2>1, <2>2 DEF ReadIndex
<1>11. ASSUME NEW i \in Invalidations, DeleteBatch(i) PROVE TypeOK'
  BY <1>11, RemoveFacts DEF DeleteBatch
<1>12. ASSUME NEW i \in Invalidations, StartScan(i) PROVE TypeOK'
  <2>1. Writers(Entries) \subseteq Requests /\ {redis[s].by : s \in Entries} \subseteq Requests
    BY DEF Writers, Entries, Answer
  <2>. QED  BY <1>12, <2>1 DEF StartScan
<1>13. ASSUME NEW i \in Invalidations, NEW s \in DOMAIN redis, Visit(i, s) PROVE TypeOK'
  BY <1>13, RemoveFacts DEF Visit
<1>14. ASSUME NEW i \in Invalidations, EndScan(i) \/ InvalidationFails(i) PROVE TypeOK'
  BY <1>14 DEF EndScan, InvalidationFails
<1>15. CASE UNCHANGED vars
  BY <1>15 DEF vars
<1>. QED
  BY <1>1, <1>2, <1>3, <1>4, <1>5, <1>6, <1>7, <1>8, <1>9, <1>10, <1>11, <1>12, <1>13,
     <1>14, <1>15 DEF Next, Engine, Invalidate

-----------------------------------------------------------------------------
(* What a request produced is final: its count and its question stay. *)
LEMMA Final ==
  ASSUME IInv, [Next]_vars, NEW w \in produced
  PROVE  /\ w \in Requests /\ w \in produced'
         /\ sent'[w] = sent[w] /\ question'[w] = question[w] /\ named'[w] = named[w]
<1>. w \in Requests /\ pc[w] \notin {"idle", "dispatch"}
  BY DEF IInv, TypeOK, Progress, OnCourse
<1>. USE DEF IInv, TypeOK, requestVars
<1>1. ASSUME NEW r \in Requests, Engine(r)
      PROVE  /\ w \in produced' /\ sent'[w] = sent[w]
             /\ question'[w] = question[w] /\ named'[w] = named[w]
  BY <1>1 DEF Engine, AskHit, AskMiss, ChatAnswers, PartAnswers, Chunk, StreamEnds,
              DispatchFails, Fill, FillFails, Gone
<1>2. ASSUME NEW i \in Invalidations, Invalidate(i) PROVE UNCHANGED requestVars
  BY <1>2 DEF Invalidate, ReadIndex, DeleteBatch, StartScan, Visit, EndScan, InvalidationFails
<1>. QED  BY <1>1, <1>2 DEF Next, Tick, vars

(* A step other than a fill only takes entries away. *)
LEMMA OnlyFillStores ==
  ASSUME IInv, [Next]_vars, ~ \E r \in Requests : Fill(r)
  PROVE  DOMAIN redis' \subseteq DOMAIN redis /\ \A s \in DOMAIN redis' : redis'[s] = redis[s]
<1>1. ASSUME NEW r \in Requests, Engine(r) PROVE redis' = redis
  BY <1>1 DEF Engine, AskHit, AskMiss, ChatAnswers, PartAnswers, Chunk, StreamEnds,
              DispatchFails, FillFails, Gone
<1>2. ASSUME NEW i \in Invalidations, Invalidate(i)
      PROVE  redis' = redis \/ \E slots : Remove(slots)
  BY <1>2 DEF Invalidate, ReadIndex, DeleteBatch, StartScan, Visit, EndScan, InvalidationFails
<1>3. ASSUME Tick PROVE \E slots : Remove(slots)
  BY <1>3 DEF Tick
<1>. QED  BY <1>1, <1>2, <1>3, RemoveFacts DEF Next, vars

(* Every step leaves the stored entries genuine. *)
LEMMA GenuineStep == IInv /\ [Next]_vars => Genuine'
<1>. SUFFICES ASSUME IInv, [Next]_vars, NEW s \in DOMAIN redis', s[1] # "index"
              PROVE  /\ redis'[s].by \in produced'
                     /\ redis'[s].sent = sent'[redis'[s].by]
                     /\ s = Slot(question'[redis'[s].by])
  BY DEF Genuine
<1>1. CASE s \in DOMAIN redis /\ redis'[s] = redis[s]
  <2>1. /\ redis[s].by \in produced /\ redis[s].sent = sent[redis[s].by]
        /\ s = Slot(question[redis[s].by])
    BY <1>1 DEF IInv, Genuine
  <2>. QED  BY <1>1, <2>1, Final
<1>2. ASSUME NEW r \in Requests, Fill(r), s = Slot(question[r]), redis'[s] = Entry(r)
      PROVE  /\ redis'[s].by \in produced'
             /\ redis'[s].sent = sent'[redis'[s].by]
             /\ s = Slot(question'[redis'[s].by])
  BY <1>2 DEF Fill, IInv, TypeOK, Progress, OnCourse, Entry
<1>3. ASSUME NEW r \in Requests, Fill(r)
      PROVE  \/ s = Slot(question[r]) /\ redis'[s] = Entry(r)
             \/ s \in DOMAIN redis /\ redis'[s] = redis[s]
  <2>1. question[r] \in Questions /\ TypeOK
    BY <1>3 DEF Fill, IInv, Progress, OnCourse
  <2>. QED  BY <1>3, <2>1, StoreFacts DEF Fill, Index
<1>. QED  BY <1>1, <1>2, <1>3, OnlyFillStores

(* Every step keeps Progress: what is given is whole, and answers the       *)
(* question.                                                                *)
LEMMA ProgressStep == IInv /\ [Next]_vars => Progress'
<1>. SUFFICES ASSUME IInv, [Next]_vars, NEW x \in Requests PROVE OnCourse(x)'
  BY DEF Progress
<1>. USE DEF IInv, TypeOK, requestVars
<1>1. ASSUME NEW a, a.by \in produced, a.sent = sent[a.by]
      PROVE  a.by \in produced' /\ a.sent = sent'[a.by] /\ question'[a.by] = question[a.by]
  BY <1>1, Final
<1>2. OnCourse(x)
  BY DEF Progress
<1>3. ASSUME pc'[x] = pc[x], question'[x] = question[x], answer'[x] = answer[x],
             x \in produced' <=> x \in produced
      PROVE  OnCourse(x)'
  BY <1>1, <1>2, <1>3 DEF OnCourse, Whole
<1>4. ASSUME NEW r \in Requests, r # x, Engine(r) PROVE OnCourse(x)'
  <2>1. /\ pc'[x] = pc[x] /\ question'[x] = question[x] /\ answer'[x] = answer[x]
        /\ x \in produced' <=> x \in produced
    BY <1>4 DEF Engine, AskHit, AskMiss, ChatAnswers, PartAnswers, Chunk, StreamEnds,
                DispatchFails, Fill, FillFails, Gone, Returned
  <2>. QED  BY <1>3, <2>1
<1>5. ASSUME NEW q \in Questions, AskHit(x, q) PROVE OnCourse(x)'
  <2>. DEFINE e == redis[Slot(q)]
  <2>1. /\ e.by \in produced /\ e.sent = sent[e.by] /\ Slot(q) = Slot(question[e.by])
    BY <1>5, SlotFacts DEF AskHit, Genuine
  <2>2. question[e.by] \in Questions
    BY <2>1 DEF Progress, OnCourse
  <2>3. question[e.by] = q
    BY <2>1, <2>2, SlotFacts
  <2>4. /\ pc'[x] = "done" /\ question'[x] = q
        /\ answer'[x] = [by |-> e.by, sent |-> e.sent]
    BY <1>5 DEF AskHit
  <2>5. e.by \in produced' /\ e.sent = sent'[e.by] /\ question'[e.by] = question[e.by]
    BY <1>1, <2>1
  <2>. QED  BY <2>3, <2>4, <2>5 DEF OnCourse, Whole
<1>6. ASSUME NEW q \in Questions, AskMiss(x, q) PROVE OnCourse(x)'
  BY <1>2, <1>6 DEF AskMiss, OnCourse
<1>7. ASSUME NEW m, ChatAnswers(x, m) PROVE OnCourse(x)'
  BY <1>2, <1>7 DEF ChatAnswers, Asks, OnCourse
<1>8. ASSUME PartAnswers(x) \/ Chunk(x) \/ DispatchFails(x) PROVE OnCourse(x)'
  BY <1>2, <1>8 DEF PartAnswers, Chunk, DispatchFails, OnCourse
<1>9. ASSUME StreamEnds(x) PROVE OnCourse(x)'
  BY <1>2, <1>9 DEF StreamEnds, Asks, OnCourse, Whole
<1>10. ASSUME Gone(x) PROVE OnCourse(x)'
  BY <1>1, <1>2, <1>10 DEF Gone, OnCourse, Whole
<1>11. ASSUME Fill(x) \/ FillFails(x) PROVE OnCourse(x)'
  <2>1. /\ pc[x] = "fill" /\ pc'[x] \in {"fill", "done"}
        /\ UNCHANGED <<question, sent, produced>>
        /\ \/ answer' = answer /\ (pc'[x] = "fill" \/ ~Asks(x, "chat"))
           \/ answer'[x] = [by |-> x, sent |-> sent[x]] /\ pc'[x] = "done"
    BY <1>11 DEF Fill, FillFails, Returned
  <2>. QED  BY <1>2, <2>1 DEF OnCourse, Whole
<1>12. ASSUME UNCHANGED requestVars PROVE OnCourse(x)'
  BY <1>3, <1>12
<1>13. ASSUME NEW i \in Invalidations, Invalidate(i) PROVE UNCHANGED requestVars
  BY <1>13 DEF Invalidate, ReadIndex, DeleteBatch, StartScan, Visit, EndScan, InvalidationFails
<1>. QED
  BY <1>4, <1>5, <1>6, <1>7, <1>8, <1>9, <1>10, <1>11, <1>12, <1>13
     DEF Next, Engine, Tick, vars

(* The invariant holds in every reachable state. *)
LEMMA Invariance == Spec => []IInv
<1>1. IInv /\ [Next]_vars => IInv'
  BY TypeOKStep, GenuineStep, ProgressStep DEF IInv
<1>. QED  BY <1>1, InitIInv, PTL DEF Spec

-----------------------------------------------------------------------------
(* The variables of the cache always have their types. *)
THEOREM TypeCorrect == Spec => []TypeOK
<1>1. IInv => TypeOK
  BY DEF IInv
<1>. QED  BY <1>1, Invariance, PTL

(* Under the invariant every answer is whole, so it is given as it stands.  *)
LEMMA GivenWhole ==
  ASSUME IInv, NEW r \in Requests
  PROVE  /\ Given(r) = IF answer[r] = None THEN None ELSE answer[r].by
         /\ Given(r) = None <=> answer[r] = None
  BY ResponseCacheAssumption DEF IInv, TypeOK, Progress, OnCourse, Given, Answer

(* How the answers given change with the answers of the model. *)
LEMMA GivenChange ==
  ASSUME IInv, IInv', NEW r \in Requests, answer' = [answer EXCEPT ![r] = answer'[r]],
         answer'[r] # None
  PROVE  [x \in Requests |-> Given(x)]'
           = [[x \in Requests |-> Given(x)] EXCEPT ![r] = answer'[r].by]
<1>1. ASSUME NEW x \in Requests
      PROVE  Given(x)' = IF x = r THEN answer'[r].by ELSE Given(x)
  <2>1. Given(x) = IF answer[x] = None THEN None ELSE answer[x].by
    BY GivenWhole
  <2>2. Given(x)' = IF answer'[x] = None THEN None ELSE answer'[x].by
    BY ResponseCacheAssumption DEF IInv, TypeOK, Progress, OnCourse, Given, Answer
  <2>3. x # r => answer'[x] = answer[x]
    BY DEF IInv, TypeOK
  <2>. QED  BY <2>1, <2>2, <2>3
<1>. QED  BY <1>1

(* ... and stay when those stay. *)
LEMMA GivenSame ==
  ASSUME IInv, IInv', answer' = answer
  PROVE  [x \in Requests |-> Given(x)]' = [x \in Requests |-> Given(x)]
<1>1. ASSUME NEW x \in Requests PROVE Given(x)' = Given(x)
  <2>1. Given(x) = IF answer[x] = None THEN None ELSE answer[x].by
    BY GivenWhole
  <2>2. Given(x)' = IF answer'[x] = None THEN None ELSE answer'[x].by
    BY ResponseCacheAssumption DEF IInv, TypeOK, Progress, OnCourse, Given, Answer
  <2>. QED  BY <2>1, <2>2
<1>. QED  BY <1>1

(* The cache implements Answers: whoever is answered, from the cache or by  *)
(* the upstream, gets one whole upstream answer to the question asked.      *)
THEOREM Implementation == Spec => ImplementsAnswers
<1>1. Init => Promise!Init
  BY DEF Init, Promise!Init, Given
<1>2. IInv /\ IInv' /\ [Next]_vars => [Promise!Next]_(Promise!vars)
  <2>. SUFFICES ASSUME IInv, IInv', [Next]_vars PROVE [Promise!Next]_(Promise!vars)
    OBVIOUS
  <2>. USE DEF requestVars
  <2>. DEFINE given == [x \in Requests |-> Given(x)]
  <2>1. ASSUME UNCHANGED <<question, produced, answer>> PROVE UNCHANGED Promise!vars
    BY <2>1, GivenSame DEF Promise!vars
  <2>2. ASSUME NEW r \in Requests, NEW q \in Questions, AskHit(r, q)
        PROVE  Promise!AskAndGive(r)
    <3>. DEFINE w == redis[Slot(q)].by
    <3>1. answer' = [answer EXCEPT ![r] = answer'[r]] /\ answer'[r] # None /\ answer'[r].by = w
      <4>1. answer' = [answer EXCEPT ![r] = [by |-> w, sent |-> redis[Slot(q)].sent]]
        BY <2>2 DEF AskHit
      <4>2. answer'[r] = [by |-> w, sent |-> redis[Slot(q)].sent]
        BY <4>1 DEF IInv, TypeOK
      <4>3. answer'[r] \in Answer
        BY <2>2, <4>2, SlotFacts DEF AskHit, IInv, TypeOK
      <4>4. answer' = [answer EXCEPT ![r] = answer'[r]]
        BY <4>1, <4>2
      <4>5. answer'[r].by = w
        BY <4>2
      <4>6. answer'[r] # None
        BY <4>3, ResponseCacheAssumption DEF Answer
      <4>. QED  BY <4>4, <4>5, <4>6
    <3>2. given' = [given EXCEPT ![r] = w]
      BY <3>1, GivenChange
    <3>3. /\ w \in produced /\ question[r] = None /\ UNCHANGED produced
          /\ question' = [question EXCEPT ![r] = q]
      BY <2>2, SlotFacts DEF AskHit, IInv, Genuine, Progress, OnCourse
    <3>4. question[w] \in Questions /\ Slot(question[w]) = Slot(q)
      BY <2>2, <3>3, SlotFacts DEF AskHit, IInv, TypeOK, Genuine, Progress, OnCourse
    <3>5. question[w] = q
      BY <3>4, SlotFacts
    <3>. HIDE DEF w, given
    <3>6. \E u \in produced : /\ question' = [question EXCEPT ![r] = question[u]]
                              /\ given' = [given EXCEPT ![r] = u]
      BY <3>2, <3>3, <3>5
    <3>. QED  BY <3>3, <3>6 DEF Promise!AskAndGive, given
  <2>3. ASSUME NEW r \in Requests, NEW q \in Questions, AskMiss(r, q) PROVE Promise!Ask(r)
    BY <2>3, GivenSame DEF AskMiss, Promise!Ask, IInv, Progress, OnCourse
  <2>4. ASSUME NEW r \in Requests, NEW m, ChatAnswers(r, m) PROVE Promise!Produce(r)
    BY <2>4, GivenSame DEF ChatAnswers, Asks, Promise!Produce
  <2>5. ASSUME NEW r \in Requests, StreamEnds(r) PROVE Promise!ProduceAndGive(r)
    <3>1. answer' = [answer EXCEPT ![r] = answer'[r]] /\ answer'[r] # None /\ answer'[r].by = r
      BY <2>5, ResponseCacheAssumption DEF StreamEnds, IInv, TypeOK, Answer
    <3>2. given' = [given EXCEPT ![r] = r]
      BY <3>1, GivenChange
    <3>3. answer[r] = None
      BY <2>5 DEF StreamEnds, IInv, Progress, OnCourse
    <3>4. given[r] = None
      BY <3>3, GivenWhole
    <3>. QED  BY <2>5, <3>2, <3>4 DEF StreamEnds, Asks, Promise!ProduceAndGive
  <2>6. ASSUME NEW r \in Requests, pc[r] = "fill", Returned(r), Asks(r, "chat"),
               UNCHANGED <<question, produced>>
        PROVE  Promise!Give(r)
    <3>1. answer' = [answer EXCEPT ![r] = answer'[r]] /\ answer'[r] # None /\ answer'[r].by = r
      BY <2>6, ResponseCacheAssumption DEF Returned, IInv, TypeOK, Answer
    <3>2. given' = [given EXCEPT ![r] = r]
      BY <3>1, GivenChange
    <3>3. answer[r] = None /\ r \in produced
      BY <2>6 DEF Asks, IInv, Progress, OnCourse
    <3>4. given[r] = None
      BY <3>3, GivenWhole
    <3>. HIDE DEF given
    <3>5. \E w \in produced : question[w] = question[r] /\ given' = [given EXCEPT ![r] = w]
      BY <3>2, <3>3
    <3>. QED  BY <2>6, <3>4, <3>5 DEF Promise!Give, given
  <2>7. ASSUME NEW r \in Requests, Engine(r)
        PROVE  Promise!Next \/ UNCHANGED Promise!vars
    <3>1. CASE PartAnswers(r) \/ Chunk(r) \/ DispatchFails(r) \/ Gone(r)
      BY <2>1, <3>1 DEF PartAnswers, Chunk, DispatchFails, Gone
    <3>2. CASE Fill(r) \/ FillFails(r)
      <4>1. pc[r] = "fill" /\ UNCHANGED <<question, produced>>
            /\ (Returned(r) \/ UNCHANGED answer)
        BY <3>2 DEF Fill, FillFails
      <4>2. Returned(r) /\ ~Asks(r, "chat") => UNCHANGED answer
        BY DEF Returned
      <4>. QED  BY <2>1, <2>6, <4>1, <4>2 DEF Promise!Next
    <3>. QED  BY <2>2, <2>3, <2>4, <2>5, <2>7, <3>1, <3>2 DEF Engine, Promise!Next
  <2>8. ASSUME NEW i \in Invalidations, Invalidate(i) PROVE UNCHANGED Promise!vars
    <3>1. UNCHANGED <<question, produced, answer>>
      BY <2>8 DEF Invalidate, ReadIndex, DeleteBatch, StartScan, Visit, EndScan,
                  InvalidationFails
    <3>. QED  BY <2>1, <3>1
  <2>9. ASSUME Tick \/ UNCHANGED vars PROVE UNCHANGED Promise!vars
    BY <2>1, <2>9 DEF Tick, vars
  <2>. QED  BY <2>7, <2>8, <2>9 DEF Next
<1>. QED  BY <1>1, <1>2, Invariance, PTL DEF Spec, ImplementsAnswers, Promise!Spec

-----------------------------------------------------------------------------
(* IndexCovers and InvalidationEffective.  Nothing is to live longer than a *)
(* whole TTL; an invalidation by model that has read the index knows the    *)
(* key of every full response that it must find there; while a scan runs    *)
(* every entry counts as exposed to it.                                     *)
Bounded == \A s \in DOMAIN redis : redis[s].exp <= clock + TTL

Covered(s) ==
    LET w == redis[s].by IN
    (s[1] = "full" /\ named[w] # None /\ w \notin exposed) =>
        /\ s[2] \in Members(named[w])
        /\ redis[Index(named[w])].exp >= redis[s].exp

Batched ==
    \A i \in Invalidations : ipc[i] = "delete" => target[i] \in Models /\
        \A s \in Entries :
            (s[1] = "full" /\ named[redis[s].by] = target[i] /\ redis[s].by \notin exposed)
                => s[2] \in batch[i]

Scanned ==
    \A i \in Invalidations : ipc[i] = "scan" =>
        \A s \in Entries : redis[s].by \in exposed

(* What an invalidation has to remove is not written again, and until it    *)
(* returns is either gone or still on its list.                             *)
Doomed ==
    \A i \in Invalidations :
        /\ \A w \in doomed[i] : pc[w] \in Ended
        /\ ipc[i] = "delete" =>
              \A s \in Entries : redis[s].by \in doomed[i] => s[2] \in batch[i]
        /\ ipc[i] = "scan" =>
              \A s \in Entries : redis[s].by \in doomed[i] => s \in pending[i]

CoverInv == Bounded /\ IndexCovers /\ Batched /\ Scanned
JInv == IInv /\ CoverInv /\ Doomed /\ InvalidationEffective

-----------------------------------------------------------------------------
(* The writer of an entry, and the form of its name. *)
LEMMA EntryFacts ==
  ASSUME IInv, NEW s \in Entries
  PROVE  /\ redis[s].by \in produced /\ redis[s].by \in Requests
         /\ s = Slot(question[redis[s].by])
         /\ s \in DOMAIN redis /\ s[2] \in Keys
         /\ s[1] = "full" => s = Full(s[2])
         /\ s[1] # "full" => s[1] = "stream" /\ s = Stream(s[2])
<1>1. /\ s[2] \in Keys
      /\ s[1] = "full" => s = Full(s[2])
      /\ s[1] # "full" => s[1] = "stream" /\ s = Stream(s[2])
  BY DEF Entries, IInv, TypeOK, Slots, Full, Stream, Index
<1>2. /\ redis[s].by \in produced /\ redis[s].by \in Requests
      /\ s = Slot(question[redis[s].by]) /\ s \in DOMAIN redis
  BY DEF Entries, IInv, Genuine, TypeOK
<1>. QED  BY <1>1, <1>2

(* Expiries are times. *)
LEMMA Times ==
  ASSUME IInv
  PROVE  clock \in Nat /\ TTL \in Nat /\ \A s \in DOMAIN redis : redis[s].exp \in Nat
  BY ResponseCacheAssumption DEF IInv, TypeOK

(* The names of indexes are those of their models. *)
LEMMA IndexNames ==
  ASSUME NEW m, NEW n
  PROVE  Index(m)[1] = "index" /\ (Index(m) = Index(n) => m = n)
  BY DEF Index

(* What a fill leaves in Redis, seen from the keys. *)
LEMMA StoreKeys ==
  ASSUME NEW r \in Requests, Store(r)
  PROVE  /\ DOMAIN redis \subseteq DOMAIN redis'
         /\ \A s \in DOMAIN redis : s \notin Written(r) => redis'[s] = redis[s]
         /\ Indexed(r) /\ Index(named[r]) # Slot(question[r])
              => /\ Index(named[r]) \in DOMAIN redis'
                 /\ redis'[Index(named[r])] = IndexEntry(named[r], question[r].key)
  BY DEF Store, Written

(* A step that stores nothing and keeps, of everything that is still        *)
(* exposed to nothing, the index too, keeps the index covering.             *)
LEMMA CoverKept ==
  ASSUME IInv, CoverInv, [Next]_vars,
         DOMAIN redis' \subseteq DOMAIN redis, \A s \in DOMAIN redis' : redis'[s] = redis[s],
         clock' \in Nat, clock' >= clock, exposed \subseteq exposed',
         \A s \in Entries : s \in DOMAIN redis' /\ s[1] = "full" /\ named[redis[s].by] # None
                              /\ redis[s].by \notin exposed'
                            => Index(named[redis[s].by]) \in DOMAIN redis'
  PROVE  Bounded' /\ IndexCovers'
<1>1. Bounded'
  <2>1. ASSUME NEW s \in DOMAIN redis' PROVE redis'[s].exp <= clock' + TTL
    <3>1. /\ redis[s].exp <= clock + TTL /\ redis[s].exp \in Nat /\ clock \in Nat
          /\ TTL \in Nat /\ redis'[s] = redis[s]
      BY ResponseCacheAssumption DEF CoverInv, Bounded, IInv, TypeOK
    <3>. QED  BY <3>1
  <2>. QED  BY <2>1 DEF Bounded
<1>2. ASSUME NEW s \in Entries' PROVE Covered(s)'
  <2>. DEFINE w == redis[s].by
  <2>1. s \in Entries /\ redis'[s] = redis[s] /\ s \in DOMAIN redis'
    BY DEF Entries
  <2>2. w \in produced
    BY <2>1, EntryFacts
  <2>3. named'[w] = named[w]
    BY <2>2, Final
  <2>4. SUFFICES ASSUME s[1] = "full", named[w] # None, w \notin exposed'
                 PROVE  Covered(s)'
    BY <2>1, <2>3 DEF Covered
  <2>5. s[2] \in Members(named[w]) /\ redis[Index(named[w])].exp >= redis[s].exp
    BY <2>1, <2>4 DEF CoverInv, IndexCovers
  <2>6. Index(named[w]) \in DOMAIN redis' /\ Index(named[w]) \in DOMAIN redis
    BY <2>1, <2>4
  <2>7. redis'[Index(named[w])] = redis[Index(named[w])]
    BY <2>6
  <2>. QED  BY <2>1, <2>3, <2>5, <2>6, <2>7 DEF Covered, Members
<1>. QED  BY <1>1, <1>2 DEF IndexCovers, Covered

(* When entries are only taken away and nothing is read or begun, what an   *)
(* invalidation knows stays true.                                           *)
LEMMA FewerEntries ==
  ASSUME IInv, CoverInv, [Next]_vars,
         DOMAIN redis' \subseteq DOMAIN redis, \A s \in DOMAIN redis' : redis'[s] = redis[s],
         exposed' = exposed, target' = target, batch' = batch,
         \A i \in Invalidations : ipc'[i] \in {ipc[i], "done", "error"}
  PROVE  Batched' /\ Scanned'
<1>1. ASSUME NEW s \in Entries'
      PROVE  s \in Entries /\ redis'[s] = redis[s] /\ named'[redis[s].by] = named[redis[s].by]
  <2>1. s \in Entries /\ redis'[s] = redis[s]
    BY DEF Entries
  <2>2. redis[s].by \in produced
    BY <2>1, EntryFacts
  <2>. QED  BY <2>1, <2>2, Final
<1>. QED  BY <1>1 DEF CoverInv, Batched, Scanned

(* Every step keeps the index covering what no invalidation interfered with. *)
LEMMA CoverStep == IInv /\ CoverInv /\ [Next]_vars => CoverInv'
<1>. SUFFICES ASSUME IInv, CoverInv, [Next]_vars PROVE CoverInv'
  OBVIOUS
<1>1. clock \in Nat /\ TTL \in Nat
  BY ResponseCacheAssumption DEF IInv, TypeOK
<1>2. ASSUME UNCHANGED <<clock, redis, exposed>>,
             \A i \in Invalidations : /\ ipc'[i] = "scan" => ipc[i] = "scan"
                                      /\ ipc'[i] = "delete" => /\ ipc[i] = "delete"
                                                              /\ target'[i] = target[i]
                                                              /\ batch'[i] = batch[i]
      PROVE  CoverInv'
  <2>0. ASSUME NEW s \in Entries, s[1] = "full", named[redis[s].by] # None,
               redis[s].by \notin exposed
        PROVE  Index(named[redis[s].by]) \in DOMAIN redis
    BY <2>0 DEF CoverInv, IndexCovers, Members
  <2>1. Bounded' /\ IndexCovers'
    BY <1>1, <1>2, <2>0, CoverKept
  <2>2. ASSUME NEW s \in Entries PROVE named'[redis[s].by] = named[redis[s].by]
    <3>1. redis[s].by \in produced
      BY EntryFacts
    <3>. QED  BY <3>1, Final
  <2>3. Batched'
    BY <1>2, <2>2 DEF CoverInv, Batched, Entries
  <2>4. Scanned'
    BY <1>2 DEF CoverInv, Scanned, Entries
  <2>. QED  BY <2>1, <2>3, <2>4 DEF CoverInv
<1>3. ASSUME NEW r \in Requests, Engine(r), ~Fill(r) PROVE CoverInv'
  <2>1. UNCHANGED <<clock, redis, exposed, ipc, target, batch>>
    BY <1>3 DEF Engine, AskHit, AskMiss, ChatAnswers, PartAnswers, Chunk, StreamEnds,
                DispatchFails, FillFails, Gone, adminVars
  <2>. QED  BY <1>2, <2>1
<1>4. CASE Tick
  <2>1. /\ clock' = clock + 1 /\ UNCHANGED <<exposed, ipc, target, batch>>
        /\ DOMAIN redis' = DOMAIN redis \ {s \in DOMAIN redis : redis[s].exp <= clock + 1}
        /\ \A s \in DOMAIN redis' : redis'[s] = redis[s]
    BY <1>4 DEF Tick, Remove, Restrict, adminVars
  <2>2. ASSUME NEW s \in Entries, s \in DOMAIN redis', s[1] = "full",
               named[redis[s].by] # None, redis[s].by \notin exposed'
        PROVE  Index(named[redis[s].by]) \in DOMAIN redis'
    <3>. DEFINE x == Index(named[redis[s].by])
    <3>1. x \in DOMAIN redis /\ redis[x].exp >= redis[s].exp
      BY <2>1, <2>2 DEF CoverInv, IndexCovers, Members
    <3>. HIDE DEF x
    <3>0. s \in DOMAIN redis /\ ~(redis[s].exp <= clock + 1)
      BY <2>1, <2>2
    <3>2. redis[x].exp \in Nat /\ redis[s].exp \in Nat /\ redis[s].exp > clock + 1
      BY <3>0, <3>1, Times
    <3>3. ~(redis[x].exp <= clock + 1)
      BY <1>1, <3>1, <3>2
    <3>4. x \in DOMAIN redis'
      BY <2>1, <3>1, <3>3
    <3>. QED  BY <3>4 DEF x
  <2>3. DOMAIN redis' \subseteq DOMAIN redis /\ clock' \in Nat /\ clock' >= clock
    BY <1>1, <2>1
  <2>4. Bounded' /\ IndexCovers'
    BY <2>1, <2>2, <2>3, CoverKept
  <2>. QED  BY <2>1, <2>3, <2>4, FewerEntries DEF CoverInv
<1>5. ASSUME NEW r \in Requests, Fill(r) PROVE CoverInv'
  <2>1. /\ pc[r] = "fill" /\ Store(r) /\ question[r] \in Questions /\ TypeOK
        /\ UNCHANGED <<clock, question, named, ipc, target, batch>>
        /\ exposed' = IF UnderWay(named[r]) THEN exposed \cup {r} ELSE exposed
    BY <1>5 DEF Fill, IInv, Progress, OnCourse, adminVars
  <2>2. /\ Entry(r).exp = clock + TTL /\ Entry(r).by = r
        /\ \A m, k : /\ IndexEntry(m, k).exp = clock + TTL
                     /\ IndexEntry(m, k).keys = Members(m) \cup {k}
    BY DEF Entry, IndexEntry
  <2>3. ASSUME NEW s \in DOMAIN redis'
        PROVE  \/ s = Slot(question[r]) /\ redis'[s] = Entry(r)
               \/ s = Index(named[r]) /\ redis'[s] = IndexEntry(named[r], question[r].key)
               \/ s \in DOMAIN redis /\ redis'[s] = redis[s]
    BY <2>1, StoreFacts
  <2>4. Bounded'
    BY <1>1, <2>1, <2>2, <2>3 DEF CoverInv, Bounded
  <2>5. ASSUME NEW s \in Entries'
        PROVE  \/ s = Slot(question[r]) /\ redis'[s].by = r /\ redis'[s].exp = clock + TTL
               \/ s \in Entries /\ redis'[s] = redis[s]
    BY <2>2, <2>3, IndexNames DEF Entries
  <2>6. IndexCovers'
    <3>. SUFFICES ASSUME NEW s \in Entries' PROVE Covered(s)'
      BY DEF IndexCovers, Covered
    <3>. DEFINE q == question[r]
                w == redis[s].by
                x == Index(named[w])
                new == Index(named[r])
    <3>1. Slot(q)[1] # "index" /\ new[1] = "index" /\ x[1] = "index"
      BY <2>1, SlotFacts DEF Index
    <3>2. CASE s = Slot(q) /\ redis'[s].by = r /\ redis'[s].exp = clock + TTL
      <4>1. SUFFICES ASSUME s[1] = "full", named[r] # None PROVE Covered(s)'
        BY <2>1, <3>2 DEF Covered
      <4>2. q.kind = "chat" /\ s[2] = q.key
        BY <3>2, <4>1 DEF Slot, Full, Stream
      <4>3. new \in DOMAIN redis' /\ redis'[new] = IndexEntry(named[r], q.key)
        BY <2>1, <3>1, <4>1, <4>2, StoreKeys DEF Indexed
      <4>. QED  BY <1>1, <2>1, <2>2, <3>2, <4>2, <4>3 DEF Covered, Members
    <3>3. CASE s \in Entries /\ redis'[s] = redis[s]
      <4>1. SUFFICES ASSUME s[1] = "full", named[w] # None, w \notin exposed
                     PROVE  Covered(s)'
        BY <2>1, <3>3 DEF Covered
      <4>2. /\ x \in DOMAIN redis /\ s[2] \in redis[x].keys
            /\ redis[x].exp >= redis[s].exp /\ Members(named[w]) = redis[x].keys
        BY <3>3, <4>1 DEF CoverInv, IndexCovers, Members
      <4>3. x \in DOMAIN redis'
        BY <2>1, <4>2, StoreKeys
      <4>4. s[2] \in redis'[x].keys /\ redis'[x].exp >= redis[s].exp
        <5>1. CASE x \notin Written(r)
          BY <2>1, <4>2, <5>1, StoreKeys
        <5>2. CASE x \in Written(r)
          <6>1. Indexed(r) /\ x = new
            BY <3>1, <5>2 DEF Written
          <6>2. named[r] = named[w]
            BY <6>1, IndexNames
          <6>3. redis'[x] = IndexEntry(named[r], q.key)
            BY <2>1, <3>1, <6>1, StoreKeys
          <6>4. redis[s].exp <= clock + TTL
            BY <3>3 DEF Entries, CoverInv, Bounded
          <6>. HIDE DEF x
          <6>5. redis'[x].exp = clock + TTL /\ redis'[x].keys = Members(named[w]) \cup {q.key}
            BY <2>2, <6>2, <6>3
          <6>6. redis[s].exp \in Nat /\ clock + TTL \in Nat
            BY <3>3, Times DEF Entries
          <6>. QED  BY <4>2, <6>4, <6>5, <6>6
        <5>. QED  BY <5>1, <5>2
      <4>. QED  BY <2>1, <3>3, <4>3, <4>4 DEF Covered, Members
    <3>. QED  BY <2>5, <3>2, <3>3
  <2>7. \A i \in Invalidations :
           /\ ipc[i] = "scan" => r \in exposed'
           /\ ipc[i] = "delete" /\ target[i] = named[r] => r \in exposed'
    BY <2>1 DEF UnderWay
  <2>8. Batched'
    BY <2>1, <2>5, <2>7 DEF CoverInv, Batched
  <2>9. Scanned'
    BY <2>1, <2>5, <2>7 DEF CoverInv, Scanned
  <2>. QED  BY <2>4, <2>6, <2>8, <2>9 DEF CoverInv
<1>6. ASSUME NEW i \in Invalidations, NEW m \in Models, ReadIndex(i, m) PROVE CoverInv'
  <2>1. UNCHANGED <<clock, redis, exposed, pc, named>>
    BY <1>6 DEF ReadIndex, requestVars
  <2>2. Bounded' /\ IndexCovers'
    BY <2>1 DEF CoverInv, Bounded, IndexCovers, Entries, Members
  <2>3. \A j \in Invalidations \ {i} :
           ipc'[j] = ipc[j] /\ target'[j] = target[j] /\ batch'[j] = batch[j]
    BY <1>6 DEF ReadIndex, IInv, TypeOK
  <2>4. /\ ipc'[i] \in {"done", "delete"} /\ target'[i] = m /\ batch'[i] = Members(m)
    BY <1>6 DEF ReadIndex, IInv, TypeOK
  <2>5. ASSUME NEW s \in Entries, s[1] = "full", named[redis[s].by] = m,
               redis[s].by \notin exposed
        PROVE  s[2] \in Members(m)
    BY <2>5, ResponseCacheAssumption DEF CoverInv, IndexCovers
  <2>6. Batched'
    BY <2>1, <2>3, <2>4, <2>5 DEF CoverInv, Batched, Entries
  <2>7. Scanned'
    BY <2>1, <2>3, <2>4 DEF CoverInv, Scanned, Entries
  <2>. QED  BY <2>2, <2>6, <2>7 DEF CoverInv
<1>7. ASSUME NEW i \in Invalidations, DeleteBatch(i) PROVE CoverInv'
  <2>1. /\ Remove(OfBatch(i)) /\ UNCHANGED <<clock, exposed, target, batch>>
        /\ \A j \in Invalidations : ipc'[j] \in {ipc[j], "done", "error"}
    BY <1>7 DEF DeleteBatch, IInv, TypeOK
  <2>2. /\ DOMAIN redis' = DOMAIN redis \ OfBatch(i)
        /\ \A s \in DOMAIN redis' : redis'[s] = redis[s]
    BY <2>1 DEF Remove, Restrict
  <2>3. ASSUME NEW s \in Entries, s \in DOMAIN redis', s[1] = "full",
               named[redis[s].by] # None, redis[s].by \notin exposed'
        PROVE  Index(named[redis[s].by]) \in DOMAIN redis'
    <3>. DEFINE n == named[redis[s].by]
    <3>1. Index(n) \in DOMAIN redis
      BY <2>1, <2>3 DEF CoverInv, IndexCovers, Members
    <3>2. s = Full(s[2]) /\ s[2] \notin batch[i]
      BY <2>2, <2>3, EntryFacts DEF OfBatch
    <3>3. n # target[i]
      BY <1>7, <2>1, <2>3, <3>2 DEF DeleteBatch, CoverInv, Batched
    <3>4. Index(n) \notin OfBatch(i)
      BY <3>3 DEF OfBatch, Index, Full, Stream
    <3>. QED  BY <2>2, <3>1, <3>4
  <2>4. Bounded' /\ IndexCovers'
    BY <1>1, <2>1, <2>2, <2>3, CoverKept
  <2>. QED  BY <2>1, <2>2, <2>4, FewerEntries DEF CoverInv
<1>8. ASSUME NEW i \in Invalidations, StartScan(i) PROVE CoverInv'
  <2>1. /\ UNCHANGED <<clock, redis, named, target, batch>>
        /\ \A s \in Entries : redis[s].by \in exposed'
        /\ \A j \in Invalidations \ {i} : ipc'[j] = ipc[j]
        /\ ipc'[i] = "scan"
    BY <1>8 DEF StartScan, requestVars, IInv, TypeOK
  <2>2. \A s \in Entries' : s \in Entries
    BY <2>1 DEF Entries
  <2>. QED
    BY <2>1, <2>2 DEF CoverInv, Bounded, IndexCovers, Batched, Scanned
<1>9. ASSUME NEW i \in Invalidations, NEW s \in DOMAIN redis, Visit(i, s) PROVE CoverInv'
  <2>1. /\ Remove({s}) /\ UNCHANGED <<clock, exposed, ipc, target, batch>>
        /\ ipc[i] = "scan"
    BY <1>9 DEF Visit, adminVars
  <2>2. DOMAIN redis' \subseteq DOMAIN redis /\ \A x \in DOMAIN redis' : redis'[x] = redis[x]
    BY <2>1, RemoveFacts
  <2>3. \A x \in Entries : redis[x].by \in exposed'
    BY <2>1 DEF CoverInv, Scanned
  <2>4. Bounded' /\ IndexCovers'
    BY <1>1, <2>1, <2>2, <2>3, CoverKept
  <2>. QED  BY <2>1, <2>2, <2>4, FewerEntries DEF CoverInv
<1>10. ASSUME NEW i \in Invalidations, EndScan(i) \/ InvalidationFails(i) PROVE CoverInv'
  <2>1. /\ UNCHANGED <<clock, redis, exposed, target, batch>>
        /\ \A j \in Invalidations : ipc'[j] = ipc[j] \/ ipc'[j] \in {"done", "error"}
    BY <1>10 DEF EndScan, InvalidationFails, IInv, TypeOK
  <2>. QED  BY <1>2, <2>1
<1>11. CASE UNCHANGED vars
  BY <1>2, <1>11 DEF vars
<1>. QED
  BY <1>3, <1>4, <1>5, <1>6, <1>7, <1>8, <1>9, <1>10, <1>11 DEF Next, Invalidate, Engine

-----------------------------------------------------------------------------
(* A request that has returned does nothing any more. *)
LEMMA EndedStays ==
  ASSUME IInv, [Next]_vars, NEW w \in Requests, pc[w] \in Ended
  PROVE  pc'[w] = pc[w]
<1>. USE DEF IInv, TypeOK, requestVars, Ended
<1>1. ASSUME NEW r \in Requests, Engine(r) PROVE pc'[w] = pc[w]
  BY <1>1 DEF Engine, AskHit, AskMiss, ChatAnswers, PartAnswers, Chunk, StreamEnds,
              DispatchFails, Fill, FillFails, Gone, Returned
<1>2. ASSUME NEW i \in Invalidations, Invalidate(i) PROVE pc' = pc
  BY <1>2 DEF Invalidate, ReadIndex, DeleteBatch, StartScan, Visit, EndScan, InvalidationFails
<1>. QED  BY <1>1, <1>2 DEF Next, Tick, vars

(* A step that takes nothing on for an invalidation, stores no entry of a   *)
(* doomed request and drops from its list only what does not exist any more *)
(* keeps the list complete.                                                 *)
LEMMA DoomedKept ==
  ASSUME IInv, Doomed, InvalidationEffective, [Next]_vars,
         NEW i \in Invalidations, doomed'[i] = doomed[i],
         \A s \in Entries' : redis'[s].by \in doomed[i]
                               => s \in Entries /\ redis[s].by \in doomed[i],
         ipc'[i] = ipc[i] \/ ipc'[i] = "error",
         ipc[i] = "delete" => batch'[i] = batch[i],
         ipc[i] = "scan" => \A s \in Entries' : s \in pending[i] => s \in pending'[i]
  PROVE  /\ \A w \in doomed'[i] : pc'[w] \in Ended
         /\ ipc'[i] = "delete" =>
               \A s \in Entries' : redis'[s].by \in doomed'[i] => s[2] \in batch'[i]
         /\ ipc'[i] = "scan" =>
               \A s \in Entries' : redis'[s].by \in doomed'[i] => s \in pending'[i]
         /\ ipc'[i] = "done" => \A s \in Entries' : redis'[s].by \notin doomed'[i]
<1>1. ASSUME NEW w \in doomed[i] PROVE pc'[w] \in Ended
  <2>1. w \in Requests /\ pc[w] \in Ended
    BY DEF Doomed, IInv, TypeOK
  <2>. QED  BY <2>1, EndedStays
<1>. QED  BY <1>1 DEF Doomed, InvalidationEffective

(* Every step keeps the lists of the invalidations complete. *)
LEMMA DoomedStep ==
  ASSUME IInv, CoverInv, Doomed, InvalidationEffective, [Next]_vars
  PROVE  Doomed' /\ InvalidationEffective'
<1>. SUFFICES ASSUME NEW i \in Invalidations
     PROVE  /\ \A w \in doomed'[i] : pc'[w] \in Ended
            /\ ipc'[i] = "delete" =>
                  \A s \in Entries' : redis'[s].by \in doomed'[i] => s[2] \in batch'[i]
            /\ ipc'[i] = "scan" =>
                  \A s \in Entries' : redis'[s].by \in doomed'[i] => s \in pending'[i]
            /\ ipc'[i] = "done" => \A s \in Entries' : redis'[s].by \notin doomed'[i]
  BY DEF Doomed, InvalidationEffective
<1>. DEFINE Goal == /\ \A w \in doomed'[i] : pc'[w] \in Ended
                    /\ ipc'[i] = "delete" =>
                          \A s \in Entries' : redis'[s].by \in doomed'[i] => s[2] \in batch'[i]
                    /\ ipc'[i] = "scan" =>
                          \A s \in Entries' : redis'[s].by \in doomed'[i] => s \in pending'[i]
                    /\ ipc'[i] = "done" => \A s \in Entries' : redis'[s].by \notin doomed'[i]
<1>1. ASSUME UNCHANGED <<ipc, batch, doomed>>, NEW gone, Remove(gone) PROVE Goal
  <2>1. /\ DOMAIN redis' = DOMAIN redis \ gone
        /\ \A s \in DOMAIN redis' : redis'[s] = redis[s]
        /\ pending'[i] = pending[i] \ gone
    BY <1>1 DEF Remove, Restrict
  <2>2. \A s \in Entries' : s \in Entries /\ redis'[s] = redis[s] /\ s \notin gone
    BY <2>1 DEF Entries
  <2>. QED  BY <1>1, <2>1, <2>2, DoomedKept
<1>2. ASSUME UNCHANGED <<redis, pending, batch, doomed>>, ipc'[i] = ipc[i] \/ ipc'[i] = "error"
      PROVE  Goal
  <2>1. \A s \in Entries' : s \in Entries /\ redis'[s] = redis[s]
    BY <1>2 DEF Entries
  <2>. QED  BY <1>2, <2>1, DoomedKept
<1>3. ASSUME NEW r \in Requests, Fill(r) PROVE Goal
  <2>1. /\ pc[r] = "fill" /\ Store(r) /\ question[r] \in Questions /\ TypeOK
        /\ UNCHANGED <<ipc, batch, doomed, pending>>
    BY <1>3 DEF Fill, IInv, Progress, OnCourse, adminVars
  <2>2. r \notin doomed[i]
    BY <2>1 DEF Doomed, Ended
  <2>3. ASSUME NEW s \in Entries', redis'[s].by \in doomed[i]
        PROVE  s \in Entries /\ redis[s].by \in doomed[i]
    <3>1. s \in DOMAIN redis' /\ s[1] # "index"
      BY DEF Entries
    <3>2. ~(s = Slot(question[r]) /\ redis'[s] = Entry(r))
      BY <2>2, <2>3 DEF Entry
    <3>3. s # Index(named[r])
      BY <3>1, IndexNames
    <3>4. s \in DOMAIN redis /\ redis'[s] = redis[s]
      BY <2>1, <3>1, <3>2, <3>3, StoreFacts
    <3>. QED  BY <2>3, <3>1, <3>4 DEF Entries
  <2>. QED  BY <2>1, <2>3, DoomedKept
<1>4. ASSUME NEW r \in Requests, Engine(r), ~Fill(r) PROVE Goal
  <2>1. UNCHANGED <<redis, pending, batch, doomed, ipc>>
    BY <1>4 DEF Engine, AskHit, AskMiss, ChatAnswers, PartAnswers, Chunk, StreamEnds,
                DispatchFails, FillFails, Gone, adminVars
  <2>. QED  BY <1>2, <2>1
<1>5. CASE Tick
  <2>1. UNCHANGED <<ipc, batch, doomed>> /\ \E gone : Remove(gone)
    BY <1>5 DEF Tick, adminVars
  <2>. QED  BY <1>1, <2>1
<1>6. CASE UNCHANGED vars
  BY <1>2, <1>6 DEF vars
<1>7. ASSUME NEW j \in Invalidations, j # i, Invalidate(j) PROVE Goal
  <2>1. ipc'[i] = ipc[i] /\ doomed'[i] = doomed[i] /\ batch'[i] = batch[i]
    BY <1>7 DEF Invalidate, ReadIndex, DeleteBatch, StartScan, Visit, EndScan,
                InvalidationFails, adminVars, IInv, TypeOK
  <2>2. /\ \A s \in Entries' : s \in Entries /\ redis'[s] = redis[s]
        /\ \A s \in Entries' : s \in pending[i] => s \in pending'[i]
    <3>1. CASE \E gone : Remove(gone)
      BY <3>1 DEF Remove, Restrict, Entries
    <3>2. CASE redis' = redis /\ pending'[i] = pending[i]
      BY <3>2 DEF Entries
    <3>3. (\E gone : Remove(gone)) \/ (redis' = redis /\ pending'[i] = pending[i])
      BY <1>7 DEF Invalidate, ReadIndex, DeleteBatch, StartScan, Visit, EndScan,
                  InvalidationFails, IInv, TypeOK
    <3>. QED  BY <3>1, <3>2, <3>3
  <2>. QED  BY <2>1, <2>2, DoomedKept
<1>8. ASSUME NEW m \in Models, ReadIndex(i, m) PROVE Goal
  <2>1. /\ UNCHANGED <<redis, pc>> /\ doomed'[i] = Writers(Filed(m))
        /\ batch'[i] = Members(m) /\ ipc'[i] = IF Members(m) = {} THEN "done" ELSE "delete"
    BY <1>8 DEF ReadIndex, requestVars, IInv, TypeOK
  <2>2. \A w \in Writers(Filed(m)) : pc[w] \in Ended
    BY DEF Writers, Finished
  <2>3. ASSUME NEW s \in Entries, redis[s].by \in Writers(Filed(m)) PROVE s[2] \in Members(m)
    <3>1. PICK t \in Filed(m) : redis[t].by = redis[s].by
      BY <2>3 DEF Writers
    <3>2. t \in Entries
      BY DEF Filed
    <3>3. t = s
      BY <3>1, <3>2, EntryFacts
    <3>4. Full(s[2]) \in {x \in Entries : /\ x[1] = "full" /\ redis[x].by \notin exposed
                                        /\ named[redis[x].by] = m}
      BY <3>3, EntryFacts DEF Filed
    <3>5. Full(s[2])[2] = s[2]
      BY DEF Full
    <3>. QED  BY <3>4, <3>5, ResponseCacheAssumption DEF CoverInv, IndexCovers
  <2>. QED  BY <2>1, <2>2, <2>3 DEF Entries
<1>9. ASSUME DeleteBatch(i) PROVE Goal
  <2>1. /\ ipc[i] = "delete" /\ Remove(OfBatch(i)) /\ UNCHANGED <<pc, doomed, batch>>
        /\ ipc'[i] \in {"done", "delete"}
    BY <1>9 DEF DeleteBatch, requestVars, IInv, TypeOK
  <2>2. ASSUME NEW s \in Entries' PROVE redis'[s].by \notin doomed[i]
    <3>1. s \in Entries /\ redis'[s] = redis[s] /\ s \notin OfBatch(i)
      BY <2>1 DEF Remove, Restrict, Entries
    <3>2. s[2] \notin batch[i]
      BY <3>1, EntryFacts DEF OfBatch
    <3>. QED  BY <2>1, <3>1, <3>2 DEF Doomed
  <2>. QED  BY <2>1, <2>2 DEF Doomed
<1>10. ASSUME StartScan(i) PROVE Goal
  <2>1. /\ UNCHANGED <<redis, pc>> /\ doomed'[i] = Writers(Entries)
        /\ pending'[i] = DOMAIN redis /\ ipc'[i] = "scan"
    BY <1>10 DEF StartScan, requestVars, IInv, TypeOK
  <2>2. \A w \in Writers(Entries) : pc[w] \in Ended
    BY DEF Writers, Finished
  <2>. QED  BY <2>1, <2>2 DEF Entries
<1>11. ASSUME NEW s \in DOMAIN redis, Visit(i, s) PROVE Goal
  BY <1>1, <1>11 DEF Visit, adminVars
<1>12. ASSUME EndScan(i) PROVE Goal
  <2>1. /\ ipc[i] = "scan" /\ pending[i] = {} /\ ipc'[i] = "done"
        /\ UNCHANGED <<redis, pc, doomed>>
    BY <1>12 DEF EndScan, requestVars, IInv, TypeOK
  <2>. QED  BY <2>1 DEF Doomed, Entries
<1>13. ASSUME InvalidationFails(i) PROVE Goal
  BY <1>2, <1>13 DEF InvalidationFails, IInv, TypeOK
<1>. QED
  BY <1>3, <1>4, <1>5, <1>6, <1>7, <1>8, <1>9, <1>10, <1>11, <1>12, <1>13
     DEF Next, Invalidate

-----------------------------------------------------------------------------
(* The strengthened invariant holds in every reachable state. *)
LEMMA Strengthened == Spec => []JInv
<1>1. Init => JInv
  <2>1. Init => CoverInv /\ Doomed /\ InvalidationEffective
    BY DEF Init, CoverInv, Bounded, IndexCovers, Batched, Scanned, Doomed,
           InvalidationEffective, Entries
  <2>. QED  BY <2>1, InitIInv DEF JInv
<1>2. JInv /\ [Next]_vars => JInv'
  BY TypeOKStep, GenuineStep, ProgressStep, CoverStep, DoomedStep DEF JInv, IInv
<1>. QED  BY <1>1, <1>2, PTL DEF Spec

(* The index of a model covers every response filed under it.              *)
THEOREM IndexCoversHolds == Spec => []IndexCovers
<1>1. JInv => IndexCovers
  BY DEF JInv, CoverInv
<1>. QED  BY <1>1, Strengthened, PTL

(* What an invalidation had to remove is gone when it returns, for good.   *)
THEOREM InvalidationEffectiveHolds == Spec => []InvalidationEffective
<1>1. JInv => InvalidationEffective
  BY DEF JInv
<1>. QED  BY <1>1, Strengthened, PTL
=============================================================================
