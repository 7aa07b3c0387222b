--------------------------- MODULE ResponseCache ---------------------------
(***************************************************************************)
(* The exact response cache (backend/app/cache/exact.py) between its users: *)
(* CoreEngine.chat_completion and stream_chat_completion, which read it and *)
(* fill it, and the admin endpoint /cache/invalidate, which empties it.    *)
(* All workers share one Redis with three kinds of keys:                   *)
(*   cg:cache:<sha>            the full response, SETEX with the TTL       *)
(*   cg:cache:<sha>:stream     the SSE chunks of a stream, with the TTL    *)
(*   cg:cache:idx:model:<name> the set of hashes whose response carries    *)
(*                             the name, for the invalidation by model     *)
(* A step is what a coroutine does between two awaits.  A pipeline of      *)
(* redis-py is one MULTI/EXEC; a scan is many calls.  A command that timed *)
(* out may have run, and the client sends it once more (retry_on_timeout). *)
(* What the model abstracts from a response is who produced it and, for a  *)
(* stream, how many chunks of it there are.                                *)
(***************************************************************************)
EXTENDS Integers, FiniteSets, Functions

CONSTANTS
    Requests,       \* requests to /v1/chat/completions
    Keys,           \* hashes of model, messages and parameters
    Large,          \* the keys whose conversation map_reduce_split splits
    Questions,      \* what clients ask: [kind, key], chat or stream
    Models,         \* model names an administrator may invalidate
    Invalidations,  \* calls of /cache/invalidate
    Parts,          \* sub-conversations of a large one
    TTL,            \* ttl of set and set_stream
    None,           \* no question, no answer, no model name in a response
    MaxChunks,      \* bound: chunks an upstream stream carries
    MaxClock        \* bound: the model stops ticking here

ASSUME ResponseCacheAssumption ==
    /\ IsFiniteSet(Requests) /\ IsFiniteSet(Keys) /\ Large \subseteq Keys
    /\ Questions \subseteq [kind : {"chat", "stream"}, key : Keys]
    /\ Parts \in Nat \ {0, 1} /\ TTL \in Nat \ {0}
    /\ MaxChunks \in Nat /\ MaxClock \in Nat
    /\ None \notin Requests \cup Models \cup Questions
    /\ None \notin [by : Requests, sent : Nat]

VARIABLES
    clock,      \* the clock Redis expires keys by
    redis,      \* the keys that exist, each with its value and its expiry
    pc,         \* where each request is, or how it ended
    question,   \* [kind, key] of each request, once it has asked
    named,      \* the field "model" of the upstream response
    sent,       \* chat: sub-requests answered; stream: chunks passed on
    answer,     \* [by, sent]: whose answer the caller received, None without
    produced,   \* ghost: requests whose upstream answered to the end
    ipc,        \* where each invalidation is, or how it ended
    target,     \* the model it is about, None for "all"
    batch,      \* keys read from the index
    pending,    \* keys its scan must still return: there since it began
    doomed,     \* ghost: writers whose entries it has to remove
    exposed     \* ghost: writers whose entries met an invalidation under way

vars == <<clock, redis, pc, question, named, sent, answer, produced,
          ipc, target, batch, pending, doomed, exposed>>
requestVars == <<pc, question, named, sent, answer, produced>>
adminVars   == <<ipc, target, batch, doomed>>

Ended == {"done", "failed"}

Full(k)   == <<"full", k>>
Stream(k) == <<"stream", k>>
Index(m)  == <<"index", m>>
Slot(q)   == IF q.kind = "chat" THEN Full(q.key) ELSE Stream(q.key)

Init ==
    /\ clock = 0
    /\ redis = [s \in {} |-> None]
    /\ pc = [r \in Requests |-> "idle"]
    /\ question = [r \in Requests |-> None]
    /\ named = [r \in Requests |-> None]
    /\ sent = [r \in Requests |-> 0]
    /\ answer = [r \in Requests |-> None]
    /\ produced = {} /\ exposed = {}
    /\ ipc = [i \in Invalidations |-> "idle"]
    /\ target = [i \in Invalidations |-> None]
    /\ batch = [i \in Invalidations |-> {}]
    /\ pending = [i \in Invalidations |-> {}]
    /\ doomed = [i \in Invalidations |-> {}]

-----------------------------------------------------------------------------
(* The keys of Redis. *)

(* Keys that cease to exist; a scan need not return them any more. *)
Remove(slots) ==
    /\ redis' = Restrict(redis, DOMAIN redis \ slots)
    /\ pending' = [i \in Invalidations |-> pending[i] \ slots]

Members(m) == IF Index(m) \in DOMAIN redis THEN redis[Index(m)].keys ELSE {}

Entry(r) == [by |-> r, sent |-> sent[r], exp |-> clock + TTL]

(* Mutants: the index keeps the expiry of its first member; it holds the   *)
(* names of the entries instead of the hashes.                             *)
MutantIndexExpiry(m, k) ==
    [keys |-> Members(m) \cup {k},
     exp  |-> IF Index(m) \in DOMAIN redis THEN redis[Index(m)].exp
              ELSE clock + TTL]
MutantIndexNames(m, k) == [keys |-> Members(m) \cup {Full(k)}, exp |-> clock + TTL]

IndexEntry(m, k) == [keys |-> Members(m) \cup {k}, exp |-> clock + TTL]

(* set and set_stream: an entry with its TTL and, for a full response that *)
(* names its model, its hash in the index of that model.                   *)
Indexed(r) == question[r].kind = "chat" /\ named[r] # None

Written(r) ==
    {Slot(question[r])} \cup (IF Indexed(r) THEN {Index(named[r])} ELSE {})

Store(r) ==
    redis' = [s \in DOMAIN redis \cup Written(r) |->
        IF s \notin Written(r) THEN redis[s]
        ELSE IF s = Slot(question[r]) THEN Entry(r)
        ELSE IndexEntry(named[r], question[r].key)]

Tick ==
    /\ clock < MaxClock
    /\ clock' = clock + 1
    /\ Remove({s \in DOMAIN redis : redis[s].exp <= clock + 1})
    /\ UNCHANGED <<requestVars, adminVars, exposed>>

-----------------------------------------------------------------------------
(* Requests. *)

(* The first await of a request is the GET of its key. *)
AskHit(r, q) ==
    /\ pc[r] = "idle" /\ Slot(q) \in DOMAIN redis
    /\ question' = [question EXCEPT ![r] = q]
    /\ answer' = [answer EXCEPT ![r] =
                    [by |-> redis[Slot(q)].by, sent |-> redis[Slot(q)].sent]]
    /\ pc' = [pc EXCEPT ![r] = "done"]
    /\ UNCHANGED <<clock, redis, pending, named, sent, produced, adminVars, exposed>>

(* An error of Redis counts as a miss, so a miss is always possible. *)
AskMiss(r, q) ==
    /\ pc[r] = "idle"
    /\ question' = [question EXCEPT ![r] = q]
    /\ pc' = [pc EXCEPT ![r] = "dispatch"]
    /\ UNCHANGED <<clock, redis, pending, named, sent, answer, produced, adminVars, exposed>>

Asks(r, kind) == question[r] # None /\ question[r].kind = kind

(* adapter.chat answers; the response may carry any model name. *)
ChatAnswers(r, m) ==
    /\ pc[r] = "dispatch" /\ Asks(r, "chat") /\ question[r].key \notin Large
    /\ named' = [named EXCEPT ![r] = m]
    /\ sent' = [sent EXCEPT ![r] = 1]
    /\ produced' = produced \cup {r}
    /\ pc' = [pc EXCEPT ![r] = "fill"]
    /\ UNCHANGED <<clock, redis, pending, question, answer, adminVars, exposed>>

(* One sub-request of a split conversation answers.  When the last one has, *)
(* gather returns and reduce_responses is called: an async function whose   *)
(* coroutine, not its result, goes to model_validate, which raises.         *)
PartAnswers(r) ==
    /\ pc[r] = "dispatch" /\ Asks(r, "chat") /\ question[r].key \in Large
    /\ sent' = [sent EXCEPT ![r] = @ + 1]
    /\ pc' = [pc EXCEPT ![r] = IF sent'[r] = Parts THEN "failed" ELSE @]
    /\ UNCHANGED <<clock, redis, pending, question, named, answer, produced, adminVars, exposed>>

Chunk(r) ==
    /\ pc[r] = "dispatch" /\ Asks(r, "stream") /\ sent[r] < MaxChunks
    /\ sent' = [sent EXCEPT ![r] = @ + 1]
    /\ UNCHANGED <<clock, redis, pending, pc, question, named, answer, produced, adminVars, exposed>>

(* The upstream stream is exhausted: the caller gets [DONE], then the cache *)
(* is filled with what was collected.                                       *)
StreamEnds(r) ==
    /\ pc[r] = "dispatch" /\ Asks(r, "stream")
    /\ produced' = produced \cup {r}
    /\ answer' = [answer EXCEPT ![r] = [by |-> r, sent |-> sent[r]]]
    /\ pc' = [pc EXCEPT ![r] = "fill"]
    /\ UNCHANGED <<clock, redis, pending, question, named, sent, adminVars, exposed>>

(* Mutant: the fill of a stream moved into a finally clause. *)
MutantDispatchFails(r) ==
    /\ pc[r] = "dispatch"
    /\ pc' = [pc EXCEPT ![r] = IF Asks(r, "stream") THEN "fill" ELSE "failed"]
    /\ UNCHANGED <<clock, redis, pending, question, named, sent, answer, produced,
                   adminVars, exposed>>

(* No router, no deployment, an upstream call that raises at the start or   *)
(* in the middle of a stream, or a caller or a worker that goes away.       *)
DispatchFails(r) ==
    /\ pc[r] = "dispatch"
    /\ pc' = [pc EXCEPT ![r] = "failed"]
    /\ UNCHANGED <<clock, redis, pending, question, named, sent, answer, produced,
                   adminVars, exposed>>

(* An invalidation that may take the index of the model m away, or has read *)
(* it already.                                                              *)
UnderWay(m) ==
    \E i \in Invalidations :
        \/ ipc[i] = "scan"
        \/ ipc[i] = "delete" /\ target[i] = m

Returned(r) ==
    /\ pc' = [pc EXCEPT ![r] = "done"]
    /\ answer' = IF Asks(r, "chat")
                 THEN [answer EXCEPT ![r] = [by |-> r, sent |-> sent[r]]]
                 ELSE answer

(* The pipeline runs; its reply may be lost, and then it is sent again. *)
Fill(r) ==
    /\ pc[r] = "fill"
    /\ Store(r)
    /\ exposed' = IF UnderWay(named[r]) THEN exposed \cup {r} ELSE exposed
    /\ Returned(r) \/ UNCHANGED <<pc, answer>>
    /\ UNCHANGED <<clock, pending, question, named, sent, produced, adminVars>>

(* set and set_stream swallow every error. *)
FillFails(r) ==
    /\ pc[r] = "fill"
    /\ Returned(r)
    /\ UNCHANGED <<clock, redis, pending, question, named, sent, produced, adminVars, exposed>>

(* The caller goes away, or the worker dies, while the cache is filled. *)
Gone(r) ==
    /\ pc[r] = "fill"
    /\ pc' = [pc EXCEPT ![r] = "failed"]
    /\ UNCHANGED <<clock, redis, pending, question, named, sent, answer, produced,
                   adminVars, exposed>>

-----------------------------------------------------------------------------
(* Invalidations. *)

Finished(s) == pc[redis[s].by] \in Ended

Entries == {s \in DOMAIN redis : s[1] # "index"}

Writers(slots) == {redis[s].by : s \in {s \in slots : Finished(s)}}

(* The full responses filed under m that met no invalidation, with the      *)
(* streams of the same question.                                            *)
Filed(m) ==
    LET of == {s \in Entries : /\ s[1] = "full" /\ redis[s].by \notin exposed
                               /\ named[redis[s].by] = m}
    IN  of \cup {s \in Entries : s[1] = "stream" /\ Full(s[2]) \in of}

(* invalidate_by_model: SMEMBERS of the index. *)
ReadIndex(i, m) ==
    /\ ipc[i] = "idle"
    /\ target' = [target EXCEPT ![i] = m]
    /\ batch' = [batch EXCEPT ![i] = Members(m)]
    /\ doomed' = [doomed EXCEPT ![i] = Writers(Filed(m))]
    /\ ipc' = [ipc EXCEPT ![i] = IF Members(m) = {} THEN "done" ELSE "delete"]
    /\ UNCHANGED <<clock, redis, pending, requestVars, exposed>>

(* Mutant: the streams of the questions are left. *)
MutantOfBatch(i) == {Full(k) : k \in batch[i]} \cup {Index(target[i])}

OfBatch(i) ==
    {Full(k) : k \in batch[i]} \cup {Stream(k) : k \in batch[i]} \cup {Index(target[i])}

(* The pipeline of deletions, whose reply may be lost. *)
DeleteBatch(i) ==
    /\ ipc[i] = "delete"
    /\ Remove(OfBatch(i))
    /\ ipc' = [ipc EXCEPT ![i] = "done"] \/ UNCHANGED ipc
    /\ UNCHANGED <<clock, requestVars, target, batch, doomed, exposed>>

(* invalidate("cg:cache:*"): SCAN returns at least every key that is there  *)
(* from the beginning to the end, each is deleted by a call of its own.     *)
StartScan(i) ==
    /\ ipc[i] = "idle"
    /\ ipc' = [ipc EXCEPT ![i] = "scan"]
    /\ pending' = [pending EXCEPT ![i] = DOMAIN redis]
    /\ doomed' = [doomed EXCEPT ![i] = Writers(Entries)]
    /\ exposed' = exposed \cup {redis[s].by : s \in Entries}
    /\ UNCHANGED <<clock, redis, requestVars, target, batch>>

Visit(i, s) ==
    /\ ipc[i] = "scan"
    /\ Remove({s})
    /\ UNCHANGED <<clock, requestVars, adminVars, exposed>>

EndScan(i) ==
    /\ ipc[i] = "scan" /\ pending[i] = {}
    /\ ipc' = [ipc EXCEPT ![i] = "done"]
    /\ UNCHANGED <<clock, redis, pending, requestVars, target, batch, doomed, exposed>>

(* An error of Redis ends the call with 0, in the middle of its work. *)
InvalidationFails(i) ==
    /\ ipc[i] \in {"delete", "scan"}
    /\ ipc' = [ipc EXCEPT ![i] = "error"]
    /\ UNCHANGED <<clock, redis, pending, requestVars, target, batch, doomed, exposed>>

-----------------------------------------------------------------------------
Engine(r) ==
    \/ \E q \in Questions : AskHit(r, q) \/ AskMiss(r, q)
    \/ \E m \in Models \cup {None} : ChatAnswers(r, m)
    \/ PartAnswers(r) \/ Chunk(r) \/ StreamEnds(r) \/ DispatchFails(r)
    \/ Fill(r) \/ FillFails(r) \/ Gone(r)

Invalidate(i) ==
    \/ \E m \in Models : ReadIndex(i, m)
    \/ DeleteBatch(i)
    \/ StartScan(i)
    \/ \E s \in DOMAIN redis : Visit(i, s)
    \/ EndScan(i) \/ InvalidationFails(i)

Next ==
    \/ Tick
    \/ \E r \in Requests : Engine(r)
    \/ \E i \in Invalidations : Invalidate(i)

Spec == Init /\ [][Next]_vars

-----------------------------------------------------------------------------
Answer  == [by : Requests, sent : Nat]
Slots   == {Full(k) : k \in Keys} \cup {Stream(k) : k \in Keys}
           \cup {Index(m) : m \in Models}

(* The types of the variables: an index holds hashes, every other key an    *)
(* answer and its writer.                                                   *)
TypeOK ==
    /\ clock \in Nat
    /\ DOMAIN redis \subseteq Slots
    /\ \A s \in DOMAIN redis :
          /\ redis[s].exp \in Nat
          /\ IF s[1] = "index" THEN redis[s].keys \subseteq Keys
             ELSE [by |-> redis[s].by, sent |-> redis[s].sent] \in Answer
    /\ pc \in [Requests -> {"idle", "dispatch", "fill"} \cup Ended]
    /\ question \in [Requests -> Questions \cup {None}]
    /\ named \in [Requests -> Models \cup {None}]
    /\ sent \in [Requests -> Nat]
    /\ answer \in [Requests -> Answer \cup {None}]
    /\ produced \subseteq Requests /\ exposed \subseteq Requests
    /\ ipc \in [Invalidations -> {"idle", "delete", "scan", "done", "error"}]
    /\ target \in [Invalidations -> Models \cup {None}]
    /\ batch \in [Invalidations -> SUBSET Keys]
    /\ pending \in [Invalidations -> SUBSET Slots]
    /\ doomed \in [Invalidations -> SUBSET Requests]

(* Every full response that names a model is in the index of that model,    *)
(* and the index does not expire before it, so an invalidation finds it: as *)
(* long as no invalidation was between its read and its deletion when the   *)
(* response was stored, and no full scan ran since (exact.py:66-73).        *)
IndexCovers ==
    \A s \in Entries :
        LET w == redis[s].by IN
        (s[1] = "full" /\ named[w] # None /\ w \notin exposed) =>
            /\ s[2] \in Members(named[w])
            /\ redis[Index(named[w])].exp >= redis[s].exp

(* Once an invalidation has returned without an error, nothing it had to    *)
(* remove is served again: of the entries whose requests had returned when  *)
(* it began, "all" removes every one, and an invalidation by model the full *)
(* responses filed under the model and the streams of the same questions    *)
(* (exact.py:115-118 and 133-142), however fills and other invalidations    *)
(* interleave.                                                              *)
InvalidationEffective ==
    \A i \in Invalidations : ipc[i] = "done" =>
        \A s \in Entries : redis[s].by \notin doomed[i]

(* The cache implements Answers: whoever gets an answer gets one whole      *)
(* upstream answer to the same question, whichever request paid for it      *)
(* (engine.py:99-107, 187-196, 298-301).                                    *)
Whole(a) == a.by \in produced /\ a.sent = sent[a.by]

Given(r) == IF answer[r] = None THEN None
            ELSE IF Whole(answer[r]) THEN answer[r].by ELSE "partial"

Promise == INSTANCE Answers WITH answer <- [r \in Requests |-> Given(r)]

ImplementsAnswers == Promise!Spec

=============================================================================
