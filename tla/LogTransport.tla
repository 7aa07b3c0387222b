---------------------------- MODULE LogTransport ----------------------------
(***************************************************************************)
(* The first two stages of the log pipeline of one worker process,         *)
(* backend/app/observability/log_pipeline.py, and the shutdown hook that   *)
(* stops them, lifespan in backend/app/main.py.  Any thread puts events in *)
(* a bounded queue; _transport_loop, a task of the event loop, moves them  *)
(* to a Redis stream; stop_log_transport sends it a sentinel.  Events are  *)
(* numbered in the order in which they are offered.  A step of the         *)
(* transport is what it does from one queue access or await to the next.   *)
(***************************************************************************)
EXTENDS Integers, FiniteSets, Sequences, SequencesExt

CONSTANTS
    M,              \* bound: events ever logged
    QueueMax,       \* _QUEUE_MAXSIZE
    FlushSize,      \* _FLUSH_BATCH_SIZE
    MaxBatch,       \* _MAX_BATCH
    MaxFaults,      \* bound: pipelines that fail
    ConsumerEnds    \* how the cancelled log consumer may end

(* Its task ends cancelled, or with an exception of its last flush. *)
EndKinds == {"cancelled", "raised"}

Events == 1..M
Sentinel == 0       \* None in the queue

ASSUME LogTransportAssumption ==
    /\ M \in Nat /\ MaxFaults \in Nat
    /\ QueueMax \in Nat \ {0}
    /\ FlushSize \in Nat \ {0} /\ MaxBatch \in Nat /\ FlushSize <= MaxBatch
    /\ ConsumerEnds \subseteq EndKinds

VARIABLES
    offered,    \* events logged so far: 1..offered
    accepted,   \* ghost: those the queue took
    queue,      \* _log_queue
    batch,      \* batch of the transport loop
    stream,     \* what was ever added to cg:logs:stream, in order
    tpc,        \* where the transport task is
    lpc,        \* where the lifespan hook is
    faults      \* pipelines that failed so far

vars == <<offered, accepted, queue, batch, stream, tpc, lpc, faults>>

Init ==
    /\ offered = 0 /\ accepted = {} /\ queue = <<>> /\ batch = <<>>
    /\ stream = <<>> /\ tpc = "get" /\ lpc = "serving" /\ faults = 0

(* Mutant: an unbounded put. *)
MutantEnqueue ==
    /\ offered < M /\ lpc # "exited"
    /\ offered' = offered + 1
    /\ queue' = Append(queue, offered + 1)
    /\ accepted' = accepted \cup {offered + 1}
    /\ UNCHANGED <<batch, stream, tpc, lpc, faults>>

(* _enqueue, from any thread: put_nowait, and the event is dropped when    *)
(* the queue is full.                                                      *)
Enqueue ==
    /\ offered < M /\ lpc # "exited"
    /\ offered' = offered + 1
    /\ IF Len(queue) < QueueMax
       THEN /\ queue' = Append(queue, offered + 1)
            /\ accepted' = accepted \cup {offered + 1}
       ELSE UNCHANGED <<queue, accepted>>
    /\ UNCHANGED <<batch, stream, tpc, lpc, faults>>

-----------------------------------------------------------------------------
(* The event loop, and _transport_loop. *)

(* stop_log_transport uses the blocking put, on the event loop's thread:   *)
(* until it returns no other coroutine of the process runs.                *)
Runs(l) == tpc = l /\ lpc # "put"

(* Mutant: the trim keeps the oldest events. *)
MutantTrimmed == SubSeq(batch, 1, IF Len(batch) > MaxBatch THEN MaxBatch ELSE Len(batch))

(* Mutant: no cap. *)
MutantTrimmedNever == batch

(* A batch that could not be sent is kept for a retry, without its oldest  *)
(* events when it exceeds the cap.                                         *)
Trimmed ==
    IF Len(batch) > MaxBatch THEN SubSeq(batch, Len(batch) - MaxBatch + 1, Len(batch))
                             ELSE batch

(* The task takes an event: a full batch is sent at once. *)
Get ==
    /\ Runs("get") /\ queue # <<>> /\ Head(queue) # Sentinel
    /\ queue' = Tail(queue)
    /\ batch' = Append(batch, Head(queue))
    /\ tpc' = IF Len(batch') >= FlushSize THEN "flush" ELSE "get"
    /\ UNCHANGED <<offered, accepted, stream, lpc, faults>>

(* Mutant: the task ends without the last flush. *)
MutantGetSentinel ==
    /\ Runs("get") /\ queue # <<>> /\ Head(queue) = Sentinel
    /\ queue' = Tail(queue) /\ batch' = <<>> /\ tpc' = "ended"
    /\ UNCHANGED <<offered, accepted, stream, lpc, faults>>

(* The sentinel ends the loop; what is in the batch is sent once more. *)
GetSentinel ==
    /\ Runs("get") /\ queue # <<>> /\ Head(queue) = Sentinel
    /\ queue' = Tail(queue)
    /\ tpc' = IF batch # <<>> THEN "last" ELSE "ended"
    /\ UNCHANGED <<offered, accepted, batch, stream, lpc, faults>>

GetEmpty ==
    /\ Runs("get") /\ queue = <<>>
    /\ tpc' = IF batch # <<>> THEN "drain" ELSE "sleep"
    /\ UNCHANGED <<offered, accepted, queue, batch, stream, lpc, faults>>

(* _flush_batch: one transaction adds the whole batch to the stream. *)
Flush ==
    /\ Runs("flush") \/ Runs("drain")
    /\ stream' = stream \o batch
    /\ batch' = <<>>
    /\ tpc' = IF tpc = "flush" THEN "get" ELSE "sleep"
    /\ UNCHANGED <<offered, accepted, queue, lpc, faults>>

(* Mutant: the batch is cleared although sending it failed. *)
MutantCleared ==
    /\ Runs("flush") \/ Runs("drain")
    /\ faults < MaxFaults /\ faults' = faults + 1
    /\ stream' \in {stream, stream \o batch}
    /\ batch' = <<>> /\ tpc' = "sleep"
    /\ UNCHANGED <<offered, accepted, queue, lpc>>

(* Mutant: what could not be sent goes back to the queue. *)
MutantRequeued ==
    /\ Runs("flush") \/ Runs("drain")
    /\ faults < MaxFaults /\ faults' = faults + 1
    /\ stream' \in {stream, stream \o batch}
    /\ queue' = queue \o batch /\ batch' = <<>> /\ tpc' = "sleep"
    /\ UNCHANGED <<offered, accepted, lpc>>

(* The pipeline raises; when only its reply was lost, Redis has applied it.*)
(* The loop sleeps, for 0.15 s or 1 s, before it takes the next event.     *)
FlushFails ==
    /\ Runs("flush") \/ Runs("drain")
    /\ faults < MaxFaults /\ faults' = faults + 1
    /\ stream' \in {stream, stream \o batch}
    /\ batch' = Trimmed
    /\ tpc' = "sleep"
    /\ UNCHANGED <<offered, accepted, queue, lpc>>

Wake ==
    /\ Runs("sleep")
    /\ tpc' = "get"
    /\ UNCHANGED <<offered, accepted, queue, batch, stream, lpc, faults>>

(* The flush after the sentinel is tried only once. *)
LastFlush ==
    /\ Runs("last")
    /\ \/ stream' = stream \o batch /\ UNCHANGED faults
       \/ /\ faults < MaxFaults /\ faults' = faults + 1
          /\ stream' \in {stream, stream \o batch}
    /\ batch' = <<>>
    /\ tpc' = "ended"
    /\ UNCHANGED <<offered, accepted, queue, lpc>>

-----------------------------------------------------------------------------
(* lifespan after its yield: the shutdown hook. *)

(* log_consumer_task.cancel(), then the await of that task. *)
Shutdown ==
    /\ ConsumerEnds # {} /\ lpc = "serving"
    /\ lpc' = "consumer"
    /\ UNCHANGED <<offered, accepted, queue, batch, stream, tpc, faults>>

(* Only an Exception is caught: the CancelledError of the awaited task     *)
(* leaves the hook, and nothing after the await runs.                      *)
ConsumerEnded ==
    /\ lpc = "consumer"
    /\ \E end \in ConsumerEnds : lpc' = IF end = "cancelled" THEN "aborted" ELSE "put"
    /\ UNCHANGED <<offered, accepted, queue, batch, stream, tpc, faults>>

(* stop_log_transport: _log_queue.put(None) ... *)
PutSentinel ==
    /\ lpc = "put" /\ Len(queue) < QueueMax
    /\ queue' = Append(queue, Sentinel)
    /\ lpc' = "join"
    /\ UNCHANGED <<offered, accepted, batch, stream, tpc, faults>>

(* ... and wait_for the task; then Redis and the other pools are closed.   *)
Join ==
    /\ lpc = "join" /\ tpc = "ended"
    /\ lpc' = "complete"
    /\ UNCHANGED <<offered, accepted, queue, batch, stream, tpc, faults>>

(* A task that does not end within the timeout, which takes a Redis that   *)
(* does not answer, is cancelled at the await it is in.                    *)
JoinTimeout ==
    /\ lpc = "join" /\ tpc \in {"flush", "drain", "last", "sleep"}
    /\ faults < MaxFaults /\ faults' = faults + 1
    /\ lpc' = "complete" /\ tpc' = "ended" /\ batch' = <<>>
    /\ stream' \in {stream} \cup (IF tpc = "sleep" THEN {} ELSE {stream \o batch})
    /\ UNCHANGED <<offered, accepted, queue>>

(* The event loop is closed; it cancels the tasks that are left. *)
Exit ==
    /\ lpc \in {"complete", "aborted"}
    /\ lpc' = "exited" /\ tpc' = "ended" /\ batch' = <<>>
    /\ UNCHANGED <<offered, accepted, queue, stream, faults>>

Transport ==
    \/ Get \/ GetSentinel \/ GetEmpty \/ Flush \/ FlushFails \/ Wake \/ LastFlush

Lifespan == ConsumerEnded \/ PutSentinel \/ Join \/ JoinTimeout \/ Exit

Next == Enqueue \/ Transport \/ Shutdown \/ Lifespan

Spec == Init /\ [][Next]_vars

(* Every await returns or raises, and the event loop schedules every task  *)
(* that is ready.  Nothing makes a thread log, or the server shut down.    *)
FairSpec == Spec /\ WF_vars(Transport) /\ WF_vars(Lifespan)

-----------------------------------------------------------------------------
(* Properties. *)

(* Every variable of the log pipeline of log_pipeline.py has its type. *)
TypeOK ==
    /\ offered \in 0..M /\ accepted \subseteq Events
    /\ queue \in Seq(Events \cup {Sentinel}) /\ Len(queue) <= QueueMax
    /\ batch \in Seq(Events) /\ stream \in Seq(Events)
    /\ tpc \in {"get", "flush", "drain", "sleep", "last", "ended"}
    /\ lpc \in {"serving", "consumer", "aborted", "put", "join", "complete", "exited"}
    /\ faults \in 0..MaxFaults

(* A Redis outage never makes the retained batch grow beyond its cap by    *)
(* more than the event just taken, and what is retained is the newest      *)
(* events in the order they were logged, even where the batch holds events *)
(* that a lost reply had already published.                                *)
BatchBounded ==
    /\ Len(batch) <= MaxBatch + 1
    /\ tpc = "get" => Len(batch) <= MaxBatch
    /\ \A i, j \in DOMAIN batch : i < j => batch[i] < batch[j]

(* The stream shows new events in the order in which they were logged: an  *)
(* event that comes after a later one is a repetition of an earlier entry. *)
FirstSeenInOrder ==
    \A i, j \in DOMAIN stream :
        i < j /\ stream[j] < stream[i] => \E k \in 1..(i - 1) : stream[k] = stream[j]

(* The event was given up for MaxBatch newer ones. *)
Superseded(e) == Cardinality({f \in accepted : f > e}) >= MaxBatch

(* An accepted event that is neither waiting nor published was given up    *)
(* for MaxBatch newer ones, or the process was shutting down.              *)
LostOnlyByTrimming ==
    \A e \in accepted :
        \/ e \in ToSet(queue) \cup ToSet(batch) \cup ToSet(stream)
        \/ tpc = "ended"
        \/ Superseded(e)

(* When the hook completes and Redis never failed, everything the queue    *)
(* accepted before the sentinel is published: only events logged after it  *)
(* are still in the queue.                                                 *)
DrainedAtShutdown ==
    lpc = "complete" /\ faults = 0 => accepted \subseteq ToSet(stream) \cup ToSet(queue)

(* Every event the queue accepts gets to the stream when Redis answers     *)
(* again, unless MaxBatch newer ones supersede it or the server shuts down.*)
EventuallyPublished ==
    \A e \in Events :
        e \in accepted ~> e \in ToSet(stream) \/ Superseded(e) \/ lpc # "serving"

(* A shutdown that begins stops the transport, closes the pools and        *)
(* reaches the end of the hook.                                            *)
ShutdownCompletes == lpc = "consumer" ~> lpc = "complete"

=============================================================================
