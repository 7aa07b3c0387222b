---------------------------- MODULE LogConsumer ----------------------------
(***************************************************************************)
(* Persistence of logs, backend/app/observability/log_consumer.py: each    *)
(* worker runs _consumer_loop, reads cg:logs:stream as a member of one     *)
(* consumer group, buffers events, inserts them into system_logs in one    *)
(* transaction and acknowledges them.  A consumer name contains the pid,   *)
(* so what a dead worker had pending belongs to a name nobody uses again,  *)
(* and the loop only ever reads new entries (">").  Stream entries are     *)
(* numbered in order; a step of a worker is one awaited command.           *)
(***************************************************************************)
EXTENDS Integers, FiniteSets

CONSTANTS
    Workers,
    M,              \* bound: entries ever added to the stream
    Unparsable,     \* entries whose data is missing or not JSON
    ReadCount,      \* _BATCH_SIZE
    BulkSize,       \* _BULK_INSERT_SIZE
    Faults,         \* the combinations of FaultKinds to consider
    MaxLives        \* bound: processes run in each worker slot

FaultKinds == {"redis",     \* a Redis command fails, or only its reply is lost
               "db",        \* the transaction fails, or its outcome is unknown
               "crash",     \* a worker is killed
               "stop"}      \* a worker is shut down: the consumer is cancelled

Entries == 1..M

ASSUME LogConsumerAssumption ==
    /\ M \in Nat /\ Unparsable \subseteq Entries
    /\ ReadCount \in Nat \ {0} /\ BulkSize \in Nat \ {0}
    /\ Faults \subseteq SUBSET FaultKinds /\ MaxLives \in Nat

VARIABLES
    added,      \* entries added to the stream so far: 1..added
    delivered,  \* last id the group has delivered
    pending,    \* the group's pending entries: delivered, not acknowledged
    rows,       \* rows of system_logs per entry; each insert makes a new row
    pc,         \* where each consumer loop is
    buffer,     \* entries a consumer holds
    stopping,   \* the consumer is in its CancelledError handler
    lives,      \* processes run so far in each slot
    stops,      \* ghost: shutdowns so far
    dropped,    \* ghost: entries of a reply that a cancellation threw away
    faults      \* the kinds of failure of this behaviour

vars == <<added, delivered, pending, rows, pc, buffer, stopping, lives, stops, dropped, faults>>
streamVars == <<added, delivered>>
processVars == <<stopping, lives, stops, dropped, faults>>

Init ==
    /\ added = 0 /\ delivered = 0 /\ pending = {}
    /\ rows = [m \in Entries |-> 0]
    /\ pc = [w \in Workers |-> "read"]
    /\ buffer = [w \in Workers |-> {}]
    /\ stopping = [w \in Workers |-> FALSE]
    /\ lives = [w \in Workers |-> 1]
    /\ stops = 0 /\ dropped = {}
    /\ faults \in Faults

Goto(w, l) == pc' = [pc EXCEPT ![w] = l]
Clear(w) == buffer' = [buffer EXCEPT ![w] = {}]

(* The transport adds an entry. *)
Add ==
    /\ added < M
    /\ added' = added + 1
    /\ UNCHANGED <<delivered, pending, rows, pc, buffer, processVars>>

-----------------------------------------------------------------------------
(* Reading: xreadgroup with ">". *)

(* Mutant: reads from the last delivered entry on, inclusively. *)
MutantBatch == {m \in 0..M : delivered <= m /\ m <= delivered + ReadCount /\ m <= added}

Batch == {m \in Entries : delivered < m /\ m <= delivered + ReadCount /\ m <= added}

(* Redis hands the batch to the group: the entries are pending from now on. *)
Deliver ==
    /\ Batch # {}
    /\ delivered' = delivered + Cardinality(Batch)
    /\ pending' = pending \cup Batch

(* Entries that do not parse are skipped, and stay pending. *)
Read(w) ==
    /\ pc[w] = "read"
    /\ Deliver
    /\ buffer' = [buffer EXCEPT ![w] = @ \cup (Batch \ Unparsable)]
    /\ Goto(w, IF Cardinality(buffer'[w]) >= BulkSize THEN "flush" ELSE "read")
    /\ UNCHANGED <<added, rows, processVars>>

(* An empty reply after the poll timeout flushes what has accumulated. *)
ReadEmpty(w) ==
    /\ pc[w] = "read" /\ Batch = {} /\ buffer[w] # {}
    /\ Goto(w, "flush")
    /\ UNCHANGED <<streamVars, pending, rows, buffer, processVars>>

(* The connection drops: the loop sleeps and reconnects.  When only the    *)
(* reply is lost, Redis has delivered the batch to this consumer.          *)
ReadFails(w) ==
    /\ "redis" \in faults /\ pc[w] = "read"
    /\ Deliver \/ UNCHANGED <<delivered, pending>>
    /\ Goto(w, "sleep")
    /\ UNCHANGED <<added, rows, buffer, processVars>>

Wake(w) ==
    /\ pc[w] = "sleep"
    /\ Goto(w, "read")
    /\ UNCHANGED <<streamVars, pending, rows, buffer, processVars>>

-----------------------------------------------------------------------------
(* _flush_buffer: one transaction, then the acknowledgement. *)

Insert(w) == rows' = [m \in Entries |-> rows[m] + IF m \in buffer[w] THEN 1 ELSE 0]

AfterFlush(w) == IF stopping[w] THEN "dead" ELSE "read"

Commit(w) ==
    /\ pc[w] = "flush"
    /\ Insert(w)
    /\ Goto(w, "ack")
    /\ UNCHANGED <<streamVars, pending, buffer, processVars>>

(* An insert raises: the buffer is kept and tried again after a pause.     *)
(* During shutdown the exception ends the task.                            *)
InsertRaises(w) ==
    /\ "db" \in faults /\ pc[w] = "flush"
    /\ Goto(w, IF stopping[w] THEN "dead" ELSE "sleep")
    /\ IF stopping[w] THEN Clear(w) ELSE UNCHANGED buffer
    /\ UNCHANGED <<streamVars, pending, rows, processVars>>

(* Mutant: the return after a failed commit is missing. *)
MutantCommitFails(w) ==
    /\ "db" \in faults /\ pc[w] = "flush"
    /\ Insert(w) \/ UNCHANGED rows
    /\ Goto(w, "ack")
    /\ UNCHANGED <<streamVars, pending, buffer, processVars>>

(* The commit raises, whether or not the server applied it: _flush_buffer  *)
(* returns normally and its caller clears the buffer.                      *)
CommitFails(w) ==
    /\ "db" \in faults /\ pc[w] = "flush"
    /\ Insert(w) \/ UNCHANGED rows
    /\ Clear(w)
    /\ Goto(w, AfterFlush(w))
    /\ UNCHANGED <<streamVars, pending, processVars>>

(* Mutant: the buffer is not cleared after the flush. *)
MutantAck(w) ==
    /\ pc[w] = "ack"
    /\ pending' = pending \ buffer[w]
    /\ Goto(w, AfterFlush(w))
    /\ UNCHANGED <<streamVars, rows, buffer, processVars>>

(* An error of xack is swallowed; the command may have been applied. *)
Ack(w) ==
    /\ pc[w] = "ack"
    /\ \/ pending' = pending \ buffer[w]
       \/ "redis" \in faults /\ UNCHANGED pending
    /\ Clear(w)
    /\ Goto(w, AfterFlush(w))
    /\ UNCHANGED <<streamVars, rows, processVars>>

-----------------------------------------------------------------------------
(* Shutdown, death and respawn of a worker. *)

(* The last process of a slot is left alone, or nobody would read. *)
MayEnd(w) == pc[w] # "dead" /\ lives[w] < MaxLives

(* Mutant: cancelled without a last flush. *)
MutantCancel(w) ==
    /\ "stop" \in faults /\ ~stopping[w] /\ MayEnd(w)
    /\ stops' = stops + 1
    /\ Goto(w, "dead") /\ Clear(w)
    /\ UNCHANGED <<streamVars, pending, rows, stopping, lives, dropped, faults>>

(* What the await that is cancelled had asked for may have been done: a    *)
(* commit, an acknowledgement, or a read. Redis has then delivered a batch *)
(* to this consumer, and the reply is thrown away with the task.           *)
Interrupted(w) ==
    \/ pc[w] = "read" /\ Deliver /\ dropped' = dropped \cup Batch /\ UNCHANGED rows
    \/ pc[w] = "flush" /\ Insert(w) /\ UNCHANGED <<delivered, pending, dropped>>
    \/ pc[w] = "ack" /\ pending' = pending \ buffer[w] /\ UNCHANGED <<delivered, rows, dropped>>
    \/ UNCHANGED <<delivered, pending, rows, dropped>>

(* The task is cancelled at the await it is in.  The handler flushes what  *)
(* is in the buffer, also what the interrupted flush had committed but not *)
(* yet removed from it; a cancellation while it sleeps is not caught.      *)
Cancel(w) ==
    /\ "stop" \in faults /\ ~stopping[w] /\ MayEnd(w)
    /\ stops' = stops + 1
    /\ Interrupted(w)
    /\ IF pc[w] = "sleep" \/ buffer[w] = {}
       THEN Goto(w, "dead") /\ Clear(w) /\ UNCHANGED stopping
       ELSE /\ Goto(w, "flush") /\ UNCHANGED buffer
            /\ stopping' = [stopping EXCEPT ![w] = TRUE]
    /\ UNCHANGED <<added, lives, faults>>

Crash(w) ==
    /\ "crash" \in faults /\ MayEnd(w)
    /\ Goto(w, "dead") /\ Clear(w)
    /\ UNCHANGED <<streamVars, pending, rows, processVars>>

(* A new process, with a new consumer name and an empty buffer. *)
Respawn(w) ==
    /\ pc[w] = "dead" /\ lives[w] < MaxLives
    /\ lives' = [lives EXCEPT ![w] = @ + 1]
    /\ stopping' = [stopping EXCEPT ![w] = FALSE]
    /\ Goto(w, "read")
    /\ UNCHANGED <<streamVars, pending, rows, buffer, stops, dropped, faults>>

Step(w) ==
    \/ Read(w) \/ ReadEmpty(w) \/ Wake(w) \/ Commit(w) \/ Ack(w) \/ Respawn(w)

Failure(w) ==
    \/ ReadFails(w) \/ InsertRaises(w) \/ CommitFails(w) \/ Cancel(w) \/ Crash(w)

Next == Add \/ \E w \in Workers : Step(w) \/ Failure(w)

Spec == Init /\ [][Next]_vars

(* Every await of the loop returns or raises (socket timeouts, the poll    *)
(* timeout), and gunicorn respawns workers.                                *)
FairSpec == Spec /\ \A w \in Workers : WF_vars(Step(w))

-----------------------------------------------------------------------------
(* Properties. *)

(* Every variable of the model of log_consumer.py has its type. *)
TypeOK ==
    /\ added \in Nat /\ delivered \in Nat /\ pending \subseteq Entries
    /\ rows \in [Entries -> Nat]
    /\ pc \in [Workers -> {"read", "flush", "ack", "sleep", "dead"}]
    /\ buffer \in [Workers -> SUBSET Entries]
    /\ stopping \in [Workers -> BOOLEAN]
    /\ lives \in [Workers -> Nat] /\ stops \in Nat /\ dropped \subseteq Entries
    /\ faults \subseteq FaultKinds

(* An entry is acknowledged only after it is stored: whatever fails, or is *)
(* cancelled in the middle of a flush, the group never forgets an entry    *)
(* that has no row in system_logs.                                         *)
AckedStored ==
    \A m \in Entries : m <= delivered /\ m \notin pending => rows[m] >= 1

(* No entry is stored twice unless a shutdown cancelled a consumer between *)
(* its commit and the clearing of its buffer, and then at most twice.      *)
DuplicatesOnlyAtShutdown ==
    \A m \in Entries : rows[m] <= IF stops = 0 THEN 1 ELSE 2

(* When workers come and go in an orderly way and nothing else fails, every *)
(* entry that parses is stored in the end (log_consumer.py:112), except     *)
(* those of a read that was cancelled after Redis had delivered it: nobody  *)
(* reads them again (log_consumer.py:84).                                   *)
EventuallyStored ==
    \A m \in Entries \ Unparsable :
        m <= added /\ faults \subseteq {"stop"} ~> rows[m] >= 1 \/ m \in dropped

(* Every entry that parses is stored in the end, whatever fails.            *)
Durable == \A m \in Entries \ Unparsable : m <= added ~> rows[m] >= 1

=============================================================================
