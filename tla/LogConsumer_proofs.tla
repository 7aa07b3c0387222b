------------------------- MODULE LogConsumer_proofs -------------------------
(* Persistence of logs, for any number of workers, entries, batch sizes    *)
(* and faults: TypeOK, AckedStored and DuplicatesOnlyAtShutdown.           *)
EXTENDS LogConsumer, TLAPS, FiniteSetTheorems

(* Buffers hold delivered entries, no entry is in two of them, and a dead  *)
(* consumer has none; nothing undelivered is stored.                       *)
Buffers ==
    /\ \A w \in Workers : \A m \in buffer[w] : m <= delivered
    /\ \A v, w \in Workers : v # w => buffer[v] \cap buffer[w] = {}
    /\ \A w \in Workers : pc[w] = "dead" => buffer[w] = {}
    /\ \A m \in Entries : m > delivered => rows[m] = 0

(* How often what a consumer still holds was stored: once when it is about *)
(* to acknowledge, and possibly once more when a shutdown made it flush    *)
(* again what it had committed.                                            *)
Counts ==
    /\ \A w \in Workers : stopping[w] => stops > 0
    /\ \A w \in Workers : \A m \in buffer[w] :
           /\ pc[w] = "ack" => rows[m] >= 1
           /\ rows[m] <= (IF pc[w] = "ack" THEN 1 ELSE 0)
                         + (IF stopping[w] THEN 1 ELSE 0)

IInv == TypeOK /\ Buffers /\ Counts /\ AckedStored /\ DuplicatesOnlyAtShutdown

-----------------------------------------------------------------------------

(* A batch is a finite set of entries that were not delivered before, and  *)
(* delivering it covers exactly the ids up to the new last id.             *)
LEMMA BatchFacts ==
  ASSUME TypeOK
  PROVE  /\ IsFiniteSet(Batch) /\ Cardinality(Batch) \in Nat
         /\ Batch \subseteq Entries
         /\ \A m \in Batch : m > delivered
<1>1. Batch \subseteq Entries /\ \A m \in Batch : m > delivered
  BY DEF Batch, Entries, TypeOK
<1>2. IsFiniteSet(Entries)
  BY FS_Interval, LogConsumerAssumption DEF Entries
<1>. QED  BY <1>1, <1>2, FS_Subset, FS_CardinalityType

(* The ids delivered with a batch are the batch. *)
LEMMA DeliverCovers ==
  ASSUME TypeOK, Deliver
  PROVE  /\ delivered' \in Nat /\ delivered' >= delivered
         /\ \A m \in Entries : delivered < m /\ m <= delivered' <=> m \in Batch
<1>. DEFINE hi == IF delivered + ReadCount <= added THEN delivered + ReadCount ELSE added
            top == IF hi <= M THEN hi ELSE M
<1>1. /\ delivered \in Nat /\ added \in Nat /\ M \in Nat /\ ReadCount \in Nat \ {0}
  BY LogConsumerAssumption DEF TypeOK
<1>2. Batch = (delivered + 1) .. top
  BY <1>1 DEF Batch, Entries
<1>3. PICK m0 : m0 \in Batch
  BY DEF Deliver
<1>4. delivered + 1 <= top /\ top \in Int
  BY <1>1, <1>2, <1>3
<1>5. Cardinality(Batch) = top - delivered
  <2>1. Cardinality((delivered + 1) .. top)
          = IF delivered + 1 > top THEN 0 ELSE top - (delivered + 1) + 1
    <3>. HIDE DEF top
    <3>. QED  BY <1>1, <1>4, FS_Interval
  <2>. HIDE DEF top
  <2>. QED  BY <1>1, <1>2, <1>4, <2>1
<1>6. delivered' = top
  <2>. HIDE DEF top
  <2>. QED  BY <1>1, <1>4, <1>5 DEF Deliver
<1>. QED
  <2>. HIDE DEF top
  <2>. QED  BY <1>1, <1>2, <1>4, <1>6 DEF Entries

-----------------------------------------------------------------------------

(* The invariant holds at the start. *)
LEMMA InitIInv == Init => IInv
  BY LogConsumerAssumption
     DEF Init, IInv, TypeOK, Buffers, Counts, AckedStored, DuplicatesOnlyAtShutdown, Entries

(* Every step keeps the types. *)
LEMMA TypeOKStep == TypeOK /\ [Next]_vars => TypeOK'
<1>. SUFFICES ASSUME TypeOK, [Next]_vars PROVE TypeOK'
  OBVIOUS
<1>. USE DEF TypeOK, Goto, Clear, streamVars, processVars, AfterFlush
<1>2. ASSUME NEW w \in Workers, Insert(w) PROVE rows' \in [Entries -> Nat]
  BY <1>2 DEF Insert
<1>3. CASE Add
  BY <1>3 DEF Add
<1>4. ASSUME NEW w \in Workers, Read(w) PROVE TypeOK'
  <2>1. delivered' \in Nat /\ pending' \subseteq Entries /\ Batch \subseteq Entries
    BY <1>4, BatchFacts, DeliverCovers DEF Read, Deliver
  <2>2. buffer' \in [Workers -> SUBSET Entries]
    BY <1>4, <2>1 DEF Read
  <2>. QED  BY <1>4, <2>1, <2>2 DEF Read
<1>5. ASSUME NEW w \in Workers, ReadEmpty(w) \/ Wake(w) \/ Respawn(w) PROVE TypeOK'
  <2>1. CASE Respawn(w)
    <3>1. lives' \in [Workers -> Nat] /\ stopping' \in [Workers -> BOOLEAN]
      BY <2>1 DEF Respawn
    <3>. QED  BY <2>1, <3>1 DEF Respawn
  <2>. QED  BY <1>5, <2>1 DEF ReadEmpty, Wake
<1>6. ASSUME NEW w \in Workers, ReadFails(w) PROVE TypeOK'
  <2>1. delivered' \in Nat /\ pending' \subseteq Entries
    BY <1>6, BatchFacts, DeliverCovers DEF ReadFails, Deliver
  <2>. QED  BY <1>6, <2>1 DEF ReadFails
<1>7. ASSUME NEW w \in Workers, Commit(w) PROVE TypeOK'
  BY <1>2, <1>7 DEF Commit
<1>8. ASSUME NEW w \in Workers, InsertRaises(w) \/ Ack(w) \/ Crash(w) PROVE TypeOK'
  BY <1>8 DEF InsertRaises, Ack, Crash
<1>9. ASSUME NEW w \in Workers, CommitFails(w) PROVE TypeOK'
  BY <1>2, <1>9 DEF CommitFails
<1>10. ASSUME NEW w \in Workers, Cancel(w) PROVE TypeOK'
  <2>1. rows' \in [Entries -> Nat] /\ added' = added /\ lives' = lives /\ faults' = faults
    BY <1>2, <1>10 DEF Cancel, Interrupted
  <2>4. delivered' \in Nat /\ pending' \subseteq Entries /\ dropped' \subseteq Entries
    <3>1. CASE Deliver /\ dropped' = dropped \cup Batch
      BY <3>1, BatchFacts, DeliverCovers DEF Deliver
    <3>2. CASE delivered' = delivered /\ dropped' = dropped /\ pending' \subseteq pending
      BY <3>2
    <3>. QED  BY <1>10, <3>1, <3>2 DEF Cancel, Interrupted
  <2>2. stops' \in Nat
    BY <1>10 DEF Cancel
  <2>3. /\ pc' \in [Workers -> {"read", "flush", "ack", "sleep", "dead"}]
        /\ buffer' \in [Workers -> SUBSET Entries]
        /\ stopping' \in [Workers -> BOOLEAN]
    BY <1>10 DEF Cancel
  <2>. QED  BY <2>1, <2>2, <2>3, <2>4
<1>11. CASE UNCHANGED vars
  BY <1>11 DEF vars
<1>. QED
  BY <1>3, <1>4, <1>5, <1>6, <1>7, <1>8, <1>9, <1>10, <1>11 DEF Next, Step, Failure

(* Storing what one consumer holds. *)
LEMMA InsertRows ==
  ASSUME TypeOK, NEW w \in Workers, Insert(w)
  PROVE  \A m \in Entries : rows'[m] = rows[m] + IF m \in buffer[w] THEN 1 ELSE 0
  BY DEF Insert

-----------------------------------------------------------------------------

(* A batch is delivered, whether its reply comes, is lost, or is thrown    *)
(* away by a cancellation: the batch is in no buffer and has no row.       *)
LEMMA DeliverStep ==
  ASSUME IInv, TypeOK', Deliver, NEW w \in Workers,
         rows' = rows, pc[w] = "read",
         \A v \in Workers \ {w} : /\ pc'[v] = pc[v] /\ buffer'[v] = buffer[v]
                                  /\ stopping'[v] = stopping[v],
         buffer'[w] \subseteq buffer[w] \cup Batch,
         pc'[w] # "ack", pc'[w] = "dead" => buffer'[w] = {},
         stopping[w] => stopping'[w],
         stops' >= stops, stopping'[w] => stopping[w] \/ stops' > 0
  PROVE  IInv'
<1>. USE DEF IInv, TypeOK
<1>1. pending' = pending \cup Batch
  BY DEF Deliver
<1>2. /\ delivered' \in Nat /\ delivered' >= delivered
      /\ \A m \in Entries : delivered < m /\ m <= delivered' <=> m \in Batch
      /\ Batch \subseteq Entries /\ \A m \in Batch : m > delivered
  BY BatchFacts, DeliverCovers
<1>3. \A m \in Batch : rows[m] = 0 /\ \A v \in Workers : m \notin buffer[v]
  BY <1>2 DEF Buffers, Entries
<1>4. Buffers'
  <2>1. ASSUME NEW v \in Workers, NEW m \in buffer'[v] PROVE m <= delivered'
    <3>1. m \in Entries /\ m \in Int
      BY LogConsumerAssumption DEF Entries
    <3>2. CASE m \in Batch
      BY <1>2, <3>1, <3>2
    <3>3. CASE m \in buffer[v]
      <4>1. m <= delivered
        BY <3>3 DEF Buffers
      <4>. QED  BY <1>2, <3>1, <4>1
    <3>. QED  BY <3>2, <3>3
  <2>2. \A u, v \in Workers : u # v => buffer'[u] \cap buffer'[v] = {}
    BY <1>3 DEF Buffers
  <2>3. \A v \in Workers : pc'[v] = "dead" => buffer'[v] = {}
    BY DEF Buffers
  <2>4. \A m \in Entries : m > delivered' => rows'[m] = 0
    BY <1>2 DEF Buffers, Entries
  <2>. QED  BY <2>1, <2>2, <2>3, <2>4 DEF Buffers
<1>5. Counts'
  <2>1. \A v \in Workers : stopping'[v] => stops' > 0
    BY DEF Counts
  <2>2. ASSUME NEW v \in Workers, NEW m \in buffer'[v]
        PROVE  /\ pc'[v] = "ack" => rows'[m] >= 1
               /\ rows'[m] <= (IF pc'[v] = "ack" THEN 1 ELSE 0)
                              + (IF stopping'[v] THEN 1 ELSE 0)
    <3>1. CASE m \in Batch
      BY <1>3, <2>2, <3>1 DEF Counts
    <3>2. CASE m \in buffer[v]
      BY <3>2 DEF Counts
    <3>. QED  BY <2>2, <3>1, <3>2
  <2>. QED  BY <2>1, <2>2 DEF Counts
<1>6. AckedStored'
  BY <1>1, <1>2 DEF AckedStored, Entries
<1>7. DuplicatesOnlyAtShutdown'
  BY DEF DuplicatesOnlyAtShutdown
<1>. QED  BY <1>4, <1>5, <1>6, <1>7

(* A read, with its reply or without. *)
LEMMA ReadStep ==
  ASSUME IInv, TypeOK', NEW w \in Workers, Read(w) \/ ReadFails(w)
  PROVE  IInv'
<1>. USE DEF IInv, TypeOK
<1>1. CASE ReadFails(w) /\ UNCHANGED <<delivered, pending>>
  <2>2. /\ UNCHANGED <<delivered, pending, rows, buffer, stopping, stops>>
        /\ pc[w] = "read" /\ pc' = [pc EXCEPT ![w] = "sleep"]
    BY <1>1 DEF ReadFails, Goto, processVars
  <2>. QED
    BY <2>2 DEF Buffers, Counts, AckedStored, DuplicatesOnlyAtShutdown
<1>2. CASE Deliver
  <2>1. /\ UNCHANGED <<rows, stopping, stops>>
        /\ pc[w] = "read" /\ pc'[w] \in {"read", "flush", "sleep"}
        /\ \A v \in Workers \ {w} : pc'[v] = pc[v] /\ buffer'[v] = buffer[v]
        /\ buffer'[w] \subseteq buffer[w] \cup Batch
    BY <1>2 DEF Read, ReadFails, Deliver, Goto, processVars
  <2>2. stops' >= stops /\ pc'[w] # "ack" /\ pc'[w] # "dead"
    BY <2>1
  <2>. QED  BY <1>2, <2>1, <2>2, DeliverStep
<1>. QED  BY <1>1, <1>2 DEF Read, ReadFails

(* A step that stores nothing, keeps or clears the buffer, and only forgets *)
(* pending entries that are in the buffer of a consumer that acknowledges. *)
LEMMA QuietStep ==
  ASSUME IInv, TypeOK', NEW w \in Workers,
         UNCHANGED <<delivered, rows>>,
         \A v \in Workers \ {w} : /\ pc'[v] = pc[v] /\ buffer'[v] = buffer[v]
                                  /\ stopping'[v] = stopping[v],
         \/ buffer'[w] = {}
         \/ /\ buffer'[w] = buffer[w] /\ pc'[w] \notin {"ack", "dead"}
            /\ pc[w] = "ack" => stopping'[w] /\ ~stopping[w]
            /\ stopping[w] => stopping'[w],
         pending' = pending \/ (pc[w] = "ack" /\ pending' = pending \ buffer[w]),
         stops' >= stops, stopping'[w] => stopping[w] \/ stops' > 0
  PROVE  IInv'
<1>. USE DEF IInv, TypeOK
<1>1. Buffers'
  BY DEF Buffers
<1>2. Counts'
  <2>1. \A v \in Workers : stopping'[v] => stops' > 0
    BY DEF Counts
  <2>2. ASSUME NEW v \in Workers, NEW m \in buffer'[v]
        PROVE  /\ pc'[v] = "ack" => rows'[m] >= 1
               /\ rows'[m] <= (IF pc'[v] = "ack" THEN 1 ELSE 0)
                              + (IF stopping'[v] THEN 1 ELSE 0)
    BY <2>2 DEF Counts
  <2>. QED  BY <2>1, <2>2 DEF Counts
<1>3. AckedStored'
  BY DEF AckedStored, Counts
<1>4. DuplicatesOnlyAtShutdown'
  BY DEF DuplicatesOnlyAtShutdown
<1>. QED  BY <1>1, <1>2, <1>3, <1>4

(* A step that stores what one consumer holds. *)
LEMMA StoreStep ==
  ASSUME IInv, TypeOK', NEW w \in Workers, pc[w] = "flush", Insert(w),
         UNCHANGED <<delivered, pending>>,
         \A v \in Workers \ {w} : /\ pc'[v] = pc[v] /\ buffer'[v] = buffer[v]
                                  /\ stopping'[v] = stopping[v],
         \/ buffer'[w] = {}
         \/ /\ buffer'[w] = buffer[w]
            /\ \/ pc'[w] = "ack" /\ stopping'[w] = stopping[w]
               \/ pc'[w] = "flush" /\ stopping'[w] /\ ~stopping[w],
         stops' >= stops, stopping'[w] => stopping[w] \/ stops' > 0
  PROVE  IInv'
<1>. USE DEF IInv, TypeOK
<1>1. \A m \in Entries : rows'[m] = rows[m] + IF m \in buffer[w] THEN 1 ELSE 0
  BY InsertRows
<1>2. \A m \in Entries : rows'[m] >= rows[m]
  BY <1>1
<1>3. ASSUME NEW v \in Workers, v # w, NEW m \in buffer[v] PROVE rows'[m] = rows[m]
  BY <1>1, <1>3 DEF Buffers
<1>4. ASSUME NEW m \in buffer[w]
      PROVE  rows'[m] = rows[m] + 1 /\ rows[m] <= IF stopping[w] THEN 1 ELSE 0
  BY <1>1 DEF Counts
<1>5. Buffers'
  <2>1. ASSUME NEW m \in Entries, m > delivered PROVE rows'[m] = 0
    <3>1. m \notin buffer[w]
      BY <2>1, LogConsumerAssumption DEF Buffers, Entries
    <3>. QED  BY <1>1, <2>1, <3>1 DEF Buffers
  <2>. QED  BY <2>1 DEF Buffers
<1>6. Counts'
  <2>1. \A v \in Workers : stopping'[v] => stops' > 0
    BY DEF Counts
  <2>2. ASSUME NEW v \in Workers, NEW m \in buffer'[v]
        PROVE  /\ pc'[v] = "ack" => rows'[m] >= 1
               /\ rows'[m] <= (IF pc'[v] = "ack" THEN 1 ELSE 0)
                              + (IF stopping'[v] THEN 1 ELSE 0)
    <3>1. CASE v = w
      BY <1>4, <2>2, <3>1
    <3>2. CASE v # w
      BY <1>3, <2>2, <3>2 DEF Counts
    <3>. QED  BY <3>1, <3>2
  <2>. QED  BY <2>1, <2>2 DEF Counts
<1>7. AckedStored'
  BY <1>2 DEF AckedStored
<1>8. DuplicatesOnlyAtShutdown'
  <2>1. SUFFICES ASSUME NEW m \in Entries PROVE rows'[m] <= IF stops' = 0 THEN 1 ELSE 2
    BY DEF DuplicatesOnlyAtShutdown
  <2>2. CASE m \in buffer[w]
    BY <1>4, <2>2 DEF Counts
  <2>3. CASE m \notin buffer[w]
    BY <1>1, <2>3 DEF DuplicatesOnlyAtShutdown
  <2>. QED  BY <2>2, <2>3
<1>. QED  BY <1>5, <1>6, <1>7, <1>8

-----------------------------------------------------------------------------

(* Every step keeps the invariant. *)
LEMMA NextIInv == IInv /\ [Next]_vars => IInv'
<1>. SUFFICES ASSUME IInv, [Next]_vars PROVE IInv'
  OBVIOUS
<1>1. TypeOK' /\ TypeOK
  BY TypeOKStep DEF IInv
<1>2. CASE Add
  BY <1>1, <1>2
     DEF Add, processVars, IInv, Buffers, Counts, AckedStored, DuplicatesOnlyAtShutdown
<1>3. ASSUME NEW w \in Workers, ReadEmpty(w) \/ Wake(w) \/ Respawn(w) PROVE IInv'
  <2>1. /\ UNCHANGED <<delivered, rows, pending, buffer, stops>>
        /\ \A v \in Workers \ {w} : pc'[v] = pc[v] /\ stopping'[v] = stopping[v]
        /\ pc[w] # "ack" /\ pc'[w] \in {"read", "flush"}
        /\ stopping'[w] => stopping[w]
        /\ pc[w] = "dead" \/ stopping'[w] = stopping[w]
    BY <1>1, <1>3
       DEF ReadEmpty, Wake, Respawn, Goto, streamVars, processVars, TypeOK
  <2>2. pc[w] = "dead" => buffer'[w] = {}
    BY <2>1 DEF IInv, Buffers
  <2>3. stops' >= stops
    BY <1>1, <2>1 DEF TypeOK
  <2>4. \/ buffer'[w] = {}
        \/ /\ buffer'[w] = buffer[w] /\ pc'[w] \notin {"ack", "dead"}
           /\ pc[w] = "ack" => stopping'[w] /\ ~stopping[w]
           /\ stopping[w] => stopping'[w]
    BY <2>1, <2>2
  <2>5. stopping'[w] => stopping[w] \/ stops' > 0
    BY <2>1
  <2>6. \A v \in Workers \ {w} : /\ pc'[v] = pc[v] /\ buffer'[v] = buffer[v]
                                 /\ stopping'[v] = stopping[v]
    BY <2>1
  <2>7. pending' = pending /\ UNCHANGED <<delivered, rows>>
    BY <2>1
  <2>. QED  BY <1>1, <2>3, <2>4, <2>5, <2>6, <2>7, QuietStep
<1>4. ASSUME NEW w \in Workers, Commit(w) PROVE IInv'
  <2>1. /\ UNCHANGED <<delivered, pending, buffer, stopping, stops>>
        /\ \A v \in Workers \ {w} : pc'[v] = pc[v]
        /\ pc[w] = "flush" /\ pc'[w] = "ack" /\ Insert(w) /\ stops' >= stops
    BY <1>1, <1>4 DEF Commit, Goto, streamVars, processVars, TypeOK
  <2>. QED  BY <1>1, <2>1, StoreStep
<1>5. ASSUME NEW w \in Workers,
             InsertRaises(w) \/ CommitFails(w) \/ Ack(w) \/ Crash(w)
      PROVE  IInv'
  <2>. stops' = stops /\ stops \in Nat
    BY <1>1, <1>5
       DEF InsertRaises, CommitFails, Ack, Crash, processVars, TypeOK
  <2>. USE DEF Goto, Clear, streamVars, processVars
  <2>1. /\ UNCHANGED <<delivered, stopping>>
        /\ pending' = pending \/ (pc[w] = "ack" /\ pending' = pending \ buffer[w])
    BY <1>5 DEF InsertRaises, CommitFails, Ack, Crash
  <2>2. \A v \in Workers \ {w} : /\ pc'[v] = pc[v] /\ buffer'[v] = buffer[v]
                                 /\ stopping'[v] = stopping[v]
    BY <1>1, <1>5 DEF InsertRaises, CommitFails, Ack, Crash, TypeOK
  <2>3. \/ buffer'[w] = {}
        \/ buffer'[w] = buffer[w] /\ pc[w] = "flush" /\ pc'[w] = "sleep"
    BY <1>1, <1>5 DEF InsertRaises, CommitFails, Ack, Crash, TypeOK
  <2>4. \/ UNCHANGED rows
        \/ /\ Insert(w) /\ pc[w] = "flush" /\ pending' = pending
           /\ buffer'[w] = {}
    BY <1>1, <1>5 DEF InsertRaises, CommitFails, Ack, Crash, TypeOK
  <2>5. stops' >= stops /\ (stopping'[w] => stopping[w] \/ stops' > 0)
    BY <2>1
  <2>6. CASE UNCHANGED rows
    <3>1. \/ buffer'[w] = {}
          \/ /\ buffer'[w] = buffer[w] /\ pc'[w] \notin {"ack", "dead"}
             /\ pc[w] = "ack" => stopping'[w] /\ ~stopping[w]
             /\ stopping[w] => stopping'[w]
      BY <2>1, <2>3
    <3>. QED  BY <1>1, <2>1, <2>2, <2>5, <2>6, <3>1, QuietStep
  <2>7. CASE Insert(w) /\ pc[w] = "flush" /\ pending' = pending /\ buffer'[w] = {}
    BY <1>1, <2>1, <2>2, <2>5, <2>7, StoreStep
  <2>. QED  BY <2>4, <2>6, <2>7
<1>6. ASSUME NEW w \in Workers, Cancel(w) PROVE IInv'
  <2>1. stops' >= stops /\ stops' > 0 /\ ~stopping[w]
    BY <1>1, <1>6 DEF Cancel, TypeOK
  <2>2. /\ \A v \in Workers \ {w} : /\ pc'[v] = pc[v] /\ buffer'[v] = buffer[v]
                                    /\ stopping'[v] = stopping[v]
        /\ \/ buffer'[w] = {} /\ pc'[w] = "dead"
           \/ buffer'[w] = buffer[w] /\ pc'[w] = "flush" /\ stopping'[w]
    BY <1>1, <1>6 DEF Cancel, Goto, Clear, TypeOK
  <2>3. CASE pc[w] = "flush" /\ Insert(w) /\ UNCHANGED <<delivered, pending>>
    BY <1>1, <2>1, <2>2, <2>3, StoreStep
  <2>4. CASE /\ UNCHANGED <<delivered, rows>>
             /\ pending' = pending \/ (pc[w] = "ack" /\ pending' = pending \ buffer[w])
    <3>1. \/ buffer'[w] = {}
          \/ /\ buffer'[w] = buffer[w] /\ pc'[w] \notin {"ack", "dead"}
             /\ pc[w] = "ack" => stopping'[w] /\ ~stopping[w]
             /\ stopping[w] => stopping'[w]
      BY <2>1, <2>2
    <3>2. stopping'[w] => stopping[w] \/ stops' > 0
      BY <2>1
    <3>. QED  BY <1>1, <2>1, <2>2, <2>4, <3>1, <3>2, QuietStep
  <2>5. CASE pc[w] = "read" /\ Deliver /\ UNCHANGED rows
    <3>1. /\ pc'[w] # "ack" /\ (pc'[w] = "dead" => buffer'[w] = {})
          /\ buffer'[w] \subseteq buffer[w] \cup Batch
      BY <2>2
    <3>. QED  BY <1>1, <2>1, <2>2, <2>5, <3>1, DeliverStep
  <2>. QED  BY <1>6, <2>3, <2>4, <2>5 DEF Cancel, Interrupted
<1>7. CASE UNCHANGED vars
  BY <1>1, <1>7 DEF vars, IInv, Buffers, Counts, AckedStored, DuplicatesOnlyAtShutdown
<1>. QED
  BY <1>1, <1>2, <1>3, <1>4, <1>5, <1>6, <1>7, ReadStep DEF Next, Step, Failure

-----------------------------------------------------------------------------

(* Every variable of the log consumers always has its type. *)
THEOREM TypeCorrect == Spec => []TypeOK
<1>1. Init => TypeOK
  BY InitIInv DEF IInv
<1>. QED  BY <1>1, TypeOKStep, PTL DEF Spec

(* No log entry is acknowledged before it is stored, whatever fails.       *)
THEOREM AckedStoredHolds == Spec => []AckedStored
<1>1. IInv => AckedStored
  BY DEF IInv
<1>. QED  BY <1>1, InitIInv, NextIInv, PTL DEF Spec

(* Only a shutdown can store an entry twice, and never a third time.       *)
THEOREM DuplicatesOnlyAtShutdownHolds == Spec => []DuplicatesOnlyAtShutdown
<1>1. IInv => DuplicatesOnlyAtShutdown
  BY DEF IInv
<1>. QED  BY <1>1, InitIInv, NextIInv, PTL DEF Spec
=============================================================================
