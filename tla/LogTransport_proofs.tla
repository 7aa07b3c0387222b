------------------------- MODULE LogTransport_proofs -------------------------
(* The log transport, for any number of events, sizes of queue and batch,  *)
(* and failures: TypeOK, BatchBounded, FirstSeenInOrder, and from a second *)
(* invariant, on where the events are, LostOnlyByTrimming and              *)
(* DrainedAtShutdown.                                                      *)
EXTENDS LogTransport, TLAPS, SequenceTheorems, FiniteSetTheorems

(* Events leave the queue and enter the batch in the order they were       *)
(* logged.                                                                 *)
Ordered ==
    /\ \A i \in 1..Len(queue) : queue[i] <= offered
    /\ \A i, j \in 1..Len(queue) :
           i < j /\ queue[i] # Sentinel /\ queue[j] # Sentinel => queue[i] < queue[j]
    /\ \A i \in 1..Len(batch) : batch[i] <= offered
    /\ \A i, j \in 1..Len(batch) : i < j => batch[i] < batch[j]
    /\ \A i \in 1..Len(batch), j \in 1..Len(queue) :
           queue[j] # Sentinel => batch[i] < queue[j]

(* What is published is older than what waits in the queue; what is in the *)
(* batch was published before or is newer than all that is published.      *)
Published ==
    /\ \A i \in 1..Len(stream) : stream[i] <= offered
    /\ \A i \in 1..Len(stream), j \in 1..Len(queue) :
           queue[j] # Sentinel => stream[i] < queue[j]
    /\ \A b \in 1..Len(batch) :
           \/ \E k \in 1..Len(stream) : stream[k] = batch[b]
           \/ \A i \in 1..Len(stream) : stream[i] < batch[b]

(* Only while it is about to be sent may a batch exceed the cap. *)
Sized ==
    /\ Len(batch) <= MaxBatch + 1
    /\ tpc # "flush" => Len(batch) <= MaxBatch

IInv == TypeOK /\ Ordered /\ Published /\ Sized /\ FirstSeenInOrder

-----------------------------------------------------------------------------

(* The invariant holds at the start. *)
LEMMA InitIInv == Init => IInv
<1>. SUFFICES ASSUME Init PROVE IInv
  OBVIOUS
<1>. USE LogTransportAssumption DEF Init
<1>1. TypeOK
  BY DEF TypeOK, Events, Sentinel
<1>2. Ordered /\ Published /\ Sized
  BY DEF Ordered, Published, Sized
<1>3. FirstSeenInOrder
  BY DEF FirstSeenInOrder
<1>. QED  BY <1>1, <1>2, <1>3 DEF IInv

(* What a failed flush keeps, and what a successful one keeps, of a batch. *)
Suffix(t, s) ==
    /\ t \in Seq(Events)
    /\ \E d \in Nat : \A i \in 1..Len(t) : i + d \in 1..Len(s) /\ t[i] = s[i + d]

(* A batch that is dropped leaves the empty suffix. *)
LEMMA EmptySuffix == \A s : Suffix(<<>>, s)
BY DEF Suffix

(* The trim leaves a suffix of the batch that is no longer than the cap.   *)
LEMMA TrimmedFacts ==
  ASSUME batch \in Seq(Events)
  PROVE  Suffix(Trimmed, batch) /\ Len(Trimmed) <= MaxBatch
<1>. USE LogTransportAssumption
<1>0. /\ Len(batch) \in Nat /\ MaxBatch \in Nat
      /\ \A i \in 1..Len(batch) : batch[i] \in Events
  BY LenProperties, ElementOfSeq
<1>1. CASE Len(batch) > MaxBatch
  <2>. DEFINE d == Len(batch) - MaxBatch
              t == SubSeq(batch, d + 1, Len(batch))
  <2>1. d \in Nat /\ d + 1 \in Int /\ Trimmed = t
    BY <1>0, <1>1 DEF Trimmed
  <2>2. \A i \in (d + 1)..Len(batch) : batch[i] \in Events
    BY <1>0, <2>1
  <2>3. /\ t \in Seq(Events)
        /\ Len(t) = IF d + 1 <= Len(batch) THEN Len(batch) - (d + 1) + 1 ELSE 0
        /\ \A i \in 1..(Len(batch) - (d + 1) + 1) : t[i] = batch[(d + 1) + i - 1]
    <3>1. Len(batch) \in Int
      BY <1>0
    <3>. HIDE DEF d
    <3>. QED  BY <3>1, <2>1, <2>2, SubSeqProperties, SMT
  <2>4. Len(t) = MaxBatch
    BY <1>0, <2>3
  <2>5. \A i \in 1..Len(t) : i + d \in 1..Len(batch) /\ t[i] = batch[i + d]
    <3>. SUFFICES ASSUME NEW i \in 1..Len(t)
                  PROVE  i + d \in 1..Len(batch) /\ t[i] = batch[i + d]
      OBVIOUS
    <3>1. i \in 1..MaxBatch
      BY <2>4
    <3>2. /\ i \in 1..(Len(batch) - (d + 1) + 1) /\ (d + 1) + i - 1 = i + d
          /\ i + d \in 1..Len(batch)
      BY <3>1, <1>0, <2>1
    <3>. HIDE DEF t, d
    <3>. QED  BY <3>2, <2>3
  <2>. HIDE DEF t, d
  <2>6. Suffix(t, batch)
    BY <2>1, <2>3, <2>5, Zenon DEF Suffix
  <2>7. Len(t) <= MaxBatch
    BY <2>4, <1>0
  <2>8. Trimmed = t
    BY <2>1
  <2>. QED  BY <2>6, <2>7, <2>8, Zenon
<1>2. CASE ~(Len(batch) > MaxBatch)
  <2>1. Trimmed = batch /\ Len(batch) <= MaxBatch /\ 0 \in Nat
    BY <1>0, <1>2 DEF Trimmed
  <2>2. \A i \in 1..Len(batch) : i + 0 \in 1..Len(batch) /\ batch[i] = batch[i + 0]
    BY <1>0
  <2>3. \E d \in Nat : \A i \in 1..Len(batch) :
            i + d \in 1..Len(batch) /\ batch[i] = batch[i + d]
    BY <2>2
  <2>4. Suffix(batch, batch)
    BY <2>3, Zenon DEF Suffix
  <2>. QED  BY <2>1, <2>4, Zenon
<1>. QED  BY <1>1, <1>2

-----------------------------------------------------------------------------
(* How the sequences change in a step, whichever action makes it.          *)

(* The types of the sequences and of their elements, in the form the step
   lemmas use. *)
LEMMA Facts ==
  ASSUME IInv
  PROVE  /\ offered \in Nat /\ offered <= M /\ M \in Nat
         /\ Len(queue) \in Nat /\ Len(batch) \in Nat /\ Len(stream) \in Nat
         /\ DOMAIN queue = 1..Len(queue) /\ DOMAIN batch = 1..Len(batch)
         /\ DOMAIN stream = 1..Len(stream)
         /\ \A i \in 1..Len(queue) : queue[i] \in Nat
         /\ \A i \in 1..Len(batch) : batch[i] \in Events
         /\ \A i \in 1..Len(stream) : stream[i] \in Events
         /\ Events \subseteq Nat \ {0} /\ Sentinel = 0
<1>1. Events \cup {Sentinel} \subseteq Nat /\ Events \subseteq Nat \ {0} /\ Sentinel = 0
  BY DEF Events, Sentinel
<1>2. TypeOK
  BY DEF IInv
<1>3. offered \in Nat /\ offered <= M /\ M \in Nat
  BY <1>2, LogTransportAssumption DEF TypeOK
<1>4. /\ queue \in Seq(Events \cup {Sentinel}) /\ batch \in Seq(Events)
      /\ stream \in Seq(Events)
  BY <1>2 DEF TypeOK
<1>5. /\ Len(queue) \in Nat /\ Len(batch) \in Nat /\ Len(stream) \in Nat
      /\ DOMAIN queue = 1..Len(queue) /\ DOMAIN batch = 1..Len(batch)
      /\ DOMAIN stream = 1..Len(stream)
  BY <1>4, LenProperties
<1>6. /\ \A i \in 1..Len(queue) : queue[i] \in Events \cup {Sentinel}
      /\ \A i \in 1..Len(batch) : batch[i] \in Events
      /\ \A i \in 1..Len(stream) : stream[i] \in Events
  BY <1>4, ElementOfSeq
<1>. QED  BY <1>1, <1>3, <1>5, <1>6

(* Enqueue and PutSentinel. *)
LEMMA PutOrdered ==
  ASSUME IInv, NEW x \in Events \cup {Sentinel}, queue' = Append(queue, x),
         \/ x = Sentinel /\ offered' = offered
         \/ x = offered + 1 /\ offered' = offered + 1,
         UNCHANGED <<batch, stream>>
  PROVE  /\ queue' \in Seq(Events \cup {Sentinel}) /\ Len(queue') = Len(queue) + 1
         /\ Ordered' /\ Published'
<1>1. queue \in Seq(Events \cup {Sentinel})
  BY DEF IInv, TypeOK
<1>2. /\ queue' \in Seq(Events \cup {Sentinel}) /\ Len(queue') = Len(queue) + 1
      /\ \A i \in 1..Len(queue) : queue'[i] = queue[i]
      /\ queue'[Len(queue) + 1] = x
  BY <1>1, AppendProperties
<1>3. Ordered /\ Published
  BY DEF IInv
<1>4. Ordered'
  BY SMTT(30), <1>2, <1>3, Facts DEF Ordered
<1>5. Published'
  BY <1>2, <1>3, Facts DEF Published, Ordered
<1>. QED  BY <1>2, <1>4, <1>5

(* The head of the queue is taken. *)
Taken ==
    /\ Len(queue) >= 1 /\ Len(queue') = Len(queue) - 1
    /\ \A i \in 1..Len(queue') : i + 1 \in 1..Len(queue) /\ queue'[i] = queue[i + 1]

(* Event x becomes the last of the batch. *)
Batched(x) ==
    /\ Len(batch') = Len(batch) + 1
    /\ \A i \in 1..Len(batch') : batch'[i] = IF i <= Len(batch) THEN batch[i] ELSE x

(* Tail, element by element. *)
LEMMA TakenFacts ==
  ASSUME IInv, queue # <<>>, queue' = Tail(queue)
  PROVE  /\ queue' \in Seq(Events \cup {Sentinel}) /\ Taken
         /\ Head(queue) = queue[1] /\ queue[1] \in Events \cup {Sentinel}
<1>1. queue \in Seq(Events \cup {Sentinel})
  BY DEF IInv, TypeOK
<1>2. /\ queue' \in Seq(Events \cup {Sentinel}) /\ Len(queue') = Len(queue) - 1
      /\ \A i \in 1..Len(queue') : queue'[i] = queue[i + 1]
      /\ Head(queue) \in Events \cup {Sentinel}
  BY <1>1, HeadTailProperties
<1>3. Head(queue) = queue[1] /\ Len(queue) >= 1
  BY <1>1, EmptySeq
<1>4. \A i \in 1..Len(queue') : i + 1 \in 1..Len(queue)
  BY <1>2, Facts
<1>. QED  BY <1>2, <1>3, <1>4 DEF Taken

(* Append, element by element. *)
LEMMA BatchedFacts ==
  ASSUME IInv, NEW x \in Events, batch' = Append(batch, x)
  PROVE  batch' \in Seq(Events) /\ Batched(x)
<1>1. batch \in Seq(Events)
  BY DEF IInv, TypeOK
<1>2. /\ batch' \in Seq(Events) /\ Len(batch') = Len(batch) + 1
      /\ \A i \in 1..Len(batch) : batch'[i] = batch[i]
      /\ batch'[Len(batch) + 1] = x
  BY <1>1, AppendProperties
<1>3. Len(batch) \in Nat
  BY Facts
<1>. QED  BY <1>2, <1>3 DEF Batched

(* What is left of the queue is in order. *)
LEMMA TakenOrdered ==
  ASSUME IInv, Taken, NEW i \in 1..Len(queue'), NEW j \in 1..Len(queue'), i < j,
         queue'[i] # Sentinel, queue'[j] # Sentinel
  PROVE  queue'[i] < queue'[j]
<1>1. /\ i + 1 \in 1..Len(queue) /\ queue'[i] = queue[i + 1]
      /\ j + 1 \in 1..Len(queue) /\ queue'[j] = queue[j + 1]
  BY DEF Taken
<1>2. i + 1 < j + 1
  BY <1>1
<1>3. queue[i + 1] < queue[j + 1]
  BY <1>1, <1>2 DEF IInv, Ordered
<1>. QED  BY <1>1, <1>3

(* GetSentinel. *)
LEMMA DroppedOrdered ==
  ASSUME IInv, Taken, UNCHANGED <<offered, batch, stream>>
  PROVE  Ordered' /\ Published'
<1>1. Ordered /\ Published
  BY DEF IInv
<1>2. Ordered'
  <2>1. \A i, j \in 1..Len(queue') :
           i < j /\ queue'[i] # Sentinel /\ queue'[j] # Sentinel => queue'[i] < queue'[j]
    BY TakenOrdered
  <2>2. \A i \in 1..Len(queue') : queue'[i] <= offered'
    BY <1>1, Facts DEF Ordered, Taken
  <2>3. \A i \in 1..Len(batch'), j \in 1..Len(queue') :
           queue'[j] # Sentinel => batch'[i] < queue'[j]
    BY <1>1, Facts DEF Ordered, Taken
  <2>. QED  BY <1>1, <2>1, <2>2, <2>3 DEF Ordered
<1>3. Published'
  BY <1>1, Facts DEF Published, Taken
<1>. QED  BY <1>2, <1>3

(* Get. *)
LEMMA MovedOrdered ==
  ASSUME IInv, Taken, queue[1] # Sentinel, Batched(queue[1]), UNCHANGED <<offered, stream>>
  PROVE  Ordered' /\ Published'
<1>1. Ordered /\ Published
  BY DEF IInv
<1>2. Ordered'
  <2>1. \A i \in 1..Len(queue') : queue'[i] <= offered'
    BY <1>1, Facts DEF Ordered, Taken
  <2>2. \A i, j \in 1..Len(queue') :
           i < j /\ queue'[i] # Sentinel /\ queue'[j] # Sentinel => queue'[i] < queue'[j]
    BY TakenOrdered
  <2>3. \A i \in 1..Len(batch') : batch'[i] <= offered'
    BY <1>1, Facts DEF Ordered, Taken, Batched
  <2>4. \A i, j \in 1..Len(batch') : i < j => batch'[i] < batch'[j]
    BY <1>1, Facts DEF Ordered, Taken, Batched
  <2>5. \A i \in 1..Len(batch'), j \in 1..Len(queue') :
           queue'[j] # Sentinel => batch'[i] < queue'[j]
    <3>. SUFFICES ASSUME NEW i \in 1..Len(batch'), NEW j \in 1..Len(queue'),
                         queue'[j] # Sentinel
                  PROVE  batch'[i] < queue'[j]
      OBVIOUS
    <3>1. j + 1 \in 1..Len(queue) /\ queue'[j] = queue[j + 1] /\ 1 < j + 1 /\ 1 \in 1..Len(queue)
      BY Facts DEF Taken
    <3>2. queue[1] < queue[j + 1]
      BY <1>1, <3>1 DEF Ordered
    <3>3. CASE i <= Len(batch)
      <4>1. i \in 1..Len(batch) /\ batch'[i] = batch[i]
        BY <3>3, Facts DEF Batched
      <4>. QED  BY <1>1, <3>1, <4>1 DEF Ordered
    <3>4. CASE ~(i <= Len(batch))
      BY <3>1, <3>2, <3>4 DEF Batched
    <3>. QED  BY <3>3, <3>4
  <2>. QED  BY <2>1, <2>2, <2>3, <2>4, <2>5 DEF Ordered
<1>3. Published'
  <2>1. \A i \in 1..Len(stream') : stream'[i] <= offered'
    BY <1>1 DEF Published
  <2>2. \A i \in 1..Len(stream'), j \in 1..Len(queue') :
           queue'[j] # Sentinel => stream'[i] < queue'[j]
    BY <1>1, Facts DEF Published, Taken
  <2>3. \A b \in 1..Len(batch') :
           \/ \E k \in 1..Len(stream') : stream'[k] = batch'[b]
           \/ \A i \in 1..Len(stream') : stream'[i] < batch'[b]
    <3>. SUFFICES ASSUME NEW b \in 1..Len(batch')
                  PROVE  \/ \E k \in 1..Len(stream) : stream[k] = batch'[b]
                         \/ \A i \in 1..Len(stream) : stream[i] < batch'[b]
      OBVIOUS
    <3>1. CASE b <= Len(batch)
      <4>1. b \in 1..Len(batch) /\ batch'[b] = batch[b]
        BY <3>1, Facts DEF Batched
      <4>. QED  BY <1>1, <4>1 DEF Published
    <3>2. CASE ~(b <= Len(batch))
      <4>1. batch'[b] = queue[1] /\ 1 \in 1..Len(queue)
        BY <3>2, Facts DEF Batched, Taken
      <4>. QED  BY <1>1, <4>1 DEF Published
    <3>. QED  BY <3>1, <3>2
  <2>. QED  BY <2>1, <2>2, <2>3 DEF Published
<1>. QED  BY <1>2, <1>3

(* The batch is added to the stream. *)
Sent ==
    /\ Len(stream') = Len(stream) + Len(batch)
    /\ \A i \in 1..Len(stream') :
           \/ i \in 1..Len(stream) /\ stream'[i] = stream[i]
           \/ /\ i > Len(stream) /\ i - Len(stream) \in 1..Len(batch)
              /\ stream'[i] = batch[i - Len(stream)]

(* Concatenation, element by element. *)
LEMMA SentFacts ==
  ASSUME IInv, stream' = stream \o batch
  PROVE  stream' \in Seq(Events) /\ Sent
<1>1. stream \in Seq(Events) /\ batch \in Seq(Events)
  BY DEF IInv, TypeOK
<1>2. /\ stream' \in Seq(Events) /\ Len(stream') = Len(stream) + Len(batch)
      /\ \A i \in 1..Len(stream) + Len(batch) : stream'[i] =
            IF i <= Len(stream) THEN stream[i] ELSE batch[i - Len(stream)]
  BY <1>1, ConcatProperties
<1>3. ASSUME NEW i \in 1..Len(stream')
      PROVE  \/ i \in 1..Len(stream) /\ stream'[i] = stream[i]
             \/ /\ i > Len(stream) /\ i - Len(stream) \in 1..Len(batch)
                /\ stream'[i] = batch[i - Len(stream)]
  BY <1>2, Facts
<1>. QED  BY <1>2, <1>3 DEF Sent

(* A batch keeps its order when it is cut. *)
LEMMA CutOrdered ==
  ASSUME IInv, Suffix(batch', batch), UNCHANGED <<offered, queue>>
  PROVE  Ordered'
<1>1. PICK d \in Nat : \A i \in 1..Len(batch') :
          i + d \in 1..Len(batch) /\ batch'[i] = batch[i + d]
  BY DEF Suffix
<1>2. Ordered
  BY DEF IInv
<1>3. \A i \in 1..Len(batch') : batch'[i] <= offered
  BY <1>1, <1>2 DEF Ordered
<1>4. ASSUME NEW i \in 1..Len(batch'), NEW j \in 1..Len(batch'), i < j
      PROVE  batch'[i] < batch'[j]
  <2>1. /\ i + d \in 1..Len(batch) /\ j + d \in 1..Len(batch) /\ i + d < j + d
        /\ batch'[i] = batch[i + d] /\ batch'[j] = batch[j + d]
    BY <1>1, <1>4
  <2>. QED  BY <2>1, <1>2 DEF Ordered
<1>5. \A i \in 1..Len(batch'), j \in 1..Len(queue) :
          queue[j] # Sentinel => batch'[i] < queue[j]
  BY <1>1, <1>2 DEF Ordered
<1>. QED  BY <1>2, <1>3, <1>4, <1>5 DEF Ordered

(* The batch is cut while the stream stays as it is. *)
LEMMA CutPublished ==
  ASSUME IInv, Suffix(batch', batch), UNCHANGED <<offered, queue, stream>>
  PROVE  Published' /\ FirstSeenInOrder'
<1>1. PICK d \in Nat : \A i \in 1..Len(batch') :
          i + d \in 1..Len(batch) /\ batch'[i] = batch[i + d]
  BY DEF Suffix
<1>2. Published /\ FirstSeenInOrder
  BY DEF IInv
<1>3. \A b \in 1..Len(batch') :
          \/ \E k \in 1..Len(stream) : stream[k] = batch'[b]
          \/ \A i \in 1..Len(stream) : stream[i] < batch'[b]
  BY <1>1, <1>2 DEF Published
<1>4. Published'
  BY <1>2, <1>3 DEF Published
<1>5. FirstSeenInOrder'
  BY <1>2 DEF FirstSeenInOrder
<1>. QED  BY <1>4, <1>5

(* The batch is sent, and afterwards kept, cut or dropped. *)
LEMMA SentPublished ==
  ASSUME IInv, Suffix(batch', batch), Sent, UNCHANGED <<offered, queue>>
  PROVE  Published'
<1>1. PICK d \in Nat : \A i \in 1..Len(batch') :
          i + d \in 1..Len(batch) /\ batch'[i] = batch[i + d]
  BY DEF Suffix
<1>2. Ordered /\ Published
  BY DEF IInv
<1>3. \A i \in 1..Len(stream') : stream'[i] <= offered
  BY <1>2 DEF Ordered, Published, Sent
<1>4. \A i \in 1..Len(stream'), j \in 1..Len(queue) :
          queue[j] # Sentinel => stream'[i] < queue[j]
  BY <1>2 DEF Ordered, Published, Sent
<1>5. ASSUME NEW b \in 1..Len(batch')
      PROVE  \E k \in 1..Len(stream') : stream'[k] = batch'[b]
  <2>. DEFINE k == Len(stream) + (b + d)
  <2>1. b + d \in 1..Len(batch) /\ batch'[b] = batch[b + d]
    BY <1>1
  <2>2. k \in 1..Len(stream') /\ k > Len(stream) /\ k - Len(stream) = b + d
    BY <2>1, Facts DEF Sent
  <2>3. stream'[k] = batch[b + d]
    <3>1. \/ k \in 1..Len(stream)
          \/ stream'[k] = batch[k - Len(stream)]
      <4>. HIDE DEF k
      <4>. QED  BY <2>2 DEF Sent
    <3>2. k \notin 1..Len(stream)
      BY <2>2
    <3>. HIDE DEF k
    <3>. QED  BY <3>1, <3>2, <2>2
  <2>. HIDE DEF k
  <2>. QED  BY <2>1, <2>2, <2>3
<1>. QED  BY <1>3, <1>4, <1>5 DEF Published

(* The entry j that comes after the later entry i: if both are new, the    *)
(* batch was not in order; if only j is, it was published before, and      *)
(* either that entry or, by the hypothesis, an earlier one precedes i.     *)
LEMMA SentInOrder ==
  ASSUME IInv, Sent, stream' \in Seq(Events)
  PROVE  FirstSeenInOrder'
<1>1. Ordered /\ Published /\ FirstSeenInOrder
  BY DEF IInv
<1>2. DOMAIN stream' = 1..Len(stream') /\ Len(stream') \in Nat
  BY LenProperties
<1>3. SUFFICES ASSUME NEW i \in 1..Len(stream'), NEW j \in 1..Len(stream'),
                      i < j, stream'[j] < stream'[i]
               PROVE  \E k \in 1..(i - 1) : stream'[k] = stream'[j]
  BY <1>2 DEF FirstSeenInOrder
<1>4. \A k \in 1..Len(stream) : k \in 1..Len(stream') /\ stream'[k] = stream[k]
  <2>1. SUFFICES ASSUME NEW k \in 1..Len(stream)
                 PROVE  k \in 1..Len(stream') /\ stream'[k] = stream[k]
    OBVIOUS
  <2>2. k \in 1..Len(stream') /\ ~(k > Len(stream))
    BY Facts DEF Sent
  <2>. QED  BY <2>2 DEF Sent
<1>5. \A p, q \in 1..Len(stream) : p < q /\ stream[q] < stream[p] =>
          \E k \in 1..(p - 1) : stream[k] = stream[q]
  BY <1>1, Facts DEF FirstSeenInOrder
<1>6. CASE j \in 1..Len(stream)
  <2>1. i \in 1..Len(stream) /\ stream'[i] = stream[i] /\ stream'[j] = stream[j]
    BY <1>3, <1>4, <1>6, Facts
  <2>2. PICK k \in 1..(i - 1) : stream[k] = stream[j]
    BY <1>3, <1>5, <1>6, <2>1
  <2>3. k \in 1..Len(stream)
    BY <2>1, Facts
  <2>. QED  BY <1>4, <2>1, <2>2, <2>3
<1>7. CASE j \notin 1..Len(stream)
  <2>1. j - Len(stream) \in 1..Len(batch) /\ stream'[j] = batch[j - Len(stream)]
    BY <1>7 DEF Sent
  <2>2. CASE i \in 1..Len(stream)
    <3>1. stream'[i] = stream[i] /\ batch[j - Len(stream)] < stream[i]
      BY <1>3, <1>4, <2>1, <2>2
    <3>2. /\ stream[i] \in Int /\ batch[j - Len(stream)] \in Int
          /\ ~(stream[i] < batch[j - Len(stream)])
      BY SMTT(30), <2>1, <2>2, <3>1, Facts
    <3>3. PICK k \in 1..Len(stream) : stream[k] = batch[j - Len(stream)]
      BY <1>1, <2>1, <2>2, <3>2 DEF Published
    <3>4. k # i
      BY <3>1, <3>2, <3>3
    <3>5. CASE k < i
      BY <1>4, <2>1, <3>3, <3>5
    <3>6. CASE i < k
      <4>1. PICK l \in 1..(i - 1) : stream[l] = stream[k]
        BY <1>5, <2>2, <3>1, <3>3, <3>6
      <4>2. l \in 1..Len(stream)
        BY <2>2, Facts
      <4>. QED  BY <1>4, <2>1, <3>3, <4>1, <4>2
    <3>. QED  BY <2>2, <3>4, <3>5, <3>6
  <2>3. CASE i \notin 1..Len(stream)
    <3>1. i - Len(stream) \in 1..Len(batch) /\ stream'[i] = batch[i - Len(stream)]
      BY <2>3 DEF Sent
    <3>2. i - Len(stream) < j - Len(stream)
      BY <1>3, Facts
    <3>3. batch[i - Len(stream)] < batch[j - Len(stream)]
      BY <1>1, <2>1, <3>1, <3>2 DEF Ordered
    <3>4. batch[i - Len(stream)] \in Nat /\ batch[j - Len(stream)] \in Nat
      BY <2>1, <3>1, Facts
    <3>. QED  BY <1>3, <2>1, <3>1, <3>3, <3>4
  <2>. QED  BY <2>2, <2>3
<1>. QED  BY <1>6, <1>7

(* A step in which the transport tries to send its batch. *)
LEMMA SendStep ==
  ASSUME IInv, stream' \in {stream, stream \o batch}, Suffix(batch', batch),
         UNCHANGED <<offered, queue>>
  PROVE  /\ stream' \in Seq(Events) /\ batch' \in Seq(Events)
         /\ Ordered' /\ Published' /\ FirstSeenInOrder'
<1>1. stream \in Seq(Events) /\ batch' \in Seq(Events)
  BY DEF IInv, TypeOK, Suffix
<1>2. Ordered'
  BY CutOrdered
<1>3. CASE stream' = stream
  BY <1>1, <1>2, <1>3, CutPublished
<1>4. CASE stream' = stream \o batch
  <2>1. stream' \in Seq(Events) /\ Sent
    BY <1>4, SentFacts
  <2>. QED  BY <1>1, <1>2, <2>1, SentPublished, SentInOrder
<1>. QED  BY <1>3, <1>4

-----------------------------------------------------------------------------

(* A step that leaves the data of the pipeline alone. *)
LEMMA QuietStep ==
  ASSUME IInv, UNCHANGED <<offered, queue, batch, stream>>
  PROVE  Ordered' /\ Published' /\ FirstSeenInOrder'
BY DEF IInv, Ordered, Published, FirstSeenInOrder

(* A step that sends the batch or fails to, or drops it. *)
LEMMA SendKeepsIInv ==
  ASSUME IInv, stream' \in {stream, stream \o batch}, Suffix(batch', batch),
         Len(batch') <= MaxBatch, UNCHANGED <<offered, accepted, queue>>,
         tpc' \in {"get", "sleep", "ended"}, faults' \in 0..MaxFaults,
         lpc' \in {"serving", "consumer", "aborted", "put", "join", "complete", "exited"}
  PROVE  IInv'
<1>1. TypeOK'
  BY SendStep DEF IInv, TypeOK
<1>2. Sized'
  BY LogTransportAssumption, SendStep, LenProperties DEF Sized
<1>. QED  BY <1>1, <1>2, SendStep DEF IInv

(* Every step keeps the invariant. *)
LEMMA NextIInv == IInv /\ [Next]_vars => IInv'
<1>. SUFFICES ASSUME IInv, [Next]_vars PROVE IInv'
  OBVIOUS
<1>0. /\ TypeOK /\ Sized /\ MaxBatch \in Nat /\ FlushSize <= MaxBatch
      /\ FlushSize \in Nat \ {0} /\ QueueMax \in Nat \ {0}
  BY LogTransportAssumption DEF IInv
<1>1. CASE Enqueue
  <2>1. CASE Len(queue) < QueueMax
    <3>. DEFINE x == offered + 1
    <3>1. x \in Events /\ x \in Events \cup {Sentinel} /\ offered' = offered + 1
      BY <1>1, Facts DEF Enqueue, Events
    <3>2. queue' = Append(queue, x) /\ accepted' = accepted \cup {x}
      BY <1>1, <2>1 DEF Enqueue
    <3>3. UNCHANGED <<batch, stream, tpc, lpc, faults>>
      BY <1>1 DEF Enqueue
    <3>4. /\ queue' \in Seq(Events \cup {Sentinel}) /\ Len(queue') = Len(queue) + 1
          /\ Ordered' /\ Published'
      <4>. HIDE DEF x
      <4>. QED  BY <3>1, <3>2, <3>3, PutOrdered DEF x
    <3>5. Len(queue') <= QueueMax
      BY <1>0, <2>1, <3>4, Facts
    <3>6. TypeOK'
      <4>1. offered' \in 0..M
        BY <3>1 DEF Events, x
      <4>2. accepted' \subseteq Events
        BY <1>0, <3>1, <3>2 DEF TypeOK
      <4>. QED  BY <1>0, <3>3, <3>4, <3>5, <4>1, <4>2 DEF TypeOK
    <3>7. Sized' /\ FirstSeenInOrder'
      BY <1>0, <3>3 DEF Sized, FirstSeenInOrder, IInv
    <3>. QED  BY <3>4, <3>6, <3>7 DEF IInv
  <2>2. CASE ~(Len(queue) < QueueMax)
    <3>1. UNCHANGED <<queue, accepted, batch, stream, tpc, lpc, faults>>
      BY <1>1, <2>2 DEF Enqueue
    <3>2. offered' = offered + 1 /\ offered' \in 0..M
      BY <1>1, Facts DEF Enqueue
    <3>3. TypeOK'
      BY <1>0, <3>1, <3>2 DEF TypeOK
    <3>4. Ordered'
      BY <3>1, <3>2, Facts DEF Ordered, IInv
    <3>5. Published'
      BY <3>1, <3>2, Facts DEF Published, IInv
    <3>6. Sized' /\ FirstSeenInOrder'
      BY <1>0, <3>1 DEF Sized, FirstSeenInOrder, IInv
    <3>. QED  BY <3>3, <3>4, <3>5, <3>6 DEF IInv
  <2>. QED  BY <2>1, <2>2
<1>2. CASE Get
  <2>1. /\ queue # <<>> /\ Head(queue) # Sentinel /\ queue' = Tail(queue)
        /\ batch' = Append(batch, Head(queue)) /\ tpc = "get"
        /\ UNCHANGED <<offered, accepted, stream, lpc, faults>>
        /\ tpc' = IF Len(batch') >= FlushSize THEN "flush" ELSE "get"
    BY <1>2 DEF Get, Runs
  <2>2. /\ queue' \in Seq(Events \cup {Sentinel}) /\ Taken
        /\ Head(queue) = queue[1] /\ queue[1] \in Events
    BY <2>1, TakenFacts
  <2>3. batch' \in Seq(Events) /\ Batched(queue[1])
    BY <2>1, <2>2, BatchedFacts
  <2>4. Ordered' /\ Published'
    BY <2>1, <2>2, <2>3, MovedOrdered
  <2>5. Len(batch') = Len(batch) + 1 /\ Len(queue') <= QueueMax
    BY <1>0, <2>2, <2>3, Facts DEF Taken, Batched, TypeOK
  <2>6. TypeOK'
    <3>1. tpc' \in {"flush", "get"}
      BY <2>1
    <3>2. /\ offered' \in 0..M /\ accepted' \subseteq Events /\ stream' \in Seq(Events)
          /\ faults' \in 0..MaxFaults
          /\ lpc' \in {"serving", "consumer", "aborted", "put", "join", "complete", "exited"}
      BY <1>0, <2>1 DEF TypeOK
    <3>. QED  BY <2>2, <2>3, <2>5, <3>1, <3>2 DEF TypeOK
  <2>7. Sized'
    <3>1. Len(batch) <= MaxBatch
      BY <1>0, <2>1 DEF Sized
    <3>2. tpc' # "flush" => Len(batch') < FlushSize
      BY <1>0, <2>1, <2>5, Facts
    <3>. QED  BY <1>0, <2>5, <3>1, <3>2, Facts DEF Sized
  <2>8. FirstSeenInOrder'
    BY <2>1 DEF FirstSeenInOrder, IInv
  <2>. QED  BY <2>4, <2>6, <2>7, <2>8 DEF IInv
<1>3. CASE GetSentinel
  <2>1. /\ queue # <<>> /\ queue' = Tail(queue) /\ tpc = "get"
        /\ UNCHANGED <<offered, accepted, batch, stream, lpc, faults>>
        /\ tpc' \in {"last", "ended"}
    BY <1>3 DEF GetSentinel, Runs
  <2>2. queue' \in Seq(Events \cup {Sentinel}) /\ Taken
    BY <2>1, TakenFacts
  <2>3. Ordered' /\ Published'
    BY <2>1, <2>2, DroppedOrdered
  <2>4. Len(queue') <= QueueMax
    BY <1>0, <2>2, Facts DEF Taken, TypeOK
  <2>5. TypeOK'
    <3>1. /\ offered' \in 0..M /\ accepted' \subseteq Events /\ stream' \in Seq(Events)
          /\ batch' \in Seq(Events) /\ faults' \in 0..MaxFaults
          /\ lpc' \in {"serving", "consumer", "aborted", "put", "join", "complete", "exited"}
      BY <1>0, <2>1 DEF TypeOK
    <3>. QED  BY <2>1, <2>2, <2>4, <3>1 DEF TypeOK
  <2>6. Sized' /\ FirstSeenInOrder'
    BY <1>0, <2>1 DEF Sized, FirstSeenInOrder, IInv
  <2>. QED  BY <2>3, <2>5, <2>6 DEF IInv
<1>4. CASE GetEmpty
  <2>1. UNCHANGED <<offered, accepted, queue, batch, stream, lpc, faults>>
    BY <1>4 DEF GetEmpty
  <2>2. TypeOK' /\ Sized'
    BY <1>0, <1>4 DEF GetEmpty, TypeOK, Sized, Runs
  <2>. QED  BY <2>1, <2>2, QuietStep DEF IInv
<1>5. CASE Flush
  <2>1. /\ stream' = stream \o batch /\ batch' = <<>> /\ tpc' \in {"get", "sleep"}
        /\ UNCHANGED <<offered, accepted, queue, lpc, faults>>
    BY <1>5 DEF Flush
  <2>2. Suffix(batch', batch) /\ Len(batch') <= MaxBatch
    BY <1>0, <2>1, EmptySuffix
  <2>. QED  BY <1>0, <2>1, <2>2, SendKeepsIInv DEF TypeOK
<1>6. CASE FlushFails
  <2>1. /\ stream' \in {stream, stream \o batch} /\ batch' = Trimmed /\ tpc' = "sleep"
        /\ faults < MaxFaults /\ faults' = faults + 1
        /\ UNCHANGED <<offered, accepted, queue, lpc>>
    BY <1>6 DEF FlushFails
  <2>2. Suffix(batch', batch) /\ Len(batch') <= MaxBatch
    BY <1>0, <2>1, TrimmedFacts DEF TypeOK
  <2>3. faults' \in 0..MaxFaults
    BY <1>0, <2>1, LogTransportAssumption DEF TypeOK
  <2>. QED  BY <1>0, <2>1, <2>2, <2>3, SendKeepsIInv DEF TypeOK
<1>7. CASE Wake
  <2>1. UNCHANGED <<offered, accepted, queue, batch, stream, lpc, faults>>
    BY <1>7 DEF Wake
  <2>2. TypeOK' /\ Sized'
    BY <1>0, <1>7 DEF Wake, TypeOK, Sized, Runs
  <2>. QED  BY <2>1, <2>2, QuietStep DEF IInv
<1>8. CASE LastFlush
  <2>1. /\ stream' \in {stream, stream \o batch} /\ batch' = <<>> /\ tpc' = "ended"
        /\ \/ faults' = faults
           \/ faults < MaxFaults /\ faults' = faults + 1
        /\ UNCHANGED <<offered, accepted, queue, lpc>>
    BY <1>8 DEF LastFlush
  <2>2. Suffix(batch', batch) /\ Len(batch') <= MaxBatch
    BY <1>0, <2>1, EmptySuffix
  <2>3. faults' \in 0..MaxFaults
    BY <1>0, <2>1, LogTransportAssumption DEF TypeOK
  <2>. QED  BY <1>0, <2>1, <2>2, <2>3, SendKeepsIInv DEF TypeOK
<1>9. CASE Shutdown
  <2>1. UNCHANGED <<offered, accepted, queue, batch, stream, tpc, faults>>
    BY <1>9 DEF Shutdown
  <2>2. TypeOK' /\ Sized'
    BY <1>0, <1>9 DEF Shutdown, TypeOK, Sized
  <2>. QED  BY <2>1, <2>2, QuietStep DEF IInv
<1>10. CASE ConsumerEnded
  <2>1. UNCHANGED <<offered, accepted, queue, batch, stream, tpc, faults>>
    BY <1>10 DEF ConsumerEnded
  <2>2. TypeOK' /\ Sized'
    BY <1>0, <1>10 DEF ConsumerEnded, TypeOK, Sized
  <2>. QED  BY <2>1, <2>2, QuietStep DEF IInv
<1>11. CASE PutSentinel
  <2>1. /\ queue' = Append(queue, Sentinel) /\ Len(queue) < QueueMax /\ lpc' = "join"
        /\ UNCHANGED <<offered, accepted, batch, stream, tpc, faults>>
    BY <1>11 DEF PutSentinel
  <2>2. Sentinel \in Events \cup {Sentinel}
    OBVIOUS
  <2>3. /\ queue' \in Seq(Events \cup {Sentinel}) /\ Len(queue') = Len(queue) + 1
        /\ Ordered' /\ Published'
    BY <2>1, <2>2, PutOrdered
  <2>4. Len(queue') <= QueueMax
    BY <1>0, <2>1, <2>3, Facts
  <2>5. TypeOK'
    <3>1. /\ offered' \in 0..M /\ accepted' \subseteq Events /\ stream' \in Seq(Events)
          /\ batch' \in Seq(Events) /\ faults' \in 0..MaxFaults
          /\ tpc' \in {"get", "flush", "drain", "sleep", "last", "ended"}
      BY <1>0, <2>1 DEF TypeOK
    <3>. QED  BY <2>1, <2>3, <2>4, <3>1 DEF TypeOK
  <2>6. Sized' /\ FirstSeenInOrder'
    BY <1>0, <2>1 DEF Sized, FirstSeenInOrder, IInv
  <2>. QED  BY <2>3, <2>5, <2>6 DEF IInv
<1>12. CASE Join
  <2>1. UNCHANGED <<offered, accepted, queue, batch, stream, tpc, faults>>
    BY <1>12 DEF Join
  <2>2. TypeOK' /\ Sized'
    BY <1>0, <1>12 DEF Join, TypeOK, Sized
  <2>. QED  BY <2>1, <2>2, QuietStep DEF IInv
<1>13. CASE JoinTimeout
  <2>1. /\ stream' \in {stream, stream \o batch} /\ batch' = <<>> /\ tpc' = "ended"
        /\ lpc' = "complete" /\ faults < MaxFaults /\ faults' = faults + 1
        /\ UNCHANGED <<offered, accepted, queue>>
    BY <1>13 DEF JoinTimeout
  <2>2. Suffix(batch', batch) /\ Len(batch') <= MaxBatch
    BY <1>0, <2>1, EmptySuffix
  <2>3. faults' \in 0..MaxFaults
    BY <1>0, <2>1, LogTransportAssumption DEF TypeOK
  <2>. QED  BY <2>1, <2>2, <2>3, SendKeepsIInv
<1>14. CASE Exit
  <2>1. /\ stream' = stream /\ batch' = <<>> /\ tpc' = "ended" /\ lpc' = "exited"
        /\ UNCHANGED <<offered, accepted, queue, faults>>
    BY <1>14 DEF Exit
  <2>2. Suffix(batch', batch) /\ Len(batch') <= MaxBatch
    BY <1>0, <2>1, EmptySuffix
  <2>. QED  BY <1>0, <2>1, <2>2, SendKeepsIInv DEF TypeOK
<1>15. CASE UNCHANGED vars
  BY <1>15 DEF vars, IInv, TypeOK, Ordered, Published, Sized, FirstSeenInOrder
<1>. QED
  BY <1>1, <1>2, <1>3, <1>4, <1>5, <1>6, <1>7, <1>8, <1>9, <1>10, <1>11, <1>12, <1>13,
     <1>14, <1>15 DEF Next, Transport, Lifespan

-----------------------------------------------------------------------------

(* The invariant of the proofs holds in every reachable state.             *)
THEOREM Inductive == Spec => []IInv
BY InitIInv, NextIInv, PTL DEF Spec

(* The variables of the log transport of log_pipeline.py and of the        *)
(* shutdown hook always have their types.                                  *)
THEOREM TypeCorrect == Spec => []TypeOK
BY Inductive, PTL DEF IInv

(* However many pipelines fail, _transport_loop keeps at most MaxBatch     *)
(* events and the one just taken, in the order they were logged.           *)
THEOREM BatchBoundedHolds == Spec => []BatchBounded
<1>1. IInv => BatchBounded
  <2>. SUFFICES ASSUME IInv PROVE BatchBounded
    OBVIOUS
  <2>1. Sized /\ Ordered /\ DOMAIN batch = 1..Len(batch)
    BY Facts DEF IInv
  <2>. QED  BY <2>1 DEF BatchBounded, Sized, Ordered
<1>. QED  BY <1>1, Inductive, PTL

(* The stream that _flush_batch appends to shows each event for the first  *)
(* time after all events logged before it that it will ever show, whatever *)
(* was repeated after a lost reply and whatever was trimmed.               *)
THEOREM FirstSeenInOrderHolds == Spec => []FirstSeenInOrder
BY Inductive, PTL DEF IInv

-----------------------------------------------------------------------------
(* Where the accepted events are.                                          *)

(* What waits or is in the batch was accepted. *)
Owned == ToSet(batch) \subseteq accepted /\ ToSet(queue) \ {Sentinel} \subseteq accepted

(* The events that are somewhere. *)
Present == ToSet(queue) \cup ToSet(batch) \cup ToSet(stream)

(* While nothing fails nothing is lost before the event loop is closed; a  *)
(* transport that has ended has sent what it held, and the hook completes  *)
(* only after it.                                                          *)
Faultless ==
    /\ faults = 0 /\ lpc # "exited" => accepted \subseteq Present
    /\ tpc = "ended" /\ lpc # "exited" => batch = <<>>
    /\ lpc = "complete" => tpc = "ended"

LInv == IInv /\ Owned /\ LostOnlyByTrimming /\ Faultless

(* The elements of a sequence, and what the operations of the pipeline do  *)
(* to them.                                                                *)
LEMMA ToSetFacts ==
  ASSUME NEW S, NEW s \in Seq(S), NEW t \in Seq(S), NEW x \in S
  PROVE  /\ ToSet(s) = {s[i] : i \in 1..Len(s)} /\ ToSet(s) \subseteq S
         /\ ToSet(<<>>) = {}
         /\ ToSet(Append(s, x)) = ToSet(s) \cup {x}
         /\ ToSet(s \o t) = ToSet(s) \cup ToSet(t)
         /\ s # <<>> => ToSet(s) = {Head(s)} \cup ToSet(Tail(s))
<1>1. \A u \in Seq(S) : ToSet(u) = {u[i] : i \in 1..Len(u)} /\ Len(u) \in Nat
  BY LenProperties DEF ToSet
<1>2. ToSet(s) \subseteq S
  BY <1>1, ElementOfSeq
<1>3. ToSet(<<>>) = {}
  BY DEF ToSet
<1>4. ToSet(Append(s, x)) = ToSet(s) \cup {x}
  <2>1. /\ Append(s, x) \in Seq(S) /\ Len(Append(s, x)) = Len(s) + 1
        /\ \A i \in 1..Len(s) : Append(s, x)[i] = s[i]
        /\ Append(s, x)[Len(s) + 1] = x
    BY AppendProperties
  <2>2. 1..(Len(s) + 1) = 1..Len(s) \cup {Len(s) + 1}
    BY <1>1
  <2>. DEFINE u == Append(s, x)
  <2>3. ToSet(u) = {u[i] : i \in 1..(Len(s) + 1)}
    BY <1>1, <2>1
  <2>. HIDE DEF u
  <2>4. {u[i] : i \in 1..(Len(s) + 1)} = {u[i] : i \in 1..Len(s)} \cup {u[Len(s) + 1]}
    BY <2>2
  <2>. QED  BY <1>1, <2>1, <2>3, <2>4 DEF u
<1>5. ToSet(s \o t) = ToSet(s) \cup ToSet(t)
  <2>. DEFINE u == s \o t
  <2>1. /\ u \in Seq(S) /\ Len(u) = Len(s) + Len(t)
        /\ \A i \in 1..Len(s) + Len(t) : u[i] = IF i <= Len(s) THEN s[i] ELSE t[i - Len(s)]
    BY ConcatProperties
  <2>. HIDE DEF u
  <2>2. ASSUME NEW e \in ToSet(u) PROVE e \in ToSet(s) \cup ToSet(t)
    <3>1. PICK i \in 1..Len(u) : u[i] = e
      BY <1>1, <2>1, <2>2
    <3>2. CASE i <= Len(s)
      <4>1. i \in 1..Len(s) /\ s[i] = e
        BY <1>1, <2>1, <3>1, <3>2
      <4>. QED  BY <1>1, <4>1
    <3>3. CASE ~(i <= Len(s))
      <4>1. i - Len(s) \in 1..Len(t) /\ t[i - Len(s)] = e
        BY <1>1, <2>1, <3>1, <3>3
      <4>. QED  BY <1>1, <4>1
    <3>. QED  BY <3>2, <3>3
  <2>3. ASSUME NEW e \in ToSet(s) PROVE e \in ToSet(u)
    <3>1. PICK i \in 1..Len(s) : s[i] = e
      BY <1>1, <2>3
    <3>2. i \in 1..Len(u) /\ u[i] = e
      BY <1>1, <2>1, <3>1
    <3>. QED  BY <1>1, <2>1, <3>2
  <2>4. ASSUME NEW e \in ToSet(t) PROVE e \in ToSet(u)
    <3>1. PICK i \in 1..Len(t) : t[i] = e
      BY <1>1, <2>4
    <3>2. /\ i + Len(s) \in 1..Len(u) /\ ~(i + Len(s) <= Len(s))
          /\ (i + Len(s)) - Len(s) = i
      BY <1>1, <2>1
    <3>3. u[i + Len(s)] = e
      BY <2>1, <3>1, <3>2
    <3>. QED  BY <1>1, <2>1, <3>2, <3>3
  <2>5. ToSet(u) = ToSet(s) \cup ToSet(t)
    BY <2>2, <2>3, <2>4
  <2>. QED  BY <2>5 DEF u
<1>6. ASSUME s # <<>> PROVE ToSet(s) = {Head(s)} \cup ToSet(Tail(s))
  <2>. DEFINE u == Tail(s)
  <2>1. /\ u \in Seq(S) /\ Len(u) = Len(s) - 1
        /\ \A i \in 1..Len(u) : u[i] = s[i + 1]
    BY <1>6, HeadTailProperties
  <2>2. Head(s) = s[1] /\ Len(s) >= 1
    BY <1>6, EmptySeq
  <2>. HIDE DEF u
  <2>3. ASSUME NEW e \in ToSet(s) PROVE e = s[1] \/ e \in ToSet(u)
    <3>1. PICK i \in 1..Len(s) : s[i] = e
      BY <1>1, <2>3
    <3>2. CASE i # 1
      <4>1. i - 1 \in 1..Len(u) /\ (i - 1) + 1 = i
        BY <1>1, <2>1, <3>1, <3>2
      <4>2. u[i - 1] = e
        BY <2>1, <3>1, <4>1
      <4>. QED  BY <1>1, <2>1, <4>1, <4>2
    <3>. QED  BY <3>1, <3>2
  <2>4. ASSUME NEW e \in ToSet(u) PROVE e \in ToSet(s)
    <3>1. PICK i \in 1..Len(u) : u[i] = e
      BY <1>1, <2>1, <2>4
    <3>2. i + 1 \in 1..Len(s) /\ s[i + 1] = e
      BY <1>1, <2>1, <3>1
    <3>. QED  BY <1>1, <3>2
  <2>5. s[1] \in ToSet(s)
    BY <1>1, <2>2
  <2>. QED  BY <2>2, <2>3, <2>4, <2>5 DEF u
<1>. QED  BY <1>1, <1>2, <1>3, <1>4, <1>5, <1>6

(* The sequences of the pipeline, as sets. *)
LEMMA Sequences ==
  ASSUME IInv
  PROVE  /\ queue \in Seq(Events \cup {Sentinel}) /\ batch \in Seq(Events)
         /\ stream \in Seq(Events)
         /\ accepted \subseteq Events /\ ToSet(batch) \subseteq Events
         /\ ToSet(batch) = {batch[i] : i \in 1..Len(batch)}
BY ToSetFacts DEF IInv, TypeOK, ToSet

(* Who is superseded stays so. *)
LEMMA SupersededStays ==
  ASSUME IInv, IInv', accepted \subseteq accepted', NEW e, Superseded(e)
  PROVE  Superseded(e)'
<1>. DEFINE Before == {f \in accepted : f > e}
            Now == {f \in accepted' : f > e}
<1>1. accepted' \subseteq 1..M /\ 0 \in Int /\ M \in Int
  BY LogTransportAssumption DEF IInv, TypeOK, Events
<1>2. IsFiniteSet(1..M)
  BY <1>1, FS_Interval
<1>3. Now \subseteq 1..M /\ Before \subseteq Now
  BY <1>1
<1>4. IsFiniteSet(Now)
  BY <1>2, <1>3, FS_Subset
<1>5. /\ Cardinality(Before) <= Cardinality(Now) /\ IsFiniteSet(Before)
      /\ Cardinality(Before) \in Nat /\ Cardinality(Now) \in Nat
  BY <1>3, <1>4, FS_Subset, FS_CardinalityType
<1>6. Cardinality(Before) >= MaxBatch
  BY DEF Superseded
<1>7. Cardinality(Now) >= MaxBatch
  <2>. HIDE DEF Before, Now
  <2>. QED  BY <1>5, <1>6, LogTransportAssumption
<1>. QED  BY <1>7 DEF Superseded

(* What the trim drops has MaxBatch newer events after it in the batch.    *)
LEMMA TrimmedSupersedes ==
  ASSUME IInv, Owned, NEW e \in ToSet(batch), e \notin ToSet(Trimmed)
  PROVE  Superseded(e)
<1>. DEFINE d == Len(batch) - MaxBatch
            Newer == {f \in accepted : f > e}
<1>1. /\ Len(batch) \in Nat /\ MaxBatch \in Nat /\ batch \in Seq(Events)
      /\ \A i \in 1..Len(batch) : batch[i] \in Nat
      /\ \A i, j \in 1..Len(batch) : i < j => batch[i] < batch[j]
      /\ \A i \in 1..Len(batch) : batch[i] \in accepted
  BY LogTransportAssumption, Facts, Sequences DEF IInv, Ordered, Owned
<1>2. PICK k \in 1..Len(batch) : batch[k] = e
  BY Sequences
<1>3. Len(batch) > MaxBatch /\ Trimmed = SubSeq(batch, d + 1, Len(batch))
  BY DEF Trimmed
<1>4. d \in Nat /\ d + MaxBatch = Len(batch)
  BY <1>1, <1>3
<1>5. k <= d
  <2>1. SUFFICES ASSUME k > d PROVE FALSE
    BY <1>1, <1>4
  <2>2. /\ Trimmed \in Seq(Events)
        /\ \E c \in Nat : \A i \in 1..Len(Trimmed) :
               i + c \in 1..Len(batch) /\ Trimmed[i] = batch[i + c]
    BY <1>1, TrimmedFacts DEF Suffix
  <2>3. /\ Len(Trimmed) = Len(batch) - d
        /\ \A i \in 1..(Len(batch) - d) : Trimmed[i] = batch[i + d]
    <3>. DEFINE t == SubSeq(batch, d + 1, Len(batch))
    <3>1. \A i \in (d + 1)..Len(batch) : batch[i] \in Events
      BY <1>1, <1>4, ElementOfSeq
    <3>2. /\ Len(t) = IF d + 1 <= Len(batch) THEN Len(batch) - (d + 1) + 1 ELSE 0
          /\ \A i \in 1..(Len(batch) - (d + 1) + 1) : t[i] = batch[(d + 1) + i - 1]
      <4>1. d + 1 \in Int /\ Len(batch) \in Int
        BY <1>1, <1>4
      <4>. HIDE DEF d
      <4>. QED  BY <3>1, <4>1, SubSeqProperties, SMT
    <3>3. \A i \in 1..(Len(batch) - d) : /\ (d + 1) + i - 1 = i + d
                                         /\ i \in 1..(Len(batch) - (d + 1) + 1)
      BY <1>1, <1>4
    <3>4. Len(t) = Len(batch) - d
      <4>. HIDE DEF d, t
      <4>. QED  BY <3>2, <1>1, <1>4, <1>2, <2>1
    <3>5. \A i \in 1..(Len(batch) - d) : t[i] = batch[i + d]
      <4>. HIDE DEF d, t
      <4>. QED  BY <3>2, <3>3
    <3>. HIDE DEF d, t
    <3>. QED  BY <1>3, <3>4, <3>5 DEF t
  <2>4. /\ k - d \in 1..(Len(batch) - d) /\ (k - d) + d = k
    BY <1>1, <1>4, <2>1
  <2>5. Trimmed[k - d] = e /\ k - d \in 1..Len(Trimmed)
    <3>. HIDE DEF d
    <3>. QED  BY <1>2, <2>3, <2>4
  <2>6. ToSet(Trimmed) = {Trimmed[i] : i \in 1..Len(Trimmed)}
    <3>1. DOMAIN Trimmed = 1..Len(Trimmed)
      BY <2>2, LenProperties
    <3>. QED  BY <3>1 DEF ToSet
  <2>7. Trimmed[k - d] \in ToSet(Trimmed)
    <3>. HIDE DEF d
    <3>. QED  BY <2>5, <2>6
  <2>. QED  BY <2>5, <2>7
<1>6. \A i \in 1..MaxBatch : /\ i + d \in 1..Len(batch) /\ k < i + d
                             /\ batch[i + d] \in Newer
  <2>1. \A i \in 1..MaxBatch : i + d \in 1..Len(batch) /\ k < i + d
    BY <1>1, <1>4, <1>5
  <2>. HIDE DEF d
  <2>. QED  BY <1>1, <1>2, <2>1
<1>7. IsFiniteSet(Newer)
  <2>1. accepted \subseteq 1..M /\ M \in Int /\ 1 \in Int
    BY LogTransportAssumption DEF IInv, TypeOK, Events
  <2>2. Newer \subseteq accepted
    OBVIOUS
  <2>. HIDE DEF d, Newer
  <2>3. IsFiniteSet(1..M)
    BY <2>1, FS_Interval
  <2>. QED  BY <2>1, <2>2, <2>3, FS_Subset
<1>8. IsFiniteSet(1..MaxBatch) /\ Cardinality(1..MaxBatch) = MaxBatch
  <2>1. 1 \in Int /\ MaxBatch \in Int
    BY <1>1
  <2>. HIDE DEF d, Newer
  <2>2. /\ IsFiniteSet(1..MaxBatch)
        /\ Cardinality(1..MaxBatch) = IF 1 > MaxBatch THEN 0 ELSE MaxBatch - 1 + 1
    BY <2>1, FS_Interval
  <2>. QED  BY <1>1, <2>2
<1>. DEFINE pos == [i \in 1..MaxBatch |-> batch[i + d]]
<1>9. pos \in [1..MaxBatch -> Newer]
  <2>. HIDE DEF d, Newer
  <2>. QED  BY <1>6
<1>10. \A i, j \in 1..MaxBatch : pos[i] = pos[j] => i = j
  <2>1. SUFFICES ASSUME NEW i \in 1..MaxBatch, NEW j \in 1..MaxBatch, i < j
                 PROVE  batch[i + d] # batch[j + d]
    <3>1. \A i, j \in 1..MaxBatch : i < j => pos[i] # pos[j]
      <4>. HIDE DEF d
      <4>. QED  BY <2>1
    <3>. HIDE DEF pos
    <3>. QED  BY <1>1, <3>1
  <2>2. i + d < j + d
    BY <1>4, <2>1
  <2>3. batch[i + d] < batch[j + d] /\ batch[i + d] \in Nat
    <3>. HIDE DEF d, Newer
    <3>. QED  BY <1>1, <1>6, <2>2
  <2>. QED  BY <2>3
<1>11. pos \in Injection(1..MaxBatch, Newer)
  <2>. HIDE DEF pos, Newer
  <2>. QED  BY <1>9, <1>10 DEF Injection, IsInjective
<1>12. MaxBatch <= Cardinality(Newer)
  <2>. HIDE DEF pos, Newer
  <2>. QED  BY <1>7, <1>8, <1>11, FS_Injection
<1>13. Cardinality(Newer) >= MaxBatch
  <2>1. Cardinality(Newer) \in Nat
    BY <1>7, FS_CardinalityType
  <2>. HIDE DEF Newer
  <2>. QED  BY <1>1, <1>12, <2>1
<1>. QED  BY <1>13 DEF Superseded

(* After the step e is accepted and nowhere. *)
Nowhere(e) == e \in accepted' /\ e \notin Present'

(* A step after which an event is nowhere only if it was so before.        *)
LEMMA NothingLost ==
  ASSUME LInv, IInv', Owned', accepted \subseteq accepted',
         \A e : Nowhere(e) => e \in accepted /\ e \notin Present,
         tpc = "ended" => tpc' = "ended", faults' >= faults, faults' \in Nat,
         lpc = "exited" => lpc' = "exited"
  PROVE  /\ LostOnlyByTrimming'
         /\ faults' = 0 /\ lpc' # "exited" => accepted' \subseteq Present'
<1>1. faults \in Nat /\ LostOnlyByTrimming /\ Faultless
  BY LogTransportAssumption DEF LInv, IInv, TypeOK
<1>2. \A e : Superseded(e) => Superseded(e)'
  BY SupersededStays DEF LInv
<1>3. LostOnlyByTrimming'
  BY <1>1, <1>2 DEF LostOnlyByTrimming, Nowhere, Present
<1>4. faults' = 0 => faults = 0
  BY <1>1
<1>. QED  BY <1>1, <1>3, <1>4 DEF Faultless, Nowhere

(* A step that moves no event. *)
LEMMA StillLInv ==
  ASSUME LInv, IInv', UNCHANGED <<accepted, queue, batch, stream, faults>>,
         tpc = "ended" => tpc' = "ended", lpc = "exited" => lpc' = "exited",
         tpc' = "ended" => tpc = "ended", lpc' = "complete" => tpc' = "ended"
  PROVE  LInv'
<1>1. Owned' /\ faults \in Nat
  BY LogTransportAssumption DEF LInv, Owned, IInv, TypeOK
<1>2. \A e : Nowhere(e) => e \in accepted /\ e \notin Present
  BY DEF Nowhere, Present
<1>3. /\ LostOnlyByTrimming'
      /\ faults' = 0 /\ lpc' # "exited" => accepted' \subseteq Present'
  BY <1>1, <1>2, NothingLost
<1>4. Faultless'
  BY <1>3 DEF LInv, Faultless
<1>. QED  BY <1>1, <1>3, <1>4 DEF LInv

(* A step that puts x into the queue, an event just accepted or the        *)
(* sentinel.                                                               *)
LEMMA PutLInv ==
  ASSUME LInv, IInv', NEW x \in Events \cup {Sentinel}, queue' = Append(queue, x),
         accepted' \in {accepted, accepted \cup {x}},
         x # Sentinel => accepted' = accepted \cup {x},
         UNCHANGED <<batch, stream, tpc, faults>>,
         lpc = "exited" => lpc' = "exited", lpc' = "complete" => lpc = "complete"
  PROVE  LInv'
<1>1. ToSet(queue') = ToSet(queue) \cup {x}
  BY Sequences, ToSetFacts DEF LInv
<1>2. Owned' /\ faults \in Nat
  BY <1>1, LogTransportAssumption DEF LInv, Owned, IInv, TypeOK
<1>3. \A e : Nowhere(e) => e \in accepted /\ e \notin Present
  BY <1>1 DEF Nowhere, Present
<1>4. /\ LostOnlyByTrimming'
      /\ faults' = 0 /\ lpc' # "exited" => accepted' \subseteq Present'
  BY <1>2, <1>3, NothingLost
<1>5. Faultless'
  BY <1>4 DEF LInv, Faultless
<1>. QED  BY <1>2, <1>4, <1>5 DEF LInv

(* A step that publishes the batch and clears it.                          *)
LEMMA PublishLInv ==
  ASSUME LInv, IInv', stream' = stream \o batch, batch' = <<>>,
         UNCHANGED <<accepted, queue, lpc, faults>>, tpc # "ended",
         tpc' \in {"get", "sleep", "ended"}
  PROVE  LInv'
<1>1. ToSet(stream') = ToSet(stream) \cup ToSet(batch) /\ ToSet(batch') = {}
  <2>1. stream \in Seq(Events) /\ batch \in Seq(Events)
    BY Sequences DEF LInv
  <2>2. ToSet(<<>>) = {}
    BY DEF ToSet
  <2>3. CASE Events = {}
    <3>1. batch = <<>> /\ stream = <<>>
      BY <2>1, <2>3, EmptySeq, ElementOfSeq, LenProperties
    <3>2. stream' = <<>>
      BY <3>1, ConcatProperties
    <3>. QED  BY <2>2, <3>1, <3>2
  <2>4. CASE Events # {}
    BY <2>1, <2>2, <2>4, ToSetFacts
  <2>. QED  BY <2>3, <2>4
<1>2. Owned' /\ faults \in Nat
  BY <1>1, LogTransportAssumption DEF LInv, Owned, IInv, TypeOK
<1>3. \A e : Nowhere(e) => e \in accepted /\ e \notin Present
  BY <1>1 DEF Nowhere, Present
<1>4. /\ LostOnlyByTrimming'
      /\ faults' = 0 /\ lpc' # "exited" => accepted' \subseteq Present'
  BY <1>2, <1>3, NothingLost
<1>5. Faultless'
  BY <1>4 DEF LInv, Faultless
<1>. QED  BY <1>2, <1>4, <1>5 DEF LInv

(* A step with which the transport ends and drops its batch: a fault, or   *)
(* the end of the event loop.                                              *)
LEMMA DropLInv ==
  ASSUME LInv, IInv', batch' = <<>>, tpc' = "ended", UNCHANGED <<accepted, queue>>,
         faults' # 0 \/ lpc' = "exited"
  PROVE  LInv'
<1>1. Owned'
  BY DEF LInv, Owned, ToSet
<1>2. LostOnlyByTrimming' /\ Faultless'
  BY DEF LostOnlyByTrimming, Faultless
<1>. QED  BY <1>1, <1>2 DEF LInv

(* A failed pipeline gives up only what has been superseded.               *)
LEMMA FailLInv ==
  ASSUME LInv, IInv', FlushFails
  PROVE  LInv'
<1>1. /\ batch' = Trimmed /\ tpc' = "sleep" /\ faults' = faults + 1 /\ tpc # "ended"
      /\ UNCHANGED <<accepted, queue, lpc>> /\ stream' \in {stream, stream \o batch}
      /\ faults \in Nat
  BY LogTransportAssumption DEF FlushFails, Runs, LInv, IInv, TypeOK
<1>2. /\ batch \in Seq(Events) /\ stream \in Seq(Events)
      /\ ToSet(batch) = {batch[i] : i \in 1..Len(batch)} /\ ToSet(batch) \subseteq accepted
  BY Sequences DEF LInv, Owned
<1>3. ToSet(Trimmed) \subseteq ToSet(batch)
  <2>1. /\ Trimmed \in Seq(Events)
        /\ \E c \in Nat : \A i \in 1..Len(Trimmed) :
               i + c \in 1..Len(batch) /\ Trimmed[i] = batch[i + c]
    BY <1>2, TrimmedFacts DEF Suffix
  <2>2. ToSet(Trimmed) = {Trimmed[i] : i \in 1..Len(Trimmed)}
    BY <2>1, LenProperties DEF ToSet
  <2>. QED  BY <1>2, <2>1, <2>2
<1>4. Owned'
  BY <1>1, <1>2, <1>3 DEF LInv, Owned
<1>5. ToSet(stream) \subseteq ToSet(stream')
  <2>1. CASE stream' = stream \o batch
    <3>1. \A i \in 1..Len(stream) : i \in 1..Len(stream') /\ stream'[i] = stream[i]
      BY <1>2, <2>1, ConcatProperties, LenProperties
    <3>2. stream' \in Seq(Events)
      BY <1>2, <2>1, ConcatProperties
    <3>. QED  BY <1>2, <3>1, <3>2, LenProperties DEF ToSet
  <2>. QED  BY <1>1, <2>1
<1>6. LostOnlyByTrimming'
  <2>1. SUFFICES ASSUME NEW e \in accepted, e \notin Present'
                 PROVE  Superseded(e)
    BY <1>1 DEF LostOnlyByTrimming, Superseded, Present
  <2>2. e \notin ToSet(Trimmed) /\ e \notin ToSet(queue) /\ e \notin ToSet(stream)
    BY <1>1, <1>5, <2>1 DEF Present
  <2>3. CASE e \in ToSet(batch)
    BY <2>2, <2>3, TrimmedSupersedes DEF LInv
  <2>4. CASE e \notin ToSet(batch)
    BY <1>1, <2>2, <2>4 DEF LInv, LostOnlyByTrimming
  <2>. QED  BY <2>3, <2>4
<1>7. Faultless'
  BY <1>1 DEF LInv, Faultless
<1>. QED  BY <1>4, <1>6, <1>7 DEF LInv

(* The event moves from the queue to the batch. *)
LEMMA GetLInv ==
  ASSUME LInv, IInv', Get
  PROVE  LInv'
<1>1. /\ queue # <<>> /\ Head(queue) # Sentinel /\ queue' = Tail(queue)
      /\ batch' = Append(batch, Head(queue)) /\ tpc = "get" /\ tpc' # "ended"
      /\ UNCHANGED <<accepted, stream, lpc, faults>>
  BY DEF Get, Runs
<1>2. /\ queue \in Seq(Events \cup {Sentinel}) /\ batch \in Seq(Events)
      /\ Head(queue) \in Events
  BY <1>1, Sequences, HeadTailProperties DEF LInv
<1>3. ToSet(queue) = {Head(queue)} \cup ToSet(queue')
  BY <1>1, <1>2, ToSetFacts
<1>4. ToSet(batch') = ToSet(batch) \cup {Head(queue)}
  BY <1>1, <1>2, ToSetFacts
<1>5. Owned' /\ faults \in Nat
  BY <1>1, <1>3, <1>4, LogTransportAssumption DEF LInv, Owned, IInv, TypeOK
<1>6. \A e : Nowhere(e) => e \in accepted /\ e \notin Present
  BY <1>1, <1>3, <1>4 DEF Nowhere, Present
<1>7. /\ LostOnlyByTrimming'
      /\ faults' = 0 /\ lpc' # "exited" => accepted' \subseteq Present'
  BY <1>1, <1>5, <1>6, NothingLost
<1>8. Faultless'
  BY <1>1, <1>7 DEF LInv, Faultless
<1>. QED  BY <1>5, <1>7, <1>8 DEF LInv

(* The sentinel is no event: taking it from the queue loses nothing.       *)
LEMMA GetSentinelLInv ==
  ASSUME LInv, IInv', GetSentinel
  PROVE  LInv'
<1>1. /\ queue # <<>> /\ Head(queue) = Sentinel /\ queue' = Tail(queue)
      /\ tpc = "get" /\ tpc' = IF batch # <<>> THEN "last" ELSE "ended"
      /\ UNCHANGED <<accepted, batch, stream, lpc, faults>>
  BY DEF GetSentinel, Runs
<1>2. /\ queue \in Seq(Events \cup {Sentinel}) /\ Sentinel \notin accepted
      /\ faults \in Nat
  BY LogTransportAssumption DEF LInv, IInv, TypeOK, Events, Sentinel
<1>3. ToSet(queue) = {Sentinel} \cup ToSet(queue')
  BY <1>1, <1>2, ToSetFacts
<1>4. Owned'
  BY <1>1, <1>3 DEF LInv, Owned
<1>5. \A e : Nowhere(e) => e \in accepted /\ e \notin Present
  BY <1>1, <1>2, <1>3 DEF Nowhere, Present
<1>6. /\ LostOnlyByTrimming'
      /\ faults' = 0 /\ lpc' # "exited" => accepted' \subseteq Present'
  BY <1>1, <1>2, <1>4, <1>5, NothingLost
<1>7. Faultless'
  BY <1>1, <1>6 DEF LInv, Faultless
<1>. QED  BY <1>4, <1>6, <1>7 DEF LInv

(* Every step keeps the account of the events. *)
LEMMA NextLInv == LInv /\ [Next]_vars => LInv'
<1>. SUFFICES ASSUME LInv, [Next]_vars PROVE LInv'
  OBVIOUS
<1>1. IInv' /\ faults \in Nat /\ Faultless
  BY NextIInv, LogTransportAssumption DEF LInv, IInv, TypeOK
<1>2. CASE Enqueue
  <2>1. CASE Len(queue) < QueueMax
    <3>1. offered + 1 \in Events \cup {Sentinel} /\ offered + 1 # Sentinel
      BY <1>2, Facts DEF Enqueue, Events, Sentinel, LInv
    <3>2. /\ queue' = Append(queue, offered + 1)
          /\ accepted' = accepted \cup {offered + 1}
          /\ UNCHANGED <<batch, stream, tpc, lpc, faults>>
      BY <1>2, <2>1 DEF Enqueue
    <3>. QED  BY <1>1, <3>1, <3>2, PutLInv
  <2>2. CASE ~(Len(queue) < QueueMax)
    BY <1>1, <1>2, <2>2, StillLInv DEF Enqueue, Faultless
  <2>. QED  BY <2>1, <2>2
<1>3. CASE GetEmpty \/ Wake
  BY <1>1, <1>3, StillLInv DEF GetEmpty, Wake, Runs, Faultless
<1>4. CASE Flush
  BY <1>1, <1>4, PublishLInv DEF Flush, Runs
<1>5. CASE LastFlush
  <2>1. /\ batch' = <<>> /\ tpc' = "ended" /\ tpc = "last" /\ UNCHANGED <<accepted, queue, lpc>>
    BY <1>5 DEF LastFlush, Runs
  <2>2. CASE stream' = stream \o batch /\ UNCHANGED faults
    BY <1>1, <2>1, <2>2, PublishLInv
  <2>3. CASE faults' = faults + 1
    BY <1>1, <2>1, <2>3, DropLInv
  <2>. QED  BY <1>5, <2>2, <2>3 DEF LastFlush
<1>6. CASE Shutdown \/ ConsumerEnded \/ Join
  BY <1>1, <1>6, StillLInv DEF Shutdown, ConsumerEnded, Join, Faultless
<1>7. CASE PutSentinel
  BY <1>1, <1>7, PutLInv DEF PutSentinel
<1>8. CASE JoinTimeout
  <2>1. /\ batch' = <<>> /\ tpc' = "ended" /\ faults' # 0 /\ UNCHANGED <<accepted, queue>>
    BY <1>1, <1>8 DEF JoinTimeout
  <2>. QED  BY <1>1, <2>1, DropLInv
<1>9. CASE Exit
  BY <1>1, <1>9, DropLInv DEF Exit
<1>10. CASE UNCHANGED vars
  BY <1>1, <1>10, StillLInv DEF vars, Faultless
<1>. QED
  BY <1>1, <1>2, <1>3, <1>4, <1>5, <1>6, <1>7, <1>8, <1>9, <1>10, GetLInv, GetSentinelLInv,
     FailLInv DEF Next, Transport, Lifespan

(* The account holds always. *)
LEMMA Account == Spec => []LInv
<1>1. Init => LInv
  <2>. SUFFICES ASSUME Init PROVE LInv
    OBVIOUS
  <2>1. IInv
    BY InitIInv
  <2>2. Owned /\ LostOnlyByTrimming /\ Faultless
    BY DEF Init, Owned, LostOnlyByTrimming, Faultless, ToSet
  <2>. QED  BY <2>1, <2>2 DEF LInv
<1>. QED  BY <1>1, NextLInv, PTL DEF Spec

(* _transport_loop gives up an event it accepted only for MaxBatch newer   *)
(* ones, or at shutdown, for any number of events, failures and any sizes. *)
THEOREM LostOnlyByTrimmingHolds == Spec => []LostOnlyByTrimming
BY Account, PTL DEF LInv

(* A shutdown hook that completes without a fault leaves nothing behind    *)
(* but events logged after its sentinel, for any events and any sizes.     *)
THEOREM DrainedAtShutdownHolds == Spec => []DrainedAtShutdown
<1>1. LInv => DrainedAtShutdown
  BY DEF LInv, Faultless, DrainedAtShutdown, Present, ToSet
<1>. QED  BY <1>1, Account, PTL
=============================================================================
