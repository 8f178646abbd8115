-------------------------- MODULE TraceLedger_proofs --------------------------
(***************************************************************************)
(* Theorems about TraceLedger: for every choice of streams, capacities,    *)
(* batch size and number of attempts, the queue counters are exact, no     *)
(* record is lost between producer, queue, shard and the drop counters,    *)
(* and a CloseResult made under the condition reconciles and stays final.  *)
(* The second half is about what the shard and its summary say: every loss *)
(* interval has its account, every sequence number its one place in shard, *)
(* queue or open interval, the shard is in order, a summary that says      *)
(* drained is true of the bytes before it, and a drained CloseResult has   *)
(* the counters of that summary.                                           *)
(***************************************************************************)
EXTENDS TraceLedger, TLAPS, FiniteSetTheorems, SequenceTheorems

--------------------------------------------------------------------------------
(* Counting in a queue *)

\* The positions At(q, R) are finite, so HowMany counts them with a natural.
LEMMA HowManyType ==
  ASSUME NEW S, NEW q \in Seq(S), NEW R
  PROVE  IsFiniteSet(At(q, R)) /\ HowMany(q, R) \in Nat
<1>1. At(q, R) \in SUBSET (1..Len(q))
  BY DEF At
<1>2. IsFiniteSet(1..Len(q))
  BY FS_Interval
<1>3. IsFiniteSet(At(q, R))
  BY <1>1, <1>2, FS_Subset
<1> QED
  BY <1>3, FS_CardinalityType DEF HowMany

\* An empty queue counts nothing.
LEMMA HowManyEmpty ==
  ASSUME NEW R
  PROVE  HowMany(<<>>, R) = 0
<1>1. At(<<>>, R) = {}
  BY DEF At
<1> QED
  BY <1>1, FS_EmptySet DEF HowMany

\* Queueing a record counts it if it is in R.
LEMMA HowManyAppend ==
  ASSUME NEW S, NEW q \in Seq(S), NEW e \in S, NEW R
  PROVE  HowMany(Append(q, e), R) = HowMany(q, R) + (IF e \in R THEN 1 ELSE 0)
<1>1. /\ Len(Append(q, e)) = Len(q) + 1
      /\ \A i \in 1..Len(q) : Append(q, e)[i] = q[i]
      /\ Append(q, e)[Len(q) + 1] = e
  BY AppendProperties
<1>2. Len(q) \in Nat
  BY LenProperties
<1>3. Len(q) + 1 \notin At(q, R)
  BY <1>2 DEF At
<1>4. CASE e \in R
  <2>1. At(Append(q, e), R) = At(q, R) \cup {Len(q) + 1}
    BY <1>1, <1>2, <1>4 DEF At
  <2> QED
    BY <2>1, <1>3, <1>4, FS_AddElement, HowManyType DEF HowMany
<1>5. CASE e \notin R
  <2>1. At(Append(q, e), R) = At(q, R)
    BY <1>1, <1>2, <1>5 DEF At
  <2> QED
    BY <2>1, <1>5, HowManyType DEF HowMany
<1> QED
  BY <1>4, <1>5

\* Taking the head of the queue counts it off if it was in R.
LEMMA HowManyTail ==
  ASSUME NEW S, NEW q \in Seq(S), NEW R, q # <<>>
  PROVE  HowMany(q, R) = HowMany(Tail(q), R) + (IF Head(q) \in R THEN 1 ELSE 0)
<1> DEFINE T == At(Tail(q), R)
           U == At(q, R) \ {1}
           f == [i \in T |-> i + 1]
<1>1. /\ Len(Tail(q)) = Len(q) - 1
      /\ Len(q) \in Nat \ {0}
      /\ \A i \in 1..Len(Tail(q)) : Tail(q)[i] = q[i + 1]
      /\ Head(q) = q[1]
  BY HeadTailProperties, LenProperties, EmptySeq
<1>2. IsFiniteSet(T) /\ IsFiniteSet(At(q, R)) /\ IsFiniteSet(U)
  BY HowManyType, HeadTailProperties, FS_RemoveElement
<1>3. ExistsBijection(T, U)
  <2>1. f \in [T -> U]
    BY <1>1 DEF At
  <2>2. \A a, b \in T : f[a] = f[b] => a = b
    BY <1>1 DEF At
  <2>3. \A u \in U : u - 1 \in T /\ f[u - 1] = u
    BY <1>1 DEF At
  <2>4. f \in Bijection(T, U)
    BY <2>1, <2>2, <2>3 DEF Bijection, Injection, Surjection, IsInjective
  <2> QED
    BY <2>4 DEF ExistsBijection
<1>4. Cardinality(U) = Cardinality(T)
  BY <1>2, <1>3, FS_Bijection
<1>5. Cardinality(U) = IF 1 \in At(q, R) THEN Cardinality(At(q, R)) - 1
                       ELSE Cardinality(At(q, R))
  BY <1>2, FS_RemoveElement
<1>6. 1 \in At(q, R) <=> Head(q) \in R
  BY <1>1 DEF At
<1>7. Cardinality(At(q, R)) \in Nat /\ Cardinality(T) \in Nat
  BY <1>2, FS_CardinalityType
<1> QED
  BY <1>4, <1>5, <1>6, <1>7 DEF HowMany

--------------------------------------------------------------------------------
(* The inductive invariant *)

\* Where the writer no longer reads the queue, nothing is queued, abandoned or
\* not: only a closing sink gets there, and it accepts no record.
TimeoutInv ==
  /\ pc = "timeout" => closing
  /\ pc = "controls" => closing /\ pending = <<>>

\* What the flags say of the writer and of the claim, and what a claim made under
\* the condition says of the counters.
ClaimInv ==
  /\ pc = "done" => closed
  /\ closed => pc = "done" \/ abandoned
  /\ abandoned => claim # NoClaim
  /\ claim # NoClaim => closed
  /\ claim # NoClaim /\ claim.exact =>
       /\ pending = <<>>
       /\ claim.attempted = attempted
       /\ claim.written = written
       /\ claim.dropped = dropped

IInv ==
  /\ TypeOK
  /\ QueueCounts
  /\ Conservation
  /\ InflightMatchesBatch
  /\ NoRecordLeftBehind
  /\ TimeoutInv
  /\ ClaimInv

--------------------------------------------------------------------------------
(* Producers *)

\* What a loss record and a data record count for in the queue.
LEMMA RecordKinds ==
  ASSUME TypeOK, NEW s \in Streams, NEW terminal \in BOOLEAN
  PROVE  /\ LossRecord(s) \in Record
         /\ \A u \in Streams : /\ LossRecord(s) \notin DataOf(u)
                               /\ LossRecord(s) \notin OrdinaryOf(u)
                               /\ LossRecord(s) \in ReservedOf(u) <=> u = s
         /\ DataRecord(s, attempted[s], terminal) \in Record
         /\ \A u \in Streams :
              /\ DataRecord(s, attempted[s], terminal) \in DataOf(u) <=> u = s
              /\ DataRecord(s, attempted[s], terminal) \in OrdinaryOf(u)
                   <=> u = s /\ terminal = FALSE
              /\ DataRecord(s, attempted[s], terminal) \in ReservedOf(u)
                   <=> u = s /\ terminal = TRUE
<1>1. /\ openLoss[s].reason \in DropReasons \cup {"none"}
      /\ openLoss[s].first \in Nat /\ openLoss[s].last \in Nat
      /\ attempted[s] \in Nat
  BY DEF TypeOK, PerStream, Losses
<1>2. LossRecord(s) \in Record /\ DataRecord(s, attempted[s], terminal) \in Record
  BY <1>1 DEF LossRecord, DataRecord, Record
<1>3. \A u \in Streams : /\ LossRecord(s) \notin DataOf(u)
                         /\ LossRecord(s) \notin OrdinaryOf(u)
                         /\ LossRecord(s) \in ReservedOf(u) <=> u = s
  BY <1>2 DEF LossRecord, DataOf, OrdinaryOf, ReservedOf
<1>4. \A u \in Streams :
        /\ DataRecord(s, attempted[s], terminal) \in DataOf(u) <=> u = s
        /\ DataRecord(s, attempted[s], terminal) \in OrdinaryOf(u)
             <=> u = s /\ terminal = FALSE
        /\ DataRecord(s, attempted[s], terminal) \in ReservedOf(u)
             <=> u = s /\ terminal = TRUE
  BY <1>2 DEF DataRecord, DataOf, OrdinaryOf, ReservedOf
<1> QED
  BY <1>2, <1>3, <1>4

\* Sealing puts at most one reserved loss record at the end of the queue.
LEMMA SealIntoCounts ==
  ASSUME TypeOK, NEW q \in Seq(Record), NEW s, NEW built \in BOOLEAN
  PROVE  LET p == SealInto(q, s, built) IN
         /\ p \in Seq(Record)
         /\ Len(q) <= Len(p)
         /\ q # <<>> => p # <<>> /\ Head(p) = Head(q)
         /\ writerFailed => p = q
         /\ \A u \in Streams :
              /\ HowMany(p, DataOf(u)) = HowMany(q, DataOf(u))
              /\ HowMany(p, OrdinaryOf(u)) = HowMany(q, OrdinaryOf(u))
              /\ HowMany(p, ReservedOf(u)) = HowMany(q, ReservedOf(u))
                   + (IF u = s /\ SealFits(s, built) THEN 1 ELSE 0)
<1> DEFINE p == SealInto(q, s, built)
<1>0. /\ Len(q) \in Nat
      /\ \A R : HowMany(q, R) \in Nat
  BY HowManyType, LenProperties
<1>1. CASE SealFits(s, built)
  <2>1. s \in Streams /\ ~writerFailed
    BY <1>1 DEF SealFits, CanEnqueue
  <2>2. p = Append(q, LossRecord(s)) /\ LossRecord(s) \in Record
    BY <1>1, <2>1, RecordKinds DEF SealInto
  <2>3. /\ p \in Seq(Record) /\ p # <<>> /\ Len(p) = Len(q) + 1
        /\ Head(p) = IF q = <<>> THEN LossRecord(s) ELSE Head(q)
    BY <2>2, AppendProperties, HeadTailAppend
  <2>4. \A R : HowMany(p, R) = HowMany(q, R) + (IF LossRecord(s) \in R THEN 1 ELSE 0)
    BY <2>2, HowManyAppend
  <2>5. \A u \in Streams : /\ LossRecord(s) \notin DataOf(u)
                           /\ LossRecord(s) \notin OrdinaryOf(u)
                           /\ LossRecord(s) \in ReservedOf(u) <=> u = s
    BY <2>1, RecordKinds
  <2>6. \A u \in Streams :
          /\ HowMany(p, DataOf(u)) = HowMany(q, DataOf(u))
          /\ HowMany(p, OrdinaryOf(u)) = HowMany(q, OrdinaryOf(u))
          /\ HowMany(p, ReservedOf(u)) = HowMany(q, ReservedOf(u))
               + (IF u = s /\ SealFits(s, built) THEN 1 ELSE 0)
    BY <2>4, <2>5, <1>0, <1>1
  <2> QED
    BY <2>1, <2>3, <2>6, <1>0
<1>2. CASE ~SealFits(s, built)
  <2>1. p = q
    BY <1>2 DEF SealInto
  <2> QED
    BY <2>1, <1>0, <1>2
<1> QED
  BY <1>1, <1>2

\* What one attempt on stream s does to the queue and its counters, whether the
\* record is queued or dropped.
AttemptStep(s) ==
  /\ pending' \in Seq(Record)
  /\ Len(pending) <= Len(pending')
  /\ pending # <<>> => pending' # <<>> /\ Head(pending') = Head(pending)
  /\ writerFailed => pending' = pending
  /\ ordinaryQueued' \in PerStream(Nat) /\ reservedQueued' \in PerStream(Nat)
  /\ dropped' \in PerStream(Nat) /\ droppedControl' \in PerStream(Nat)
  /\ nextLoss' \in PerStream(Nat)
  /\ openLoss' \in PerStream(Losses)
  /\ \A u \in Streams :
       /\ ordinaryQueued'[u] = HowMany(pending', OrdinaryOf(u))
       /\ reservedQueued'[u] = HowMany(pending', ReservedOf(u)) + timeoutControls[u]
       /\ ordinaryQueued'[u] <= DataCapacity
       /\ reservedQueued'[u] <= ReservedCapacity
       /\ dropped'[u] + HowMany(pending', DataOf(u))
            = dropped[u] + HowMany(pending, DataOf(u)) + (IF u = s THEN 1 ELSE 0)

\* Updating one stream's entry keeps the type of the counters.
LEMMA UpdateStream ==
  ASSUME NEW S, NEW f \in PerStream(S), NEW s \in Streams, NEW v \in S
  PROVE  /\ [f EXCEPT ![s] = v] \in PerStream(S)
         /\ \A u \in Streams : [f EXCEPT ![s] = v][u] = IF u = s THEN v ELSE f[u]
BY DEF PerStream

\* The counters of a stream are naturals.
LEMMA CounterTypes ==
  ASSUME TypeOK, NEW s \in Streams
  PROVE  /\ ordinaryQueued[s] \in Nat /\ reservedQueued[s] \in Nat
         /\ timeoutControls[s] \in Nat /\ attempted[s] \in Nat /\ nextLoss[s] \in Nat
         /\ written[s] \in Nat /\ writtenLoss[s] \in Nat
         /\ dropped[s] \in Nat /\ droppedControl[s] \in Nat
         /\ openLoss[s] \in Losses
BY DEF TypeOK, PerStream

\* Sealing never takes the reserve beyond its capacity.
LEMMA SealFitsReserve ==
  ASSUME TypeOK, QueueCounts, NEW s \in Streams, NEW built \in BOOLEAN
  PROVE  /\ ReservedAfterSeal(s, built) \in Nat
         /\ ReservedAfterSeal(s, built) <= ReservedCapacity
         /\ SealedControlDrops(s, built) \in Nat
         /\ NextLossAfterSeal(s) \in Nat
<1>1. reservedQueued[s] \in Nat /\ droppedControl[s] \in Nat /\ nextLoss[s] \in Nat
  BY DEF TypeOK, PerStream
<1>2. reservedQueued[s] <= ReservedCapacity
  BY DEF QueueCounts
<1>3. SealFits(s, built) => reservedQueued[s] < ReservedCapacity
  BY DEF SealFits, CanEnqueue
<1> QED
  BY <1>1, <1>2, <1>3, CapacityAssumption
     DEF ReservedAfterSeal, SealedControlDrops, NextLossAfterSeal

\* Sealing the open loss and opening a new one accounts the attempt as dropped.
LEMMA OpenNewLossStep ==
  ASSUME TypeOK, QueueCounts, NEW s \in Streams, NEW built \in BOOLEAN,
         NEW reason \in DropReasons, OpenNewLoss(s, reason, built)
  PROVE  AttemptStep(s)
<1> DEFINE p == SealInto(pending, s, built)
<1>1. pending \in Seq(Record)
  BY DEF TypeOK
<1>2. /\ p \in Seq(Record)
      /\ Len(pending) <= Len(p)
      /\ pending # <<>> => p # <<>> /\ Head(p) = Head(pending)
      /\ writerFailed => p = pending
      /\ \A u \in Streams :
           /\ HowMany(p, DataOf(u)) = HowMany(pending, DataOf(u))
           /\ HowMany(p, OrdinaryOf(u)) = HowMany(pending, OrdinaryOf(u))
           /\ HowMany(p, ReservedOf(u)) = HowMany(pending, ReservedOf(u))
                + (IF u = s /\ SealFits(s, built) THEN 1 ELSE 0)
  BY <1>1, SealIntoCounts
<1>3. pending' = p
  BY DEF OpenNewLoss
<1>4. /\ ReservedAfterSeal(s, built) \in Nat
      /\ ReservedAfterSeal(s, built) <= ReservedCapacity
      /\ SealedControlDrops(s, built) \in Nat
      /\ NextLossAfterSeal(s) \in Nat
  BY SealFitsReserve
<1>5. /\ ordinaryQueued' \in PerStream(Nat) /\ reservedQueued' \in PerStream(Nat)
      /\ dropped' \in PerStream(Nat) /\ droppedControl' \in PerStream(Nat)
      /\ nextLoss' \in PerStream(Nat)
      /\ openLoss' \in PerStream(Losses)
  <2>1. [reason |-> reason, first |-> attempted[s], last |-> attempted[s]] \in Losses
    BY CounterTypes DEF Losses
  <2>2. dropped[s] + 1 \in Nat
    BY CounterTypes
  <2> QED
    BY <1>4, <2>1, <2>2, UpdateStream DEF OpenNewLoss, SealLoss, TypeOK
<1>6. ASSUME NEW u \in Streams
      PROVE  /\ ordinaryQueued'[u] = HowMany(pending', OrdinaryOf(u))
             /\ reservedQueued'[u] = HowMany(pending', ReservedOf(u)) + timeoutControls[u]
             /\ ordinaryQueued'[u] <= DataCapacity
             /\ reservedQueued'[u] <= ReservedCapacity
             /\ dropped'[u] + HowMany(pending', DataOf(u))
                  = dropped[u] + HowMany(pending, DataOf(u)) + (IF u = s THEN 1 ELSE 0)
  <2>1. /\ ordinaryQueued[u] = HowMany(pending, OrdinaryOf(u))
        /\ reservedQueued[u] = HowMany(pending, ReservedOf(u)) + timeoutControls[u]
        /\ ordinaryQueued[u] <= DataCapacity
        /\ reservedQueued[u] <= ReservedCapacity
    BY DEF QueueCounts
  <2>2. /\ ordinaryQueued' = ordinaryQueued
        /\ reservedQueued'[u] = IF u = s THEN ReservedAfterSeal(s, built) ELSE reservedQueued[u]
        /\ dropped'[u] = IF u = s THEN dropped[u] + 1 ELSE dropped[u]
    <3>0. reservedQueued \in [Streams -> Nat] /\ dropped \in [Streams -> Nat]
      BY DEF TypeOK, PerStream
    <3>2. [reservedQueued EXCEPT ![s] = ReservedAfterSeal(s, built)][u]
            = IF u = s THEN ReservedAfterSeal(s, built) ELSE reservedQueued[u]
      BY <3>0
    <3>3. [dropped EXCEPT ![s] = dropped[s] + 1][u]
            = IF u = s THEN dropped[s] + 1 ELSE dropped[u]
      BY <3>0
    <3> QED
      BY <3>2, <3>3 DEF OpenNewLoss
  <2>3. /\ HowMany(pending, DataOf(u)) \in Nat /\ HowMany(pending, ReservedOf(u)) \in Nat
        /\ dropped[u] \in Nat /\ timeoutControls[u] \in Nat
    BY <1>1, HowManyType DEF TypeOK, PerStream
  <2>4. /\ ordinaryQueued'[u] = HowMany(pending', OrdinaryOf(u))
        /\ ordinaryQueued'[u] <= DataCapacity
    BY <1>2, <1>3, <2>1, <2>2
  <2>5. reservedQueued'[u] <= ReservedCapacity
    BY <1>4, <2>1, <2>2
  <2>6. reservedQueued'[u] = HowMany(pending', ReservedOf(u)) + timeoutControls[u]
    <3>1. CASE u = s
      BY <3>1, <1>2, <1>3, <2>1, <2>2, <2>3 DEF ReservedAfterSeal
    <3>2. CASE u # s
      BY <3>2, <1>2, <1>3, <2>1, <2>2, <2>3
    <3> QED
      BY <3>1, <3>2
  <2>7. dropped'[u] + HowMany(pending', DataOf(u))
          = dropped[u] + HowMany(pending, DataOf(u)) + (IF u = s THEN 1 ELSE 0)
    BY <1>2, <1>3, <2>2, <2>3
  <2> QED
    BY <2>4, <2>5, <2>6, <2>7
<1> QED
  BY <1>2, <1>3, <1>5, <1>6 DEF AttemptStep

\* _note_drop_locked accounts the attempt as dropped.
LEMMA NoteDropStep ==
  ASSUME TypeOK, QueueCounts, NEW s \in Streams, NEW built \in BOOLEAN,
         NEW reason \in DropReasons, NoteDrop(s, reason, built)
  PROVE  AttemptStep(s)
<1>1. CASE OpenNewLoss(s, reason, built)
  BY <1>1, OpenNewLossStep
<1>2. CASE /\ openLoss' = [openLoss EXCEPT ![s] =
                [reason |-> reason, first |-> openLoss[s].first, last |-> attempted[s]]]
           /\ dropped' = [dropped EXCEPT ![s] = @ + 1]
           /\ UNCHANGED <<nextLoss, droppedControl, pending, ordinaryQueued, reservedQueued>>
  <2>1. /\ pending \in Seq(Record) /\ attempted[s] \in Nat
        /\ openLoss[s] \in Losses
    BY DEF TypeOK, PerStream
  <2>2. /\ dropped' \in PerStream(Nat)
        /\ openLoss' \in PerStream(Losses)
    <3>1. [reason |-> reason, first |-> openLoss[s].first, last |-> attempted[s]] \in Losses
      BY <2>1 DEF Losses
    <3>2. dropped[s] + 1 \in Nat
      BY CounterTypes
    <3> QED
      BY <1>2, <3>1, <3>2, UpdateStream DEF TypeOK
  <2>3. \A u \in Streams : HowMany(pending, DataOf(u)) \in Nat /\ dropped[u] \in Nat
    BY <2>1, HowManyType DEF TypeOK, PerStream
  <2>4. \A u \in Streams : dropped'[u] = IF u = s THEN dropped[u] + 1 ELSE dropped[u]
    BY <1>2 DEF TypeOK, PerStream
  <2>5. Len(pending) \in Nat
    BY <2>1, LenProperties
  <2>6. \A u \in Streams :
          dropped'[u] + HowMany(pending', DataOf(u))
            = dropped[u] + HowMany(pending, DataOf(u)) + (IF u = s THEN 1 ELSE 0)
    BY <1>2, <2>3, <2>4
  <2>7. \A u \in Streams :
          /\ ordinaryQueued'[u] = HowMany(pending', OrdinaryOf(u))
          /\ reservedQueued'[u] = HowMany(pending', ReservedOf(u)) + timeoutControls[u]
          /\ ordinaryQueued'[u] <= DataCapacity
          /\ reservedQueued'[u] <= ReservedCapacity
    BY <1>2 DEF QueueCounts
  <2> QED
    BY <1>2, <2>1, <2>2, <2>5, <2>6, <2>7 DEF AttemptStep, TypeOK
<1> QED
  BY <1>1, <1>2 DEF NoteDrop

\* A record that fits is queued behind the sealed loss, or dropped because the
\* seal took the last reserved slot.
LEMMA AcceptRecordStep ==
  ASSUME TypeOK, QueueCounts, NEW s \in Streams, NEW built \in BOOLEAN,
         NEW terminal \in BOOLEAN, CanEnqueue(s, terminal),
         AcceptRecord(s, terminal, built)
  PROVE  AttemptStep(s)
<1> DEFINE q == SealInto(pending, s, built)
           d == DataRecord(s, attempted[s], terminal)
           p == Append(q, d)
<1>1. CASE OpenNewLoss(s, "queue_overflow", built)
  BY <1>1, OpenNewLossStep DEF DropReasons
<1>2. CASE /\ terminal => ReservedAfterSeal(s, built) < ReservedCapacity
           /\ SealLoss(s, built)
           /\ pending' = QueuedAfterLoss(s, terminal, built)
           /\ reservedQueued' = [reservedQueued EXCEPT ![s] =
                                   ReservedAfterSeal(s, built) + (IF terminal THEN 1 ELSE 0)]
           /\ ordinaryQueued' = [ordinaryQueued EXCEPT ![s] = @ + (IF terminal THEN 0 ELSE 1)]
           /\ openLoss' = [openLoss EXCEPT ![s] = NoLoss]
           /\ UNCHANGED dropped
  <2>1. pending \in Seq(Record) /\ ~writerFailed
    BY DEF TypeOK, CanEnqueue
  <2>2. /\ q \in Seq(Record)
        /\ Len(pending) <= Len(q)
        /\ pending # <<>> => q # <<>> /\ Head(q) = Head(pending)
        /\ \A u \in Streams :
             /\ HowMany(q, DataOf(u)) = HowMany(pending, DataOf(u))
             /\ HowMany(q, OrdinaryOf(u)) = HowMany(pending, OrdinaryOf(u))
             /\ HowMany(q, ReservedOf(u)) = HowMany(pending, ReservedOf(u))
                  + (IF u = s /\ SealFits(s, built) THEN 1 ELSE 0)
    BY <2>1, SealIntoCounts
  <2>3. d \in Record
    BY RecordKinds
  <2>4. p \in Seq(Record) /\ p # <<>> /\ Len(p) = Len(q) + 1
    BY <2>2, <2>3, AppendProperties
  <2>5. Head(p) = IF q = <<>> THEN d ELSE Head(q)
    BY <2>2, HeadTailAppend
  <2>6. pending' = p
    BY <1>2 DEF QueuedAfterLoss
  <2>7. \A R : HowMany(p, R) = HowMany(q, R) + (IF d \in R THEN 1 ELSE 0)
    BY <2>2, <2>3, HowManyAppend
  <2>8. \A u \in Streams : /\ d \in DataOf(u) <=> u = s
                           /\ d \in OrdinaryOf(u) <=> u = s /\ terminal = FALSE
                           /\ d \in ReservedOf(u) <=> u = s /\ terminal = TRUE
    BY RecordKinds
  <2>9. /\ ReservedAfterSeal(s, built) \in Nat
        /\ ReservedAfterSeal(s, built) <= ReservedCapacity
        /\ SealedControlDrops(s, built) \in Nat
        /\ NextLossAfterSeal(s) \in Nat
    BY SealFitsReserve
  <2>10. /\ ordinaryQueued' \in PerStream(Nat) /\ reservedQueued' \in PerStream(Nat)
         /\ dropped' \in PerStream(Nat) /\ droppedControl' \in PerStream(Nat)
         /\ nextLoss' \in PerStream(Nat)
         /\ openLoss' \in PerStream(Losses)
    <3>1. NoLoss \in Losses
      BY DEF NoLoss, Losses
    <3>2. /\ ReservedAfterSeal(s, built) + (IF terminal THEN 1 ELSE 0) \in Nat
          /\ ordinaryQueued[s] + (IF terminal THEN 0 ELSE 1) \in Nat
      BY <2>9, CounterTypes
    <3> QED
      BY <1>2, <2>9, <3>1, <3>2, UpdateStream DEF SealLoss, TypeOK
  <2>11. ASSUME NEW u \in Streams
         PROVE  /\ ordinaryQueued'[u] = HowMany(pending', OrdinaryOf(u))
                /\ reservedQueued'[u] = HowMany(pending', ReservedOf(u)) + timeoutControls[u]
                /\ ordinaryQueued'[u] <= DataCapacity
                /\ reservedQueued'[u] <= ReservedCapacity
                /\ dropped'[u] + HowMany(pending', DataOf(u))
                     = dropped[u] + HowMany(pending, DataOf(u)) + (IF u = s THEN 1 ELSE 0)
    <3>1. /\ ordinaryQueued[u] = HowMany(pending, OrdinaryOf(u))
          /\ reservedQueued[u] = HowMany(pending, ReservedOf(u)) + timeoutControls[u]
          /\ ordinaryQueued[u] <= DataCapacity
          /\ reservedQueued[u] <= ReservedCapacity
      BY DEF QueueCounts
    <3>2. /\ ordinaryQueued'[u] = ordinaryQueued[u] + (IF u = s /\ terminal = FALSE THEN 1 ELSE 0)
          /\ reservedQueued'[u] = IF u = s
               THEN ReservedAfterSeal(s, built) + (IF terminal = TRUE THEN 1 ELSE 0)
               ELSE reservedQueued[u]
          /\ dropped' = dropped
      <4>1. reservedQueued \in [Streams -> Nat] /\ ordinaryQueued \in [Streams -> Nat]
        BY DEF TypeOK, PerStream
      <4>2. [reservedQueued EXCEPT ![s] =
                ReservedAfterSeal(s, built) + (IF terminal THEN 1 ELSE 0)][u]
              = IF u = s THEN ReservedAfterSeal(s, built) + (IF terminal THEN 1 ELSE 0)
                ELSE reservedQueued[u]
        BY <4>1
      <4>3. [ordinaryQueued EXCEPT ![s] = ordinaryQueued[s] + (IF terminal THEN 0 ELSE 1)][u]
              = IF u = s THEN ordinaryQueued[s] + (IF terminal THEN 0 ELSE 1)
                ELSE ordinaryQueued[u]
        BY <4>1
      <4>4. ordinaryQueued[u] \in Nat
        BY CounterTypes
      <4>5. terminal = TRUE \/ terminal = FALSE
        OBVIOUS
      <4> QED
        BY <1>2, <4>2, <4>3, <4>4, <4>5
    <3>3. /\ HowMany(pending, DataOf(u)) \in Nat /\ HowMany(pending, ReservedOf(u)) \in Nat
          /\ HowMany(pending, OrdinaryOf(u)) \in Nat
          /\ dropped[u] \in Nat /\ timeoutControls[u] \in Nat
      BY <2>1, HowManyType DEF TypeOK, PerStream
    <3>4. /\ HowMany(p, OrdinaryOf(u)) = HowMany(pending, OrdinaryOf(u))
               + (IF u = s /\ terminal = FALSE THEN 1 ELSE 0)
          /\ HowMany(p, DataOf(u)) = HowMany(pending, DataOf(u)) + (IF u = s THEN 1 ELSE 0)
          /\ HowMany(p, ReservedOf(u)) = HowMany(pending, ReservedOf(u))
               + (IF u = s /\ SealFits(s, built) THEN 1 ELSE 0)
               + (IF u = s /\ terminal = TRUE THEN 1 ELSE 0)
      BY <2>2, <2>7, <2>8, <3>3
    <3>5. u = s /\ terminal = FALSE => ordinaryQueued[u] < DataCapacity
      BY DEF CanEnqueue
    <3>6. ordinaryQueued'[u] <= DataCapacity
      BY <3>1, <3>2, <3>3, <3>5, CapacityAssumption
    <3>7. reservedQueued'[u] <= ReservedCapacity
      BY <1>2, <2>9, <3>1, <3>2, CapacityAssumption
    <3>8. ordinaryQueued'[u] = HowMany(pending', OrdinaryOf(u))
      BY <2>6, <3>1, <3>2, <3>3, <3>4
    <3>9. reservedQueued'[u] = HowMany(pending', ReservedOf(u)) + timeoutControls[u]
      <4>1. CASE u = s
        <5>1. ReservedAfterSeal(s, built) = HowMany(pending, ReservedOf(u)) + timeoutControls[u]
                + (IF SealFits(s, built) THEN 1 ELSE 0)
          BY <3>1, <3>3, <4>1 DEF ReservedAfterSeal
        <5> QED
          BY <2>6, <3>2, <3>3, <3>4, <4>1, <5>1
      <4>2. CASE u # s
        BY <2>6, <3>1, <3>2, <3>3, <3>4, <4>2
      <4> QED
        BY <4>1, <4>2
    <3>10. dropped'[u] + HowMany(pending', DataOf(u))
             = dropped[u] + HowMany(pending, DataOf(u)) + (IF u = s THEN 1 ELSE 0)
      <4>1. dropped'[u] = dropped[u]
        BY <3>2
      <4>2. HowMany(pending', DataOf(u))
              = HowMany(pending, DataOf(u)) + (IF u = s THEN 1 ELSE 0)
        BY <2>6, <3>4
      <4>3. HowMany(pending, DataOf(u)) \in Nat /\ dropped[u] \in Nat
        BY <3>3
      <4>4. CASE u = s
        <5>1. HowMany(pending', DataOf(u)) = HowMany(pending, DataOf(u)) + 1
          BY <4>2, <4>4
        <5> QED
          BY <4>1, <4>3, <4>4, <5>1
      <4>5. CASE u # s
        <5>1. HowMany(pending', DataOf(u)) = HowMany(pending, DataOf(u))
          BY <4>2, <4>3, <4>5
        <5> QED
          BY <4>1, <4>3, <4>5, <5>1
      <4> QED
        BY <4>4, <4>5
    <3> QED
      BY <3>6, <3>7, <3>8, <3>9, <3>10
  <2>12. Len(pending) \in Nat /\ Len(q) \in Nat
    BY <2>1, <2>2, LenProperties
  <2>13. /\ pending' \in Seq(Record)
         /\ Len(pending) <= Len(pending')
         /\ pending # <<>> => pending' # <<>> /\ Head(pending') = Head(pending)
    BY <2>2, <2>4, <2>5, <2>6, <2>12
  <2> QED
    BY <2>1, <2>10, <2>11, <2>13 DEF AttemptStep
<1> QED
  BY <1>1, <1>2 DEF AcceptRecord

--------------------------------------------------------------------------------
(* The queue as the writer and the closers leave it *)

\* What is queued becomes a number of drops.
LEMMA DropsType ==
  ASSUME TypeOK
  PROVE  /\ DropsWithQueue \in PerStream(Nat)
         /\ \A s \in Streams : DropsWithQueue[s] = dropped[s] + HowMany(pending, DataOf(s))
         /\ pending = <<>> => DropsWithQueue = dropped
<1>1. pending \in Seq(Record) /\ dropped \in [Streams -> Nat]
  BY DEF TypeOK, PerStream
<1>2. \A s \in Streams : HowMany(pending, DataOf(s)) \in Nat /\ dropped[s] \in Nat
  BY <1>1, HowManyType
<1>3. \A s \in Streams : dropped[s] + HowMany(pending, DataOf(s)) \in Nat
  BY <1>2
<1>4. DropsWithQueue \in PerStream(Nat)
  BY <1>3 DEF DropsWithQueue, PerStream
<1>5. \A s \in Streams : DropsWithQueue[s] = dropped[s] + HowMany(pending, DataOf(s))
  BY DEF DropsWithQueue
<1>6. ASSUME pending = <<>>
      PROVE  DropsWithQueue = dropped
  <2>1. \A s \in Streams : HowMany(pending, DataOf(s)) = 0
    BY <1>6, HowManyEmpty
  <2>2. \A s \in Streams : DropsWithQueue[s] = dropped[s]
    BY <1>2, <1>5, <2>1
  <2> QED
    BY <1>1, <1>4, <2>2 DEF PerStream
<1> QED
  BY <1>4, <1>5, <1>6

\* Discarding the queue accounts every record of it.
LEMMA DiscardStep ==
  ASSUME TypeOK, Conservation, DiscardQueue, UNCHANGED <<attempted, written>>
  PROVE  /\ pending' = <<>> /\ pending' \in Seq(Record) /\ inflight' = 0
         /\ ordinaryQueued' \in PerStream(Nat) /\ reservedQueued' \in PerStream(Nat)
         /\ timeoutControls' \in PerStream(Nat)
         /\ dropped' \in PerStream(Nat) /\ droppedControl' \in PerStream(Nat)
         /\ QueueCounts' /\ Conservation'
<1>1. pending \in Seq(Record) /\ pending' = <<>> /\ inflight' = 0
  BY DEF TypeOK, DiscardQueue
<1>2. \A R : HowMany(pending', R) = 0
  BY <1>1, HowManyEmpty
<1>3. \A s \in Streams : ordinaryQueued'[s] = 0 /\ reservedQueued'[s] = 0
                         /\ timeoutControls'[s] = 0
  BY DEF DiscardQueue
<1>4. /\ ordinaryQueued' \in PerStream(Nat) /\ reservedQueued' \in PerStream(Nat)
      /\ timeoutControls' \in PerStream(Nat)
  BY DEF DiscardQueue, PerStream
<1>5. dropped' \in PerStream(Nat)
      /\ \A s \in Streams : dropped'[s] = dropped[s] + HowMany(pending, DataOf(s))
  BY DropsType DEF DiscardQueue
<1>6. droppedControl' \in PerStream(Nat)
  <2>1. \A s \in Streams : droppedControl[s] + HowMany(pending, LossOf(s))
                             + timeoutControls[s] \in Nat
    BY <1>1, HowManyType, CounterTypes
  <2> QED
    BY <2>1 DEF DiscardQueue, PerStream
<1>7. QueueCounts'
  BY <1>2, <1>3, CapacityAssumption DEF QueueCounts
<1>8. Conservation'
  <2>1. SUFFICES ASSUME NEW s \in Streams
                 PROVE  attempted'[s] = written'[s] + dropped'[s] + HowMany(pending', DataOf(s))
    BY DEF Conservation
  <2>2. attempted[s] = written[s] + dropped[s] + HowMany(pending, DataOf(s))
    BY DEF Conservation
  <2>3. /\ HowMany(pending, DataOf(s)) \in Nat
        /\ written[s] \in Nat /\ dropped[s] \in Nat /\ attempted[s] \in Nat
    BY <1>1, HowManyType, CounterTypes
  <2>4. dropped'[s] = dropped[s] + HowMany(pending, DataOf(s))
    BY <1>5
  <2>5. HowMany(pending', DataOf(s)) = 0
    BY <1>2
  <2> QED
    BY <2>2, <2>3, <2>4, <2>5
<1> QED
  BY <1>1, <1>4, <1>5, <1>6, <1>7, <1>8, EmptySeq

\* A CloseResult is a claim with the counters it was given.
LEMMA ReceiptType ==
  ASSUME TypeOK, NEW o \in Outcomes, NEW b \in BOOLEAN, NEW e \in BOOLEAN,
         NEW d \in PerStream(Nat)
  PROVE  /\ Receipt(o, b, e, d) \in Claims
         /\ Receipt(o, b, e, d) # NoClaim
         /\ Receipt(o, b, e, d).exact = e
         /\ Receipt(o, b, e, d).attempted = attempted
         /\ Receipt(o, b, e, d).written = written
         /\ Receipt(o, b, e, d).dropped = d
<1>1. attempted \in PerStream(Nat) /\ written \in PerStream(Nat)
  BY DEF TypeOK
<1>2. Receipt(o, b, e, d) \in Claims
  BY <1>1 DEF Receipt, Claims
<1>3. Receipt(o, b, e, d).outcome # NoClaim.outcome
  BY DEF Receipt, NoClaim, Outcomes
<1> QED
  BY <1>2, <1>3 DEF Receipt

\* A summary line has the type of the shard's summaries.
LEMMA SummaryType ==
  ASSUME TypeOK, NEW s \in Streams, NEW o \in Outcomes
  PROVE  Summary(s, o) \in Summaries
<1>1. hashed[s] \in Seq(Record) /\ failures \in Nat
  BY DEF TypeOK, PerStream
<1> QED
  BY <1>1, CounterTypes DEF Summary, Summaries

\* The invariant holds initially.
LEMMA InitIInv ==
  Init => IInv
<1> SUFFICES ASSUME Init PROVE IInv
  OBVIOUS
<1>1. pending = <<>> /\ \A R : HowMany(pending, R) = 0
  BY HowManyEmpty DEF Init
<1>2. TypeOK
  <2>1. NoLoss \in Losses
    BY DEF NoLoss, Losses
  <2>2. /\ pending \in Seq(Record)
        /\ file \in PerStream(Seq(Record)) /\ hashed \in PerStream(Seq(Record))
        /\ summaries \in PerStream(Seq(Summaries))
    BY EmptySeq DEF Init, PerStream
  <2> QED
    BY <2>1, <2>2 DEF Init, TypeOK, PerStream, Claims, WriterPoints
<1>3. QueueCounts /\ Conservation
  BY <1>1, CapacityAssumption DEF Init, QueueCounts, Conservation
<1>4. InflightMatchesBatch /\ NoRecordLeftBehind /\ TimeoutInv /\ ClaimInv
  BY <1>1, EmptySeq DEF Init, InflightMatchesBatch, NoRecordLeftBehind, TimeoutInv, ClaimInv
<1> QED
  BY <1>2, <1>3, <1>4 DEF IInv

--------------------------------------------------------------------------------
(* Every step preserves the invariant *)

\* An attempt by a producer: the sink still accepts, so nothing has been claimed
\* and the writer is in its loop or has failed.
LEMMA AttemptPreserves ==
  ASSUME IInv, NEW s \in Streams, Accepting, AttemptStep(s),
         attempted' = [attempted EXCEPT ![s] = @ + 1],
         UNCHANGED <<flagVars, resultVars, inflight, timeoutControls, written, writtenLoss,
                     shardVars, pc, current>>
  PROVE  IInv'
<1> USE DEF flagVars, resultVars, shardVars
<1>0. TypeOK /\ Conservation /\ ~closing /\ ~closed
  BY DEF IInv, Accepting
<1>1. attempted \in [Streams -> Nat]
  BY <1>0 DEF TypeOK, PerStream
<1>2. TypeOK'
  <2>1. attempted' \in PerStream(Nat)
    BY <1>1 DEF PerStream
  <2> QED
    BY <1>0, <2>1 DEF TypeOK, AttemptStep
<1>3. QueueCounts'
  BY DEF AttemptStep, QueueCounts
<1>4. Conservation'
  <2>1. SUFFICES ASSUME NEW u \in Streams
                 PROVE  attempted'[u] = written'[u] + dropped'[u] + HowMany(pending', DataOf(u))
    BY DEF Conservation
  <2>2. attempted'[u] = attempted[u] + (IF u = s THEN 1 ELSE 0)
    BY <1>1
  <2>3. attempted[u] = written[u] + dropped[u] + HowMany(pending, DataOf(u))
    BY <1>0 DEF Conservation
  <2>4. dropped'[u] + HowMany(pending', DataOf(u))
          = dropped[u] + HowMany(pending, DataOf(u)) + (IF u = s THEN 1 ELSE 0)
    BY DEF AttemptStep
  <2>5. /\ HowMany(pending, DataOf(u)) \in Nat /\ HowMany(pending', DataOf(u)) \in Nat
        /\ dropped[u] \in Nat /\ dropped'[u] \in Nat /\ written[u] \in Nat
    BY <1>0, HowManyType DEF AttemptStep, TypeOK, PerStream
  <2>6. (IF u = s THEN 1 ELSE 0) \in Nat
    OBVIOUS
  <2> QED
    BY <2>2, <2>3, <2>4, <2>5, <2>6
<1>5. InflightMatchesBatch'
  <2>1. Len(pending) \in Nat /\ Len(pending') \in Nat /\ inflight \in Nat
    BY <1>0, LenProperties DEF TypeOK, AttemptStep
  <2>2. inflight > 0 /\ inflight <= Len(pending) => pending # <<>>
    BY <2>1, EmptySeq
  <2> QED
    BY <2>1, <2>2 DEF IInv, InflightMatchesBatch, AttemptStep
<1>6. NoRecordLeftBehind'
  BY <1>0 DEF IInv, NoRecordLeftBehind, AttemptStep
<1>7. TimeoutInv'
  BY <1>0 DEF IInv, TimeoutInv
<1>8. ClaimInv'
  BY <1>0 DEF IInv, ClaimInv
<1> QED
  BY <1>2, <1>3, <1>4, <1>5, <1>6, <1>7, <1>8 DEF IInv

\* write_event, write_edge, write_kv_recovery_profile, drop_kv_recovery_profile.
LEMMA ProducePreserves ==
  ASSUME IInv, Produce
  PROVE  IInv'
<1>0. TypeOK /\ QueueCounts
  BY DEF IInv
<1>1. ASSUME NEW s \in Streams, NEW terminal \in BOOLEAN, NEW built \in BOOLEAN,
             WriteRecord(s, terminal, built)
      PROVE  IInv'
  <2>1. AttemptStep(s)
    <3>1. CASE \E reason \in DropReasons : NoteDrop(s, reason, built)
      BY <1>0, <3>1, NoteDropStep
    <3>2. CASE CanEnqueue(s, terminal) /\ AcceptRecord(s, terminal, built)
      BY <1>0, <3>2, AcceptRecordStep
    <3> QED
      BY <1>1, <3>1, <3>2 DEF WriteRecord, DropReasons
  <2> QED
    BY <1>1, <2>1, AttemptPreserves DEF WriteRecord
<1>2. ASSUME NEW reason \in DropReasons, DropProfileRecord(reason)
      PROVE  IInv'
  <2>1. "profile" \in Streams /\ NoteDrop("profile", reason, TRUE)
    BY <1>2 DEF DropProfileRecord
  <2>2. AttemptStep("profile")
    BY <1>0, <2>1, NoteDropStep
  <2> QED
    BY <1>2, <2>1, <2>2, AttemptPreserves DEF DropProfileRecord
<1> QED
  BY <1>1, <1>2 DEF Produce

\* The writer's steps that only move it along: batch, abandonment, cutoff, drain.
LEMMA WriterMovesPreserve ==
  ASSUME IInv,
         TakeBatch \/ BeginWrite \/ WriterAbandons \/ CutoffReached \/ StartDrain
           \/ BeginSummary \/ Publish
  PROVE  IInv'
<1> USE DEF flagVars, resultVars, queueVars, producerVars, countVars, shardVars
<1>0. /\ TypeOK /\ QueueCounts /\ Conservation /\ InflightMatchesBatch
      /\ NoRecordLeftBehind /\ TimeoutInv /\ ClaimInv
  BY DEF IInv
<1>1. pending \in Seq(Record) /\ inflight \in Nat /\ Len(pending) \in Nat
  BY <1>0, LenProperties DEF TypeOK
<1>2. QueueCounts' /\ Conservation'
  BY <1>0 DEF QueueCounts, Conservation, TakeBatch, BeginWrite, WriterAbandons, CutoffReached,
              StartDrain, BeginSummary, Publish
<1>3. CASE TakeBatch
  <2>1. inflight' \in Nat \ {0} /\ inflight' <= Len(pending)
    BY <1>1, <1>3, CapacityAssumption DEF TakeBatch
  <2> QED
    BY <1>0, <1>2, <1>3, <2>1 DEF IInv, TakeBatch, TypeOK, WriterPoints, InflightMatchesBatch,
                                 NoRecordLeftBehind, TimeoutInv, ClaimInv
<1>4. CASE BeginWrite
  <2>1. pending # <<>>
    BY <1>0, <1>1, <1>4, EmptySeq DEF BeginWrite, InflightMatchesBatch
  <2>2. Head(pending) \in Record
    BY <1>1, <2>1, HeadTailProperties
  <2> QED
    BY <1>0, <1>2, <1>4, <2>1, <2>2
       DEF IInv, BeginWrite, NextOfBatch, TypeOK, WriterPoints, InflightMatchesBatch,
           NoRecordLeftBehind, TimeoutInv, ClaimInv
<1>5. CASE WriterAbandons
  BY <1>0, <1>2, <1>5 DEF IInv, WriterAbandons, TypeOK, WriterPoints, InflightMatchesBatch,
                          NoRecordLeftBehind, TimeoutInv, ClaimInv
<1>6. CASE CutoffReached
  BY <1>0, <1>2, <1>6 DEF IInv, CutoffReached, Cutoff, TypeOK, WriterPoints,
                          InflightMatchesBatch, NoRecordLeftBehind, TimeoutInv, ClaimInv
<1>7. CASE StartDrain
  BY <1>0, <1>2, <1>7 DEF IInv, StartDrain, TypeOK, WriterPoints, InflightMatchesBatch,
                          NoRecordLeftBehind, TimeoutInv, ClaimInv
<1>8. CASE BeginSummary
  BY <1>0, <1>2, <1>8 DEF IInv, BeginSummary, TypeOK, WriterPoints, InflightMatchesBatch,
                          NoRecordLeftBehind, TimeoutInv, ClaimInv
<1>9. CASE Publish
  BY <1>0, <1>2, <1>9 DEF IInv, Publish, TypeOK, WriterPoints, InflightMatchesBatch,
                          NoRecordLeftBehind, TimeoutInv, ClaimInv
<1> QED
  BY <1>3, <1>4, <1>5, <1>6, <1>7, <1>8, <1>9

\* The bytes of a record reach the shard.
LEMMA WriteBytesPreserves ==
  ASSUME IInv, WriteBytes
  PROVE  IInv'
<1> USE DEF flagVars, resultVars, queueVars, producerVars, countVars
<1>0. /\ TypeOK /\ QueueCounts /\ Conservation /\ InflightMatchesBatch
      /\ NoRecordLeftBehind /\ TimeoutInv /\ ClaimInv
  BY DEF IInv
<1>1. current \in Record /\ current.stream \in Streams
  BY <1>0 DEF WriteBytes, InflightMatchesBatch, Record
<1>2. file' \in PerStream(Seq(Record))
  <2>1. file \in PerStream(Seq(Record)) /\ file[current.stream] \in Seq(Record)
    BY <1>0, <1>1 DEF TypeOK, PerStream
  <2>2. Append(file[current.stream], current) \in Seq(Record)
    BY <1>1, <2>1, AppendProperties
  <2> QED
    BY <1>1, <2>1, <2>2, UpdateStream DEF WriteBytes
<1>3. QueueCounts' /\ Conservation'
  BY <1>0 DEF QueueCounts, Conservation, WriteBytes
<1> QED
  BY <1>0, <1>2, <1>3 DEF IInv, WriteBytes, TypeOK, WriterPoints, InflightMatchesBatch,
                          NoRecordLeftBehind, TimeoutInv, ClaimInv

\* _record_written: the record the writer wrote leaves the queue and is counted.
LEMMA RecordWrittenPreserves ==
  ASSUME IInv, RecordWritten
  PROVE  IInv'
<1> USE DEF flagVars, resultVars, producerVars
<1> DEFINE s == current.stream
           rsv == IF current.reserved THEN 1 ELSE 0
           ord == IF current.reserved THEN 0 ELSE 1
           dat == IF current.kind = "data" THEN 1 ELSE 0
           los == IF current.kind = "loss" THEN 1 ELSE 0
<1>0. /\ TypeOK /\ QueueCounts /\ Conservation /\ InflightMatchesBatch
      /\ NoRecordLeftBehind /\ TimeoutInv /\ ClaimInv
  BY DEF IInv
<1>1. /\ current \in Record /\ s \in Streams
      /\ current.kind \in {"data", "loss"} /\ current.reserved \in BOOLEAN
  BY <1>0 DEF RecordWritten, InflightMatchesBatch, Record
<1>2. /\ pending \in Seq(Record) /\ inflight \in Nat /\ Len(pending) \in Nat
      /\ inflight > 0 /\ inflight <= Len(pending) /\ Head(pending) = current
  BY <1>0, LenProperties DEF TypeOK, RecordWritten, InflightMatchesBatch
<1>3. pending # <<>>
  BY <1>2, EmptySeq
<1>4. pending' = Tail(pending) /\ pending' \in Seq(Record) /\ Len(pending') = Len(pending) - 1
  BY <1>2, <1>3, HeadTailProperties DEF RecordWritten
<1>5. \A R : /\ HowMany(pending, R) = HowMany(pending', R) + (IF current \in R THEN 1 ELSE 0)
             /\ HowMany(pending', R) \in Nat
  BY <1>2, <1>3, <1>4, HowManyTail, HowManyType
<1>6. \A u \in Streams :
        /\ current \in DataOf(u) <=> u = s /\ current.kind = "data"
        /\ current \in OrdinaryOf(u) <=> u = s /\ ~current.reserved
        /\ current \in ReservedOf(u) <=> u = s /\ current.reserved
  BY <1>1 DEF DataOf, OrdinaryOf, ReservedOf
<1>7. /\ ordinaryQueued \in [Streams -> Nat] /\ reservedQueued \in [Streams -> Nat]
      /\ written \in [Streams -> Nat] /\ writtenLoss \in [Streams -> Nat]
      /\ hashed \in PerStream(Seq(Record)) /\ hashed[s] \in Seq(Record)
  BY <1>0, <1>1 DEF TypeOK, PerStream
<1>8. /\ ordinaryQueued' = [ordinaryQueued EXCEPT ![s] = ordinaryQueued[s] - ord]
      /\ reservedQueued' = [reservedQueued EXCEPT ![s] = reservedQueued[s] - rsv]
      /\ written' = [written EXCEPT ![s] = written[s] + dat]
      /\ writtenLoss' = [writtenLoss EXCEPT ![s] = writtenLoss[s] + los]
      /\ timeoutControls' = timeoutControls /\ dropped' = dropped /\ attempted' = attempted
  BY DEF RecordWritten
<1>9. /\ ord \in {0, 1} /\ rsv \in {0, 1} /\ dat \in {0, 1} /\ los \in {0, 1}
      /\ current.reserved <=> rsv = 1
      /\ current.reserved <=> ord = 0
      /\ current.kind = "data" <=> dat = 1
  BY <1>1
<1>10. ASSUME NEW u \in Streams
       PROVE  /\ ordinaryQueued'[u] = HowMany(pending', OrdinaryOf(u))
              /\ reservedQueued'[u] = HowMany(pending', ReservedOf(u)) + timeoutControls'[u]
              /\ ordinaryQueued'[u] <= DataCapacity
              /\ reservedQueued'[u] <= ReservedCapacity
              /\ attempted'[u] = written'[u] + dropped'[u] + HowMany(pending', DataOf(u))
              /\ ordinaryQueued'[u] \in Nat /\ reservedQueued'[u] \in Nat
  <2>1. /\ ordinaryQueued[u] = HowMany(pending, OrdinaryOf(u))
        /\ reservedQueued[u] = HowMany(pending, ReservedOf(u)) + timeoutControls[u]
        /\ ordinaryQueued[u] <= DataCapacity
        /\ reservedQueued[u] <= ReservedCapacity
        /\ attempted[u] = written[u] + dropped[u] + HowMany(pending, DataOf(u))
    BY <1>0 DEF QueueCounts, Conservation
  <2>2. /\ dropped[u] \in Nat /\ timeoutControls[u] \in Nat /\ written[u] \in Nat
        /\ ordinaryQueued[u] \in Nat /\ reservedQueued[u] \in Nat
    BY <1>0, CounterTypes
  <2>3. CASE u = s
    <3>1. /\ HowMany(pending, OrdinaryOf(u)) = HowMany(pending', OrdinaryOf(u)) + ord
          /\ HowMany(pending, ReservedOf(u)) = HowMany(pending', ReservedOf(u)) + rsv
          /\ HowMany(pending, DataOf(u)) = HowMany(pending', DataOf(u)) + dat
      BY <1>5, <1>6, <1>9, <2>3
    <3>2. /\ ordinaryQueued'[u] = ordinaryQueued[u] - ord
          /\ reservedQueued'[u] = reservedQueued[u] - rsv
          /\ written'[u] = written[u] + dat
      BY <1>1, <1>7, <1>8, <2>3
    <3>3. /\ HowMany(pending', OrdinaryOf(u)) \in Nat /\ HowMany(pending', ReservedOf(u)) \in Nat
          /\ HowMany(pending', DataOf(u)) \in Nat
      BY <1>5
    <3> HIDE DEF ord, rsv, dat, los
    <3> QED
      BY <1>8, <1>9, <2>1, <2>2, <3>1, <3>2, <3>3, CapacityAssumption
  <2>4. CASE u # s
    <3>1. /\ HowMany(pending, OrdinaryOf(u)) = HowMany(pending', OrdinaryOf(u))
          /\ HowMany(pending, ReservedOf(u)) = HowMany(pending', ReservedOf(u))
          /\ HowMany(pending, DataOf(u)) = HowMany(pending', DataOf(u))
      BY <1>5, <1>6, <2>4
    <3>2. /\ ordinaryQueued'[u] = ordinaryQueued[u]
          /\ reservedQueued'[u] = reservedQueued[u]
          /\ written'[u] = written[u]
      BY <1>1, <1>7, <1>8, <2>4
    <3> QED
      BY <1>8, <2>1, <2>2, <3>1, <3>2
  <2> QED
    BY <2>3, <2>4
<1>11. QueueCounts' /\ Conservation'
  BY <1>10 DEF QueueCounts, Conservation
<1>12. TypeOK'
  <2>1. ordinaryQueued' \in PerStream(Nat) /\ reservedQueued' \in PerStream(Nat)
    <3>1. DOMAIN ordinaryQueued' = Streams /\ DOMAIN reservedQueued' = Streams
      BY <1>7, <1>8
    <3>2. /\ ordinaryQueued' = [u \in Streams |-> ordinaryQueued'[u]]
          /\ reservedQueued' = [u \in Streams |-> reservedQueued'[u]]
      BY <1>7, <1>8
    <3> QED
      BY <1>10, <3>2 DEF PerStream
  <2>2. written' \in PerStream(Nat) /\ writtenLoss' \in PerStream(Nat)
    <3>1. written[s] + dat \in Nat /\ writtenLoss[s] + los \in Nat
      BY <1>1, <1>7
    <3> QED
      BY <1>1, <1>7, <1>8, <3>1 DEF PerStream
  <2>3. hashed' \in PerStream(Seq(Record))
    <3>1. Append(hashed[s], current) \in Seq(Record)
      BY <1>1, <1>7, AppendProperties
    <3> QED
      BY <1>1, <1>7, <3>1, UpdateStream DEF RecordWritten, DigestAfter
  <2>4. inflight' \in Nat
    BY <1>2 DEF RecordWritten
  <2> QED
    BY <1>0, <1>4, <2>1, <2>2, <2>3, <2>4 DEF RecordWritten, TypeOK, WriterPoints
<1>13. InflightMatchesBatch'
  BY <1>2, <1>4 DEF RecordWritten, InflightMatchesBatch
<1>14. NoRecordLeftBehind' /\ TimeoutInv'
  BY DEF RecordWritten, NoRecordLeftBehind, TimeoutInv
<1>15. ClaimInv'
  BY <1>0 DEF RecordWritten, ClaimInv
<1> QED
  BY <1>11, <1>12, <1>13, <1>14, <1>15 DEF IInv

\* The steps in which _mark_writer_failure_locked discards the queue.
LEMMA WriteFailsPreserves ==
  ASSUME IInv, WriteFails
  PROVE  IInv'
<1> USE DEF resultVars, producerVars
<1>0. /\ TypeOK /\ QueueCounts /\ Conservation /\ InflightMatchesBatch
      /\ NoRecordLeftBehind /\ TimeoutInv /\ ClaimInv
  BY DEF IInv
<1>1. /\ pending' = <<>> /\ pending' \in Seq(Record) /\ inflight' = 0
      /\ ordinaryQueued' \in PerStream(Nat) /\ reservedQueued' \in PerStream(Nat)
      /\ timeoutControls' \in PerStream(Nat)
      /\ dropped' \in PerStream(Nat) /\ droppedControl' \in PerStream(Nat)
      /\ QueueCounts' /\ Conservation'
  BY <1>0, DiscardStep DEF WriteFails, MarkWriterFailure
<1>2. dropped' = DropsWithQueue
  BY DEF WriteFails, MarkWriterFailure, DiscardQueue
<1>3. torn' \in PerStream(BOOLEAN)
  <2>1. torn \in PerStream(BOOLEAN) /\ current.stream \in Streams
    BY <1>0 DEF TypeOK, WriteFails, InflightMatchesBatch, Record
  <2>2. [torn EXCEPT ![current.stream] = TRUE] \in PerStream(BOOLEAN)
    BY <2>1 DEF PerStream
  <2> QED
    BY <2>1, <2>2 DEF WriteFails
<1>4. TypeOK'
  BY <1>0, <1>1, <1>3 DEF WriteFails, MarkWriterFailure, TypeOK, WriterPoints
<1>5. InflightMatchesBatch' /\ NoRecordLeftBehind' /\ TimeoutInv'
  BY <1>1, EmptySeq DEF WriteFails, MarkWriterFailure, InflightMatchesBatch,
                        NoRecordLeftBehind, TimeoutInv
<1>6. ClaimInv'
  BY <1>0, <1>1, <1>2, DropsType DEF WriteFails, ClaimInv
<1> QED
  BY <1>1, <1>4, <1>5, <1>6 DEF IInv

\* The runs of pending sequence numbers can be counted.
LEMMA PendingRunsType ==
  ASSUME TypeOK, NEW s \in Streams
  PROVE  PendingRuns(s) \in Nat
<1> DEFINE I == At(pending, DataOf(s))
           f == [i \in I |-> pending[i].first]
<1>1. pending \in Seq(Record)
  BY DEF TypeOK
<1>2. IsFiniteSet(I)
  BY <1>1, HowManyType
<1>3. f \in Surjection(I, PendingSeqs(s))
  BY DEF Surjection, PendingSeqs
<1>4. IsFiniteSet(PendingSeqs(s))
  BY <1>2, <1>3, FS_Surjection
<1>5. {n \in PendingSeqs(s) : n - 1 \notin PendingSeqs(s)} \in SUBSET PendingSeqs(s)
  OBVIOUS
<1> QED
  BY <1>4, <1>5, FS_Subset, FS_CardinalityType DEF PendingRuns

\* _prepare_timeout_controls_locked: the queue becomes drops and held controls.
LEMMA PrepareTimeoutControlsPreserves ==
  ASSUME IInv, PrepareTimeoutControls
  PROVE  IInv'
<1> USE DEF flagVars, shardVars
<1>0. /\ TypeOK /\ QueueCounts /\ Conservation /\ InflightMatchesBatch
      /\ NoRecordLeftBehind /\ TimeoutInv /\ ClaimInv
  BY DEF IInv
<1>1. pending \in Seq(Record) /\ pending' = <<>> /\ inflight' = 0 /\ dropped' = DropsWithQueue
  BY <1>0 DEF TypeOK, PrepareTimeoutControls
<1>2. \A R : HowMany(pending', R) = 0
  BY <1>1, HowManyEmpty
<1>3. ASSUME NEW s \in Streams
      PROVE  /\ TimeoutControls(s) \in Nat /\ PendingRuns(s) \in Nat
             /\ Admitted(TimeoutControls(s)) \in Nat
             /\ Admitted(TimeoutControls(s)) <= ReservedCapacity
             /\ droppedControl[s] + TimeoutControls(s) - Admitted(TimeoutControls(s)) \in Nat
             /\ nextLoss[s] + PendingRuns(s) \in Nat
  <2>1. /\ PendingRuns(s) \in Nat /\ HowMany(pending, LossOf(s)) \in Nat
        /\ droppedControl[s] \in Nat /\ nextLoss[s] \in Nat
    BY <1>0, <1>1, PendingRunsType, HowManyType, CounterTypes
  <2>2. TimeoutControls(s) \in Nat
    BY <2>1 DEF TimeoutControls
  <2>3. /\ Admitted(TimeoutControls(s)) \in Nat
        /\ Admitted(TimeoutControls(s)) <= ReservedCapacity
        /\ Admitted(TimeoutControls(s)) <= TimeoutControls(s)
    BY <2>2, CapacityAssumption DEF Admitted
  <2> QED
    BY <2>1, <2>2, <2>3
<1>4. /\ timeoutControls' \in PerStream(Nat) /\ reservedQueued' \in PerStream(Nat)
      /\ ordinaryQueued' \in PerStream(Nat) /\ nextLoss' \in PerStream(Nat)
      /\ droppedControl' \in PerStream(Nat) /\ dropped' \in PerStream(Nat)
      /\ pending' \in Seq(Record)
  BY <1>0, <1>1, <1>3, DropsType, EmptySeq DEF PrepareTimeoutControls, PerStream
<1>5. TypeOK'
  BY <1>0, <1>1, <1>4 DEF PrepareTimeoutControls, TypeOK, WriterPoints, Outcomes
<1>6. QueueCounts'
  BY <1>2, <1>3, CapacityAssumption DEF QueueCounts, PrepareTimeoutControls
<1>7. Conservation'
  <2>1. SUFFICES ASSUME NEW s \in Streams
                 PROVE  attempted'[s] = written'[s] + dropped'[s] + HowMany(pending', DataOf(s))
    BY DEF Conservation
  <2>2. attempted[s] = written[s] + dropped[s] + HowMany(pending, DataOf(s))
    BY <1>0 DEF Conservation
  <2>3. /\ HowMany(pending, DataOf(s)) \in Nat
        /\ written[s] \in Nat /\ dropped[s] \in Nat /\ attempted[s] \in Nat
    BY <1>0, <1>1, HowManyType, CounterTypes
  <2>4. dropped'[s] = dropped[s] + HowMany(pending, DataOf(s))
    BY <1>0, <1>1, DropsType
  <2>5. HowMany(pending', DataOf(s)) = 0
    BY <1>2
  <2>6. attempted' = attempted /\ written' = written
    BY DEF PrepareTimeoutControls
  <2> QED
    BY <2>2, <2>3, <2>4, <2>5, <2>6
<1>8. InflightMatchesBatch' /\ NoRecordLeftBehind' /\ TimeoutInv'
  BY <1>0, <1>1, EmptySeq DEF PrepareTimeoutControls, InflightMatchesBatch,
                              NoRecordLeftBehind, TimeoutInv
<1>9. ClaimInv'
  BY <1>0, <1>1, DropsType DEF PrepareTimeoutControls, ClaimInv
<1> QED
  BY <1>5, <1>6, <1>7, <1>8, <1>9 DEF IInv

\* _finish_timeout_in_writer: the held controls are dropped.
LEMMA DropTimeoutControlsPreserves ==
  ASSUME IInv, DropTimeoutControls
  PROVE  IInv'
<1> USE DEF flagVars, producerVars, shardVars
<1>0. /\ TypeOK /\ QueueCounts /\ Conservation /\ InflightMatchesBatch
      /\ NoRecordLeftBehind /\ TimeoutInv /\ ClaimInv
  BY DEF IInv
<1>1. pending = <<>> /\ pending' = <<>> /\ closing
  BY <1>0 DEF TimeoutInv, DropTimeoutControls
<1>2. \A R : HowMany(pending, R) = 0
  BY <1>1, HowManyEmpty
<1>3. \A s \in Streams : droppedControl[s] + timeoutControls[s] \in Nat
  BY <1>0, CounterTypes
<1>4. /\ timeoutControls' \in PerStream(Nat) /\ reservedQueued' \in PerStream(Nat)
      /\ droppedControl' \in PerStream(Nat)
  BY <1>3 DEF DropTimeoutControls, PerStream
<1>5. TypeOK'
  BY <1>0, <1>4 DEF DropTimeoutControls, TypeOK, WriterPoints, Outcomes
<1>6. QueueCounts'
  BY <1>0, <1>1, <1>2, CapacityAssumption DEF QueueCounts, DropTimeoutControls
<1>7. Conservation'
  BY <1>0 DEF Conservation, DropTimeoutControls
<1>8. InflightMatchesBatch' /\ NoRecordLeftBehind' /\ TimeoutInv' /\ ClaimInv'
  BY <1>0, <1>1 DEF DropTimeoutControls, InflightMatchesBatch, NoRecordLeftBehind,
                    TimeoutInv, ClaimInv
<1> QED
  BY <1>5, <1>6, <1>7, <1>8 DEF IInv

\* _finish_drained_in_writer
LEMMA FinishDrainedPreserves ==
  ASSUME IInv, FinishDrained
  PROVE  IInv'
<1> USE DEF queueVars, producerVars, shardVars
<1>0. /\ TypeOK /\ QueueCounts /\ Conservation /\ InflightMatchesBatch
      /\ NoRecordLeftBehind /\ TimeoutInv /\ ClaimInv
  BY DEF IInv
<1>1. CASE MarkWriterFailure /\ pc' = "finalize" /\ UNCHANGED outcome
  <2>1. /\ pending' = <<>> /\ pending' \in Seq(Record) /\ inflight' = 0
        /\ ordinaryQueued' \in PerStream(Nat) /\ reservedQueued' \in PerStream(Nat)
        /\ timeoutControls' \in PerStream(Nat)
        /\ dropped' \in PerStream(Nat) /\ droppedControl' \in PerStream(Nat)
        /\ QueueCounts' /\ Conservation'
    BY <1>0, <1>1, DiscardStep DEF FinishDrained, MarkWriterFailure
  <2>2. dropped' = DropsWithQueue
    BY <1>1 DEF MarkWriterFailure, DiscardQueue
  <2>3. TypeOK'
    BY <1>0, <1>1, <2>1 DEF FinishDrained, MarkWriterFailure, TypeOK, WriterPoints
  <2>4. InflightMatchesBatch' /\ NoRecordLeftBehind' /\ TimeoutInv'
    BY <1>1, <2>1, EmptySeq DEF MarkWriterFailure, InflightMatchesBatch,
                                NoRecordLeftBehind, TimeoutInv
  <2>5. ClaimInv'
    BY <1>0, <1>1, <2>1, <2>2, DropsType DEF FinishDrained, ClaimInv
  <2> QED
    BY <2>1, <2>3, <2>4, <2>5 DEF IInv
<1>2. CASE /\ UNCHANGED <<writerFailed, failures, queueVars, dropped, droppedControl>>
           /\ \/ outcome' = "timeout" /\ pc' = "finalize"
              \/ pc' = "summary" /\ UNCHANGED outcome
  <2>1. QueueCounts' /\ Conservation'
    BY <1>0, <1>2 DEF FinishDrained, QueueCounts, Conservation
  <2>2. TypeOK'
    BY <1>0, <1>2 DEF FinishDrained, TypeOK, WriterPoints, Outcomes
  <2>3. InflightMatchesBatch' /\ NoRecordLeftBehind' /\ TimeoutInv' /\ ClaimInv'
    BY <1>0, <1>2 DEF FinishDrained, InflightMatchesBatch, NoRecordLeftBehind,
                      TimeoutInv, ClaimInv
  <2> QED
    BY <2>1, <2>2, <2>3 DEF IInv
<1> QED
  BY <1>1, <1>2 DEF FinishDrained

\* The steps that append summaries to the shards and settle the outcome.
LEMMA SummaryPreserves ==
  ASSUME IInv,
         \/ \E s \in Streams : WriteSummary(s) \/ SummaryFails(s)
         \/ CheckSummary \/ FinalizeSummary
  PROVE  IInv'
<1> USE DEF flagVars, resultVars, queueVars, producerVars, countVars
<1>0. /\ TypeOK /\ QueueCounts /\ Conservation /\ InflightMatchesBatch
      /\ NoRecordLeftBehind /\ TimeoutInv /\ ClaimInv
  BY DEF IInv
<1>1. /\ summaries \in PerStream(Seq(Summaries)) /\ droppedControl \in PerStream(Nat)
      /\ torn \in PerStream(BOOLEAN)
  BY <1>0 DEF TypeOK
<1>2. ASSUME Invalidate
      PROVE  summaries' \in PerStream(Seq(Summaries)) /\ droppedControl' \in PerStream(Nat)
  <2>1. PICK ok \in SUBSET Streams :
          /\ summaries' = [s \in Streams |-> IF s \in ok
                             THEN Append(summaries[s], Summary(s, "timeout")) ELSE summaries[s]]
          /\ droppedControl' = [s \in Streams |->
                                  droppedControl[s] + (IF s \in ok THEN 0 ELSE 1)]
    BY <1>2 DEF Invalidate
  <2>2. ASSUME NEW s \in Streams
        PROVE  /\ summaries[s] \in Seq(Summaries)
               /\ Append(summaries[s], Summary(s, "timeout")) \in Seq(Summaries)
               /\ droppedControl[s] + (IF s \in ok THEN 0 ELSE 1) \in Nat
    <3>1. summaries[s] \in Seq(Summaries) /\ droppedControl[s] \in Nat
      BY <1>1 DEF PerStream
    <3>2. Summary(s, "timeout") \in Summaries
      BY <1>0, SummaryType DEF Outcomes
    <3> QED
      BY <3>1, <3>2, AppendProperties
  <2> QED
    BY <2>1, <2>2 DEF PerStream
<1>3. ASSUME NEW s \in Streams, WriteSummary(s)
      PROVE  IInv'
  <2>1. summaries' \in PerStream(Seq(Summaries))
    <3>1. summaries[s] \in Seq(Summaries) /\ Summary(s, "drained") \in Summaries
      BY <1>0, <1>1, SummaryType DEF PerStream, Outcomes
    <3>2. Append(summaries[s], Summary(s, "drained")) \in Seq(Summaries)
      BY <3>1, AppendProperties
    <3> QED
      BY <1>1, <1>3, <3>2, UpdateStream DEF WriteSummary
  <2>2. QueueCounts' /\ Conservation'
    BY <1>0, <1>3 DEF WriteSummary, QueueCounts, Conservation
  <2> QED
    BY <1>0, <1>3, <2>1, <2>2
       DEF IInv, WriteSummary, TypeOK, WriterPoints, InflightMatchesBatch,
           NoRecordLeftBehind, TimeoutInv, ClaimInv
<1>4. ASSUME NEW s \in Streams, SummaryFails(s)
      PROVE  IInv'
  <2>1. droppedControl' \in PerStream(Nat)
    <3>1. droppedControl[s] + 1 \in Nat
      BY <1>1 DEF PerStream
    <3> QED
      BY <1>1, <1>4, <3>1, UpdateStream DEF SummaryFails
  <2>2. torn' \in PerStream(BOOLEAN)
    <3>1. [torn EXCEPT ![s] = TRUE] \in PerStream(BOOLEAN)
      BY <1>1 DEF PerStream
    <3> QED
      BY <1>1, <1>4, <3>1 DEF SummaryFails
  <2>3. QueueCounts' /\ Conservation'
    BY <1>0, <1>4 DEF SummaryFails, QueueCounts, Conservation
  <2>4. TypeOK'
    BY <1>0, <1>4, <2>1, <2>2 DEF SummaryFails, TypeOK, WriterPoints
  <2>5. InflightMatchesBatch' /\ NoRecordLeftBehind' /\ TimeoutInv' /\ ClaimInv'
    BY <1>0, <1>4 DEF SummaryFails, InflightMatchesBatch, NoRecordLeftBehind,
                      TimeoutInv, ClaimInv
  <2> QED
    BY <2>3, <2>4, <2>5 DEF IInv
<1>5. CASE CheckSummary
  <2>1. summaries' \in PerStream(Seq(Summaries)) /\ droppedControl' \in PerStream(Nat)
    BY <1>1, <1>2, <1>5 DEF CheckSummary
  <2>2. QueueCounts' /\ Conservation'
    BY <1>0, <1>5 DEF CheckSummary, QueueCounts, Conservation
  <2>3. TypeOK'
    BY <1>0, <1>5, <2>1 DEF CheckSummary, TypeOK, WriterPoints, Outcomes
  <2>4. InflightMatchesBatch' /\ NoRecordLeftBehind' /\ TimeoutInv' /\ ClaimInv'
    BY <1>0, <1>5 DEF CheckSummary, InflightMatchesBatch, NoRecordLeftBehind,
                      TimeoutInv, ClaimInv
  <2> QED
    BY <2>2, <2>3, <2>4 DEF IInv
<1>6. CASE FinalizeSummary
  <2>1. summaries' \in PerStream(Seq(Summaries)) /\ droppedControl' \in PerStream(Nat)
    BY <1>1, <1>2, <1>6 DEF FinalizeSummary
  <2>2. QueueCounts' /\ Conservation'
    BY <1>0, <1>6 DEF FinalizeSummary, QueueCounts, Conservation
  <2>3. TypeOK'
    BY <1>0, <1>6, <2>1 DEF FinalizeSummary, TypeOK, WriterPoints, Outcomes
  <2>4. InflightMatchesBatch' /\ NoRecordLeftBehind' /\ TimeoutInv' /\ ClaimInv'
    BY <1>0, <1>6 DEF FinalizeSummary, InflightMatchesBatch, NoRecordLeftBehind,
                      TimeoutInv, ClaimInv
  <2> QED
    BY <2>2, <2>3, <2>4 DEF IInv
<1> QED
  BY <1>3, <1>4, <1>5, <1>6

\* The claim a writer makes when it ends, with the counters it is given.
LEMMA FinalClaimType ==
  ASSUME TypeOK, NEW o \in Outcomes, NEW b \in BOOLEAN, NEW d \in PerStream(Nat),
         FinalClaim(o, b, d)
  PROVE  /\ claim' \in Claims
         /\ claim # NoClaim => claim' = claim
         /\ claim = NoClaim /\ claim' # NoClaim =>
              /\ claim'.attempted = attempted
              /\ claim'.written = written
              /\ claim'.dropped = d
<1>1. claim \in Claims
  BY DEF TypeOK
<1>2. CASE claim = NoClaim /\ closing
  <2>1. claim' = Receipt(o, b, TRUE, d)
    BY <1>2 DEF FinalClaim
  <2>2. /\ Receipt(o, b, TRUE, d) \in Claims
        /\ Receipt(o, b, TRUE, d).attempted = attempted
        /\ Receipt(o, b, TRUE, d).written = written
        /\ Receipt(o, b, TRUE, d).dropped = d
    BY ReceiptType
  <2> QED
    BY <1>2, <2>1, <2>2
<1>3. CASE ~(claim = NoClaim /\ closing)
  <2>1. claim' = claim
    BY <1>3 DEF FinalClaim
  <2> QED
    BY <1>1, <2>1
<1> QED
  BY <1>2, <1>3

\* The end of the writer: commit, retraction, nothing published, failure.
LEMMA EndPreserves ==
  ASSUME IInv, Commit \/ Retract \/ Withhold \/ PublishFails
  PROVE  IInv'
<1> USE DEF queueVars, producerVars, countVars, shardVars
<1>0. /\ TypeOK /\ QueueCounts /\ Conservation /\ InflightMatchesBatch
      /\ NoRecordLeftBehind /\ TimeoutInv /\ ClaimInv
  BY DEF IInv
<1>1. dropped \in PerStream(Nat) /\ DropsWithQueue \in PerStream(Nat)
  BY <1>0, DropsType DEF TypeOK
<1>2. claim = NoClaim => pending = <<>>
  BY <1>0 DEF Commit, Retract, Withhold, PublishFails, ClaimInv, NoRecordLeftBehind
<1>3. "drained" \in Outcomes /\ "timeout" \in Outcomes /\ "writer_failure" \in Outcomes
      /\ FinalOutcome \in Outcomes
  BY <1>0 DEF Outcomes, TypeOK, FinalOutcome
<1>4. CASE Commit
  <2>1. /\ claim' \in Claims /\ claim' # NoClaim /\ claim'.attempted = attempted
        /\ claim'.written = written /\ claim'.dropped = dropped
    <3>1. /\ Receipt("drained", TRUE, TRUE, dropped) \in Claims
          /\ Receipt("drained", TRUE, TRUE, dropped) # NoClaim
          /\ Receipt("drained", TRUE, TRUE, dropped).attempted = attempted
          /\ Receipt("drained", TRUE, TRUE, dropped).written = written
          /\ Receipt("drained", TRUE, TRUE, dropped).dropped = dropped
      BY <1>0, <1>1, <1>3, ReceiptType
    <3>2. claim' = Receipt("drained", TRUE, TRUE, dropped)
      BY <1>4 DEF Commit
    <3> QED
      BY <3>1, <3>2
  <2>2. QueueCounts' /\ Conservation'
    BY <1>0, <1>4 DEF Commit, QueueCounts, Conservation
  <2>3. TypeOK'
    BY <1>0, <1>4, <2>1 DEF Commit, TypeOK, WriterPoints
  <2>4. InflightMatchesBatch' /\ NoRecordLeftBehind' /\ TimeoutInv'
    BY <1>0, <1>4 DEF Commit, InflightMatchesBatch, NoRecordLeftBehind, TimeoutInv
  <2>5. ClaimInv'
    BY <1>0, <1>2, <1>4, <2>1 DEF Commit, ClaimInv
  <2> QED
    BY <2>2, <2>3, <2>4, <2>5 DEF IInv
<1>5. ASSUME NEW o \in Outcomes, NEW b \in BOOLEAN, FinalClaim(o, b, dropped),
             Retract \/ Withhold
      PROVE  IInv'
  <2>1. /\ claim' \in Claims
        /\ claim # NoClaim => claim' = claim
        /\ claim = NoClaim /\ claim' # NoClaim =>
             /\ claim'.attempted = attempted
             /\ claim'.written = written
             /\ claim'.dropped = dropped
    BY <1>0, <1>1, <1>5, FinalClaimType
  <2>2. QueueCounts' /\ Conservation'
    BY <1>0, <1>5 DEF Retract, Withhold, QueueCounts, Conservation
  <2>3. TypeOK'
    BY <1>0, <1>3, <1>5, <2>1 DEF Retract, Withhold, TypeOK, WriterPoints
  <2>4. InflightMatchesBatch' /\ NoRecordLeftBehind' /\ TimeoutInv'
    <3>1. CASE Retract
      BY <1>0, <3>1 DEF Retract, InflightMatchesBatch, NoRecordLeftBehind, TimeoutInv
    <3>2. CASE Withhold
      BY <1>0, <3>2 DEF Withhold, InflightMatchesBatch, NoRecordLeftBehind, TimeoutInv
    <3> QED
      BY <1>5, <3>1, <3>2
  <2>5. ClaimInv'
    <3>1. CASE Retract
      BY <1>0, <1>2, <2>1, <3>1 DEF Retract, ClaimInv
    <3>2. CASE Withhold
      BY <1>0, <1>2, <2>1, <3>2 DEF Withhold, ClaimInv
    <3> QED
      BY <1>5, <3>1, <3>2
  <2> QED
    BY <2>2, <2>3, <2>4, <2>5 DEF IInv
<1>6. CASE Retract
  BY <1>3, <1>5, <1>6 DEF Retract
<1>7. CASE Withhold
  BY <1>0, <1>3, <1>5, <1>7 DEF Withhold, TypeOK
<1>8. CASE PublishFails
  <2>1. /\ pending' = <<>> /\ pending' \in Seq(Record) /\ inflight' = 0
        /\ ordinaryQueued' \in PerStream(Nat) /\ reservedQueued' \in PerStream(Nat)
        /\ timeoutControls' \in PerStream(Nat)
        /\ dropped' \in PerStream(Nat) /\ droppedControl' \in PerStream(Nat)
        /\ QueueCounts' /\ Conservation'
    BY <1>0, <1>8, DiscardStep DEF PublishFails, MarkWriterFailure
  <2>2. dropped' = DropsWithQueue
    BY <1>8 DEF PublishFails, MarkWriterFailure, DiscardQueue
  <2>3. /\ claim' \in Claims
        /\ claim # NoClaim => claim' = claim
        /\ claim = NoClaim /\ claim' # NoClaim =>
             /\ claim'.attempted = attempted
             /\ claim'.written = written
             /\ claim'.dropped = DropsWithQueue
    BY <1>0, <1>1, <1>3, <1>8, FinalClaimType DEF PublishFails
  <2>4. TypeOK'
    <3>1. /\ writerFailed' = TRUE /\ failures' = failures + 1 /\ summaryWritten' = FALSE
          /\ outcome' = "writer_failure" /\ closed' = TRUE /\ pc' = "done"
          /\ UNCHANGED <<closing, deadlinePassed, abandoned, producerVars, written,
                         writtenLoss, shardVars, current>>
      BY <1>8 DEF PublishFails, MarkWriterFailure
    <3>2. failures' \in Nat
      BY <1>0, <3>1 DEF TypeOK
    <3> QED
      BY <1>0, <1>3, <2>1, <2>3, <3>1, <3>2 DEF TypeOK, WriterPoints
  <2>5. InflightMatchesBatch' /\ NoRecordLeftBehind' /\ TimeoutInv'
    BY <1>8, <2>1, EmptySeq DEF PublishFails, MarkWriterFailure, InflightMatchesBatch,
                                NoRecordLeftBehind, TimeoutInv
  <2>6. ClaimInv'
    BY <1>0, <1>8, <2>1, <2>2, <2>3, DropsType DEF PublishFails, ClaimInv
  <2> QED
    BY <2>1, <2>4, <2>5, <2>6 DEF IInv
<1> QED
  BY <1>4, <1>6, <1>7, <1>8

\* The first critical section of close(): both open losses are sealed.
LEMMA RequestClosePreserves ==
  ASSUME IInv, NEW built \in BOOLEAN, RequestClose(built)
  PROVE  IInv'
<1> USE DEF resultVars, shardVars
<1> DEFINE q == SealInto(pending, "base", built)
           p == SealInto(q, "profile", built)
<1>0. /\ TypeOK /\ QueueCounts /\ Conservation /\ InflightMatchesBatch
      /\ NoRecordLeftBehind /\ TimeoutInv /\ ClaimInv
  BY DEF IInv
<1>1. pending \in Seq(Record) /\ pending' = p
  BY <1>0 DEF TypeOK, RequestClose
<1>2. /\ q \in Seq(Record)
      /\ Len(pending) <= Len(q)
      /\ pending # <<>> => q # <<>> /\ Head(q) = Head(pending)
      /\ writerFailed => q = pending
      /\ \A u \in Streams :
           /\ HowMany(q, DataOf(u)) = HowMany(pending, DataOf(u))
           /\ HowMany(q, OrdinaryOf(u)) = HowMany(pending, OrdinaryOf(u))
           /\ HowMany(q, ReservedOf(u)) = HowMany(pending, ReservedOf(u))
                + (IF u = "base" /\ SealFits("base", built) THEN 1 ELSE 0)
  BY <1>0, <1>1, SealIntoCounts
<1>3. /\ p \in Seq(Record)
      /\ Len(q) <= Len(p)
      /\ q # <<>> => p # <<>> /\ Head(p) = Head(q)
      /\ writerFailed => p = q
      /\ \A u \in Streams :
           /\ HowMany(p, DataOf(u)) = HowMany(q, DataOf(u))
           /\ HowMany(p, OrdinaryOf(u)) = HowMany(q, OrdinaryOf(u))
           /\ HowMany(p, ReservedOf(u)) = HowMany(q, ReservedOf(u))
                + (IF u = "profile" /\ SealFits("profile", built) THEN 1 ELSE 0)
  BY <1>0, <1>2, SealIntoCounts
<1> HIDE DEF p, q
<1>4. \A u \in Streams :
        /\ HowMany(p, DataOf(u)) = HowMany(pending, DataOf(u))
        /\ HowMany(p, OrdinaryOf(u)) = HowMany(pending, OrdinaryOf(u))
        /\ HowMany(p, ReservedOf(u)) = HowMany(pending, ReservedOf(u))
             + (IF SealFits(u, built) THEN 1 ELSE 0)
  <2>1. SUFFICES ASSUME NEW u \in Streams
                 PROVE  HowMany(p, ReservedOf(u)) = HowMany(pending, ReservedOf(u))
                          + (IF SealFits(u, built) THEN 1 ELSE 0)
    BY <1>2, <1>3
  <2>2. HowMany(pending, ReservedOf(u)) \in Nat
    BY <1>1, HowManyType
  <2>3. CASE u = "base"
    BY <1>2, <1>3, <2>2, <2>3
  <2>4. CASE u = "profile"
    BY <1>2, <1>3, <2>2, <2>4
  <2> QED
    BY <2>3, <2>4, StreamsAssumption
<1>5. \A u \in Streams :
        /\ ReservedAfterSeal(u, built) \in Nat
        /\ ReservedAfterSeal(u, built) <= ReservedCapacity
        /\ SealedControlDrops(u, built) \in Nat
        /\ NextLossAfterSeal(u) \in Nat
  BY <1>0, SealFitsReserve
<1>6. \A u \in Streams : reservedQueued'[u] = ReservedAfterSeal(u, built)
  BY DEF RequestClose
<1>7. TypeOK'
  <2>1. NoLoss \in Losses
    BY DEF NoLoss, Losses
  <2>2. /\ reservedQueued' \in PerStream(Nat) /\ nextLoss' \in PerStream(Nat)
        /\ droppedControl' \in PerStream(Nat) /\ openLoss' \in PerStream(Losses)
    BY <1>5, <2>1 DEF RequestClose, PerStream
  <2> QED
    BY <1>0, <1>1, <1>3, <2>2 DEF RequestClose, TypeOK
<1>8. QueueCounts'
  <2>1. SUFFICES ASSUME NEW u \in Streams
                 PROVE  /\ ordinaryQueued'[u] = HowMany(pending', OrdinaryOf(u))
                        /\ reservedQueued'[u] = HowMany(pending', ReservedOf(u))
                                                  + timeoutControls'[u]
                        /\ ordinaryQueued'[u] <= DataCapacity
                        /\ reservedQueued'[u] <= ReservedCapacity
    BY DEF QueueCounts
  <2>2. /\ ordinaryQueued[u] = HowMany(pending, OrdinaryOf(u))
        /\ reservedQueued[u] = HowMany(pending, ReservedOf(u)) + timeoutControls[u]
        /\ ordinaryQueued[u] <= DataCapacity
    BY <1>0 DEF QueueCounts
  <2>3. HowMany(pending, ReservedOf(u)) \in Nat /\ timeoutControls[u] \in Nat
    BY <1>0, <1>1, HowManyType, CounterTypes
  <2>4. ordinaryQueued' = ordinaryQueued /\ timeoutControls' = timeoutControls
    BY DEF RequestClose
  <2> QED
    BY <1>1, <1>4, <1>5, <1>6, <2>2, <2>3, <2>4 DEF ReservedAfterSeal
<1>9. Conservation'
  BY <1>0, <1>1, <1>4 DEF Conservation, RequestClose
<1>10. InflightMatchesBatch'
  <2>1. Len(pending) \in Nat /\ Len(q) \in Nat /\ Len(p) \in Nat /\ inflight \in Nat
    BY <1>0, <1>1, <1>2, <1>3, LenProperties DEF TypeOK
  <2>2. inflight > 0 /\ inflight <= Len(pending) => pending # <<>>
    BY <1>1, <2>1, EmptySeq
  <2> QED
    BY <1>0, <1>1, <1>2, <1>3, <2>1, <2>2 DEF InflightMatchesBatch, RequestClose
<1>11. NoRecordLeftBehind' /\ TimeoutInv' /\ ClaimInv'
  BY <1>0, <1>1, <1>2, <1>3 DEF NoRecordLeftBehind, TimeoutInv, ClaimInv, RequestClose
<1> QED
  BY <1>7, <1>8, <1>9, <1>10, <1>11 DEF IInv

\* The other steps of close(): the clock, the late close, the two timeouts.
LEMMA ClosePreserves ==
  ASSUME IInv, Close
  PROVE  IInv'
<1> USE DEF flagVars, resultVars, queueVars, producerVars, countVars, shardVars
<1>0. /\ TypeOK /\ QueueCounts /\ Conservation /\ InflightMatchesBatch
      /\ NoRecordLeftBehind /\ TimeoutInv /\ ClaimInv
  BY DEF IInv
<1>1. dropped \in PerStream(Nat) /\ DropsWithQueue \in PerStream(Nat)
  BY <1>0, DropsType DEF TypeOK
<1>2. "timeout" \in Outcomes /\ "writer_failure" \in Outcomes
  BY DEF Outcomes
<1>3. CASE DeadlinePasses
  BY <1>0, <1>3 DEF IInv, DeadlinePasses, TypeOK, QueueCounts, Conservation,
                    InflightMatchesBatch, NoRecordLeftBehind, TimeoutInv, ClaimInv
<1>4. CASE CloseAfterFailure
  <2> DEFINE r == Receipt("writer_failure", FALSE, TRUE, dropped)
  <2>1. r \in Claims /\ r # NoClaim /\ r.attempted = attempted /\ r.written = written
        /\ r.dropped = dropped
    BY <1>0, <1>1, <1>2, ReceiptType
  <2>2. claim' = r
    BY <1>4 DEF CloseAfterFailure
  <2> HIDE DEF r
  <2>3. TypeOK' /\ QueueCounts' /\ Conservation'
    BY <1>0, <1>4, <2>1, <2>2 DEF CloseAfterFailure, TypeOK, QueueCounts, Conservation
  <2>4. InflightMatchesBatch' /\ NoRecordLeftBehind' /\ TimeoutInv'
    BY <1>0, <1>4 DEF CloseAfterFailure, InflightMatchesBatch, NoRecordLeftBehind, TimeoutInv
  <2>5. pending = <<>>
    BY <1>0, <1>4 DEF CloseAfterFailure, ClaimInv, NoRecordLeftBehind
  <2>6. ClaimInv'
    BY <1>0, <1>4, <2>1, <2>2, <2>5 DEF CloseAfterFailure, ClaimInv
  <2> QED
    BY <2>3, <2>4, <2>6 DEF IInv
<1>5. CASE ForceTimeout
  <2> DEFINE r == Receipt("timeout", FALSE, TRUE, DropsWithQueue)
  <2>1. r \in Claims /\ r # NoClaim /\ r.attempted = attempted /\ r.written = written
        /\ r.dropped = DropsWithQueue
    BY <1>0, <1>1, <1>2, ReceiptType
  <2>2. claim' = r
    BY <1>5 DEF ForceTimeout
  <2> HIDE DEF r
  <2>3. /\ pending' = <<>> /\ pending' \in Seq(Record) /\ inflight' = 0
        /\ ordinaryQueued' \in PerStream(Nat) /\ reservedQueued' \in PerStream(Nat)
        /\ timeoutControls' \in PerStream(Nat)
        /\ dropped' \in PerStream(Nat) /\ droppedControl' \in PerStream(Nat)
        /\ QueueCounts' /\ Conservation'
    BY <1>0, <1>5, DiscardStep DEF ForceTimeout
  <2>4. dropped' = DropsWithQueue
    BY <1>5 DEF ForceTimeout, DiscardQueue
  <2>5. TypeOK'
    BY <1>0, <1>2, <1>5, <2>1, <2>2, <2>3 DEF ForceTimeout, TypeOK
  <2>6. InflightMatchesBatch' /\ NoRecordLeftBehind' /\ TimeoutInv'
    BY <1>0, <1>5, <2>3, EmptySeq DEF ForceTimeout, InflightMatchesBatch,
                                      NoRecordLeftBehind, TimeoutInv
  <2>7. ClaimInv'
    BY <1>0, <1>5, <2>1, <2>2, <2>3, <2>4 DEF ForceTimeout, ClaimInv
  <2> QED
    BY <2>3, <2>5, <2>6, <2>7 DEF IInv
<1>6. CASE LockFreeTimeout
  <2> DEFINE r == Receipt("timeout", FALSE, FALSE, dropped)
  <2>1. r \in Claims /\ r # NoClaim /\ r.exact = FALSE
    BY <1>0, <1>1, <1>2, ReceiptType
  <2>2. claim' = r
    BY <1>6 DEF LockFreeTimeout
  <2> HIDE DEF r
  <2>3. QueueCounts' /\ Conservation'
    BY <1>0, <1>6 DEF LockFreeTimeout, QueueCounts, Conservation
  <2>4. TypeOK'
    BY <1>0, <1>2, <1>6, <2>1, <2>2 DEF LockFreeTimeout, TypeOK
  <2>5. InflightMatchesBatch' /\ NoRecordLeftBehind' /\ TimeoutInv'
    BY <1>0, <1>6 DEF LockFreeTimeout, InflightMatchesBatch, NoRecordLeftBehind, TimeoutInv
  <2>6. ClaimInv'
    BY <1>0, <1>6, <2>1, <2>2 DEF LockFreeTimeout, ClaimInv
  <2> QED
    BY <2>3, <2>4, <2>5, <2>6 DEF IInv
<1>7. CASE \E built \in BOOLEAN : RequestClose(built)
  BY <1>7, RequestClosePreserves
<1> QED
  BY <1>3, <1>4, <1>5, <1>6, <1>7 DEF Close

\* One step of the sink, whoever takes it, preserves the invariant.
LEMMA NextIInv ==
  IInv /\ [Next]_vars => IInv'
<1> SUFFICES ASSUME IInv, [Next]_vars PROVE IInv'
  OBVIOUS
<1>1. CASE Produce
  BY <1>1, ProducePreserves
<1>2. CASE Writer
  BY <1>2, WriterMovesPreserve, WriteBytesPreserves, WriteFailsPreserves,
     RecordWrittenPreserves, PrepareTimeoutControlsPreserves, DropTimeoutControlsPreserves,
     FinishDrainedPreserves, SummaryPreserves, EndPreserves DEF Writer
<1>3. CASE Close
  BY <1>3, ClosePreserves
<1>4. CASE UNCHANGED vars
  BY <1>4 DEF vars, flagVars, resultVars, queueVars, producerVars, countVars, shardVars,
              IInv, TypeOK, QueueCounts, Conservation, InflightMatchesBatch,
              NoRecordLeftBehind, TimeoutInv, ClaimInv
<1> QED
  BY <1>1, <1>2, <1>3, <1>4 DEF Next, Terminated

--------------------------------------------------------------------------------
(* The theorems *)

\* The invariant holds in every reachable state.
THEOREM Invariance ==
  Spec => []IInv
<1>1. Init => IInv
  BY InitIInv
<1>2. IInv /\ [Next]_vars => IInv'
  BY NextIInv
<1> QED
  BY <1>1, <1>2, PTL DEF Spec

\* Every variable of JsonlTraceSink keeps its type; no counter goes negative.
THEOREM TypeCorrect ==
  Spec => []TypeOK
<1>1. IInv => TypeOK
  BY DEF IInv
<1> QED
  BY <1>1, Invariance, PTL

\* _ordinary_queued and _reserved_queued are exactly what is queued and stay
\* within DATA_CAPACITY_RECORDS and RESERVED_CAPACITY_RECORDS.
THEOREM QueueCountsExact ==
  Spec => []QueueCounts
<1>1. IInv => QueueCounts
  BY DEF IInv
<1> QED
  BY <1>1, Invariance, PTL

\* Every attempted record is written, dropped or queued.
THEOREM NoRecordLost ==
  Spec => []Conservation
<1>1. IInv => Conservation
  BY DEF IInv
<1> QED
  BY <1>1, Invariance, PTL

\* The mismatch branch of _record_written is never taken.
THEOREM BatchIntact ==
  Spec => []InflightMatchesBatch
<1>1. IInv => InflightMatchesBatch
  BY DEF IInv
<1> QED
  BY <1>1, Invariance, PTL

\* Nothing is queued behind the back of a writer that has stopped reading.
THEOREM WriterLeavesNothing ==
  Spec => []NoRecordLeftBehind
<1>1. IInv => NoRecordLeftBehind
  BY DEF IInv
<1> QED
  BY <1>1, Invariance, PTL

\* The counters of a CloseResult made under the condition add up.
THEOREM ReceiptsReconcile ==
  Spec => []ReceiptReconciles
<1>1. IInv => ReceiptReconciles
  <2>1. SUFFICES ASSUME IInv, claim # NoClaim, claim.exact, NEW s \in Streams
                 PROVE  claim.attempted[s] = claim.written[s] + claim.dropped[s]
    BY DEF ReceiptReconciles
  <2>2. /\ pending = <<>> /\ claim.attempted = attempted
        /\ claim.written = written /\ claim.dropped = dropped
    BY <2>1 DEF IInv, ClaimInv
  <2>3. attempted[s] = written[s] + dropped[s] + HowMany(pending, DataOf(s))
    BY <2>1 DEF IInv, Conservation
  <2>4. HowMany(pending, DataOf(s)) = 0
    BY <2>2, HowManyEmpty
  <2>5. written[s] \in Nat /\ dropped[s] \in Nat
    BY <2>1, CounterTypes DEF IInv
  <2> QED
    BY <2>2, <2>3, <2>4, <2>5
<1> QED
  BY <1>1, Invariance, PTL

\* No step changes such a CloseResult or a counter it reports.
LEMMA ReceiptFinalStep ==
  ASSUME IInv, [Next]_vars, claim # NoClaim, claim.exact
  PROVE  UNCHANGED <<claim, attempted, written, dropped>>
<1> USE DEF flagVars, resultVars, queueVars, producerVars, countVars, shardVars
<1>1. closed /\ pending = <<>> /\ (pc = "done" \/ abandoned)
  BY DEF IInv, ClaimInv
<1>2. DropsWithQueue = dropped
  BY <1>1, DropsType DEF IInv
<1>3. ~Produce
  BY <1>1 DEF Produce, WriteRecord, DropProfileRecord, Accepting
<1>4. ~RecordWritten /\ ~Commit
  BY <1>1 DEF RecordWritten, Commit
<1>5. CASE WriteFails \/ FinishDrained
  BY <1>2, <1>5 DEF WriteFails, FinishDrained, MarkWriterFailure, DiscardQueue
<1>6. CASE PrepareTimeoutControls \/ DropTimeoutControls
  BY <1>2, <1>6 DEF PrepareTimeoutControls, DropTimeoutControls
<1>7. CASE Retract \/ Withhold \/ PublishFails
  BY <1>2, <1>7 DEF Retract, Withhold, PublishFails, MarkWriterFailure, DiscardQueue, FinalClaim
<1>8. CASE \/ TakeBatch \/ BeginWrite \/ WriteBytes \/ WriterAbandons \/ CutoffReached
           \/ StartDrain \/ BeginSummary \/ Publish
  BY <1>8 DEF TakeBatch, BeginWrite, WriteBytes, WriterAbandons, CutoffReached, StartDrain,
              BeginSummary, Publish
<1>9. CASE \/ CheckSummary \/ FinalizeSummary
           \/ \E s \in Streams : WriteSummary(s) \/ SummaryFails(s)
  BY <1>9 DEF CheckSummary, FinalizeSummary, WriteSummary, SummaryFails
<1>10. CASE Close
  BY <1>10 DEF Close, RequestClose, DeadlinePasses, CloseAfterFailure, ForceTimeout,
               LockFreeTimeout
<1>11. CASE UNCHANGED vars
  BY <1>11 DEF vars
<1> QED
  BY <1>3, <1>4, <1>5, <1>6, <1>7, <1>8, <1>9, <1>10, <1>11 DEF Next, Writer, Terminated

\* A CloseResult made under the condition is final, and so are its counters.
THEOREM ReceiptsFinal ==
  Spec => ReceiptFinal
<1>1. IInv /\ [Next]_vars =>
        [claim # NoClaim /\ claim.exact => UNCHANGED <<claim, attempted, written, dropped>>]_vars
  BY ReceiptFinalStep
<1> QED
  BY <1>1, Invariance, PTL DEF Spec, ReceiptFinal

--------------------------------------------------------------------------------
(* Sequence numbers in a shard h, a queue q and an open interval o         *)

\* The records of stream s below n, in shard, queue and open interval, follow
\* each other without overlap.
Ordered(h, q, s, o, n) ==
  /\ \A i \in 1..Len(h) : h[i].first <= h[i].last /\ h[i].last < n
  /\ \A i, j \in 1..Len(h) : i < j => h[i].last < h[j].first
  /\ \A j \in 1..Len(q) : q[j].stream = s =>
       /\ q[j].first <= q[j].last /\ q[j].last < n
       /\ \A i \in 1..Len(h) : h[i].last < q[j].first
       /\ \A i \in 1..Len(q) : i < j /\ q[i].stream = s => q[i].last < q[j].first
  /\ o # NoLoss =>
       /\ o.first <= o.last /\ o.last < n
       /\ \A i \in 1..Len(h) : h[i].last < o.first
       /\ \A j \in 1..Len(q) : q[j].stream = s => q[j].last < o.first

\* Number k is in the shard, in the queue or in the open interval.
Somewhere(h, q, s, o, k) ==
  \/ \E i \in 1..Len(h) : Covers(h[i], k)
  \/ \E j \in 1..Len(q) : q[j].stream = s /\ Covers(q[j], k)
  \/ o # NoLoss /\ Covers(o, k)

\* Every number below n is.
Tiled(h, q, s, o, n) == \A k \in 0..(n - 1) : Somewhere(h, q, s, o, k)

\* A data record stands for one number.
Point(r) == r.kind = "data" => r.first = r.last

\* The positions of a queue to which a record was added.
LEMMA Appended ==
  ASSUME NEW q \in Seq(Record), NEW r \in Record
  PROVE  /\ Append(q, r) \in Seq(Record)
         /\ Len(q) \in Nat /\ Len(Append(q, r)) = Len(q) + 1
         /\ \A j \in 1..Len(q) : j \in 1..(Len(q) + 1) /\ Append(q, r)[j] = q[j]
         /\ \A j \in 1..(Len(q) + 1) : j \in 1..Len(q) \/ j = Len(q) + 1
         /\ Len(q) + 1 \in 1..(Len(q) + 1) /\ Append(q, r)[Len(q) + 1] = r
         /\ \A j \in 1..Len(q) : q[j] \in Record
<1>1. Len(q) \in Nat
  BY LenProperties
<1> QED
  BY <1>1, AppendProperties, ElementOfSeq

\* The positions of a queue whose head was taken.
LEMMA Taken ==
  ASSUME NEW q \in Seq(Record), q # <<>>
  PROVE  /\ Tail(q) \in Seq(Record) /\ Head(q) \in Record
         /\ Len(q) \in Nat /\ Len(q) >= 1 /\ Len(Tail(q)) = Len(q) - 1
         /\ Head(q) = q[1] /\ 1 \in 1..Len(q)
         /\ \A j \in 1..(Len(q) - 1) : j + 1 \in 1..Len(q) /\ Tail(q)[j] = q[j + 1]
         /\ \A j \in 1..Len(q) : j # 1 => j - 1 \in 1..(Len(q) - 1) /\ Tail(q)[j - 1] = q[j]
<1>1. Len(q) \in Nat /\ Len(q) # 0
  BY LenProperties, EmptySeq
<1>2. /\ Tail(q) \in Seq(Record) /\ Head(q) \in Record
      /\ Len(Tail(q)) = Len(q) - 1
      /\ \A i \in 1..Len(Tail(q)) : Tail(q)[i] = q[i + 1]
      /\ Head(q) = q[1]
  BY HeadTailProperties
<1>3. \A j \in 1..Len(q) : j # 1 => j - 1 \in 1..(Len(q) - 1) /\ Tail(q)[j - 1] = q[j]
  <2>1. SUFFICES ASSUME NEW j \in 1..Len(q), j # 1
                 PROVE  j - 1 \in 1..(Len(q) - 1) /\ Tail(q)[j - 1] = q[j]
    OBVIOUS
  <2>2. j - 1 \in 1..(Len(q) - 1) /\ (j - 1) + 1 = j
    BY <1>1, <2>1
  <2> QED
    BY <1>2, <2>2
<1> QED
  BY <1>1, <1>2, <1>3

LEMMA RecordFields ==
  ASSUME NEW r \in Record
  PROVE  /\ r.stream \in Streams /\ r.kind \in {"data", "loss"}
         /\ r.first \in Nat /\ r.last \in Nat
BY DEF Record

\* A record of another stream.
LEMMA AppendOther ==
  ASSUME NEW h \in Seq(Record), NEW q \in Seq(Record), NEW s, NEW o, NEW n \in Nat,
         NEW r \in Record, r.stream # s
  PROVE  /\ Ordered(h, q, s, o, n) => Ordered(h, Append(q, r), s, o, n)
         /\ Tiled(h, q, s, o, n) => Tiled(h, Append(q, r), s, o, n)
<1> DEFINE p == Append(q, r)
<1>1. /\ Len(q) \in Nat /\ Len(p) = Len(q) + 1
      /\ \A j \in 1..Len(q) : j \in 1..(Len(q) + 1) /\ p[j] = q[j]
      /\ \A j \in 1..(Len(q) + 1) : j \in 1..Len(q) \/ j = Len(q) + 1
      /\ p[Len(q) + 1] = r
  BY Appended
<1> HIDE DEF p
<1>2. \A j \in 1..Len(p) : p[j].stream = s => j \in 1..Len(q) /\ p[j] = q[j]
  BY <1>1
<1>3. Ordered(h, q, s, o, n) => Ordered(h, p, s, o, n)
  BY <1>2 DEF Ordered
<1>4. Tiled(h, q, s, o, n) => Tiled(h, p, s, o, n)
  BY <1>1 DEF Tiled, Somewhere
<1> QED
  BY <1>3, <1>4 DEF p

\* The open interval is sealed into the queue.
LEMMA AppendSealed ==
  ASSUME NEW h \in Seq(Record), NEW q \in Seq(Record), NEW s, NEW o, NEW n \in Nat,
         NEW r \in Record, r.stream = s, o # NoLoss, r.first = o.first, r.last = o.last
  PROVE  /\ Ordered(h, q, s, o, n) => Ordered(h, Append(q, r), s, NoLoss, n)
         /\ Tiled(h, q, s, o, n) => Tiled(h, Append(q, r), s, NoLoss, n)
<1> DEFINE p == Append(q, r)
<1>1. /\ Len(q) \in Nat /\ Len(p) = Len(q) + 1
      /\ \A j \in 1..Len(q) : j \in 1..(Len(q) + 1) /\ p[j] = q[j]
      /\ \A j \in 1..(Len(q) + 1) : j \in 1..Len(q) \/ j = Len(q) + 1
      /\ Len(q) + 1 \in 1..(Len(q) + 1) /\ p[Len(q) + 1] = r
  BY Appended
<1> HIDE DEF p
<1>2. ASSUME Ordered(h, q, s, o, n) PROVE Ordered(h, p, s, NoLoss, n)
  <2>1. /\ o.first <= o.last /\ o.last < n
        /\ \A i \in 1..Len(h) : h[i].last < o.first
        /\ \A j \in 1..Len(q) : q[j].stream = s => q[j].last < o.first
    BY <1>2 DEF Ordered
  <2>2. ASSUME NEW j \in 1..Len(p), p[j].stream = s
        PROVE  /\ p[j].first <= p[j].last /\ p[j].last < n
               /\ \A i \in 1..Len(h) : h[i].last < p[j].first
               /\ \A i \in 1..Len(p) : i < j /\ p[i].stream = s => p[i].last < p[j].first
    <3>1. CASE j \in 1..Len(q)
      <4>1. \A i \in 1..Len(p) : i < j => i \in 1..Len(q) /\ p[i] = q[i]
        BY <1>1, <3>1
      <4> QED
        BY <1>1, <1>2, <2>2, <3>1, <4>1 DEF Ordered
    <3>2. CASE j = Len(q) + 1
      <4>1. \A i \in 1..Len(p) : i < j => i \in 1..Len(q) /\ p[i] = q[i]
        BY <1>1, <3>2
      <4> QED
        BY <1>1, <2>1, <3>2, <4>1
    <3> QED
      BY <1>1, <3>1, <3>2
  <2> QED
    BY <1>2, <2>2 DEF Ordered
<1>3. ASSUME Tiled(h, q, s, o, n) PROVE Tiled(h, p, s, NoLoss, n)
  BY <1>1, <1>3 DEF Tiled, Somewhere, Covers
<1> QED
  BY <1>2, <1>3 DEF p

\* The open interval is given up; only the order is left then.
LEMMA OrderedForgets ==
  ASSUME NEW h, NEW q, NEW s, NEW o, NEW n, Ordered(h, q, s, o, n)
  PROVE  Ordered(h, q, s, NoLoss, n)
BY DEF Ordered

\* The next number is queued as a data record.
LEMMA AppendNext ==
  ASSUME NEW h \in Seq(Record), NEW q \in Seq(Record), NEW s, NEW n \in Nat,
         NEW r \in Record, r.stream = s, r.first = n, r.last = n
  PROVE  /\ Ordered(h, q, s, NoLoss, n) => Ordered(h, Append(q, r), s, NoLoss, n + 1)
         /\ Tiled(h, q, s, NoLoss, n) => Tiled(h, Append(q, r), s, NoLoss, n + 1)
<1> DEFINE p == Append(q, r)
<1>1. /\ Len(q) \in Nat /\ Len(p) = Len(q) + 1
      /\ \A j \in 1..Len(q) : j \in 1..(Len(q) + 1) /\ p[j] = q[j]
      /\ \A j \in 1..(Len(q) + 1) : j \in 1..Len(q) \/ j = Len(q) + 1
      /\ Len(q) + 1 \in 1..(Len(q) + 1) /\ p[Len(q) + 1] = r
  BY Appended
<1>2. /\ \A j \in 1..Len(q) : q[j].last \in Nat
      /\ \A i \in 1..Len(h) : h[i].last \in Nat
  BY Appended, RecordFields
<1> HIDE DEF p
<1>3. ASSUME Ordered(h, q, s, NoLoss, n) PROVE Ordered(h, p, s, NoLoss, n + 1)
  <2>1. /\ \A i \in 1..Len(h) : h[i].first <= h[i].last /\ h[i].last < n
        /\ \A i, j \in 1..Len(h) : i < j => h[i].last < h[j].first
        /\ \A j \in 1..Len(q) : q[j].stream = s => q[j].last < n
    BY <1>3 DEF Ordered
  <2>2. ASSUME NEW j \in 1..Len(p), p[j].stream = s
        PROVE  /\ p[j].first <= p[j].last /\ p[j].last < n + 1
               /\ \A i \in 1..Len(h) : h[i].last < p[j].first
               /\ \A i \in 1..Len(p) : i < j /\ p[i].stream = s => p[i].last < p[j].first
    <3>1. CASE j \in 1..Len(q)
      <4>1. \A i \in 1..Len(p) : i < j => i \in 1..Len(q) /\ p[i] = q[i]
        BY <1>1, <3>1
      <4>2. p[j] = q[j] /\ q[j].last \in Nat
        BY <1>1, <1>2, <3>1
      <4>3. /\ q[j].first <= q[j].last /\ q[j].last < n
            /\ \A i \in 1..Len(h) : h[i].last < q[j].first
            /\ \A i \in 1..Len(q) : i < j /\ q[i].stream = s => q[i].last < q[j].first
        BY <1>3, <2>2, <3>1, <4>2 DEF Ordered
      <4>4. p[j].last < n + 1
        BY <4>2, <4>3
      <4>5. \A i \in 1..Len(p) : i < j /\ p[i].stream = s => p[i].last < p[j].first
        BY <4>1, <4>2, <4>3
      <4> QED
        BY <4>2, <4>3, <4>4, <4>5
    <3>2. CASE j = Len(q) + 1
      <4>1. \A i \in 1..Len(p) : i < j => i \in 1..Len(q) /\ p[i] = q[i]
        BY <1>1, <3>2
      <4>2. p[j].first = n /\ p[j].last = n
        BY <1>1, <3>2
      <4>3. n <= n /\ n < n + 1
        OBVIOUS
      <4> QED
        BY <2>1, <4>1, <4>2, <4>3
    <3> QED
      BY <1>1, <3>1, <3>2
  <2>3. \A i \in 1..Len(h) : h[i].first <= h[i].last /\ h[i].last < n + 1
    BY <1>2, <2>1
  <2> QED
    BY <2>1, <2>2, <2>3 DEF Ordered
<1>4. ASSUME Tiled(h, q, s, NoLoss, n) PROVE Tiled(h, p, s, NoLoss, n + 1)
  <2>1. SUFFICES ASSUME NEW k \in 0..n PROVE Somewhere(h, p, s, NoLoss, k)
    BY DEF Tiled
  <2>2. CASE k = n
    BY <1>1, <2>2 DEF Somewhere, Covers
  <2>3. CASE k \in 0..(n - 1)
    BY <1>1, <1>4, <2>3 DEF Tiled, Somewhere
  <2> QED
    BY <2>2, <2>3
<1> QED
  BY <1>3, <1>4 DEF p

\* The next number opens a new interval, or extends the open one up to it.
LEMMA NextIsLost ==
  ASSUME NEW h \in Seq(Record), NEW q \in Seq(Record), NEW s, NEW o \in Losses, NEW n \in Nat,
         NEW w \in Losses, w # NoLoss, w.last = n,
         (o = NoLoss /\ w.first = n) \/ (o # NoLoss /\ o.last + 1 = n /\ w.first = o.first),
         Ordered(h, q, s, o, n)
  PROVE  /\ Ordered(h, q, s, w, n + 1)
         /\ Tiled(h, q, s, o, n) => Tiled(h, q, s, w, n + 1)
<1>1. /\ \A j \in 1..Len(q) : q[j].last \in Nat
      /\ \A i \in 1..Len(h) : h[i].last \in Nat
  BY Appended, RecordFields
<1>2. o.first \in Nat /\ o.last \in Nat /\ w.first \in Nat
  BY DEF Losses
<1>0. w.first <= w.last
  <2>1. o # NoLoss => o.first <= o.last
    BY DEF Ordered
  <2> QED
    BY <1>2, <2>1
<1>3. Ordered(h, q, s, w, n + 1)
  <2>1. /\ \A i \in 1..Len(h) : h[i].first <= h[i].last /\ h[i].last < n
        /\ \A i, j \in 1..Len(h) : i < j => h[i].last < h[j].first
        /\ \A j \in 1..Len(q) : q[j].stream = s =>
             /\ q[j].first <= q[j].last /\ q[j].last < n
             /\ \A i \in 1..Len(h) : h[i].last < q[j].first
             /\ \A i \in 1..Len(q) : i < j /\ q[i].stream = s => q[i].last < q[j].first
    BY DEF Ordered
  <2>2. /\ \A i \in 1..Len(h) : h[i].last < w.first
        /\ \A j \in 1..Len(q) : q[j].stream = s => q[j].last < w.first
    <3>1. CASE o = NoLoss /\ w.first = n
      BY <1>1, <2>1, <3>1
    <3>2. CASE o # NoLoss /\ o.last + 1 = n /\ w.first = o.first
      BY <3>2 DEF Ordered
    <3> QED
      BY <3>1, <3>2
  <2>3. w.last < n + 1
    OBVIOUS
  <2>4. \A i \in 1..Len(h) : h[i].first <= h[i].last /\ h[i].last < n + 1
    BY <1>1, <2>1
  <2>5. \A j \in 1..Len(q) : q[j].stream = s =>
             /\ q[j].first <= q[j].last /\ q[j].last < n + 1
             /\ \A i \in 1..Len(h) : h[i].last < q[j].first
             /\ \A i \in 1..Len(q) : i < j /\ q[i].stream = s => q[i].last < q[j].first
    BY <1>1, <2>1
  <2> QED
    BY <1>0, <2>1, <2>2, <2>3, <2>4, <2>5 DEF Ordered
<1>4. ASSUME Tiled(h, q, s, o, n) PROVE Tiled(h, q, s, w, n + 1)
  <2>1. SUFFICES ASSUME NEW k \in 0..n PROVE Somewhere(h, q, s, w, k)
    BY DEF Tiled
  <2>2. CASE k = n
    BY <1>0, <2>2 DEF Somewhere, Covers
  <2>3. CASE k \in 0..(n - 1)
    <3>1. Somewhere(h, q, s, o, k)
      BY <1>4, <2>3 DEF Tiled
    <3>2. o # NoLoss /\ Covers(o, k) => Covers(w, k)
      BY <1>2, <2>3 DEF Covers
    <3> QED
      BY <3>1, <3>2 DEF Somewhere
  <2> QED
    BY <2>2, <2>3
<1> QED
  BY <1>3, <1>4

\* The head of the queue moves to the shard of its stream.
LEMMA HeadMoves ==
  ASSUME NEW h \in Seq(Record), NEW q \in Seq(Record), NEW s, NEW o, NEW n \in Nat,
         q # <<>>, Head(q).stream = s
  PROVE  /\ Ordered(h, q, s, o, n) => Ordered(Append(h, Head(q)), Tail(q), s, o, n)
         /\ Tiled(h, q, s, o, n) => Tiled(Append(h, Head(q)), Tail(q), s, o, n)
<1> DEFINE r == Head(q)
           g == Append(h, r)
           t == Tail(q)
<1>1. /\ r \in Record /\ Len(q) \in Nat /\ Len(t) = Len(q) - 1
      /\ r = q[1] /\ 1 \in 1..Len(q)
      /\ \A j \in 1..(Len(q) - 1) : j + 1 \in 1..Len(q) /\ t[j] = q[j + 1]
      /\ \A j \in 1..Len(q) : j # 1 => j - 1 \in 1..(Len(q) - 1) /\ t[j - 1] = q[j]
  BY Taken
<1>2. /\ Len(h) \in Nat /\ Len(g) = Len(h) + 1
      /\ \A j \in 1..Len(h) : j \in 1..(Len(h) + 1) /\ g[j] = h[j]
      /\ \A j \in 1..(Len(h) + 1) : j \in 1..Len(h) \/ j = Len(h) + 1
      /\ Len(h) + 1 \in 1..(Len(h) + 1) /\ g[Len(h) + 1] = r
  BY <1>1, Appended
<1>3. r.stream = s
  OBVIOUS
<1> HIDE DEF r, g, t
<1>4. ASSUME Ordered(h, q, s, o, n) PROVE Ordered(g, t, s, o, n)
  <2>1. /\ r.first <= r.last /\ r.last < n
        /\ \A i \in 1..Len(h) : h[i].last < r.first
        /\ \A j \in 1..Len(q) : j # 1 /\ q[j].stream = s => r.last < q[j].first
        /\ o # NoLoss => r.last < o.first
    BY <1>1, <1>3, <1>4 DEF Ordered
  <2>2. \A i \in 1..Len(g) : g[i].first <= g[i].last /\ g[i].last < n
    BY <1>2, <1>4, <2>1 DEF Ordered
  <2>3. ASSUME NEW i \in 1..Len(g), NEW j \in 1..Len(g), i < j PROVE g[i].last < g[j].first
    <3>1. i \in 1..Len(h)
      BY <1>2, <2>3
    <3>2. CASE j \in 1..Len(h)
      BY <1>2, <1>4, <2>3, <3>1, <3>2 DEF Ordered
    <3>3. CASE j = Len(h) + 1
      BY <1>2, <2>1, <3>1, <3>3
    <3> QED
      BY <1>2, <3>2, <3>3
  <2>4. ASSUME NEW j \in 1..Len(t), t[j].stream = s
        PROVE  /\ t[j].first <= t[j].last /\ t[j].last < n
               /\ \A i \in 1..Len(g) : g[i].last < t[j].first
               /\ \A i \in 1..Len(t) : i < j /\ t[i].stream = s => t[i].last < t[j].first
    <3>1. j + 1 \in 1..Len(q) /\ t[j] = q[j + 1] /\ j + 1 # 1
      BY <1>1
    <3>2. /\ q[j + 1].first <= q[j + 1].last /\ q[j + 1].last < n
          /\ \A i \in 1..Len(h) : h[i].last < q[j + 1].first
          /\ \A i \in 1..Len(q) : i < j + 1 /\ q[i].stream = s => q[i].last < q[j + 1].first
      BY <1>4, <2>4, <3>1 DEF Ordered
    <3>3. \A i \in 1..Len(g) : g[i].last < t[j].first
      BY <1>2, <2>1, <2>4, <3>1, <3>2
    <3>4. ASSUME NEW i \in 1..Len(t), i < j, t[i].stream = s PROVE t[i].last < t[j].first
      <4>1. i + 1 \in 1..Len(q) /\ t[i] = q[i + 1] /\ i + 1 < j + 1
        BY <1>1, <3>4
      <4> QED
        BY <3>1, <3>2, <3>4, <4>1
    <3> QED
      BY <3>1, <3>2, <3>3, <3>4
  <2>5. o # NoLoss =>
          /\ o.first <= o.last /\ o.last < n
          /\ \A i \in 1..Len(g) : g[i].last < o.first
          /\ \A j \in 1..Len(t) : t[j].stream = s => t[j].last < o.first
    <3>1. SUFFICES ASSUME o # NoLoss
                   PROVE  /\ o.first <= o.last /\ o.last < n
                          /\ \A i \in 1..Len(g) : g[i].last < o.first
                          /\ \A j \in 1..Len(t) : t[j].stream = s => t[j].last < o.first
      OBVIOUS
    <3>2. /\ o.first <= o.last /\ o.last < n
          /\ \A i \in 1..Len(h) : h[i].last < o.first
          /\ \A j \in 1..Len(q) : q[j].stream = s => q[j].last < o.first
      BY <1>4, <3>1 DEF Ordered
    <3>3. \A i \in 1..Len(g) : g[i].last < o.first
      BY <1>2, <2>1, <3>1, <3>2
    <3>4. \A j \in 1..Len(t) : t[j].stream = s => t[j].last < o.first
      BY <1>1, <3>2
    <3> QED
      BY <3>2, <3>3, <3>4
  <2> QED
    BY <2>2, <2>3, <2>4, <2>5 DEF Ordered
<1>5. ASSUME NEW k, Somewhere(h, q, s, o, k) PROVE Somewhere(g, t, s, o, k)
  <2>1. CASE \E i \in 1..Len(h) : Covers(h[i], k)
    BY <1>2, <2>1 DEF Somewhere
  <2>2. CASE \E j \in 1..Len(q) : q[j].stream = s /\ Covers(q[j], k)
    <3>1. PICK j \in 1..Len(q) : q[j].stream = s /\ Covers(q[j], k)
      BY <2>2
    <3>2. CASE j = 1
      BY <1>1, <1>2, <3>1, <3>2 DEF Somewhere
    <3>3. CASE j # 1
      BY <1>1, <3>1, <3>3 DEF Somewhere
    <3> QED
      BY <3>2, <3>3
  <2>3. CASE o # NoLoss /\ Covers(o, k)
    BY <2>3 DEF Somewhere
  <2> QED
    BY <1>5, <2>1, <2>2, <2>3 DEF Somewhere
<1>6. Tiled(h, q, s, o, n) => Tiled(g, t, s, o, n)
  BY <1>5 DEF Tiled
<1> QED
  BY <1>4, <1>6 DEF r, g, t

\* The head of the queue moves to the shard of another stream.
LEMMA OtherHeadMoves ==
  ASSUME NEW h \in Seq(Record), NEW q \in Seq(Record), NEW s, NEW o, NEW n \in Nat,
         q # <<>>, Head(q).stream # s
  PROVE  /\ Ordered(h, q, s, o, n) => Ordered(h, Tail(q), s, o, n)
         /\ Tiled(h, q, s, o, n) => Tiled(h, Tail(q), s, o, n)
<1> DEFINE t == Tail(q)
<1>1. /\ Len(q) \in Nat /\ Len(t) = Len(q) - 1 /\ Head(q) = q[1]
      /\ \A j \in 1..(Len(q) - 1) : j + 1 \in 1..Len(q) /\ t[j] = q[j + 1]
      /\ \A j \in 1..Len(q) : j # 1 => j - 1 \in 1..(Len(q) - 1) /\ t[j - 1] = q[j]
  BY Taken
<1>2. q[1].stream # s
  BY <1>1
<1> HIDE DEF t
<1>3. ASSUME Ordered(h, q, s, o, n) PROVE Ordered(h, t, s, o, n)
  <2>1. ASSUME NEW j \in 1..Len(t), t[j].stream = s
        PROVE  /\ t[j].first <= t[j].last /\ t[j].last < n
               /\ \A i \in 1..Len(h) : h[i].last < t[j].first
               /\ \A i \in 1..Len(t) : i < j /\ t[i].stream = s => t[i].last < t[j].first
    <3>1. j + 1 \in 1..Len(q) /\ t[j] = q[j + 1]
      BY <1>1
    <3>2. /\ q[j + 1].first <= q[j + 1].last /\ q[j + 1].last < n
          /\ \A i \in 1..Len(h) : h[i].last < q[j + 1].first
          /\ \A i \in 1..Len(q) : i < j + 1 /\ q[i].stream = s => q[i].last < q[j + 1].first
      BY <1>3, <2>1, <3>1 DEF Ordered
    <3>3. ASSUME NEW i \in 1..Len(t), i < j, t[i].stream = s PROVE t[i].last < t[j].first
      <4>1. i + 1 \in 1..Len(q) /\ t[i] = q[i + 1] /\ i + 1 < j + 1
        BY <1>1, <3>3
      <4> QED
        BY <3>1, <3>2, <3>3, <4>1
    <3> QED
      BY <3>1, <3>2, <3>3
  <2> QED
    BY <1>1, <1>3, <2>1 DEF Ordered
<1>4. ASSUME NEW k, Somewhere(h, q, s, o, k) PROVE Somewhere(h, t, s, o, k)
  BY <1>1, <1>2, <1>4 DEF Somewhere
<1>5. Tiled(h, q, s, o, n) => Tiled(h, t, s, o, n)
  BY <1>4 DEF Tiled
<1> QED
  BY <1>3, <1>5 DEF t

\* A queue that is given up leaves the rest in order.
LEMMA OrderedEmptied ==
  ASSUME NEW h, NEW q, NEW s, NEW o, NEW n, Ordered(h, q, s, o, n)
  PROVE  Ordered(h, <<>>, s, o, n)
BY DEF Ordered

--------------------------------------------------------------------------------
(* Where the writer is                                                     *)

Summing == {"drain", "summary", "summarizing", "checkSummary"}
Ended == {"finalize", "publish", "published", "done"}

\* Until its end the writer has not failed, and a shard has exactly the bytes
\* that were digested but for the record just written.
Intact ==
  /\ pc \notin Ended => failures = 0 /\ \A s \in Streams : ~torn[s]
  /\ pc \notin Ended \cup {"wrote"} => file = hashed
  /\ pc = "wrote" => file = [hashed EXCEPT ![current.stream] = Append(@, current)]

\* Whoever drains or times out does so in a closing sink, whose losses are
\* sealed; what is drained is empty.
Draining ==
  /\ pc \in Summing \cup {"timeout", "controls"} => closing
  /\ pc \in Summing => pending = <<>>
  /\ closing => \A s \in Streams : openLoss[s] = NoLoss

\* An outcome is set by the writer at its end, or by a closer that abandons it.
Outcome ==
  /\ pc \notin Ended \cup {"controls"} /\ ~abandoned => outcome = "none"
  /\ abandoned => outcome # "none"
  /\ pc \in {"finalize", "publish"} => outcome # "none" \/ writerFailed
  /\ pc = "published" /\ ~abandoned => outcome = "drained"
  /\ outcome = "drained" => pc \in Ended /\ summaryWritten

\* A summary follows the drained shard, on a stream with no partial line.
Summarized ==
  /\ \A s \in Streams : summaries[s] # <<>> =>
       pc \in Ended \cup {"summary", "summarizing", "checkSummary"} /\ ~torn[s]
  /\ summaryWritten => AllSummarized

PhaseInv == Intact /\ Draining /\ Outcome /\ Summarized

LEMMA PhaseInit ==
  Init => PhaseInv
BY DEF Init, PhaseInv, Intact, Draining, Outcome, Summarized, AllSummarized, Summing,
       Ended, NoLoss

LEMMA PhaseProduce ==
  ASSUME PhaseInv, IInv, Produce
  PROVE  PhaseInv'
<1>1. /\ Accepting
      /\ UNCHANGED <<flagVars, resultVars, inflight, timeoutControls, written, writtenLoss,
                     shardVars, pc, current>>
  BY DEF Produce, WriteRecord, DropProfileRecord
<1> QED
  BY <1>1 DEF PhaseInv, Intact, Draining, Outcome, Summarized, AllSummarized,
              Summing, Ended, Accepting,
              flagVars, resultVars, shardVars

LEMMA PhaseMoves ==
  ASSUME PhaseInv, IInv, TakeBatch \/ BeginWrite \/ WriterAbandons \/ CutoffReached \/ StartDrain \/ BeginSummary \/ Publish
  PROVE  PhaseInv'
<1> USE DEF flagVars, resultVars, queueVars, producerVars, countVars, shardVars,
            Summing, Ended, PhaseInv, Intact, Draining, Outcome, Summarized, AllSummarized
<1>1. CASE TakeBatch
  BY <1>1 DEF TakeBatch
<1>2. CASE BeginWrite
  BY <1>2 DEF BeginWrite, NextOfBatch
<1>3. CASE WriterAbandons
  BY <1>3 DEF WriterAbandons
<1>4. CASE CutoffReached
  BY <1>4 DEF CutoffReached, Cutoff
<1>5. CASE StartDrain
  BY <1>5 DEF StartDrain
<1>6. CASE BeginSummary
  BY <1>6 DEF BeginSummary
<1>7. CASE Publish
  BY <1>7 DEF Publish, Eligible
<1> QED
  BY <1>1, <1>2, <1>3, <1>4, <1>5, <1>6, <1>7

LEMMA PhaseEnds ==
  ASSUME PhaseInv, IInv, FinalizeSummary \/ Commit \/ Retract \/ Withhold \/ PublishFails
  PROVE  PhaseInv'
<1> USE DEF flagVars, resultVars, queueVars, producerVars, countVars, shardVars,
            Summing, Ended, PhaseInv, Intact, Draining, Outcome, Summarized, AllSummarized
<1>1. CASE FinalizeSummary
  BY <1>1 DEF FinalizeSummary, Invalidate
<1>2. CASE Commit
  BY <1>2 DEF Commit
<1>3. CASE Retract
  BY <1>3 DEF Retract
<1>4. CASE Withhold
  BY <1>4 DEF Withhold, Eligible
<1>5. CASE PublishFails
  BY <1>5 DEF PublishFails, MarkWriterFailure, DiscardQueue
<1> QED
  BY <1>1, <1>2, <1>3, <1>4, <1>5

LEMMA PhaseTimes ==
  ASSUME PhaseInv, IInv, WriteFails \/ PrepareTimeoutControls \/ DropTimeoutControls \/ FinishDrained
  PROVE  PhaseInv'
<1> USE DEF flagVars, resultVars, queueVars, producerVars, countVars, shardVars,
            Summing, Ended, PhaseInv, Intact, Draining, Outcome, Summarized, AllSummarized
<1>1. CASE WriteFails
  BY <1>1 DEF WriteFails, MarkWriterFailure, DiscardQueue
<1>2. CASE PrepareTimeoutControls
  BY <1>2 DEF PrepareTimeoutControls
<1>3. CASE DropTimeoutControls
  BY <1>3 DEF DropTimeoutControls
<1>4. CASE FinishDrained
  BY <1>4 DEF FinishDrained, MarkWriterFailure, DiscardQueue
<1> QED
  BY <1>1, <1>2, <1>3, <1>4

LEMMA PhaseWrites ==
  ASSUME PhaseInv, IInv, WriteBytes \/ RecordWritten \/ CheckSummary
  PROVE  PhaseInv'
<1> USE DEF flagVars, resultVars, queueVars, producerVars, countVars, shardVars,
            Summing, Ended, PhaseInv, Intact, Draining, Outcome, Summarized, AllSummarized
<1>1. CASE WriteBytes
  BY <1>1 DEF WriteBytes, IInv, InflightMatchesBatch, TypeOK
<1>2. CASE RecordWritten
  BY <1>2 DEF RecordWritten, DigestAfter
<1>3. CASE CheckSummary
  BY <1>3 DEF CheckSummary, Invalidate
<1> QED
  BY <1>1, <1>2, <1>3

LEMMA PhaseCloses ==
  ASSUME PhaseInv, IInv, DeadlinePasses \/ CloseAfterFailure \/ ForceTimeout \/ LockFreeTimeout
  PROVE  PhaseInv'
<1> USE DEF flagVars, resultVars, queueVars, producerVars, countVars, shardVars,
            Summing, Ended, PhaseInv, Intact, Draining, Outcome, Summarized, AllSummarized
<1>1. CASE DeadlinePasses
  BY <1>1 DEF DeadlinePasses
<1>2. CASE CloseAfterFailure
  BY <1>2 DEF CloseAfterFailure
<1>3. CASE ForceTimeout
  BY <1>3 DEF ForceTimeout, DiscardQueue
<1>4. CASE LockFreeTimeout
  BY <1>4 DEF LockFreeTimeout
<1> QED
  BY <1>1, <1>2, <1>3, <1>4

LEMMA PhaseSummary ==
  ASSUME PhaseInv, IInv, NEW s \in Streams, WriteSummary(s) \/ SummaryFails(s)
  PROVE  PhaseInv'
<1> USE DEF flagVars, resultVars, queueVars, producerVars, countVars, shardVars,
            Summing, Ended, PhaseInv, Intact, Draining, Outcome, Summarized, AllSummarized
<1>1. summaries \in [Streams -> Seq(Summaries)] /\ torn \in [Streams -> BOOLEAN]
  BY DEF IInv, TypeOK, PerStream
<1>2. CASE WriteSummary(s)
  <2>1. \A u \in Streams : u # s => summaries'[u] = summaries[u]
    BY <1>1, <1>2 DEF WriteSummary
  <2>2. ~summaryWritten
    BY <1>2 DEF WriteSummary, NextSummary
  <2> QED
    BY <1>2, <2>1, <2>2 DEF WriteSummary
<1>3. CASE SummaryFails(s)
  <2>1. summaries[s] = <<>> /\ \A u \in Streams : u # s => torn'[u] = torn[u]
    BY <1>1, <1>3 DEF SummaryFails, NextSummary
  <2> QED
    BY <1>3, <2>1 DEF SummaryFails
<1> QED
  BY <1>2, <1>3

LEMMA PhaseNext ==
  ASSUME PhaseInv, IInv, [Next]_vars
  PROVE  PhaseInv'
<1>1. CASE Produce
  BY <1>1, PhaseProduce
<1>2. CASE Writer
  BY <1>2, PhaseMoves, PhaseEnds, PhaseTimes, PhaseWrites, PhaseSummary DEF Writer
<1>3. CASE \E built \in BOOLEAN : RequestClose(built)
  BY <1>3 DEF RequestClose, resultVars, shardVars, PhaseInv, Intact, Draining, Outcome,
              Summarized, AllSummarized, Summing, Ended
<1>4. CASE DeadlinePasses \/ CloseAfterFailure \/ ForceTimeout \/ LockFreeTimeout
  BY <1>4, PhaseCloses
<1>5. CASE UNCHANGED vars
  BY <1>5 DEF vars, flagVars, resultVars, queueVars, producerVars, countVars, shardVars,
              PhaseInv, Intact, Draining, Outcome, Summarized, AllSummarized
<1> QED
  BY <1>1, <1>2, <1>3, <1>4, <1>5 DEF Next, Close, Terminated

\* What the program counter of the writer says of flags, queue and shard, with
\* the invariant that it rests on.
LEMMA Phases ==
  Spec => [](IInv /\ PhaseInv)
<1>1. Init => IInv /\ PhaseInv
  BY InitIInv, PhaseInit
<1>2. IInv /\ PhaseInv /\ [Next]_vars => (IInv /\ PhaseInv)'
  BY NextIInv, PhaseNext
<1> QED
  BY <1>1, <1>2, PTL DEF Spec

--------------------------------------------------------------------------------
(* The three things that one attempt on stream s can do                    *)

Extends(s) ==
  \E reason \in DropReasons :
    /\ ExtendsOpenLoss(s, reason)
    /\ openLoss' = [openLoss EXCEPT ![s] =
                      [reason |-> reason, first |-> openLoss[s].first, last |-> attempted[s]]]
    /\ UNCHANGED <<nextLoss, droppedControl, pending>>

Opens(s, built) ==
  \E reason \in DropReasons :
    /\ SealLoss(s, built)
    /\ pending' = SealInto(pending, s, built)
    /\ openLoss' = [openLoss EXCEPT ![s] =
                      [reason |-> reason, first |-> attempted[s], last |-> attempted[s]]]

Accepts(s, built) ==
  \E terminal \in BOOLEAN :
    /\ SealLoss(s, built)
    /\ pending' = Append(SealInto(pending, s, built), DataRecord(s, attempted[s], terminal))
    /\ openLoss' = [openLoss EXCEPT ![s] = NoLoss]

Attempt(s, built) ==
  /\ ~closing /\ attempted' = [attempted EXCEPT ![s] = @ + 1]
  /\ UNCHANGED <<flagVars, resultVars, inflight, timeoutControls, written, writtenLoss,
                 shardVars, pc, current>>
  /\ Extends(s) \/ Opens(s, built) \/ Accepts(s, built)

LEMMA Attempts ==
  ASSUME Produce
  PROVE  \E s \in Streams, built \in BOOLEAN : Attempt(s, built)
<1>1. ASSUME NEW s \in Streams, NEW built \in BOOLEAN, NEW reason \in DropReasons,
             NoteDrop(s, reason, built)
      PROVE  Extends(s) \/ Opens(s, built)
  BY <1>1 DEF NoteDrop, OpenNewLoss, Extends, Opens
<1>2. ASSUME NEW s \in Streams, NEW built \in BOOLEAN, NEW terminal \in BOOLEAN,
             AcceptRecord(s, terminal, built)
      PROVE  Opens(s, built) \/ Accepts(s, built)
  BY <1>2 DEF AcceptRecord, OpenNewLoss, QueuedAfterLoss, Opens, Accepts, DropReasons
<1>3. ASSUME NEW s \in Streams, NEW terminal \in BOOLEAN, NEW built \in BOOLEAN,
             WriteRecord(s, terminal, built)
      PROVE  Attempt(s, built)
  <2>1. (\E reason \in DropReasons : NoteDrop(s, reason, built))
          \/ AcceptRecord(s, terminal, built)
    BY <1>3 DEF WriteRecord, DropReasons
  <2> QED
    BY <1>1, <1>2, <1>3, <2>1 DEF WriteRecord, Attempt, Accepting
<1>4. ASSUME NEW reason \in DropReasons, DropProfileRecord(reason)
      PROVE  "profile" \in Streams /\ Attempt("profile", TRUE)
  BY <1>1, <1>4 DEF DropProfileRecord, Attempt, Accepting
<1> QED
  BY <1>3, <1>4 DEF Produce

\* Everything else a step can do to the queue, the open losses and the digests.
LEMMA OtherSteps ==
  ASSUME IInv, [Next]_vars, ~Produce, ~RecordWritten,
         ~\E built \in BOOLEAN : RequestClose(built)
  PROVE  /\ UNCHANGED <<openLoss, hashed, attempted, written, writtenLoss>>
         /\ \/ pending' = pending
            \/ pending' = <<>> /\ (pc' \in Ended \cup {"controls"} \/ abandoned')
<1> USE DEF flagVars, resultVars, queueVars, producerVars, countVars, shardVars, Ended
<1>1. CASE TakeBatch \/ BeginWrite \/ WriteBytes \/ WriterAbandons \/ CutoffReached
             \/ StartDrain \/ BeginSummary \/ Publish
  BY <1>1 DEF TakeBatch, BeginWrite, WriteBytes, WriterAbandons, CutoffReached, StartDrain,
              BeginSummary, Publish
<1>2. CASE WriteFails \/ FinishDrained \/ PublishFails
  BY <1>2 DEF WriteFails, FinishDrained, PublishFails, MarkWriterFailure, DiscardQueue
<1>3. CASE PrepareTimeoutControls \/ DropTimeoutControls
  BY <1>3 DEF PrepareTimeoutControls, DropTimeoutControls
<1>4. CASE \/ CheckSummary \/ FinalizeSummary \/ Commit \/ Retract \/ Withhold
           \/ \E s \in Streams : WriteSummary(s) \/ SummaryFails(s)
  BY <1>4 DEF CheckSummary, FinalizeSummary, Commit, Retract, Withhold, WriteSummary,
              SummaryFails
<1>5. CASE DeadlinePasses \/ CloseAfterFailure \/ ForceTimeout \/ LockFreeTimeout
  BY <1>5 DEF DeadlinePasses, CloseAfterFailure, ForceTimeout, LockFreeTimeout, DiscardQueue
<1>6. CASE UNCHANGED vars
  BY <1>6 DEF vars
<1> QED
  BY <1>1, <1>2, <1>3, <1>4, <1>5, <1>6 DEF Next, Writer, Close, Terminated

--------------------------------------------------------------------------------
(* Loss intervals have their account                                       *)

ControlInv ==
  /\ pc # "controls" => \A s \in Streams : timeoutControls[s] = 0
  /\ ControlConservation

\* n intervals numbered: w in the shard, d dropped, t held and p queued, before
\* and after a step that puts f of them into the queue or takes f out of it.
LEMMA Balance ==
  ASSUME NEW n \in Nat, NEW m \in Nat, NEW w \in Nat, NEW d \in Nat, NEW e \in Nat,
         NEW t \in Nat, NEW p \in Nat, NEW q \in Nat, NEW f \in Nat,
         n = w + d + t + p, m + d = n + e + f, q = p + f
  PROVE  m = w + e + t + q
OBVIOUS

\* The loss records in a queue into which stream s was sealed.
LEMMA SealIntoLosses ==
  ASSUME TypeOK, NEW q \in Seq(Record), NEW s, NEW built \in BOOLEAN, NEW u \in Streams
  PROVE  /\ SealInto(q, s, built) \in Seq(Record)
         /\ HowMany(q, LossOf(u)) \in Nat
         /\ HowMany(SealInto(q, s, built), LossOf(u))
              = HowMany(q, LossOf(u)) + (IF u = s /\ SealFits(s, built) THEN 1 ELSE 0)
<1>1. HowMany(q, LossOf(u)) \in Nat
  BY HowManyType
<1>2. CASE SealFits(s, built)
  <2>1. s \in Streams
    BY <1>2 DEF SealFits
  <2>2. LossRecord(s) \in Record /\ (LossRecord(s) \in LossOf(u) <=> u = s)
    <3>1. LossRecord(s) \in Record
      BY <2>1, RecordKinds
    <3> QED
      BY <3>1 DEF LossOf, LossRecord
  <2>3. SealInto(q, s, built) = Append(q, LossRecord(s))
    BY <1>2 DEF SealInto
  <2>4. HowMany(Append(q, LossRecord(s)), LossOf(u))
          = HowMany(q, LossOf(u)) + (IF LossRecord(s) \in LossOf(u) THEN 1 ELSE 0)
    BY <2>2, HowManyAppend
  <2> QED
    BY <1>1, <1>2, <2>2, <2>3, <2>4, AppendProperties
<1>3. CASE ~SealFits(s, built)
  BY <1>1, <1>3 DEF SealInto
<1> QED
  BY <1>2, <1>3

\* Sealing stream s uses up a number and puts the interval somewhere.
LEMMA SealBalances ==
  ASSUME TypeOK, NEW s \in Streams, NEW built \in BOOLEAN
  PROVE  NextLossAfterSeal(s) + droppedControl[s]
           = nextLoss[s] + SealedControlDrops(s, built) + (IF SealFits(s, built) THEN 1 ELSE 0)
<1>1. SealFits(s, built) => openLoss[s] # NoLoss
  BY DEF SealFits
<1> QED
  BY <1>1, CounterTypes DEF NextLossAfterSeal, SealedControlDrops

LEMMA ControlAttempt ==
  ASSUME IInv, ControlInv, NEW s \in Streams, NEW built \in BOOLEAN, Attempt(s, built)
  PROVE  ControlInv'
<1>1. TypeOK /\ pending \in Seq(Record)
  BY DEF IInv, TypeOK
<1>2. UNCHANGED <<pc, timeoutControls, writtenLoss>>
  BY DEF Attempt
<1>3. SUFFICES ASSUME pc \in {"loop", "batch", "writing", "wrote", "timeout", "controls",
                              "drain"},
                      NEW u \in Streams
               PROVE  nextLoss'[u] = writtenLoss[u] + droppedControl'[u] + timeoutControls[u]
                                     + HowMany(pending', LossOf(u))
  BY <1>2 DEF ControlInv, ControlConservation
<1>4. nextLoss[u] = writtenLoss[u] + droppedControl[u] + timeoutControls[u]
                    + HowMany(pending, LossOf(u))
  BY <1>3 DEF ControlInv, ControlConservation
<1>5. CASE Extends(s)
  BY <1>4, <1>5 DEF Extends
<1>6. CASE Opens(s, built) \/ Accepts(s, built)
  <2> DEFINE q == SealInto(pending, s, built)
             fits == IF u = s /\ SealFits(s, built) THEN 1 ELSE 0
  <2>1. q \in Seq(Record) /\ HowMany(pending, LossOf(u)) \in Nat
        /\ HowMany(q, LossOf(u)) = HowMany(pending, LossOf(u)) + fits
    BY <1>1, SealIntoLosses
  <2>2. HowMany(pending', LossOf(u)) = HowMany(q, LossOf(u))
    <3>1. CASE Opens(s, built)
      BY <3>1 DEF Opens
    <3>2. CASE Accepts(s, built)
      <4>1. PICK terminal \in BOOLEAN : pending' = Append(q, DataRecord(s, attempted[s], terminal))
        BY <3>2 DEF Accepts
      <4>2. /\ DataRecord(s, attempted[s], terminal) \in Record
            /\ DataRecord(s, attempted[s], terminal) \notin LossOf(u)
        BY <1>1, RecordKinds DEF LossOf, DataRecord
      <4>3. HowMany(q, LossOf(u)) \in Nat
        BY <2>1, HowManyType
      <4>4. HowMany(pending', LossOf(u)) = HowMany(q, LossOf(u)) + 0
        BY <2>1, <4>1, <4>2, HowManyAppend
      <4> QED
        BY <4>3, <4>4
    <3> QED
      BY <1>6, <3>1, <3>2
  <2>3. nextLoss \in [Streams -> Nat] /\ droppedControl \in [Streams -> Nat]
    BY <1>1 DEF TypeOK, PerStream
  <2>4. /\ nextLoss'[u] = IF u = s THEN NextLossAfterSeal(s) ELSE nextLoss[u]
        /\ droppedControl'[u] = IF u = s THEN SealedControlDrops(s, built)
                                ELSE droppedControl[u]
    BY <1>6, <2>3 DEF Opens, Accepts, SealLoss
  <2>5. nextLoss'[u] + droppedControl[u] = nextLoss[u] + droppedControl'[u] + fits
    <3>1. CASE u = s
      BY <1>1, <2>4, <3>1, SealBalances
    <3>2. CASE u # s
      BY <2>3, <2>4, <3>2
    <3> QED
      BY <3>1, <3>2
  <2>6. /\ nextLoss[u] \in Nat /\ droppedControl[u] \in Nat /\ writtenLoss[u] \in Nat
        /\ timeoutControls[u] \in Nat
    BY <1>1, CounterTypes
  <2>7. nextLoss'[u] \in Nat /\ droppedControl'[u] \in Nat /\ fits \in {0, 1}
    BY <1>1, <2>4, <2>6, SealFitsReserve DEF IInv
  <2> HIDE DEF q, fits
  <2>8. /\ HowMany(pending', LossOf(u)) = HowMany(pending, LossOf(u)) + fits
        /\ HowMany(pending', LossOf(u)) \in Nat /\ fits \in Nat
    BY <2>1, <2>2, <2>7
  <2> DEFINE n == nextLoss[u]
             m == nextLoss'[u]
             w == writtenLoss[u]
             d == droppedControl[u]
             e == droppedControl'[u]
             c == timeoutControls[u]
             x == HowMany(pending, LossOf(u))
             y == HowMany(pending', LossOf(u))
  <2>20. /\ n \in Nat /\ m \in Nat /\ w \in Nat /\ d \in Nat /\ e \in Nat /\ c \in Nat
          /\ x \in Nat /\ y \in Nat /\ fits \in Nat
          /\ n = w + d + c + x /\ m + d = n + e + fits /\ y = x + fits
    BY <1>4, <2>1, <2>5, <2>6, <2>7, <2>8
  <2> HIDE DEF n, m, w, d, e, c, x, y
  <2>21. m = w + e + c + y
    BY <2>20, Balance
  <2> QED
    BY <2>21 DEF m, w, e, c, y
<1> QED
  BY <1>5, <1>6 DEF Attempt

LEMMA ControlWritten ==
  ASSUME IInv, ControlInv, RecordWritten
  PROVE  ControlInv'
<1>1. /\ TypeOK /\ pending \in Seq(Record) /\ current \in Record
      /\ inflight > 0 /\ inflight <= Len(pending) /\ inflight \in Nat /\ Head(pending) = current
  BY DEF IInv, TypeOK, InflightMatchesBatch, RecordWritten
<1>2. pending # <<>>
  BY <1>1, EmptySeq
<1>3. /\ UNCHANGED <<timeoutControls, nextLoss, droppedControl>> /\ pending' = Tail(pending)
      /\ pc = "wrote" /\ pc' \in {"loop", "batch"}
      /\ writtenLoss' = [writtenLoss EXCEPT ![current.stream] =
                           @ + (IF current.kind = "loss" THEN 1 ELSE 0)]
  BY DEF RecordWritten, producerVars
<1>4. ASSUME NEW u \in Streams
      PROVE  nextLoss'[u] = writtenLoss'[u] + droppedControl'[u] + timeoutControls'[u]
                            + HowMany(pending', LossOf(u))
  <2> DEFINE one == IF current \in LossOf(u) THEN 1 ELSE 0
  <2>1. nextLoss[u] = writtenLoss[u] + droppedControl[u] + timeoutControls[u]
                      + HowMany(pending, LossOf(u))
    BY <1>3 DEF ControlInv, ControlConservation
  <2>2. HowMany(pending, LossOf(u)) = HowMany(pending', LossOf(u)) + one
    BY <1>1, <1>2, <1>3, HowManyTail
  <2>3. writtenLoss'[u] = writtenLoss[u] + one
    <3>1. writtenLoss \in [Streams -> Nat] /\ current.stream \in Streams
      BY <1>1, RecordFields DEF TypeOK, PerStream
    <3>2. current \in LossOf(u) <=> u = current.stream /\ current.kind = "loss"
      BY <1>1 DEF LossOf
    <3> QED
      BY <1>3, <3>1, <3>2
  <2>4. HowMany(pending', LossOf(u)) \in Nat /\ one \in {0, 1}
    BY <1>1, <1>2, <1>3, HowManyType, HeadTailProperties
  <2>5. /\ nextLoss[u] \in Nat /\ droppedControl[u] \in Nat /\ writtenLoss[u] \in Nat
        /\ timeoutControls[u] \in Nat
    BY <1>1, CounterTypes
  <2>6. /\ nextLoss'[u] = nextLoss[u] /\ droppedControl'[u] = droppedControl[u]
        /\ timeoutControls'[u] = timeoutControls[u]
    BY <1>3
  <2> DEFINE a == nextLoss[u]
             w == writtenLoss[u]
             d == droppedControl[u]
             c == timeoutControls[u]
             x == HowMany(pending', LossOf(u))
  <2>7. a = w + d + c + (x + one) /\ a \in Nat /\ w \in Nat /\ d \in Nat /\ c \in Nat
        /\ x \in Nat /\ one \in Nat
    BY <2>1, <2>2, <2>4, <2>5
  <2>8. /\ nextLoss'[u] = a /\ droppedControl'[u] = d /\ timeoutControls'[u] = c
        /\ writtenLoss'[u] = w + one
    BY <2>3, <2>6
  <2> HIDE DEF one, a, w, d, c
  <2>9. a = (w + one) + d + c + x
    <3> HIDE DEF x
    <3> QED BY <2>7
  <2> QED
    BY <2>8, <2>9
<1> QED
  BY <1>3, <1>4 DEF ControlInv, ControlConservation

LEMMA ControlClose ==
  ASSUME IInv, ControlInv, NEW built \in BOOLEAN, RequestClose(built)
  PROVE  ControlInv'
<1> DEFINE q == SealInto(pending, "base", built)
           p == SealInto(q, "profile", built)
<1>1. TypeOK /\ pending \in Seq(Record)
  BY DEF IInv, TypeOK
<1>2. /\ UNCHANGED <<timeoutControls, writtenLoss, pc>> /\ pending' = p
      /\ nextLoss' = [s \in Streams |-> NextLossAfterSeal(s)]
      /\ droppedControl' = [s \in Streams |-> SealedControlDrops(s, built)]
  BY DEF RequestClose
<1>3. SUFFICES ASSUME pc \in {"loop", "batch", "writing", "wrote", "timeout", "controls",
                              "drain"},
                      NEW u \in Streams
               PROVE  nextLoss'[u] = writtenLoss[u] + droppedControl'[u] + timeoutControls[u]
                                     + HowMany(pending', LossOf(u))
  BY <1>2 DEF ControlInv, ControlConservation
<1>4. nextLoss[u] = writtenLoss[u] + droppedControl[u] + timeoutControls[u]
                    + HowMany(pending, LossOf(u))
  BY <1>3 DEF ControlInv, ControlConservation
<1>5. /\ q \in Seq(Record) /\ HowMany(pending, LossOf(u)) \in Nat
      /\ HowMany(q, LossOf(u)) = HowMany(pending, LossOf(u))
           + (IF u = "base" /\ SealFits("base", built) THEN 1 ELSE 0)
  BY <1>1, SealIntoLosses
<1>6. HowMany(p, LossOf(u)) = HowMany(q, LossOf(u))
        + (IF u = "profile" /\ SealFits("profile", built) THEN 1 ELSE 0)
  BY <1>1, <1>5, SealIntoLosses
<1> HIDE DEF p, q
<1>7. HowMany(p, LossOf(u)) = HowMany(pending, LossOf(u))
        + (IF SealFits(u, built) THEN 1 ELSE 0)
  <2>1. CASE u = "base"
    BY <1>5, <1>6, <2>1
  <2>2. CASE u = "profile"
    BY <1>5, <1>6, <2>2
  <2> QED
    BY <2>1, <2>2, StreamsAssumption
<1>8. NextLossAfterSeal(u) + droppedControl[u]
        = nextLoss[u] + SealedControlDrops(u, built) + (IF SealFits(u, built) THEN 1 ELSE 0)
  BY <1>1, SealBalances
<1>9. /\ NextLossAfterSeal(u) \in Nat /\ SealedControlDrops(u, built) \in Nat
      /\ nextLoss[u] \in Nat /\ droppedControl[u] \in Nat /\ writtenLoss[u] \in Nat
      /\ timeoutControls[u] \in Nat
  BY <1>1, SealFitsReserve, CounterTypes DEF IInv
<1>10. nextLoss'[u] = NextLossAfterSeal(u) /\ droppedControl'[u] = SealedControlDrops(u, built)
  BY <1>2
<1> DEFINE fits == IF SealFits(u, built) THEN 1 ELSE 0
<1>11. fits \in Nat /\ HowMany(pending', LossOf(u)) = HowMany(pending, LossOf(u)) + fits
       /\ nextLoss'[u] + droppedControl[u] = nextLoss[u] + droppedControl'[u] + fits
       /\ nextLoss'[u] \in Nat /\ droppedControl'[u] \in Nat
  BY <1>2, <1>7, <1>8, <1>9, <1>10
<1> HIDE DEF fits
<1>12. HowMany(pending', LossOf(u)) \in Nat
  BY <1>5, <1>11
<1> DEFINE n == nextLoss[u]
           m == nextLoss'[u]
           w == writtenLoss[u]
           d == droppedControl[u]
           e == droppedControl'[u]
           c == timeoutControls[u]
           x == HowMany(pending, LossOf(u))
           y == HowMany(pending', LossOf(u))
<1>20. /\ n \in Nat /\ m \in Nat /\ w \in Nat /\ d \in Nat /\ e \in Nat /\ c \in Nat
        /\ x \in Nat /\ y \in Nat /\ fits \in Nat
        /\ n = w + d + c + x /\ m + d = n + e + fits /\ y = x + fits
  BY <1>4, <1>5, <1>9, <1>11, <1>12
<1> HIDE DEF n, m, w, d, e, c, x, y
<1>21. m = w + e + c + y
  BY <1>20, Balance
<1> QED
  BY <1>21 DEF m, w, e, c, y

\* _prepare_timeout_controls_locked and _force_timeout_accounting_locked.
LEMMA ControlTimeout ==
  ASSUME IInv, ControlInv, PrepareTimeoutControls \/ ForceTimeout
  PROVE  ControlInv'
<1>1. TypeOK /\ pending \in Seq(Record) /\ pending' = <<>>
  BY DEF IInv, TypeOK, PrepareTimeoutControls, ForceTimeout, DiscardQueue
<1>2. \A u \in Streams : HowMany(pending', LossOf(u)) = 0 /\ HowMany(pending, LossOf(u)) \in Nat
  BY <1>1, HowManyEmpty, HowManyType
<1>3. CASE PrepareTimeoutControls
  <2>1. /\ pc = "timeout" /\ pc' = "controls" /\ writtenLoss' = writtenLoss
        /\ timeoutControls' = [s \in Streams |-> Admitted(TimeoutControls(s))]
        /\ droppedControl' = [s \in Streams |-> droppedControl[s] + TimeoutControls(s)
                                                  - Admitted(TimeoutControls(s))]
        /\ nextLoss' = [s \in Streams |-> nextLoss[s] + PendingRuns(s)]
    BY <1>3 DEF PrepareTimeoutControls
  <2>2. ASSUME NEW u \in Streams
        PROVE  nextLoss'[u] = writtenLoss'[u] + droppedControl'[u] + timeoutControls'[u]
                              + HowMany(pending', LossOf(u))
    <3>1. /\ nextLoss[u] = writtenLoss[u] + droppedControl[u] + timeoutControls[u]
                           + HowMany(pending, LossOf(u))
          /\ timeoutControls[u] = 0
      BY <2>1 DEF ControlInv, ControlConservation
    <3>2. PendingRuns(u) \in Nat /\ TimeoutControls(u) = HowMany(pending, LossOf(u)) + PendingRuns(u)
      BY <1>1, PendingRunsType DEF TimeoutControls
    <3>3. Admitted(TimeoutControls(u)) \in Nat
      BY <1>2, <3>2, CapacityAssumption DEF Admitted
    <3>4. /\ nextLoss'[u] = nextLoss[u] + PendingRuns(u)
          /\ timeoutControls'[u] = Admitted(TimeoutControls(u))
          /\ droppedControl'[u] = droppedControl[u] + TimeoutControls(u)
                                  - Admitted(TimeoutControls(u))
      BY <2>1
    <3> DEFINE n == nextLoss[u]
               w == writtenLoss[u]
               d == droppedControl[u]
               x == HowMany(pending, LossOf(u))
               runs == PendingRuns(u)
               a == Admitted(TimeoutControls(u))
    <3>5. n \in Nat /\ w \in Nat /\ d \in Nat
      BY <1>1, CounterTypes
    <3>6. /\ x \in Nat /\ runs \in Nat /\ a \in Nat /\ n = w + d + x
          /\ nextLoss'[u] = n + runs /\ writtenLoss'[u] = w
          /\ droppedControl'[u] = d + (x + runs) - a /\ timeoutControls'[u] = a
          /\ HowMany(pending', LossOf(u)) = 0
      BY <1>2, <2>1, <3>1, <3>2, <3>3, <3>4, <3>5
    <3> HIDE DEF n, w, d, x, runs, a
    <3> QED
      BY <3>5, <3>6
  <2> QED
    BY <2>1, <2>2 DEF ControlInv, ControlConservation
<1>4. CASE ForceTimeout
  <2>1. /\ UNCHANGED <<pc, nextLoss, writtenLoss>>
        /\ timeoutControls' = [s \in Streams |-> 0]
        /\ droppedControl' = [s \in Streams |-> droppedControl[s]
                                + HowMany(pending, LossOf(s)) + timeoutControls[s]]
    BY <1>4 DEF ForceTimeout, DiscardQueue, producerVars
  <2>2. ASSUME NEW u \in Streams,
               nextLoss[u] = writtenLoss[u] + droppedControl[u] + timeoutControls[u]
                             + HowMany(pending, LossOf(u))
        PROVE  nextLoss'[u] = writtenLoss'[u] + droppedControl'[u] + timeoutControls'[u]
                              + HowMany(pending', LossOf(u))
    <3>1. /\ timeoutControls'[u] = 0
          /\ droppedControl'[u] = droppedControl[u] + HowMany(pending, LossOf(u))
                                  + timeoutControls[u]
      BY <2>1
    <3> QED
      BY <1>1, <1>2, <2>1, <2>2, <3>1, CounterTypes
  <2> QED
    BY <2>1, <2>2 DEF ControlInv, ControlConservation
<1> QED
  BY <1>3, <1>4

\* The steps after which the writer is not in its loop, or that leave all
\* counters of controls alone.
LEMMA ControlOthers ==
  ASSUME IInv, ControlInv, [Next]_vars, ~Produce, ~RecordWritten, ~PrepareTimeoutControls,
         ~ForceTimeout, ~\E built \in BOOLEAN : RequestClose(built)
  PROVE  ControlInv'
<1> USE DEF flagVars, resultVars, queueVars, producerVars, countVars, shardVars,
            ControlInv, ControlConservation
<1>1. CASE TakeBatch \/ BeginWrite \/ WriteBytes \/ WriterAbandons \/ CutoffReached
             \/ StartDrain \/ BeginSummary \/ Publish
  BY <1>1 DEF TakeBatch, BeginWrite, WriteBytes, WriterAbandons, CutoffReached, StartDrain,
              BeginSummary, Publish
<1>2. CASE WriteFails \/ FinishDrained \/ PublishFails
  BY <1>2 DEF WriteFails, FinishDrained, PublishFails, MarkWriterFailure, DiscardQueue
<1>3. CASE DropTimeoutControls
  BY <1>3 DEF DropTimeoutControls
<1>4. CASE \/ CheckSummary \/ FinalizeSummary \/ Commit \/ Retract \/ Withhold
           \/ \E s \in Streams : WriteSummary(s) \/ SummaryFails(s)
  BY <1>4 DEF CheckSummary, FinalizeSummary, Commit, Retract, Withhold, WriteSummary,
              SummaryFails
<1>5. CASE DeadlinePasses \/ CloseAfterFailure \/ LockFreeTimeout
  BY <1>5 DEF DeadlinePasses, CloseAfterFailure, LockFreeTimeout
<1>6. CASE UNCHANGED vars
  BY <1>6 DEF vars
<1> QED
  BY <1>1, <1>2, <1>3, <1>4, <1>5, <1>6 DEF Next, Writer, Close, Terminated

LEMMA ControlNext ==
  ASSUME IInv, ControlInv, [Next]_vars
  PROVE  ControlInv'
<1>1. CASE Produce
  BY <1>1, Attempts, ControlAttempt
<1>2. CASE RecordWritten
  BY <1>2, ControlWritten
<1>3. CASE \E built \in BOOLEAN : RequestClose(built)
  BY <1>3, ControlClose
<1>4. CASE PrepareTimeoutControls \/ ForceTimeout
  BY <1>4, ControlTimeout
<1> QED
  BY <1>1, <1>2, <1>3, <1>4, ControlOthers

\* Until the summary every sealed loss interval of _seal_loss_locked is in the
\* shard, queued, held for the timeout or counted as a dropped control.
THEOREM NoIntervalLost ==
  Spec => []ControlConservation
<1>1. Init => ControlInv
  <2>1. ASSUME Init PROVE \A s \in Streams : HowMany(pending, LossOf(s)) = 0
    BY <2>1, HowManyEmpty DEF Init
  <2>2. ASSUME Init, NEW s \in Streams
        PROVE  /\ nextLoss[s] = 0 /\ writtenLoss[s] = 0 /\ droppedControl[s] = 0
               /\ timeoutControls[s] = 0 /\ HowMany(pending, LossOf(s)) = 0
    BY <2>1, <2>2 DEF Init
  <2>3. ASSUME Init, NEW s \in Streams
        PROVE  nextLoss[s] = writtenLoss[s] + droppedControl[s] + timeoutControls[s]
                             + HowMany(pending, LossOf(s))
    BY <2>2, <2>3, 0 = 0 + 0 + 0 + 0
  <2> QED
    BY <2>2, <2>3 DEF ControlInv, ControlConservation
<1>2. IInv /\ ControlInv /\ [Next]_vars => ControlInv'
  BY ControlNext
<1>3. ControlInv => ControlConservation
  BY DEF ControlInv
<1> QED
  BY <1>1, <1>2, <1>3, Invariance, PTL DEF Spec

--------------------------------------------------------------------------------
(* Sequence numbers have their place                                       *)

InOrder(s) == Ordered(hashed[s], pending, s, openLoss[s], attempted[s])
Whole(s) == Tiled(hashed[s], pending, s, openLoss[s], attempted[s])
Points(q) == \A j \in 1..Len(q) : Point(q[j])

\* A step keeps the numbers of stream s in order, and complete unless it drops a
\* control.
Keeps(s) ==
  /\ InOrder(s) => InOrder(s)'
  /\ InOrder(s) /\ Whole(s) /\ droppedControl'[s] = 0 => Whole(s)'
  /\ droppedControl'[s] = 0 => droppedControl[s] = 0

\* What sealing does to the numbers of the sealed stream, and of another.
LEMMA SealKeeps ==
  ASSUME TypeOK, NEW h \in Seq(Record), NEW q \in Seq(Record), NEW s \in Streams,
         NEW built \in BOOLEAN, NEW n \in Nat
  PROVE  LET p == SealInto(q, s, built) IN
         /\ p \in Seq(Record)
         /\ Ordered(h, q, s, openLoss[s], n) => Ordered(h, p, s, NoLoss, n)
         /\ Tiled(h, q, s, openLoss[s], n) /\ SealedControlDrops(s, built) = 0
              => Tiled(h, p, s, NoLoss, n)
<1> DEFINE p == SealInto(q, s, built)
<1>1. p \in Seq(Record)
  BY SealIntoLosses
<1>2. CASE SealFits(s, built)
  <2>1. openLoss[s] # NoLoss /\ p = Append(q, LossRecord(s))
    BY <1>2 DEF SealFits, SealInto
  <2>2. /\ LossRecord(s) \in Record /\ LossRecord(s).stream = s
        /\ LossRecord(s).first = openLoss[s].first /\ LossRecord(s).last = openLoss[s].last
    <3>1. LossRecord(s) \in Record
      BY RecordKinds
    <3> QED
      BY <3>1 DEF LossRecord
  <2> QED
    BY <1>1, <2>1, <2>2, AppendSealed
<1>3. CASE ~SealFits(s, built)
  <2>1. p = q
    BY <1>3 DEF SealInto
  <2>2. SealedControlDrops(s, built) = 0 => openLoss[s] = NoLoss
    BY <1>3, CounterTypes DEF SealedControlDrops
  <2> QED
    BY <1>1, <2>1, <2>2, OrderedForgets
<1> QED
  BY <1>2, <1>3

LEMMA SealKeepsOther ==
  ASSUME TypeOK, NEW h \in Seq(Record), NEW q \in Seq(Record), NEW s,
         NEW built \in BOOLEAN, NEW n \in Nat, NEW u \in Streams, u # s, NEW o
  PROVE  LET p == SealInto(q, s, built) IN
         /\ p \in Seq(Record)
         /\ Ordered(h, q, u, o, n) => Ordered(h, p, u, o, n)
         /\ Tiled(h, q, u, o, n) => Tiled(h, p, u, o, n)
<1> DEFINE p == SealInto(q, s, built)
<1>1. p \in Seq(Record)
  BY SealIntoLosses
<1>2. CASE SealFits(s, built)
  <2>1. s \in Streams /\ p = Append(q, LossRecord(s))
    BY <1>2 DEF SealFits, SealInto
  <2>2. LossRecord(s) \in Record /\ LossRecord(s).stream # u
    <3>1. LossRecord(s) \in Record
      BY <2>1, RecordKinds
    <3> QED
      BY <3>1 DEF LossRecord
  <2> QED
    BY <1>1, <2>1, <2>2, AppendOther
<1>3. CASE ~SealFits(s, built)
  BY <1>1, <1>3 DEF SealInto
<1> QED
  BY <1>2, <1>3

LEMMA SealKeepsPoints ==
  ASSUME TypeOK, NEW q \in Seq(Record), NEW s, NEW built \in BOOLEAN, Points(q)
  PROVE  Points(SealInto(q, s, built))
<1>1. CASE SealFits(s, built)
  <2>1. s \in Streams /\ SealInto(q, s, built) = Append(q, LossRecord(s))
    BY <1>1 DEF SealFits, SealInto
  <2>2. LossRecord(s) \in Record /\ Point(LossRecord(s))
    <3>1. LossRecord(s) \in Record
      BY <2>1, RecordKinds
    <3> QED
      BY <3>1 DEF LossRecord, Point
  <2> QED
    BY <2>1, <2>2, Appended DEF Points
<1>2. CASE ~SealFits(s, built)
  BY <1>2 DEF SealInto
<1> QED
  BY <1>1, <1>2

LEMMA AttemptKeepsPoints ==
  ASSUME IInv, NEW s \in Streams, NEW built \in BOOLEAN, Attempt(s, built), Points(pending)
  PROVE  Points(pending')
<1>1. TypeOK /\ pending \in Seq(Record)
  BY DEF IInv, TypeOK
<1>2. CASE Extends(s)
  BY <1>2 DEF Extends
<1>3. CASE Opens(s, built)
  BY <1>1, <1>3, SealKeepsPoints DEF Opens
<1>4. CASE Accepts(s, built)
  <2> DEFINE q == SealInto(pending, s, built)
  <2>1. PICK terminal \in BOOLEAN : pending' = Append(q, DataRecord(s, attempted[s], terminal))
    BY <1>4 DEF Accepts
  <2>2. q \in Seq(Record) /\ Points(q)
    BY <1>1, SealIntoLosses, SealKeepsPoints
  <2>3. /\ DataRecord(s, attempted[s], terminal) \in Record
        /\ Point(DataRecord(s, attempted[s], terminal))
    BY <1>1, RecordKinds DEF DataRecord, Point
  <2> HIDE DEF q
  <2> QED
    BY <2>1, <2>2, <2>3, Appended DEF Points
<1> QED
  BY <1>2, <1>3, <1>4 DEF Attempt

LEMMA AttemptKeepsOthers ==
  ASSUME IInv, NEW s \in Streams, NEW built \in BOOLEAN, Attempt(s, built),
         NEW u \in Streams, u # s
  PROVE  Keeps(u)
<1>1. /\ TypeOK /\ pending \in Seq(Record) /\ hashed[u] \in Seq(Record) /\ attempted[u] \in Nat
      /\ openLoss \in [Streams -> Losses] /\ droppedControl \in [Streams -> Nat]
      /\ attempted \in [Streams -> Nat]
  BY DEF IInv, TypeOK, PerStream
<1>2. /\ hashed'[u] = hashed[u] /\ openLoss'[u] = openLoss[u] /\ attempted'[u] = attempted[u]
      /\ droppedControl'[u] = droppedControl[u]
  BY <1>1 DEF Attempt, Extends, Opens, Accepts, SealLoss, shardVars
<1>3. SUFFICES /\ Ordered(hashed[u], pending, u, openLoss[u], attempted[u])
                    => Ordered(hashed[u], pending', u, openLoss[u], attempted[u])
               /\ Tiled(hashed[u], pending, u, openLoss[u], attempted[u])
                    => Tiled(hashed[u], pending', u, openLoss[u], attempted[u])
  BY <1>2 DEF Keeps, InOrder, Whole
<1> DEFINE q == SealInto(pending, s, built)
<1>4. /\ q \in Seq(Record)
      /\ Ordered(hashed[u], pending, u, openLoss[u], attempted[u])
           => Ordered(hashed[u], q, u, openLoss[u], attempted[u])
      /\ Tiled(hashed[u], pending, u, openLoss[u], attempted[u])
           => Tiled(hashed[u], q, u, openLoss[u], attempted[u])
  BY <1>1, SealKeepsOther
<1>5. CASE Extends(s)
  BY <1>5 DEF Extends
<1>6. CASE Opens(s, built)
  BY <1>4, <1>6 DEF Opens
<1>7. CASE Accepts(s, built)
  <2>1. PICK terminal \in BOOLEAN : pending' = Append(q, DataRecord(s, attempted[s], terminal))
    BY <1>7 DEF Accepts
  <2>2. /\ DataRecord(s, attempted[s], terminal) \in Record
        /\ DataRecord(s, attempted[s], terminal).stream # u
    <3>1. DataRecord(s, attempted[s], terminal) \in Record
      BY <1>1, RecordKinds
    <3> QED
      BY <3>1 DEF DataRecord
  <2> HIDE DEF q
  <2> QED
    BY <1>1, <1>4, <2>1, <2>2, AppendOther
<1> QED
  BY <1>5, <1>6, <1>7 DEF Attempt

LEMMA AttemptKeepsOwn ==
  ASSUME IInv, NEW s \in Streams, NEW built \in BOOLEAN, Attempt(s, built)
  PROVE  Keeps(s)
<1> DEFINE n == attempted[s]
           h == hashed[s]
           q == SealInto(pending, s, built)
<1>1. /\ TypeOK /\ pending \in Seq(Record) /\ h \in Seq(Record) /\ n \in Nat
      /\ openLoss[s] \in Losses /\ openLoss \in [Streams -> Losses]
      /\ droppedControl \in [Streams -> Nat] /\ attempted \in [Streams -> Nat]
  BY DEF IInv, TypeOK, PerStream
<1>2. hashed'[s] = h /\ attempted'[s] = n + 1
  BY <1>1 DEF Attempt, shardVars
<1>3. CASE Extends(s)
  <2>1. PICK reason \in DropReasons :
          /\ ExtendsOpenLoss(s, reason)
          /\ openLoss' = [openLoss EXCEPT ![s] =
                            [reason |-> reason, first |-> openLoss[s].first, last |-> n]]
          /\ UNCHANGED <<nextLoss, droppedControl, pending>>
    BY <1>3 DEF Extends
  <2> DEFINE w == [reason |-> reason, first |-> openLoss[s].first, last |-> n]
  <2>2. openLoss'[s] = w /\ w \in Losses /\ w # NoLoss /\ w.last = n /\ w.first = openLoss[s].first
    BY <1>1, <2>1 DEF Losses, NoLoss, DropReasons
  <2>3. openLoss[s] # NoLoss /\ openLoss[s].last + 1 = n
    BY <1>1, <2>1 DEF ExtendsOpenLoss, NoLoss, DropReasons, Losses
  <2> HIDE DEF w, n, h
  <2>4. Ordered(h, pending, s, openLoss[s], n) =>
          /\ Ordered(h, pending, s, w, n + 1)
          /\ Tiled(h, pending, s, openLoss[s], n) => Tiled(h, pending, s, w, n + 1)
    BY <1>1, <2>2, <2>3, NextIsLost
  <2> QED
    BY <1>2, <2>1, <2>2, <2>4 DEF Keeps, InOrder, Whole, n, h
<1>4. CASE Opens(s, built) \/ Accepts(s, built)
  <2>1. /\ q \in Seq(Record)
        /\ Ordered(h, pending, s, openLoss[s], n) => Ordered(h, q, s, NoLoss, n)
        /\ Tiled(h, pending, s, openLoss[s], n) /\ SealedControlDrops(s, built) = 0
             => Tiled(h, q, s, NoLoss, n)
    BY <1>1, SealKeeps
  <2>2. droppedControl'[s] = SealedControlDrops(s, built)
    BY <1>1, <1>4 DEF Opens, Accepts, SealLoss
  <2>3. droppedControl'[s] = 0 => droppedControl[s] = 0
    BY <1>1, <2>2 DEF SealedControlDrops
  <2>4. CASE Opens(s, built)
    <3>1. PICK reason \in DropReasons :
            /\ pending' = q
            /\ openLoss' = [openLoss EXCEPT ![s] = [reason |-> reason, first |-> n, last |-> n]]
      BY <2>4 DEF Opens
    <3> DEFINE w == [reason |-> reason, first |-> n, last |-> n]
    <3>2. openLoss'[s] = w /\ w \in Losses /\ w # NoLoss /\ w.last = n /\ w.first = n
      BY <1>1, <3>1 DEF Losses, NoLoss, DropReasons
    <3>3. NoLoss \in Losses
      BY DEF NoLoss, Losses
    <3> HIDE DEF w, n, h, q
    <3>4. Ordered(h, q, s, NoLoss, n) =>
            /\ Ordered(h, q, s, w, n + 1)
            /\ Tiled(h, q, s, NoLoss, n) => Tiled(h, q, s, w, n + 1)
      BY <1>1, <2>1, <3>2, <3>3, NextIsLost
    <3> QED
      BY <1>2, <2>1, <2>2, <2>3, <3>1, <3>2, <3>4 DEF Keeps, InOrder, Whole, n, h
  <2>5. CASE Accepts(s, built)
    <3>1. PICK terminal \in BOOLEAN :
            /\ pending' = Append(q, DataRecord(s, n, terminal))
            /\ openLoss' = [openLoss EXCEPT ![s] = NoLoss]
      BY <2>5 DEF Accepts
    <3> DEFINE r == DataRecord(s, n, terminal)
    <3>2. r \in Record
      BY <1>1, RecordKinds
    <3>3. r.stream = s /\ r.first = n /\ r.last = n
      BY <3>2 DEF DataRecord
    <3>4. openLoss'[s] = NoLoss
      BY <1>1, <3>1
    <3> HIDE DEF r, n, h, q
    <3>5. /\ Ordered(h, q, s, NoLoss, n) => Ordered(h, Append(q, r), s, NoLoss, n + 1)
          /\ Tiled(h, q, s, NoLoss, n) => Tiled(h, Append(q, r), s, NoLoss, n + 1)
      BY <1>1, <2>1, <3>2, <3>3, AppendNext
    <3>6. pending' = Append(q, r)
      BY <3>1 DEF r
    <3> QED
      BY <1>2, <2>1, <2>2, <2>3, <3>4, <3>5, <3>6 DEF Keeps, InOrder, Whole, n, h
  <2> QED
    BY <1>4, <2>4, <2>5
<1> QED
  BY <1>3, <1>4 DEF Attempt

LEMMA WrittenKeeps ==
  ASSUME IInv, RecordWritten, NEW s \in Streams
  PROVE  Keeps(s)
<1>1. /\ TypeOK /\ pending \in Seq(Record) /\ current \in Record
      /\ inflight > 0 /\ inflight <= Len(pending) /\ inflight \in Nat /\ Head(pending) = current
      /\ hashed \in [Streams -> Seq(Record)] /\ attempted[s] \in Nat
  BY DEF IInv, TypeOK, InflightMatchesBatch, RecordWritten, PerStream
<1>2. pending # <<>>
  BY <1>1, EmptySeq
<1>3. /\ UNCHANGED <<openLoss, attempted, droppedControl>> /\ pending' = Tail(pending)
      /\ hashed' = [hashed EXCEPT ![current.stream] = Append(@, current)]
  BY DEF RecordWritten, producerVars, DigestAfter
<1>4. CASE current.stream = s
  <2>1. hashed'[s] = Append(hashed[s], Head(pending))
    BY <1>1, <1>3, <1>4
  <2>2. /\ Ordered(hashed[s], pending, s, openLoss[s], attempted[s]) =>
             Ordered(hashed'[s], Tail(pending), s, openLoss[s], attempted[s])
        /\ Tiled(hashed[s], pending, s, openLoss[s], attempted[s]) =>
             Tiled(hashed'[s], Tail(pending), s, openLoss[s], attempted[s])
    BY <1>1, <1>2, <1>4, <2>1, HeadMoves
  <2> QED
    BY <1>3, <2>2 DEF Keeps, InOrder, Whole
<1>5. CASE current.stream # s
  <2>1. hashed'[s] = hashed[s]
    BY <1>1, <1>3, <1>5
  <2>2. /\ Ordered(hashed[s], pending, s, openLoss[s], attempted[s]) =>
             Ordered(hashed[s], Tail(pending), s, openLoss[s], attempted[s])
        /\ Tiled(hashed[s], pending, s, openLoss[s], attempted[s]) =>
             Tiled(hashed[s], Tail(pending), s, openLoss[s], attempted[s])
    BY <1>1, <1>2, <1>5, OtherHeadMoves
  <2> QED
    BY <1>3, <2>1, <2>2 DEF Keeps, InOrder, Whole
<1> QED
  BY <1>4, <1>5

LEMMA CloseKeeps ==
  ASSUME IInv, NEW built \in BOOLEAN, RequestClose(built), NEW s \in Streams
  PROVE  Keeps(s)
<1> DEFINE n == attempted[s]
           h == hashed[s]
           o == openLoss[s]
           q == SealInto(pending, "base", built)
           p == SealInto(q, "profile", built)
<1>1. /\ TypeOK /\ pending \in Seq(Record) /\ h \in Seq(Record) /\ n \in Nat
      /\ droppedControl \in [Streams -> Nat]
  BY DEF IInv, TypeOK, PerStream
<1>2. /\ pending' = p /\ hashed'[s] = h /\ attempted'[s] = n /\ openLoss'[s] = NoLoss
      /\ droppedControl'[s] = SealedControlDrops(s, built)
  BY DEF RequestClose, shardVars
<1>3. droppedControl'[s] = 0 => droppedControl[s] = 0
  BY <1>1, <1>2 DEF SealedControlDrops
<1>4. /\ Ordered(h, pending, s, o, n) => Ordered(h, p, s, NoLoss, n)
      /\ Tiled(h, pending, s, o, n) /\ SealedControlDrops(s, built) = 0
           => Tiled(h, p, s, NoLoss, n)
  <2>1. CASE s = "base"
    <3>1. /\ q \in Seq(Record)
          /\ Ordered(h, pending, s, o, n) => Ordered(h, q, s, NoLoss, n)
          /\ Tiled(h, pending, s, o, n) /\ SealedControlDrops(s, built) = 0
               => Tiled(h, q, s, NoLoss, n)
      BY <1>1, <2>1, SealKeeps
    <3> HIDE DEF h, o, n, q
    <3>2. /\ Ordered(h, q, s, NoLoss, n) => Ordered(h, p, s, NoLoss, n)
          /\ Tiled(h, q, s, NoLoss, n) => Tiled(h, p, s, NoLoss, n)
      BY <1>1, <2>1, <3>1, SealKeepsOther
    <3> QED
      BY <3>1, <3>2
  <2>2. CASE s = "profile"
    <3>1. /\ q \in Seq(Record)
          /\ Ordered(h, pending, s, o, n) => Ordered(h, q, s, o, n)
          /\ Tiled(h, pending, s, o, n) => Tiled(h, q, s, o, n)
      BY <1>1, <2>2, SealKeepsOther
    <3> HIDE DEF h, n, q
    <3>2. /\ Ordered(h, q, s, o, n) => Ordered(h, p, s, NoLoss, n)
          /\ Tiled(h, q, s, o, n) /\ SealedControlDrops(s, built) = 0
               => Tiled(h, p, s, NoLoss, n)
      BY <1>1, <2>2, <3>1, SealKeeps
    <3> QED
      BY <3>1, <3>2
  <2> QED
    BY <2>1, <2>2, StreamsAssumption
<1> HIDE DEF h, n, o, p
<1> QED
  BY <1>2, <1>3, <1>4 DEF Keeps, InOrder, Whole, h, n, o

LEMMA CloseKeepsPoints ==
  ASSUME IInv, NEW built \in BOOLEAN, RequestClose(built), Points(pending)
  PROVE  Points(pending')
<1>1. TypeOK /\ pending \in Seq(Record)
  BY DEF IInv, TypeOK
<1>2. "base" \in Streams
  BY StreamsAssumption
<1>3. /\ SealInto(pending, "base", built) \in Seq(Record)
      /\ Points(SealInto(pending, "base", built))
  BY <1>1, <1>2, SealIntoLosses, SealKeepsPoints
<1> QED
  BY <1>1, <1>3, SealKeepsPoints DEF RequestClose

\* The digest of a stream holds its own records, and as many as the counters say.
DigestInv ==
  \A s \in Streams :
    /\ \A i \in 1..Len(hashed[s]) : hashed[s][i].stream = s /\ Point(hashed[s][i])
    /\ written[s] = HowMany(hashed[s], DataOf(s))
    /\ writtenLoss[s] = HowMany(hashed[s], LossOf(s))

\* The record that the writer holds follows what the shard has of its stream,
\* also when a closer has emptied the queue behind its back.
CurrentFollows ==
  pc = "writing" =>
    \A i \in 1..Len(hashed[current.stream]) :
      hashed[current.stream][i].last < current.first

OrderInv ==
  /\ \A s \in Streams : InOrder(s)
  /\ Points(pending)
  /\ DigestInv
  /\ CurrentFollows
  /\ ShardInOrder

LEMMA OrderInit ==
  ASSUME Init
  PROVE  OrderInv
<1>1. \A s \in Streams :
        /\ hashed[s] = <<>> /\ file[s] = <<>> /\ openLoss[s] = NoLoss
        /\ written[s] = 0 /\ writtenLoss[s] = 0
        /\ HowMany(hashed[s], DataOf(s)) = 0 /\ HowMany(hashed[s], LossOf(s)) = 0
  BY HowManyEmpty DEF Init
<1>2. pending = <<>> /\ pc = "loop"
  BY DEF Init
<1>3. \A s \in Streams : InOrder(s)
  BY <1>1, <1>2 DEF InOrder, Ordered
<1>4. Points(pending) /\ DigestInv /\ CurrentFollows
  BY <1>1, <1>2 DEF Points, DigestInv, CurrentFollows
<1>5. ShardInOrder
  BY <1>1 DEF ShardInOrder
<1> QED
  BY <1>3, <1>4, <1>5 DEF OrderInv

LEMMA DigestWritten ==
  ASSUME IInv, OrderInv, RecordWritten
  PROVE  DigestInv'
<1>1. /\ TypeOK /\ pending \in Seq(Record) /\ current \in Record
      /\ inflight > 0 /\ inflight <= Len(pending) /\ inflight \in Nat /\ Head(pending) = current
      /\ hashed \in [Streams -> Seq(Record)]
      /\ written \in [Streams -> Nat] /\ writtenLoss \in [Streams -> Nat]
  BY DEF IInv, TypeOK, InflightMatchesBatch, RecordWritten, PerStream
<1>2. pending # <<>>
  BY <1>1, EmptySeq
<1>3. Point(current)
  BY <1>1, <1>2, Taken DEF OrderInv, Points
<1>4. /\ hashed' = [hashed EXCEPT ![current.stream] = Append(@, current)]
      /\ written' = [written EXCEPT ![current.stream] =
                       @ + (IF current.kind = "data" THEN 1 ELSE 0)]
      /\ writtenLoss' = [writtenLoss EXCEPT ![current.stream] =
                           @ + (IF current.kind = "loss" THEN 1 ELSE 0)]
  BY DEF RecordWritten, DigestAfter
<1>5. ASSUME NEW s \in Streams
      PROVE  /\ \A i \in 1..Len(hashed'[s]) : hashed'[s][i].stream = s /\ Point(hashed'[s][i])
             /\ written'[s] = HowMany(hashed'[s], DataOf(s))
             /\ writtenLoss'[s] = HowMany(hashed'[s], LossOf(s))
  <2>1. CASE s # current.stream
    BY <1>1, <1>4, <2>1 DEF OrderInv, DigestInv
  <2>2. CASE s = current.stream
    <3>1. /\ hashed'[s] = Append(hashed[s], current) /\ hashed[s] \in Seq(Record)
          /\ written'[s] = written[s] + (IF current.kind = "data" THEN 1 ELSE 0)
          /\ writtenLoss'[s] = writtenLoss[s] + (IF current.kind = "loss" THEN 1 ELSE 0)
      BY <1>1, <1>4, <2>2
    <3>2. /\ \A i \in 1..Len(hashed[s]) : hashed[s][i].stream = s /\ Point(hashed[s][i])
          /\ written[s] = HowMany(hashed[s], DataOf(s))
          /\ writtenLoss[s] = HowMany(hashed[s], LossOf(s))
      BY DEF OrderInv, DigestInv
    <3>3. \A i \in 1..Len(hashed'[s]) : hashed'[s][i].stream = s /\ Point(hashed'[s][i])
      BY <1>1, <1>3, <2>2, <3>1, <3>2, Appended
    <3>4. /\ current \in DataOf(s) <=> current.kind = "data"
          /\ current \in LossOf(s) <=> current.kind = "loss"
      BY <1>1, <2>2 DEF DataOf, LossOf
    <3>5. /\ HowMany(hashed'[s], DataOf(s)) = HowMany(hashed[s], DataOf(s))
               + (IF current \in DataOf(s) THEN 1 ELSE 0)
          /\ HowMany(hashed'[s], LossOf(s)) = HowMany(hashed[s], LossOf(s))
               + (IF current \in LossOf(s) THEN 1 ELSE 0)
      BY <1>1, <3>1, HowManyAppend
    <3> QED
      BY <3>1, <3>2, <3>3, <3>4, <3>5
  <2> QED
    BY <2>1, <2>2
<1> QED
  BY <1>5 DEF DigestInv

\* BeginWrite takes the head of the queue.
LEMMA BeginFollows ==
  ASSUME IInv, OrderInv, BeginWrite
  PROVE  CurrentFollows'
<1>1. /\ pending \in Seq(Record) /\ inflight \in Nat /\ inflight > 0 /\ inflight <= Len(pending)
      /\ hashed \in [Streams -> Seq(Record)]
  BY DEF IInv, TypeOK, InflightMatchesBatch, BeginWrite, PerStream
<1>2. pending # <<>>
  BY <1>1, EmptySeq
<1>3. /\ Head(pending) = pending[1] /\ 1 \in 1..Len(pending) /\ Head(pending) \in Record
      /\ Head(pending).stream \in Streams
  BY <1>1, <1>2, Taken, RecordFields
<1>4. InOrder(Head(pending).stream)
  BY <1>3 DEF OrderInv
<1>5. \A i \in 1..Len(hashed[Head(pending).stream]) :
        hashed[Head(pending).stream][i].last < Head(pending).first
  BY <1>3, <1>4 DEF InOrder, Ordered
<1> QED
  BY <1>5 DEF BeginWrite, NextOfBatch, shardVars, CurrentFollows

LEMMA CurrentNext ==
  ASSUME IInv, OrderInv, [Next]_vars
  PROVE  CurrentFollows'
<1>1. CASE BeginWrite
  BY <1>1, BeginFollows
<1>2. CASE pc' = "writing" /\ ~BeginWrite
  <2>1. pc = "writing" /\ UNCHANGED <<current, hashed>>
    <3> USE <1>2 DEF flagVars, resultVars, queueVars, producerVars, countVars, shardVars
    <3>1. CASE Produce
      BY <3>1 DEF Produce, WriteRecord, DropProfileRecord
    <3>2. CASE TakeBatch \/ WriteBytes \/ WriteFails \/ RecordWritten \/ WriterAbandons
               \/ CutoffReached
      BY <3>2 DEF TakeBatch, WriteBytes, WriteFails, RecordWritten, WriterAbandons,
                  CutoffReached
    <3>3. CASE PrepareTimeoutControls \/ DropTimeoutControls \/ StartDrain \/ FinishDrained
               \/ BeginSummary \/ CheckSummary \/ FinalizeSummary
      BY <3>3 DEF PrepareTimeoutControls, DropTimeoutControls, StartDrain, FinishDrained,
                  BeginSummary, CheckSummary, FinalizeSummary
    <3>4. CASE Publish \/ Commit \/ Retract \/ Withhold \/ PublishFails
               \/ \E s \in Streams : WriteSummary(s) \/ SummaryFails(s)
      BY <3>4 DEF Publish, Commit, Retract, Withhold, PublishFails, WriteSummary, SummaryFails
    <3>5. CASE Close
      BY <3>5 DEF Close, RequestClose, DeadlinePasses, CloseAfterFailure, ForceTimeout,
                  LockFreeTimeout
    <3>6. CASE UNCHANGED vars
      BY <3>6 DEF vars
    <3> QED
      BY <3>1, <3>2, <3>3, <3>4, <3>5, <3>6 DEF Next, Writer, Terminated
  <2> QED
    BY <2>1 DEF OrderInv, CurrentFollows
<1>3. CASE pc' # "writing"
  BY <1>3 DEF CurrentFollows
<1> QED
  BY <1>1, <1>2, <1>3

\* Only WriteBytes adds to the shard, and what it adds follows.
LEMMA ShardNext ==
  ASSUME IInv, PhaseInv, OrderInv, [Next]_vars
  PROVE  ShardInOrder'
<1>1. CASE WriteBytes
  <2>1. /\ file' = [file EXCEPT ![current.stream] = Append(@, current)] /\ pc = "writing"
        /\ file = hashed
    BY <1>1 DEF WriteBytes, PhaseInv, Intact, Ended
  <2>2. /\ current \in Record /\ file \in [Streams -> Seq(Record)]
    BY <2>1 DEF IInv, TypeOK, InflightMatchesBatch, PerStream
  <2>3. \A i \in 1..Len(file[current.stream]) : file[current.stream][i].last < current.first
    BY <2>1 DEF OrderInv, CurrentFollows
  <2>4. SUFFICES ASSUME NEW s \in Streams, NEW i \in 1..Len(file'[s]), NEW j \in 1..Len(file'[s]),
                        i < j
                 PROVE  file'[s][i].last < file'[s][j].first
    BY DEF ShardInOrder
  <2>5. CASE s # current.stream
    BY <2>1, <2>2, <2>4, <2>5 DEF OrderInv, ShardInOrder
  <2>6. CASE s = current.stream
    <3> DEFINE h == file[s]
    <3>1. file'[s] = Append(h, current) /\ h \in Seq(Record)
      BY <2>1, <2>2, <2>6
    <3>2. \A k \in 1..Len(h) : h[k].last < current.first
      BY <2>3, <2>6
    <3>3. \A k, l \in 1..Len(h) : k < l => h[k].last < h[l].first
      BY DEF OrderInv, ShardInOrder
    <3> HIDE DEF h
    <3>4. /\ Len(h) \in Nat /\ Len(file'[s]) = Len(h) + 1 /\ file'[s][Len(h) + 1] = current
          /\ \A k \in 1..Len(h) : file'[s][k] = h[k]
      BY <2>2, <3>1, Appended
    <3>5. i \in 1..Len(h) /\ (j \in 1..Len(h) \/ j = Len(h) + 1)
      BY <2>4, <3>4
    <3> QED
      BY <2>4, <3>2, <3>3, <3>4, <3>5
  <2> QED
    BY <2>5, <2>6
<1>2. CASE ~WriteBytes
  <2>1. file' = file
    <3> USE <1>2 DEF flagVars, resultVars, queueVars, producerVars, countVars, shardVars
    <3>1. CASE Produce
      BY <3>1 DEF Produce, WriteRecord, DropProfileRecord
    <3>2. CASE TakeBatch \/ BeginWrite \/ WriteFails \/ RecordWritten \/ WriterAbandons
               \/ CutoffReached
      BY <3>2 DEF TakeBatch, BeginWrite, WriteFails, RecordWritten, WriterAbandons,
                  CutoffReached
    <3>3. CASE PrepareTimeoutControls \/ DropTimeoutControls \/ StartDrain \/ FinishDrained
               \/ BeginSummary \/ CheckSummary \/ FinalizeSummary
      BY <3>3 DEF PrepareTimeoutControls, DropTimeoutControls, StartDrain, FinishDrained,
                  BeginSummary, CheckSummary, FinalizeSummary
    <3>4. CASE Publish \/ Commit \/ Retract \/ Withhold \/ PublishFails
               \/ \E s \in Streams : WriteSummary(s) \/ SummaryFails(s)
      BY <3>4 DEF Publish, Commit, Retract, Withhold, PublishFails, WriteSummary, SummaryFails
    <3>5. CASE Close
      BY <3>5 DEF Close, RequestClose, DeadlinePasses, CloseAfterFailure, ForceTimeout,
                  LockFreeTimeout
    <3>6. CASE UNCHANGED vars
      BY <3>6 DEF vars
    <3> QED
      BY <3>1, <3>2, <3>3, <3>4, <3>5, <3>6 DEF Next, Writer, Terminated
  <2> QED
    BY <2>1 DEF OrderInv, ShardInOrder
<1> QED
  BY <1>1, <1>2

LEMMA OrderNext ==
  ASSUME IInv, PhaseInv, OrderInv, [Next]_vars
  PROVE  OrderInv'
<1>1. CurrentFollows' /\ ShardInOrder'
  BY CurrentNext, ShardNext
<1>2. CASE Produce
  <2>1. PICK s \in Streams, built \in BOOLEAN : Attempt(s, built)
    BY <1>2, Attempts
  <2>2. \A u \in Streams : InOrder(u)'
    BY <2>1, AttemptKeepsOwn, AttemptKeepsOthers DEF Keeps, OrderInv
  <2>3. Points(pending')
    BY <2>1, AttemptKeepsPoints DEF OrderInv
  <2>4. DigestInv'
    BY <2>1 DEF Attempt, shardVars, OrderInv, DigestInv
  <2> QED
    BY <1>1, <2>2, <2>3, <2>4 DEF OrderInv
<1>3. CASE RecordWritten
  <2>1. \A u \in Streams : InOrder(u)'
    BY <1>3, WrittenKeeps DEF Keeps, OrderInv
  <2>2. pending \in Seq(Record) /\ pending' = Tail(pending) /\ pending # <<>>
    <3>1. pending \in Seq(Record) /\ inflight \in Nat /\ inflight > 0 /\ inflight <= Len(pending)
      BY <1>3 DEF IInv, TypeOK, InflightMatchesBatch, RecordWritten
    <3> QED
      BY <1>3, <3>1, EmptySeq DEF RecordWritten
  <2>3. Points(pending')
    BY <2>2, Taken DEF Points, OrderInv
  <2> QED
    BY <1>1, <1>3, <2>1, <2>3, DigestWritten DEF OrderInv
<1>4. CASE \E built \in BOOLEAN : RequestClose(built)
  <2>1. PICK built \in BOOLEAN : RequestClose(built)
    BY <1>4
  <2>2. \A u \in Streams : InOrder(u)'
    BY <2>1, CloseKeeps DEF Keeps, OrderInv
  <2>3. Points(pending')
    BY <2>1, CloseKeepsPoints DEF OrderInv
  <2>4. DigestInv'
    BY <2>1 DEF RequestClose, shardVars, OrderInv, DigestInv
  <2> QED
    BY <1>1, <2>2, <2>3, <2>4 DEF OrderInv
<1>5. CASE ~Produce /\ ~RecordWritten /\ ~\E built \in BOOLEAN : RequestClose(built)
  <2>1. /\ UNCHANGED <<openLoss, hashed, attempted, written, writtenLoss>>
        /\ pending' = pending \/ pending' = <<>>
    BY <1>5, OtherSteps
  <2>2. \A u \in Streams : InOrder(u)'
    <3>1. \A u \in Streams : Ordered(hashed[u], pending, u, openLoss[u], attempted[u])
      BY DEF OrderInv, InOrder
    <3>2. \A u \in Streams : Ordered(hashed[u], <<>>, u, openLoss[u], attempted[u])
      BY <3>1, OrderedEmptied
    <3> QED
      BY <2>1, <3>1, <3>2 DEF InOrder
  <2>3. Points(pending')
    BY <2>1 DEF Points, OrderInv
  <2>4. DigestInv'
    BY <2>1 DEF OrderInv, DigestInv
  <2> QED
    BY <1>1, <2>2, <2>3, <2>4 DEF OrderInv
<1> QED
  BY <1>2, <1>3, <1>4, <1>5

--------------------------------------------------------------------------------
(* No sequence number is missing                                           *)

Undisturbed == failures = 0 /\ ~abandoned /\ outcome # "timeout"

\* Nothing has taken records out of the queue but the writer.
Orderly == Undisturbed \/ pc \in Summing

TileInv == \A s \in Streams : droppedControl[s] = 0 /\ Orderly => Whole(s)

LEMMA OtherOrderly ==
  ASSUME IInv, PhaseInv, [Next]_vars, ~Produce, ~RecordWritten,
         ~\E built \in BOOLEAN : RequestClose(built), NEW s \in Streams,
         Orderly', droppedControl'[s] = 0
  PROVE  Orderly /\ droppedControl[s] = 0 /\ pending' = pending
<1> USE DEF flagVars, resultVars, queueVars, producerVars, countVars, shardVars, Ended, Summing,
            Orderly, Undisturbed
<1>0. /\ droppedControl \in [Streams -> Nat] /\ droppedControl[s] \in Nat /\ failures \in Nat
      /\ timeoutControls[s] \in Nat /\ HowMany(pending, LossOf(s)) \in Nat
  BY HowManyType DEF IInv, TypeOK, PerStream
<1>1. CASE TakeBatch \/ BeginWrite \/ WriteBytes \/ WriterAbandons \/ CutoffReached
             \/ BeginSummary \/ Publish
  BY <1>1 DEF TakeBatch, BeginWrite, WriteBytes, WriterAbandons, CutoffReached,
              BeginSummary, Publish
<1>2. CASE StartDrain
  BY <1>2 DEF StartDrain, PhaseInv, Outcome, Intact
<1>3. CASE WriteFails \/ PublishFails
  <2>1. failures' = failures + 1 /\ pc' \in {"finalize", "done"}
    BY <1>3 DEF WriteFails, PublishFails, MarkWriterFailure
  <2> QED
    BY <1>0, <2>1
<1>4. CASE FinishDrained
  BY <1>0, <1>4 DEF FinishDrained, MarkWriterFailure
<1>5. CASE PrepareTimeoutControls \/ DropTimeoutControls
  BY <1>5 DEF PrepareTimeoutControls, DropTimeoutControls
<1>6. CASE CheckSummary
  BY <1>0, <1>6 DEF CheckSummary
<1>7. CASE FinalizeSummary
  BY <1>0, <1>7 DEF FinalizeSummary
<1>8. CASE Commit \/ Retract \/ Withhold
  <2>1. CASE Commit
    BY <2>1 DEF Commit
  <2>2. CASE Retract
    BY <2>2 DEF Retract
  <2>3. CASE Withhold
    <3>1. UNCHANGED <<failures, abandoned, outcome, droppedControl, pending>> /\ pc' = "done"
      BY <2>3 DEF Withhold
    <3> QED
      BY <3>1
  <2> QED
    BY <1>8, <2>1, <2>2, <2>3
<1>9. CASE \E u \in Streams : WriteSummary(u) \/ SummaryFails(u)
  BY <1>0, <1>9 DEF WriteSummary, SummaryFails
<1>10. CASE DeadlinePasses \/ CloseAfterFailure \/ LockFreeTimeout
  <2>1. CASE DeadlinePasses
    BY <2>1 DEF DeadlinePasses
  <2>2. CASE CloseAfterFailure
    BY <2>2 DEF CloseAfterFailure
  <2>3. CASE LockFreeTimeout
    <3>1. UNCHANGED <<pc, pending, droppedControl>> /\ outcome' = "timeout"
      BY <2>3 DEF LockFreeTimeout
    <3> QED
      BY <3>1
  <2> QED
    BY <1>10, <2>1, <2>2, <2>3
<1>11. CASE ForceTimeout
  <2>1. pc' = pc /\ outcome' = "timeout" /\ pending' = <<>>
        /\ droppedControl'[s] = droppedControl[s] + HowMany(pending, LossOf(s))
                                + timeoutControls[s]
    BY <1>11 DEF ForceTimeout, DiscardQueue
  <2>2. pc \in Summing /\ pending = <<>>
    BY <2>1 DEF PhaseInv, Draining
  <2>3. droppedControl[s] = 0
    BY <1>0, <2>1
  <2> QED
    BY <2>1, <2>2, <2>3
<1>12. CASE UNCHANGED vars
  BY <1>12 DEF vars
<1> QED
  BY <1>1, <1>2, <1>3, <1>4, <1>5, <1>6, <1>7, <1>8, <1>9, <1>10, <1>11, <1>12
     DEF Next, Writer, Close, Terminated

LEMMA TileNext ==
  ASSUME IInv, PhaseInv, OrderInv, TileInv, [Next]_vars
  PROVE  TileInv'
<1> SUFFICES ASSUME NEW s \in Streams, droppedControl'[s] = 0, Orderly'
             PROVE  Whole(s)'
  BY DEF TileInv
<1>1. InOrder(s)
  BY DEF OrderInv
<1>2. CASE Produce
  <2>1. PICK u \in Streams, built \in BOOLEAN : Attempt(u, built)
    BY <1>2, Attempts
  <2>2. Keeps(s)
    BY <2>1, AttemptKeepsOwn, AttemptKeepsOthers
  <2>3. Orderly
    BY <2>1 DEF Attempt, Orderly, Undisturbed, Summing, flagVars, resultVars
  <2> QED
    BY <1>1, <2>2, <2>3 DEF Keeps, TileInv
<1>3. CASE RecordWritten
  <2>1. Orderly
    BY <1>3 DEF RecordWritten, Orderly, Undisturbed, Summing, flagVars, resultVars
  <2> QED
    BY <1>1, <1>3, <2>1, WrittenKeeps DEF Keeps, TileInv
<1>4. CASE \E built \in BOOLEAN : RequestClose(built)
  <2>1. PICK built \in BOOLEAN : RequestClose(built)
    BY <1>4
  <2>2. Orderly
    BY <2>1 DEF RequestClose, Orderly, Undisturbed, Summing, flagVars, resultVars
  <2> QED
    BY <1>1, <2>1, <2>2, CloseKeeps DEF Keeps, TileInv
<1>5. CASE ~Produce /\ ~RecordWritten /\ ~\E built \in BOOLEAN : RequestClose(built)
  <2>1. Orderly /\ droppedControl[s] = 0 /\ pending' = pending
    BY <1>5, OtherOrderly
  <2>2. UNCHANGED <<openLoss, hashed, attempted>>
    BY <1>5, OtherSteps
  <2>3. Whole(s)
    BY <2>1 DEF TileInv
  <2> QED
    BY <2>1, <2>2, <2>3 DEF Whole
<1> QED
  BY <1>2, <1>3, <1>4, <1>5

\* All that this module's theorems about the shard rest on.
LEMMA Ordering ==
  Spec => [](IInv /\ PhaseInv /\ OrderInv /\ TileInv)
<1>1. Init => OrderInv
  BY OrderInit
<1>2. ASSUME Init PROVE TileInv
  <2>1. \A s \in Streams : attempted[s] = 0
    BY <1>2 DEF Init
  <2> QED
    BY <2>1 DEF TileInv, Whole, Tiled
<1>3. IInv /\ PhaseInv /\ OrderInv /\ TileInv /\ [Next]_vars => OrderInv' /\ TileInv'
  BY OrderNext, TileNext
<1> QED
  BY <1>1, <1>2, <1>3, Phases, PTL DEF Spec

\* A set whose elements are all the same.
LEMMA AtMostOne ==
  ASSUME NEW S, \A x, y \in S : x = y
  PROVE  Cardinality(S) = IF S = {} THEN 0 ELSE 1
<1>1. CASE S = {}
  BY <1>1, FS_EmptySet
<1>2. CASE S # {}
  <2>1. PICK x \in S : S = {x}
    BY <1>2
  <2> QED
    BY <1>2, <2>1, FS_Singleton
<1> QED
  BY <1>1, <1>2

\* Where a number is, in a shard h and a queue q.
InShard(h, k) == {i \in 1..Len(h) : Covers(h[i], k)}
InQueue(q, s, k) == {j \in 1..Len(q) : q[j].stream = s /\ Covers(q[j], k)}

LEMMA OnePlace ==
  ASSUME NEW h \in Seq(Record), NEW q \in Seq(Record), NEW s, NEW o \in Losses, NEW n \in Nat,
         Ordered(h, q, s, o, n), NEW k \in 0..(n - 1)
  PROVE  LET here == Cardinality(InShard(h, k)) + Cardinality(InQueue(q, s, k))
                     + (IF o # NoLoss /\ Covers(o, k) THEN 1 ELSE 0)
         IN  here <= 1 /\ (Somewhere(h, q, s, o, k) => here = 1)
<1>0. k \in Nat
  OBVIOUS
<1>1. /\ \A i \in 1..Len(h) : h[i].first \in Nat /\ h[i].last \in Nat
      /\ \A j \in 1..Len(q) : q[j].first \in Nat /\ q[j].last \in Nat
      /\ o.first \in Nat /\ o.last \in Nat
  BY Appended, RecordFields DEF Losses
<1>2. ASSUME NEW x \in InShard(h, k), NEW y \in InShard(h, k) PROVE x = y
  <2>1. x \in 1..Len(h) /\ y \in 1..Len(h) /\ Covers(h[x], k) /\ Covers(h[y], k)
    BY DEF InShard
  <2>2. (x < y => h[x].last < h[y].first) /\ (y < x => h[y].last < h[x].first)
    BY <2>1 DEF Ordered
  <2>3. ~(x < y) /\ ~(y < x)
    BY <1>0, <1>1, <2>1, <2>2 DEF Covers
  <2> QED
    BY <2>1, <2>3
<1>3. ASSUME NEW x \in InQueue(q, s, k), NEW y \in InQueue(q, s, k) PROVE x = y
  <2>1. /\ x \in 1..Len(q) /\ y \in 1..Len(q) /\ Covers(q[x], k) /\ Covers(q[y], k)
        /\ q[x].stream = s /\ q[y].stream = s
    BY DEF InQueue
  <2>2. (x < y => q[x].last < q[y].first) /\ (y < x => q[y].last < q[x].first)
    BY <2>1 DEF Ordered
  <2>3. ~(x < y) /\ ~(y < x)
    BY <1>0, <1>1, <2>1, <2>2 DEF Covers
  <2> QED
    BY <2>1, <2>3
<1>4. InShard(h, k) = {} \/ InQueue(q, s, k) = {}
  <2>1. ASSUME NEW i \in InShard(h, k), NEW j \in InQueue(q, s, k) PROVE FALSE
    <3>1. /\ i \in 1..Len(h) /\ j \in 1..Len(q) /\ Covers(h[i], k) /\ Covers(q[j], k)
          /\ q[j].stream = s
      BY DEF InShard, InQueue
    <3>2. h[i].last < q[j].first
      BY <3>1 DEF Ordered
    <3> QED
      BY <1>0, <1>1, <3>1, <3>2 DEF Covers
  <2> QED
    BY <2>1
<1>5. o # NoLoss /\ Covers(o, k) => InShard(h, k) = {} /\ InQueue(q, s, k) = {}
  <2>1. SUFFICES ASSUME o # NoLoss, Covers(o, k)
                 PROVE  InShard(h, k) = {} /\ InQueue(q, s, k) = {}
    OBVIOUS
  <2>2. /\ \A i \in 1..Len(h) : h[i].last < o.first
        /\ \A j \in 1..Len(q) : q[j].stream = s => q[j].last < o.first
    BY <2>1 DEF Ordered
  <2>3. \A i \in 1..Len(h) : ~Covers(h[i], k)
    BY <1>0, <1>1, <2>1, <2>2 DEF Covers
  <2>4. \A j \in 1..Len(q) : q[j].stream = s => ~Covers(q[j], k)
    BY <1>0, <1>1, <2>1, <2>2 DEF Covers
  <2> QED
    BY <2>3, <2>4 DEF InShard, InQueue
<1>6. /\ Cardinality(InShard(h, k)) = IF InShard(h, k) = {} THEN 0 ELSE 1
      /\ Cardinality(InQueue(q, s, k)) = IF InQueue(q, s, k) = {} THEN 0 ELSE 1
  BY <1>2, <1>3, AtMostOne
<1>7. Somewhere(h, q, s, o, k) =>
        InShard(h, k) # {} \/ InQueue(q, s, k) # {} \/ (o # NoLoss /\ Covers(o, k))
  BY DEF Somewhere, InShard, InQueue
<1> QED
  BY <1>4, <1>5, <1>6, <1>7

LEMMA Accounted ==
  ASSUME IInv, OrderInv, TileInv
  PROVE  EverySequenceAccounted
<1> SUFFICES ASSUME NEW s \in Streams, NEW k \in 0..(attempted[s] - 1)
             PROVE  /\ Places(s, k) <= 1
                    /\ (droppedControl[s] = 0 /\ failures = 0 /\ ~abandoned
                        /\ outcome # "timeout") => Places(s, k) = 1
  BY DEF EverySequenceAccounted
<1>1. /\ hashed[s] \in Seq(Record) /\ pending \in Seq(Record) /\ attempted[s] \in Nat
      /\ openLoss[s] \in Losses
  BY DEF IInv, TypeOK, PerStream
<1>2. Ordered(hashed[s], pending, s, openLoss[s], attempted[s])
  BY DEF OrderInv, InOrder
<1>3. Places(s, k) = Cardinality(InShard(hashed[s], k)) + Cardinality(InQueue(pending, s, k))
                     + (IF openLoss[s] # NoLoss /\ Covers(openLoss[s], k) THEN 1 ELSE 0)
  BY DEF Places, InShard, InQueue
<1>4. /\ Places(s, k) <= 1
      /\ Somewhere(hashed[s], pending, s, openLoss[s], k) => Places(s, k) = 1
  BY <1>1, <1>2, <1>3, OnePlace
<1>5. droppedControl[s] = 0 /\ Undisturbed => Somewhere(hashed[s], pending, s, openLoss[s], k)
  BY DEF TileInv, Orderly, Whole, Tiled
<1> QED
  BY <1>4, <1>5 DEF Undisturbed

\* What the shard says: no sequence number is accounted twice, none is missing
\* while no control was dropped, the writer has not failed and close() has not
\* timed out; and the bytes of a shard are in sequence order, although close()
\* may empty the queue while the writer holds a record of it.
THEOREM ShardComplete ==
  Spec => []ShardTellsAll
<1>1. IInv /\ PhaseInv /\ OrderInv /\ TileInv => ShardTellsAll
  BY Accounted DEF OrderInv, ShardTellsAll
<1> QED
  BY <1>1, Ordering, PTL

--------------------------------------------------------------------------------
(* The summaries are honest                                                *)

\* The numbers that the loss records of a shard h cover, as the summary's reader
\* adds them up.
LossCovered(h, s, n) ==
  {k \in 0..(n - 1) :
     \E r \in LossOf(s) \cap {h[i] : i \in 1..Len(h)} : Covers(r, k)}

\* The numbers that its data records stand for.
DataNumbers(h, s) == {h[i].first : i \in At(h, DataOf(s))}

\* In a shard in order two data records stand for two numbers.
LEMMA DataCounted ==
  ASSUME NEW h \in Seq(Record), NEW q, NEW s, NEW o, NEW n \in Nat, Ordered(h, q, s, o, n)
  PROVE  IsFiniteSet(DataNumbers(h, s))
         /\ Cardinality(DataNumbers(h, s)) = HowMany(h, DataOf(s))
<1> DEFINE A == At(h, DataOf(s))
           D == DataNumbers(h, s)
           f == [i \in A |-> h[i].first]
<1>1. A \subseteq 1..Len(h) /\ \A i \in 1..Len(h) : h[i].first \in Nat /\ h[i].last \in Nat
  BY Appended, RecordFields DEF At
<1>2. IsFiniteSet(A)
  BY HowManyType
<1>3. \A i, j \in 1..Len(h) : h[i].first = h[j].first => ~(i < j)
  <2>1. SUFFICES ASSUME NEW i \in 1..Len(h), NEW j \in 1..Len(h), h[i].first = h[j].first, i < j
                 PROVE  FALSE
    OBVIOUS
  <2>2. h[i].first <= h[i].last /\ h[i].last < h[j].first
    BY <2>1 DEF Ordered
  <2> QED
    BY <1>1, <2>1, <2>2
<1>4. \A i, j \in A : h[i].first = h[j].first => i = j
  <2>1. SUFFICES ASSUME NEW i \in A, NEW j \in A, h[i].first = h[j].first
                 PROVE  i = j
    OBVIOUS
  <2>2. i \in 1..Len(h) /\ j \in 1..Len(h)
    BY <1>1
  <2>3. ~(i < j) /\ ~(j < i)
    BY <1>3, <2>1, <2>2
  <2> QED
    BY <2>2, <2>3
<1>5. f \in Bijection(A, D)
  <2>1. f \in [A -> D]
    BY DEF DataNumbers
  <2>2. \A a, b \in A : f[a] = f[b] => a = b
    BY <1>4
  <2>3. \A d \in D : \E a \in A : f[a] = d
    BY DEF DataNumbers
  <2> QED
    BY <2>1, <2>2, <2>3 DEF Bijection, Injection, Surjection, IsInjective
<1>6. ExistsBijection(A, D)
  BY <1>5 DEF ExistsBijection
<1> QED
  BY <1>2, <1>6, FS_Bijection DEF HowMany

\* A complete shard: its data records and the numbers its losses cover are all.
LEMMA LossesAddUp ==
  ASSUME NEW h \in Seq(Record), NEW s, NEW n \in Nat,
         Ordered(h, <<>>, s, NoLoss, n), Tiled(h, <<>>, s, NoLoss, n),
         \A i \in 1..Len(h) : h[i].stream = s /\ Point(h[i])
  PROVE  /\ Cardinality(LossCovered(h, s, n)) \in Nat
         /\ n = HowMany(h, DataOf(s)) + Cardinality(LossCovered(h, s, n))
<1> DEFINE D == DataNumbers(h, s)
           L == LossCovered(h, s, n)
<1>1. \A i \in 1..Len(h) :
        /\ h[i] \in Record /\ h[i].first \in Nat /\ h[i].last \in Nat
        /\ h[i].kind \in {"data", "loss"}
        /\ h[i].kind = "data" => h[i].first = h[i].last
        /\ h[i] \in DataOf(s) <=> h[i].kind = "data"
        /\ h[i] \in LossOf(s) <=> h[i].kind = "loss"
  <2>1. SUFFICES ASSUME NEW i \in 1..Len(h)
                 PROVE  /\ h[i] \in Record /\ h[i].first \in Nat /\ h[i].last \in Nat
                        /\ h[i].kind \in {"data", "loss"}
                        /\ h[i].kind = "data" => h[i].first = h[i].last
                        /\ h[i] \in DataOf(s) <=> h[i].kind = "data"
                        /\ h[i] \in LossOf(s) <=> h[i].kind = "loss"
    OBVIOUS
  <2>2. h[i] \in Record
    BY Appended
  <2>3. h[i].first \in Nat /\ h[i].last \in Nat /\ h[i].kind \in {"data", "loss"}
    BY <2>2, RecordFields
  <2>4. h[i].stream = s /\ (h[i].kind = "data" => h[i].first = h[i].last)
    BY DEF Point
  <2> QED
    BY <2>2, <2>3, <2>4 DEF DataOf, LossOf
<1>2. ASSUME NEW i \in 1..Len(h), NEW j \in 1..Len(h), NEW k \in Nat,
             Covers(h[i], k), Covers(h[j], k)
      PROVE  i = j
  <2>1. (i < j => h[i].last < h[j].first) /\ (j < i => h[j].last < h[i].first)
    BY DEF Ordered
  <2>2. ~(i < j) /\ ~(j < i)
    BY <1>1, <1>2, <2>1 DEF Covers
  <2> QED
    BY <2>2
<1>3. L \subseteq 0..(n - 1)
  BY DEF LossCovered
<1>4. D \subseteq 0..(n - 1)
  <2>1. SUFFICES ASSUME NEW i \in At(h, DataOf(s)) PROVE h[i].first \in 0..(n - 1)
    BY DEF DataNumbers
  <2>2. i \in 1..Len(h)
    BY DEF At
  <2>3. h[i].first <= h[i].last /\ h[i].last < n
    BY <2>2 DEF Ordered
  <2> QED
    BY <1>1, <2>2, <2>3
<1>5. 0..(n - 1) \subseteq D \cup L
  <2>1. SUFFICES ASSUME NEW k \in 0..(n - 1) PROVE k \in D \cup L
    OBVIOUS
  <2>2. PICK i \in 1..Len(h) : Covers(h[i], k)
    <3>1. Somewhere(h, <<>>, s, NoLoss, k)
      BY DEF Tiled
    <3> QED
      BY <3>1 DEF Somewhere
  <2>3. CASE h[i].kind = "data"
    <3>1. h[i].first = k /\ i \in At(h, DataOf(s))
      BY <1>1, <2>2, <2>3 DEF Covers, At
    <3> QED
      BY <3>1 DEF DataNumbers
  <2>4. CASE h[i].kind = "loss"
    BY <1>1, <2>2, <2>4 DEF LossCovered
  <2> QED
    BY <1>1, <2>3, <2>4
<1>6. D \cap L = {}
  <2>1. SUFFICES ASSUME NEW k \in D, k \in L PROVE FALSE
    OBVIOUS
  <2>2. PICK i \in At(h, DataOf(s)) : k = h[i].first
    BY DEF DataNumbers
  <2>3. i \in 1..Len(h) /\ h[i].kind = "data"
    BY <1>1 DEF At
  <2>4. PICK r \in LossOf(s) \cap {h[j] : j \in 1..Len(h)} : Covers(r, k)
    BY <2>1 DEF LossCovered
  <2>5. PICK j \in 1..Len(h) : r = h[j]
    BY <2>4
  <2>6. h[j].kind = "loss" /\ Covers(h[j], k)
    BY <1>1, <2>4, <2>5
  <2>7. k \in Nat /\ Covers(h[i], k)
    BY <1>1, <2>2, <2>3 DEF Covers
  <2>8. i = j
    BY <1>2, <2>3, <2>6, <2>7
  <2> QED
    BY <2>3, <2>6, <2>8
<1>7. 0..(n - 1) = D \cup L
  BY <1>3, <1>4, <1>5
<1>8. IsFiniteSet(0..(n - 1)) /\ Cardinality(0..(n - 1)) = n
  <2>1. 0 \in Int /\ n - 1 \in Int /\ (IF 0 > n - 1 THEN 0 ELSE (n - 1) - 0 + 1) = n
    OBVIOUS
  <2> QED
    BY <2>1, FS_Interval
<1>9. /\ IsFiniteSet(D) /\ IsFiniteSet(L) /\ Cardinality(D) = HowMany(h, DataOf(s))
      /\ Cardinality(D) \in Nat /\ Cardinality(L) \in Nat
  BY <1>3, <1>8, DataCounted, FS_Subset, FS_CardinalityType
<1>10. Cardinality(D \cup L) = Cardinality(D) + Cardinality(L) - 0
  BY <1>6, <1>9, FS_Union, FS_EmptySet
<1>11. n = Cardinality(D) + Cardinality(L)
  <2> DEFINE N == 0..(n - 1)
  <2>1. N = D \cup L /\ Cardinality(N) = n
    BY <1>7, <1>8
  <2> HIDE DEF D, L, N
  <2>2. Cardinality(D \cup L) = n
    BY <2>1
  <2> QED
    BY <1>9, <1>10, <2>2
<1> QED
  BY <1>9, <1>11

\* What a summary m says of stream s is true of its bytes f, the last line of
\* which may be partial.
Honest(m, s, f, partial) ==
  m.outcome = "drained" =>
    /\ m.sha = f /\ ~partial
    /\ m.written = HowMany(f, DataOf(s))
    /\ m.writtenLoss = HowMany(f, LossOf(s))
    /\ m.attempted = m.written + m.dropped
    /\ m.droppedControl = 0 => m.dropped = Cardinality(LossCovered(f, s, m.attempted))

LEMMA HonestSummary ==
  ASSUME IInv, PhaseInv, OrderInv, TileInv, NEW s \in Streams, pc = "summarizing"
  PROVE  Honest(Summary(s, "drained"), s, file[s], torn[s])
<1>1. /\ file = hashed /\ ~torn[s] /\ pending = <<>> /\ openLoss[s] = NoLoss
  BY DEF PhaseInv, Intact, Draining, Summing, Ended
<1>2. /\ hashed[s] \in Seq(Record) /\ attempted[s] \in Nat /\ written[s] \in Nat
      /\ dropped[s] \in Nat
  BY DEF IInv, TypeOK, PerStream
<1>3. attempted[s] = written[s] + dropped[s]
  <2>1. attempted[s] = written[s] + dropped[s] + HowMany(pending, DataOf(s))
    BY DEF IInv, Conservation
  <2>2. HowMany(pending, DataOf(s)) = 0
    BY <1>1, HowManyEmpty
  <2> QED
    BY <1>2, <2>1, <2>2
<1>4. /\ written[s] = HowMany(hashed[s], DataOf(s))
      /\ writtenLoss[s] = HowMany(hashed[s], LossOf(s))
      /\ \A i \in 1..Len(hashed[s]) : hashed[s][i].stream = s /\ Point(hashed[s][i])
  BY DEF OrderInv, DigestInv
<1>5. ASSUME droppedControl[s] = 0
      PROVE  dropped[s] = Cardinality(LossCovered(hashed[s], s, attempted[s]))
  <2>1. Ordered(hashed[s], <<>>, s, NoLoss, attempted[s])
    BY <1>1 DEF OrderInv, InOrder
  <2>2. Tiled(hashed[s], <<>>, s, NoLoss, attempted[s])
    BY <1>1, <1>5 DEF TileInv, Orderly, Summing, Whole
  <2> DEFINE c == Cardinality(LossCovered(hashed[s], s, attempted[s]))
  <2>3. c \in Nat /\ attempted[s] = HowMany(hashed[s], DataOf(s)) + c
    BY <1>2, <1>4, <2>1, <2>2, LossesAddUp
  <2> HIDE DEF c
  <2>4. dropped[s] = c
    BY <1>2, <1>3, <1>4, <2>3
  <2> QED
    BY <2>4 DEF c
<1> QED
  BY <1>1, <1>3, <1>4, <1>5 DEF Honest, Summary

HonestInv ==
  \A s \in Streams : \A k \in 1..Len(summaries[s]) :
    Honest(summaries[s][k], s, file[s], torn[s])

\* The positions of the summaries of a stream after one more was written.
LEMMA OneMore ==
  ASSUME NEW S, NEW q \in Seq(S), NEW r \in S, NEW k \in 1..Len(Append(q, r))
  PROVE  (k \in 1..Len(q) /\ Append(q, r)[k] = q[k]) \/ Append(q, r)[k] = r
<1>1. Len(q) \in Nat
  BY LenProperties
<1> QED
  BY <1>1, AppendProperties

\* A summarized shard is not written any more.
LEMMA SealedShard ==
  ASSUME IInv, PhaseInv, [Next]_vars, NEW s \in Streams, summaries[s] # <<>>
  PROVE  file'[s] = file[s] /\ torn'[s] = torn[s]
<1>0. /\ pc \in Ended \cup {"summary", "summarizing", "checkSummary"}
      /\ torn \in [Streams -> BOOLEAN]
  BY DEF PhaseInv, Summarized, IInv, TypeOK, PerStream
<1> USE <1>0 DEF flagVars, resultVars, queueVars, producerVars, countVars, shardVars, Ended
<1>1. CASE Produce
  BY <1>1 DEF Produce, WriteRecord, DropProfileRecord
<1>2. CASE TakeBatch \/ BeginWrite \/ WriteBytes \/ WriteFails \/ RecordWritten
           \/ WriterAbandons \/ CutoffReached
  BY <1>2 DEF TakeBatch, BeginWrite, WriteBytes, WriteFails, RecordWritten, WriterAbandons,
              CutoffReached
<1>3. CASE PrepareTimeoutControls \/ DropTimeoutControls \/ StartDrain \/ FinishDrained
           \/ BeginSummary \/ CheckSummary \/ FinalizeSummary
  BY <1>3 DEF PrepareTimeoutControls, DropTimeoutControls, StartDrain, FinishDrained,
              BeginSummary, CheckSummary, FinalizeSummary
<1>4. CASE Publish \/ Commit \/ Retract \/ Withhold \/ PublishFails
           \/ \E u \in Streams : WriteSummary(u)
  BY <1>4 DEF Publish, Commit, Retract, Withhold, PublishFails, WriteSummary
<1>5. CASE \E u \in Streams : SummaryFails(u)
  <2>1. PICK u \in Streams : SummaryFails(u)
    BY <1>5
  <2>2. u # s /\ file' = file /\ torn' \in {torn, [torn EXCEPT ![u] = TRUE]}
    BY <2>1 DEF SummaryFails, NextSummary
  <2> QED
    BY <2>2
<1>6. CASE Close
  BY <1>6 DEF Close, RequestClose, DeadlinePasses, CloseAfterFailure, ForceTimeout,
              LockFreeTimeout
<1>7. CASE UNCHANGED vars
  BY <1>7 DEF vars
<1> QED
  BY <1>1, <1>2, <1>3, <1>4, <1>5, <1>6, <1>7 DEF Next, Writer, Terminated

\* What a step does to the summaries of a stream.
LEMMA SummarySteps ==
  ASSUME IInv, [Next]_vars, NEW s \in Streams
  PROVE  \/ summaries'[s] = summaries[s]
         \/ /\ pc = "summarizing" /\ summaries[s] = <<>> /\ UNCHANGED <<file, torn>>
            /\ summaries'[s] = Append(summaries[s], Summary(s, "drained"))
         \/ /\ UNCHANGED <<file, torn>>
            /\ summaries'[s] = Append(summaries[s], Summary(s, "timeout"))
<1> USE DEF flagVars, resultVars, queueVars, producerVars, countVars, shardVars
<1>0. summaries \in [Streams -> Seq(Summaries)]
  BY DEF IInv, TypeOK, PerStream
<1>1. CASE Produce
  BY <1>1 DEF Produce, WriteRecord, DropProfileRecord
<1>2. CASE TakeBatch \/ BeginWrite \/ WriteBytes \/ WriteFails \/ RecordWritten
           \/ WriterAbandons \/ CutoffReached
  BY <1>2 DEF TakeBatch, BeginWrite, WriteBytes, WriteFails, RecordWritten, WriterAbandons,
              CutoffReached
<1>3. CASE PrepareTimeoutControls \/ DropTimeoutControls \/ StartDrain \/ FinishDrained
           \/ BeginSummary
  BY <1>3 DEF PrepareTimeoutControls, DropTimeoutControls, StartDrain, FinishDrained,
              BeginSummary
<1>4. CASE CheckSummary \/ FinalizeSummary
  <2>1. Invalidate \/ summaries' = summaries
    BY <1>4 DEF CheckSummary, FinalizeSummary
  <2>2. UNCHANGED <<file, torn>>
    BY <1>4 DEF CheckSummary, FinalizeSummary
  <2>3. CASE Invalidate
    <3>1. PICK ok \in SUBSET Streams :
            summaries' = [u \in Streams |-> IF u \in ok
                            THEN Append(summaries[u], Summary(u, "timeout")) ELSE summaries[u]]
      BY <2>3 DEF Invalidate
    <3>2. summaries'[s] = IF s \in ok THEN Append(summaries[s], Summary(s, "timeout"))
                                      ELSE summaries[s]
      BY <3>1
    <3> QED
      BY <2>2, <3>2
  <2> QED
    BY <2>1, <2>3
<1>5. CASE Publish \/ Commit \/ Retract \/ Withhold \/ PublishFails
           \/ \E u \in Streams : SummaryFails(u)
  BY <1>5 DEF Publish, Commit, Retract, Withhold, PublishFails, SummaryFails
<1>6. CASE \E u \in Streams : WriteSummary(u)
  BY <1>0, <1>6 DEF WriteSummary, NextSummary
<1>7. CASE Close
  BY <1>7 DEF Close, RequestClose, DeadlinePasses, CloseAfterFailure, ForceTimeout,
              LockFreeTimeout
<1>8. CASE UNCHANGED vars
  BY <1>8 DEF vars
<1> QED
  BY <1>1, <1>2, <1>3, <1>4, <1>5, <1>6, <1>7, <1>8 DEF Next, Writer, Terminated

LEMMA HonestNext ==
  ASSUME IInv, PhaseInv, OrderInv, TileInv, HonestInv, [Next]_vars
  PROVE  HonestInv'
<1> SUFFICES ASSUME NEW s \in Streams, NEW k \in 1..Len(summaries'[s])
             PROVE  Honest(summaries'[s][k], s, file'[s], torn'[s])
  BY DEF HonestInv
<1>1. /\ summaries[s] \in Seq(Summaries) /\ Summary(s, "drained") \in Summaries
      /\ Summary(s, "timeout") \in Summaries /\ Summary(s, "timeout").outcome = "timeout"
  BY SummaryType DEF IInv, TypeOK, PerStream, Outcomes, Summary
<1>2. CASE summaries'[s] = summaries[s]
  <2>1. summaries[s] # <<>>
    BY <1>2
  <2>2. file'[s] = file[s] /\ torn'[s] = torn[s]
    BY <2>1, SealedShard
  <2>3. Honest(summaries[s][k], s, file[s], torn[s])
    BY <1>2 DEF HonestInv
  <2> QED
    BY <1>2, <2>2, <2>3
<1>3. CASE /\ UNCHANGED <<file, torn>>
           /\ summaries'[s] = Append(summaries[s], Summary(s, "timeout"))
  <2>1. (k \in 1..Len(summaries[s]) /\ summaries'[s][k] = summaries[s][k])
          \/ summaries'[s][k] = Summary(s, "timeout")
    BY <1>1, <1>3, OneMore
  <2>2. CASE summaries'[s][k] = Summary(s, "timeout")
    BY <1>1, <2>2 DEF Honest
  <2>3. CASE k \in 1..Len(summaries[s]) /\ summaries'[s][k] = summaries[s][k]
    <3>1. Honest(summaries[s][k], s, file[s], torn[s])
      BY <2>3 DEF HonestInv
    <3> QED
      BY <1>3, <2>3, <3>1
  <2> QED
    BY <2>1, <2>2, <2>3
<1>4. CASE /\ pc = "summarizing" /\ summaries[s] = <<>> /\ UNCHANGED <<file, torn>>
           /\ summaries'[s] = Append(summaries[s], Summary(s, "drained"))
  <2>1. summaries'[s][k] = Summary(s, "drained")
    BY <1>1, <1>4, OneMore
  <2>2. Honest(Summary(s, "drained"), s, file[s], torn[s])
    BY <1>4, HonestSummary
  <2> QED
    BY <1>4, <2>1, <2>2
<1> QED
  BY <1>2, <1>3, <1>4, SummarySteps

LEMMA SummariesHonest ==
  Spec => [](IInv /\ PhaseInv /\ OrderInv /\ TileInv /\ HonestInv)
<1>1. ASSUME Init PROVE HonestInv
  <2>1. \A s \in Streams : Len(summaries[s]) = 0
    BY <1>1 DEF Init
  <2> QED
    BY <2>1 DEF HonestInv
<1>2. IInv /\ PhaseInv /\ OrderInv /\ TileInv /\ HonestInv /\ [Next]_vars => HonestInv'
  BY HonestNext
<1> QED
  BY <1>1, <1>2, Ordering, PTL DEF Spec

\* A process_summary that says drained is true of the bytes before it, whichever
\* closer gives up while it is written: digest, counters, and the lost numbers.
THEOREM SummaryTrue ==
  Spec => []SummaryHonest
<1>1. HonestInv => SummaryHonest
  BY DEF HonestInv, Honest, SummaryHonest, LossCovered
<1> QED
  BY <1>1, SummariesHonest, PTL

\* Two streams on one queue and one writer: capacity, sequence numbers and
\* summaries of each are its own.
THEOREM StreamsSeparate ==
  Spec => []AccountsSeparate
<1>1. IInv /\ PhaseInv /\ OrderInv /\ TileInv /\ HonestInv => AccountsSeparate
  BY Accounted DEF HonestInv, Honest, SummaryHonest, LossCovered, AccountsSeparate, IInv
<1> QED
  BY <1>1, SummariesHonest, PTL

--------------------------------------------------------------------------------
(* A drained CloseResult and its summaries                                 *)

\* Stream s ends in one summary, with the counters w and d.
Matches(s, w, d) ==
  /\ Len(summaries[s]) = 1
  /\ summaries[s][1].written = w[s] /\ summaries[s][1].dropped = d[s]

\* Until the end the only summary of a stream is current; from the outcome drained
\* on it stays so, and the claim that says drained is the writer's last step.
DrainInv ==
  /\ \A s \in Streams : summaries[s] # <<>> => closing
  /\ pc \notin Ended => \A s \in Streams : summaries[s] # <<>> => Matches(s, written, dropped)
  /\ outcome = "drained" => \A s \in Streams : Matches(s, written, dropped)
  /\ claim.outcome = "drained" =>
       /\ pc = "done" /\ claim.summary
       /\ \A s \in Streams : Matches(s, claim.written, claim.dropped)

\* Before any summary is written there is nothing to say.
LEMMA DrainEmpty ==
  ASSUME PhaseInv, DrainInv, [Next]_vars, summaries' = summaries, outcome' = outcome,
         claim' = claim, \A s \in Streams : summaries[s] = <<>>
  PROVE  DrainInv'
<1>1. "base" \in Streams
  BY StreamsAssumption
<1>2. outcome # "drained"
  BY <1>1 DEF PhaseInv, Outcome, Summarized, AllSummarized
<1>3. claim.outcome # "drained"
  <2>1. Len(summaries["base"]) = 0
    BY <1>1
  <2> QED
    BY <1>1, <2>1 DEF DrainInv, Matches
<1> QED
  BY <1>2, <1>3 DEF DrainInv

\* The steps that leave the summaries, outcome, claim and counters alone.
LEMMA DrainQuiet ==
  ASSUME DrainInv, UNCHANGED <<summaries, outcome, claim, written, dropped>>,
         closing => closing', pc' \notin Ended => pc \notin Ended, pc = "done" => pc' = "done"
  PROVE  DrainInv'
BY DEF DrainInv, Matches

LEMMA DrainLoop ==
  ASSUME IInv, PhaseInv, DrainInv, [Next]_vars,
         \/ Produce \/ TakeBatch \/ BeginWrite \/ WriteBytes \/ WriteFails \/ RecordWritten
         \/ CutoffReached \/ WriterAbandons
         \/ PrepareTimeoutControls \/ DropTimeoutControls \/ StartDrain \/ FinishDrained
  PROVE  DrainInv'
<1> USE DEF flagVars, resultVars, queueVars, producerVars, countVars, shardVars, Ended
<1>1. ASSUME pc \notin Ended \cup {"summary", "summarizing", "checkSummary"} \/ ~closing
      PROVE  \A s \in Streams : summaries[s] = <<>>
  BY <1>1 DEF PhaseInv, Summarized, DrainInv
<1>2. CASE Produce
  <2>1. ~closing /\ UNCHANGED <<summaries, outcome, claim>>
    BY <1>2 DEF Produce, WriteRecord, DropProfileRecord, Accepting
  <2> QED
    BY <1>1, <2>1, DrainEmpty
<1>3. CASE TakeBatch \/ BeginWrite \/ WriteBytes \/ WriteFails \/ RecordWritten
           \/ CutoffReached \/ WriterAbandons
  <2>1. /\ pc \in {"loop", "batch", "writing", "wrote"}
        /\ UNCHANGED <<summaries, outcome, claim>>
    BY <1>3 DEF TakeBatch, BeginWrite, WriteBytes, WriteFails, RecordWritten, CutoffReached,
                WriterAbandons
  <2> QED
    BY <1>1, <2>1, DrainEmpty
<1>4. CASE StartDrain \/ FinishDrained \/ PrepareTimeoutControls \/ DropTimeoutControls
  <2>1. /\ pc \in {"loop", "drain", "timeout", "controls"} /\ UNCHANGED <<summaries, claim>>
        /\ outcome' \in {outcome, "timeout"}
    BY <1>4 DEF StartDrain, FinishDrained, PrepareTimeoutControls, DropTimeoutControls
  <2>2. \A s \in Streams : summaries[s] = <<>>
    BY <1>1, <2>1
  <2>3. "base" \in Streams /\ Len(summaries["base"]) = 0
    BY <2>2, StreamsAssumption
  <2>4. claim.outcome # "drained"
    BY <2>3 DEF DrainInv, Matches
  <2>5. outcome' # "drained"
    BY <2>1, <2>2, <2>3 DEF PhaseInv, Outcome, Summarized, AllSummarized
  <2> QED
    BY <2>1, <2>2, <2>4, <2>5 DEF DrainInv
<1> QED
  BY <1>2, <1>3, <1>4

LEMMA DrainWrites ==
  ASSUME IInv, PhaseInv, DrainInv, NEW s \in Streams, WriteSummary(s)
  PROVE  DrainInv'
<1>1. /\ pc = "summarizing" /\ pc' = "checkSummary" /\ summaries[s] = <<>> /\ closing
      /\ UNCHANGED <<closing, outcome, claim, written, dropped>>
      /\ summaries' = [summaries EXCEPT ![s] = Append(@, Summary(s, "drained"))]
  BY DEF WriteSummary, NextSummary, flagVars, resultVars, countVars, PhaseInv, Draining, Summing
<1>2. /\ summaries \in [Streams -> Seq(Summaries)] /\ Summary(s, "drained") \in Summaries
      /\ Summary(s, "drained").written = written[s] /\ Summary(s, "drained").dropped = dropped[s]
  BY SummaryType DEF IInv, TypeOK, PerStream, Outcomes, Summary
<1>3. Len(summaries'[s]) = 1 /\ summaries'[s][1] = Summary(s, "drained")
  BY <1>1, <1>2, AppendProperties
<1>4. \A u \in Streams : u # s => summaries'[u] = summaries[u]
  BY <1>1, <1>2
<1>5. outcome # "drained" /\ claim.outcome # "drained"
  BY <1>1 DEF PhaseInv, Outcome, Ended, DrainInv
<1>6. \A u \in Streams : summaries'[u] # <<>> =>
        /\ Len(summaries'[u]) = 1
        /\ summaries'[u][1].written = written[u] /\ summaries'[u][1].dropped = dropped[u]
  BY <1>1, <1>2, <1>3, <1>4 DEF DrainInv, Matches, Ended
<1> QED
  BY <1>1, <1>5, <1>6 DEF DrainInv, Matches

LEMMA DrainChecks ==
  ASSUME IInv, PhaseInv, DrainInv, CheckSummary
  PROVE  DrainInv'
<1>1. /\ pc = "checkSummary" /\ UNCHANGED <<closing, claim, written, dropped>> /\ closing
  BY DEF CheckSummary, flagVars, PhaseInv, Draining, Summing
<1>2. claim.outcome # "drained" /\ outcome # "drained"
  BY <1>1 DEF DrainInv, PhaseInv, Outcome, Ended
<1>3. CASE outcome' = "timeout" /\ pc' = "finalize"
  BY <1>1, <1>2, <1>3 DEF DrainInv, Ended
<1>4. CASE UNCHANGED <<summaries, outcome>> /\ pc' = "summary"
  BY <1>1, <1>2, <1>4 DEF DrainInv, Matches, Ended
<1>5. CASE AllSummarized /\ outcome' = "drained" /\ pc' = "finalize" /\ UNCHANGED summaries
  BY <1>1, <1>2, <1>5 DEF DrainInv, Matches, Ended, AllSummarized
<1> QED
  BY <1>3, <1>4, <1>5 DEF CheckSummary

LEMMA DrainEnds ==
  ASSUME IInv, PhaseInv, DrainInv,
         FinalizeSummary \/ Commit \/ Retract \/ Withhold \/ PublishFails
  PROVE  DrainInv'
<1> USE DEF flagVars, resultVars, queueVars, producerVars, countVars, shardVars, Ended
<1>1. pc \in {"finalize", "publish", "published"} /\ claim.outcome # "drained"
  BY DEF FinalizeSummary, Commit, Retract, Withhold, PublishFails, DrainInv
<1>2. CASE FinalizeSummary
  <2>1. UNCHANGED <<closing, claim, written, dropped>> /\ pc' = "publish"
    BY <1>2 DEF FinalizeSummary
  <2>2. CASE UNCHANGED <<summaries, outcome>>
    BY <1>1, <2>1, <2>2 DEF DrainInv, Matches
  <2>3. CASE abandoned /\ summaryWritten /\ outcome' = "timeout"
    <3>1. closing
      BY <2>3, StreamsAssumption DEF PhaseInv, Summarized, AllSummarized, DrainInv
    <3> QED
      BY <1>1, <2>1, <2>3, <3>1 DEF DrainInv
  <2> QED
    BY <1>2, <2>2, <2>3 DEF FinalizeSummary
<1>3. ASSUME UNCHANGED <<closing, summaries, written>>, pc' = "done",
             outcome' # "drained" \/ (outcome' = outcome /\ dropped' = dropped),
             claim'.outcome = "drained" =>
               claim'.summary /\ \A s \in Streams : Matches(s, claim'.written, claim'.dropped)
      PROVE  DrainInv'
  BY <1>3 DEF DrainInv, Matches
<1>4. CASE Commit
  <2>1. /\ UNCHANGED <<closing, summaries, written, outcome, dropped>> /\ pc' = "done"
        /\ claim' = Receipt("drained", TRUE, TRUE, dropped) /\ outcome = "drained"
    BY <1>4 DEF Commit, PhaseInv, Outcome
  <2>2. claim'.summary /\ claim'.written = written /\ claim'.dropped = dropped
    BY <2>1 DEF Receipt
  <2> QED
    BY <1>3, <2>1, <2>2 DEF DrainInv
<1>5. CASE Retract
  <2>1. /\ UNCHANGED <<closing, summaries, written>> /\ pc' = "done" /\ outcome' = "timeout"
        /\ claim' = claim \/ claim' = Receipt("timeout", FALSE, TRUE, dropped)
    BY <1>5 DEF Retract, FinalClaim
  <2>2. claim'.outcome # "drained"
    BY <1>1, <2>1 DEF Receipt
  <2> QED
    BY <1>3, <2>1, <2>2
<1>6. CASE Withhold
  <2>1. /\ UNCHANGED <<closing, summaries, written, outcome, dropped>> /\ pc' = "done"
        /\ claim' = claim \/ claim' = Receipt(FinalOutcome, summaryWritten, TRUE, dropped)
    BY <1>6 DEF Withhold, FinalClaim
  <2>2. FinalOutcome = "drained" => outcome = "drained" /\ summaryWritten
    BY <1>6 DEF Withhold, FinalOutcome, PhaseInv, Outcome
  <2>3. CASE claim' = claim
    BY <1>1, <1>3, <2>1, <2>3
  <2>4. CASE claim' = Receipt(FinalOutcome, summaryWritten, TRUE, dropped)
    <3>1. /\ claim'.outcome = FinalOutcome /\ claim'.summary = summaryWritten
          /\ claim'.written = written /\ claim'.dropped = dropped
      BY <2>4 DEF Receipt
    <3>2. claim'.outcome = "drained" =>
            claim'.summary /\ \A s \in Streams : Matches(s, claim'.written, claim'.dropped)
      BY <2>2, <3>1 DEF DrainInv
    <3> QED
      BY <1>3, <2>1, <3>2
  <2> QED
    BY <2>1, <2>3, <2>4
<1>7. CASE PublishFails
  <2>1. /\ UNCHANGED <<closing, summaries, written>> /\ pc' = "done"
        /\ outcome' = "writer_failure"
        /\ claim' = claim \/ claim' = Receipt("writer_failure", FALSE, TRUE, DropsWithQueue)
    BY <1>7 DEF PublishFails, FinalClaim
  <2>2. claim'.outcome # "drained"
    BY <1>1, <2>1 DEF Receipt
  <2> QED
    BY <1>3, <2>1, <2>2
<1> QED
  BY <1>2, <1>4, <1>5, <1>6, <1>7

LEMMA DrainCloses ==
  ASSUME IInv, PhaseInv, DrainInv,
         CloseAfterFailure \/ ForceTimeout \/ LockFreeTimeout
  PROVE  DrainInv'
<1> USE DEF flagVars, resultVars, queueVars, producerVars, countVars, shardVars, Ended
<1>1. CASE CloseAfterFailure
  <2>1. /\ UNCHANGED <<closing, summaries, outcome, written, dropped, pc>>
        /\ claim' = Receipt("writer_failure", FALSE, TRUE, dropped)
    BY <1>1 DEF CloseAfterFailure
  <2>2. claim'.outcome # "drained"
    BY <2>1 DEF Receipt
  <2> QED
    BY <2>1, <2>2 DEF DrainInv, Matches
<1>2. CASE LockFreeTimeout
  <2>1. /\ UNCHANGED <<closing, summaries, written, dropped, pc>> /\ outcome' = "timeout"
        /\ claim' = Receipt("timeout", FALSE, FALSE, dropped)
    BY <1>2 DEF LockFreeTimeout
  <2>2. claim'.outcome # "drained"
    BY <2>1 DEF Receipt
  <2> QED
    BY <2>1, <2>2 DEF DrainInv, Matches
<1>3. CASE ForceTimeout
  <2>1. /\ UNCHANGED <<closing, summaries, written, pc>> /\ outcome' = "timeout"
        /\ claim' = Receipt("timeout", FALSE, TRUE, DropsWithQueue) /\ dropped' = DropsWithQueue
    BY <1>3 DEF ForceTimeout, DiscardQueue
  <2>2. claim'.outcome # "drained"
    BY <2>1 DEF Receipt
  <2>3. ASSUME pc \notin Ended, NEW s \in Streams, summaries[s] # <<>>
        PROVE  dropped'[s] = dropped[s]
    <3>1. pending = <<>> /\ dropped[s] \in Nat
      BY <2>3 DEF PhaseInv, Summarized, Draining, Summing, IInv, TypeOK, PerStream
    <3>2. dropped'[s] = dropped[s] + HowMany(pending, DataOf(s))
      BY <2>1 DEF DropsWithQueue
    <3> QED
      BY <3>1, <3>2, HowManyEmpty
  <2> QED
    BY <2>1, <2>2, <2>3 DEF DrainInv, Matches
<1> QED
  BY <1>1, <1>2, <1>3

LEMMA DrainNext ==
  ASSUME IInv, PhaseInv, DrainInv, [Next]_vars
  PROVE  DrainInv'
<1> USE DEF flagVars, resultVars, queueVars, producerVars, countVars, shardVars
<1>1. CASE \/ Produce \/ TakeBatch \/ BeginWrite \/ WriteBytes \/ WriteFails \/ RecordWritten
           \/ CutoffReached \/ WriterAbandons
           \/ PrepareTimeoutControls \/ DropTimeoutControls \/ StartDrain \/ FinishDrained
  BY <1>1, DrainLoop
<1>2. CASE \E s \in Streams : WriteSummary(s)
  BY <1>2, DrainWrites
<1>3. CASE CheckSummary
  BY <1>3, DrainChecks
<1>4. CASE FinalizeSummary \/ Commit \/ Retract \/ Withhold \/ PublishFails
  BY <1>4, DrainEnds
<1>5. CASE CloseAfterFailure \/ ForceTimeout \/ LockFreeTimeout
  BY <1>5, DrainCloses
<1>6. CASE BeginSummary \/ Publish \/ \E s \in Streams : SummaryFails(s)
  <2>1. /\ UNCHANGED <<summaries, outcome, claim, written, dropped, closing>> /\ pc # "done"
        /\ pc' \notin Ended => pc \notin Ended
    BY <1>6 DEF BeginSummary, Publish, SummaryFails, Ended
  <2> QED
    BY <2>1, DrainQuiet
<1>7. CASE DeadlinePasses \/ \E built \in BOOLEAN : RequestClose(built)
  <2>1. /\ UNCHANGED <<summaries, outcome, claim, written, dropped, pc>> /\ closing'
    BY <1>7 DEF DeadlinePasses, RequestClose
  <2> QED
    BY <2>1, DrainQuiet
<1>8. CASE UNCHANGED vars
  BY <1>8, DrainQuiet DEF vars
<1> QED
  BY <1>1, <1>2, <1>3, <1>4, <1>5, <1>6, <1>7, <1>8 DEF Next, Writer, Close, Terminated

\* A CloseResult that says drained stands for shards that end in one summary with
\* its counters, whichever thread made it.
THEOREM DrainedIsSummarized ==
  Spec => []DrainedReceiptHasSummary
<1>1. ASSUME Init PROVE DrainInv
  <2>1. \A s \in Streams : summaries[s] = <<>>
    BY <1>1 DEF Init
  <2> QED
    BY <1>1, <2>1 DEF Init, DrainInv, NoClaim
<1>2. IInv /\ PhaseInv /\ DrainInv /\ [Next]_vars => DrainInv'
  BY DrainNext
<1>3. DrainInv => DrainedReceiptHasSummary
  BY DEF DrainInv, Matches, DrainedReceiptHasSummary
<1> QED
  BY <1>1, <1>2, <1>3, Phases, PTL DEF Spec

================================================================================
