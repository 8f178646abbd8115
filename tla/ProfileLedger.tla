--------------------------- MODULE ProfileLedger ---------------------------
(***************************************************************************)
(* BoundedKVRecoveryProfileLedger on its own (without runtime hooks): the  *)
(* allocation of record_seq, the bounded list of records, and the loss     *)
(* intervals that are extended as long as they stay contiguous.  Every     *)
(* method holds the ledger's lock.  The wire builders' checks on loss      *)
(* intervals and on the summary are the properties.                        *)
(***************************************************************************)
EXTENDS Integers, Sequences, FiniteSets

CONSTANTS Types,     \* the profile record types
          Reasons,   \* the loss reasons
          Capacity,  \* capacity
          MaxSeq     \* number of sequence numbers, 2^64

ASSUME LedgerAssumption ==
    /\ IsFiniteSet(Types)
    /\ {"queue_overflow", "serialization_failure"} \subseteq Reasons
    /\ Capacity \in Nat \ {0}
    /\ MaxSeq \in Nat

VARIABLES next,     \* _next_record_seq
          records,  \* _records
          losses    \* _losses

ledgerVars == <<next, records, losses>>

Seqs(interval) == interval.first..interval.last

\* A mistaken variant: an interval is extended over accepted records.
ExtendsAnyway(reason) ==
    /\ losses # <<>>
    /\ losses[Len(losses)].reason = reason

\* Whether a loss of this sequence continues the last interval.
Extends(reason) ==
    /\ losses # <<>>
    /\ losses[Len(losses)].reason = reason
    /\ losses[Len(losses)].last + 1 = next

\* A mistaken variant: the merged interval keeps the old counts.
ExtendedUncounted(type) ==
    [losses EXCEPT ![Len(losses)].last = next]

\* The last interval with one more loss.
Extended(type) ==
    [losses EXCEPT ![Len(losses)].last = next,
                   ![Len(losses)].counts[type] = @ + 1]

\* _drop_locked
DropLocked(type, reason) ==
    losses' = IF Extends(reason) THEN Extended(type)
              ELSE Append(losses, [reason |-> reason, first |-> next, last |-> next,
                       counts |-> [t \in Types |-> IF t = type THEN 1 ELSE 0]])

\* _allocate_locked: beyond the last sequence number it raises.
Allocate == next < MaxSeq /\ next' = next + 1

\* write: a timestamp outside uint64 is a loss, and so is a full list.
Write(type, stamped) ==
    /\ Allocate
    /\ \/ ~stamped /\ DropLocked(type, "serialization_failure") /\ UNCHANGED records
       \/ /\ stamped /\ Len(records) >= Capacity
          /\ DropLocked(type, "queue_overflow")
          /\ UNCHANGED records
       \/ /\ stamped /\ Len(records) < Capacity
          /\ records' = Append(records, [type |-> type, seq |-> next])
          /\ UNCHANGED losses

\* drop
DropRecord(type, reason) == Allocate /\ DropLocked(type, reason) /\ UNCHANGED records

LedgerInit == next = 0 /\ records = <<>> /\ losses = <<>>

\* The bound is reached.
LedgerRest == next = MaxSeq /\ UNCHANGED ledgerVars

LedgerNext ==
    \/ LedgerRest
    \/ \E type \in Types : \/ \E stamped \in BOOLEAN : Write(type, stamped)
                           \/ \E reason \in Reasons : DropRecord(type, reason)

LedgerSpec == LedgerInit /\ [][LedgerNext]_ledgerVars

-----------------------------------------------------------------------------
\* The losses that counts tells of, numbered by type, and how many they are.
Counted(counts) == UNION {{t} \X (1..counts[t]) : t \in Types}
CountOf(counts) == Cardinality(Counted(counts))

LedgerTypeOK ==
    /\ next \in 0..MaxSeq
    /\ records \in Seq([type : Types, seq : Nat])
    /\ losses \in Seq([reason : Reasons, first : Nat, last : Nat, counts : [Types -> Nat]])

Written == {records[i].seq : i \in DOMAIN records}
LostSeqs == UNION {Seqs(losses[i]) : i \in DOMAIN losses}

\* Every sequence number given out is that of one record or lies in one loss
\* interval, never in both, never twice: what attempted = written + dropped in
\* build_profile_summary_record relies on.
EverySequenceOnce ==
    /\ \A i, j \in DOMAIN records : i < j => records[i].seq < records[j].seq
    /\ \A i, j \in DOMAIN losses : i < j => losses[i].last < losses[j].first
    /\ Written \cap LostSeqs = {}
    /\ Written \cup LostSeqs = 0..(next - 1)

\* build_profile_loss_interval_record accepts every interval: its counts add
\* up to its length, also after it was extended by losses of other types.
LossRecordsBuild ==
    \A i \in DOMAIN losses :
        /\ losses[i].first <= losses[i].last
        /\ CountOf(losses[i].counts) = losses[i].last - losses[i].first + 1

\* Intervals are maximal: two that touch differ in reason.
LossesMaximal ==
    \A i \in DOMAIN losses : i > 1 /\ losses[i - 1].last + 1 = losses[i].first
                              => losses[i - 1].reason # losses[i].reason

\* The intervals are what the wire builder and the contract require.
IntervalsWellFormed == LedgerTypeOK /\ LossRecordsBuild /\ LossesMaximal
=============================================================================
