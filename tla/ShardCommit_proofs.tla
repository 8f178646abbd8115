------------------------- MODULE ShardCommit_proofs -------------------------
(***************************************************************************)
(* Theorems about ShardCommit, for every set of closers, one stream or     *)
(* two, and any number of failing file system calls: close() has a single  *)
(* receipt, a drained receipt is backed by both shards or made after the   *)
(* deadline, a publication that has won is final, and every step of the    *)
(* sink is a step of the abstract commit protocol or leaves it alone.      *)
(***************************************************************************)
EXTENDS ShardCommit, TLAPS, FiniteSetTheorems

--------------------------------------------------------------------------------
(* The inductive invariant *)

BeforeFinalize == {"init", "ready", "loop", "drained", "move", "moved",
                   "summary", "summarizing", "checked"}
Finalizing == {"finalize", "closefd", "eligible"}

\* The formal name of s names its shard, or its bytes are under the hidden name.
InPlace(s) == formal[s] = "shard" /\ ~hidden[s]
SetAside(s) == formal[s] = "sentinel" /\ hidden[s]

\* What the file system holds of one stream, by the place the writer has reached.
StageFiles(s) ==
  /\ wpc = "init" => formal[s] = "absent" /\ ~hidden[s] /\ content[s] = "open"
  /\ wpc \in {"ready", "loop", "drained"} => InPlace(s) /\ content[s] = "open"
  /\ wpc = "move" => (InPlace(s) \/ SetAside(s)) /\ content[s] = "open"
  /\ wpc = "moved" => SetAside(s) /\ content[s] = "open"
  /\ wpc \in {"summary", "summarizing", "checked"} =>
       SetAside(s) /\ content[s] \in {"open", "complete"}
  /\ wpc \in Finalizing => ~(formal[s] = "shard" /\ content[s] = "complete")
  /\ wpc \in Finalizing /\ summaryWritten => SetAside(s) /\ content[s] = "complete"
  /\ wpc = "publish" => (InPlace(s) \/ SetAside(s)) /\ content[s] = "complete"
  /\ wpc = "claim" => formal[s] = "shard" /\ content[s] = "complete"
  /\ wpc = "retract" /\ s \in retracting => formal[s] = "shard" /\ content[s] = "complete"
  /\ wpc = "retract" /\ s \notin retracting /\ formal[s] = "shard" /\ content[s] = "complete" =>
       faults >= 3
  /\ wpc \in {"end", "done"} /\ claim.by # "publication"
       /\ formal[s] = "shard" /\ content[s] = "complete" => faults >= 3

FilesFollowStage == \A s \in Streams : StageFiles(s)

\* A loop over the streams is only re-entered with a stream left to visit.
WorkRemains ==
  /\ wpc = "move" => ToMove # {}
  /\ wpc \in {"summary", "summarizing"} => Unsummarized # {}
  /\ wpc = "publish" => ToPublish # {}

\* The publication claims after the last shard is in place, and then only ends.
PublicationWon ==
  claim.by = "publication" =>
    /\ wpc \in {"end", "done"} /\ claim = Claim("drained", TRUE, "publication")
    /\ \A s \in Streams : formal[s] = "shard" /\ content[s] = "complete"

\* Of the threads in close(), the one that has set the deadline keeps the close
\* lock until there is a receipt.
CloserState(c) ==
  /\ cpc[c] # "idle" => ctor = "open"
  /\ cpc[c] = "enter" => closeLock = c
  /\ cpc[c] \in {"join", "settle"} => closing
  /\ cpc[c] = "flags" => claim # NoClaim
  /\ cpc[c] = "returned" => claim # NoClaim /\ result[c] = claim
  /\ deadline = c /\ claim = NoClaim =>
       closeLock = c /\ cpc[c] \in {"join", "settle", "lockfree"}

CloseProtocol ==
  /\ closing <=> deadline # Nobody
  /\ closing => ctor = "open"
  /\ wpc = "done" => closed
  /\ wpc = "done" /\ closing => claim # NoClaim
  /\ \A c \in Closers : CloserState(c)

\* A summary is only written on behalf of a closer, and what disqualifies it
\* afterwards, except for the deadline, comes with a receipt.
SummaryState ==
  /\ abandoned => ctor = "raised" \/ claim # NoClaim
  /\ wpc \in {"drained", "move", "moved", "summary", "summarizing", "checked",
              "publish", "claim", "retract"} => closing
  /\ summaryWritten => closing
  /\ summaryWritten /\ (failed \/ outcome # "drained") => claim # NoClaim
  /\ wpc \in BeforeFinalize => ~summaryWritten
  /\ wpc \in BeforeFinalize /\ failed => claim # NoClaim
  /\ wpc \in {"end", "done"} /\ summaryWritten /\ claim = NoClaim => Expired

\* A drained receipt that no publication has made was made after the deadline.
LateReceipt == Committed /\ claim.by # "publication" => Expired

IInv ==
  /\ TypeOK
  /\ FilesFollowStage /\ WorkRemains /\ PublicationWon
  /\ CloseProtocol /\ SummaryState /\ LateReceipt

--------------------------------------------------------------------------------
(* The one or two streams *)

\* First and Last pick a member of a nonempty set of streams, and such a set
\* has one member exactly when First picks it.
LEMMA PickStream ==
  ASSUME NEW S, S \subseteq Streams, S # {}
  PROVE  /\ First(S) \in S /\ Last(S) \in S
         /\ Cardinality(S) = 1 <=> S = {First(S)}
<1>1. S \subseteq {"base", "profile"}
  BY CommitAssumption
<1>2. First(S) \in S /\ Last(S) \in S
  BY <1>1 DEF First, Last
<1>3. Cardinality({First(S)}) = 1
  BY FS_Singleton
<1>4. ASSUME S # {First(S)} PROVE Cardinality(S) = 2
  <2>1. S = {"profile"} \cup {"base"}
    BY <1>1, <1>2, <1>4 DEF First
  <2>2. IsFiniteSet({"profile"}) /\ Cardinality({"profile"}) = 1
    BY FS_Singleton
  <2>3. Cardinality({"profile"} \cup {"base"}) = 2
    BY <2>2, FS_AddElement
  <2> QED
    BY <2>1, <2>3
<1> QED
  BY <1>2, <1>3, <1>4

\* A set of streams has a natural number of members.
LEMMA StreamCount ==
  ASSUME NEW S \in SUBSET Streams
  PROVE  Cardinality(S) \in Nat
<1>1. IsFiniteSet({"base"}) /\ {"base", "profile"} = {"base"} \cup {"profile"}
  BY FS_Singleton
<1>2. IsFiniteSet({"base", "profile"})
  BY <1>1, FS_AddElement
<1>3. S \in SUBSET {"base", "profile"}
  BY CommitAssumption
<1> QED
  BY <1>2, <1>3, FS_Subset, FS_CardinalityType

--------------------------------------------------------------------------------
(* Typing *)

\* A claim has the fields it is made of, and is a receipt.
LEMMA ClaimTypes ==
  ASSUME NEW o \in {"drained", "timeout", "writer_failure"}, NEW s \in BOOLEAN,
         NEW by \in {"closer", "lockfree", "publication", "writer"}
  PROVE  Claim(o, s, by) \in Receipts
BY DEF Claim, Receipts

LEMMA ClaimFields ==
  ASSUME NEW o \in {"drained", "timeout", "writer_failure"}, NEW s \in BOOLEAN,
         NEW by \in {"closer", "lockfree", "publication", "writer"}
  PROVE  /\ Claim(o, s, by) # NoClaim
         /\ Claim(o, s, by).outcome = o /\ Claim(o, s, by).summary = s
         /\ Claim(o, s, by).by = by
BY DEF Claim, NoClaim

\* The claims the code makes are receipts.
LEMMA ClaimsMade ==
  ASSUME NEW o \in {"drained", "timeout", "writer_failure"}, NEW s \in BOOLEAN
  PROVE  /\ Claim("writer_failure", FALSE, "closer") \in Receipts
         /\ Claim("timeout", FALSE, "closer") \in Receipts
         /\ Claim("timeout", FALSE, "lockfree") \in Receipts
         /\ Claim("drained", TRUE, "publication") \in Receipts
         /\ Claim(o, s, "closer") \in Receipts
         /\ Claim(o, s, "writer") \in Receipts
BY ClaimTypes

LEMMA InitType == Init => TypeOK
<1> SUFFICES ASSUME Init PROVE TypeOK
  OBVIOUS
<1>1. NoClaim \in Receipts
  BY DEF Receipts
<1>2. result \in [Closers -> Receipts] /\ claim \in Receipts
  BY <1>1 DEF Init
<1>3. faults \in 0..MaxFaults /\ late \subseteq Closers /\ retracting \subseteq Streams
  BY CommitAssumption DEF Init
<1>4. /\ hidden \in [Streams -> BOOLEAN]
      /\ formal \in [Streams -> {"absent", "shard", "sentinel"}]
      /\ content \in [Streams -> {"open", "complete", "invalid"}]
  BY DEF Init
<1> QED
  BY <1>2, <1>3, <1>4 DEF Init, TypeOK

\* The type invariant in two parts, the flags of the sink and the rest.
FlagTypes ==
  /\ ready \in BOOLEAN /\ closing \in BOOLEAN /\ closed \in BOOLEAN
  /\ abandoned \in BOOLEAN /\ failed \in BOOLEAN /\ summaryWritten \in BOOLEAN

StateTypes ==
  /\ ctor \in {"waiting", "late", "open", "raised"}
  /\ deadline \in Closers \cup {Nobody} /\ late \subseteq Closers
  /\ outcome \in {"none", "drained", "timeout", "writer_failure"}
  /\ claim \in Receipts
  /\ closeLock \in Closers \cup {Nobody}
  /\ cpc \in [Closers -> {"idle", "lock", "enter", "join", "settle", "lockfree", "flags",
                          "returned"}]
  /\ result \in [Closers -> Receipts]
  /\ wpc \in {"init", "ready", "loop", "drained", "move", "moved", "summary", "summarizing",
              "checked", "finalize", "closefd", "eligible", "publish", "claim", "retract",
              "end", "done"}
  /\ formal \in [Streams -> {"absent", "shard", "sentinel"}]
  /\ hidden \in [Streams -> BOOLEAN]
  /\ content \in [Streams -> {"open", "complete", "invalid"}]
  /\ retracting \subseteq Streams
  /\ publication \in {"none", "expired", "failed"}
  /\ faults \in 0..MaxFaults

LEMMA TypeParts == TypeOK <=> FlagTypes /\ StateTypes
BY DEF TypeOK, FlagTypes, StateTypes

LEMMA FlagTypesKept ==
  ASSUME FlagTypes, [Next]_vars
  PROVE  FlagTypes'
<1> USE DEF FlagTypes, flagVars, resultVars, closerVars, fileVars, WriterGoes
<1>1. CASE Constructor
  BY <1>1 DEF Constructor, ConstructorReturns, ConstructorTimesOut
<1>2. ASSUME NEW c \in Closers, CallClose(c) \/ Tick(c) \/ CloserStep(c)
      PROVE  FlagTypes'
  BY <1>2 DEF CallClose, Tick, CloserStep, AcquireCloseLock, EnterClose, JoinReturns, Settle,
     ConditionTimesOut, LockFreeClaim, LockFreeFlags
<1>3. CASE Writer
  <2>1. CASE InitializeWriter \/ InitializeFails \/ CheckInitialization
    BY <2>1 DEF InitializeWriter, InitializeFails, CheckInitialization
  <2>2. CASE WriterLoop \/ CheckDeadline \/ MoveShard \/ MoveFails
    BY <2>2 DEF WriterLoop, CheckDeadline, MoveShard, MoveFails, WriterFails, WriterTimesOut
  <2>3. CASE BeginSummary \/ WriteSummary \/ SummaryFails \/ CheckSummary
    BY <2>3 DEF BeginSummary, WriteSummary, SummaryFails, CheckSummary, WriterFails,
       WriterTimesOut
  <2>4. CASE InvalidateLateSummary \/ CloseDescriptors \/ CheckEligible
    BY <2>4 DEF InvalidateLateSummary, CloseDescriptors, CheckEligible, PublicationFails
  <2>5. CASE VerifyFails \/ PublishShard \/ PublishFails \/ CommitClaim
    BY <2>5 DEF VerifyFails, PublishShard, PublishFails, CommitClaim, PublicationFails
  <2>6. CASE RetractShard \/ RetractionDone \/ WriterEnds
    BY <2>6 DEF RetractShard, RetractionDone, WriterEnds, PublicationFails
  <2> QED
    BY <1>3, <2>1, <2>2, <2>3, <2>4, <2>5, <2>6 DEF Writer
<1>4. CASE Quiescent \/ UNCHANGED vars
  BY <1>4 DEF Quiescent, vars
<1> QED
  BY <1>1, <1>2, <1>3, <1>4 DEF Next

\* The outcome a receipt is made of is one of the three.
SettledOutcome == IF outcome = "none" THEN "writer_failure" ELSE outcome

LEMMA OutcomeTypes ==
  ASSUME TypeOK
  PROVE  /\ SettledOutcome \in {"drained", "timeout", "writer_failure"}
         /\ FinalOutcome \in {"drained", "timeout", "writer_failure"}
BY DEF TypeOK, SettledOutcome, FinalOutcome

LEMMA ConstructorTypes ==
  ASSUME StateTypes, Constructor
  PROVE  StateTypes'
BY DEF StateTypes, Constructor, ConstructorReturns, ConstructorTimesOut, flagVars, resultVars,
       closerVars, fileVars

LEMMA CloserTypes ==
  ASSUME TypeOK, NEW c \in Closers, CallClose(c) \/ Tick(c) \/ CloserStep(c)
  PROVE  StateTypes'
<1>1. claim \in Receipts /\ summaryWritten \in BOOLEAN
  BY DEF TypeOK
<1> USE TypeParts DEF StateTypes, flagVars, resultVars, fileVars
<1>2. CASE CallClose(c)
  BY <1>2 DEF CallClose, Goto, Return
<1>3. CASE Tick(c)
  BY <1>3 DEF Tick
<1>4. CASE AcquireCloseLock(c)
  BY <1>4 DEF AcquireCloseLock, Goto
<1>5. CASE EnterClose(c)
  <2>1. claim' = claim \/ claim' = Claim("writer_failure", FALSE, "closer")
    BY <1>5 DEF EnterClose, Claimed
  <2>2. claim' \in Receipts
    BY <1>1, <2>1, ClaimsMade
  <2>3. /\ \/ Return(c, claim') /\ deadline' = deadline
           \/ Goto(c, "join") /\ deadline' = c /\ closeLock' = closeLock
        /\ UNCHANGED <<ctor, outcome, late, wpc, retracting, publication, faults>>
        /\ UNCHANGED fileVars
    BY <1>5 DEF EnterClose
  <2> QED
    BY <2>2, <2>3 DEF Goto, Return
<1>6. CASE JoinReturns(c)
  BY <1>6 DEF JoinReturns, Goto
<1>7. CASE Settle(c)
  <2>1. \/ claim' = claim
        \/ claim' = Claim("timeout", FALSE, "closer")
        \/ claim' = Claim(SettledOutcome, summaryWritten, "closer")
    BY <1>7 DEF Settle, Claimed, SettledOutcome
  <2>2. claim' \in Receipts
    BY <1>1, <2>1, ClaimsMade, OutcomeTypes
  <2>3. /\ Return(c, claim') /\ outcome' \in {outcome, "timeout"}
        /\ UNCHANGED <<ctor, deadline, late, wpc, retracting, publication, faults>>
        /\ UNCHANGED fileVars
    BY <1>7 DEF Settle
  <2> QED
    BY <2>2, <2>3 DEF Return
<1>8. CASE ConditionTimesOut(c)
  BY <1>8 DEF ConditionTimesOut, Goto
<1>9. CASE LockFreeClaim(c)
  <2>1. claim' = claim \/ claim' = Claim("timeout", FALSE, "lockfree")
    BY <1>9 DEF LockFreeClaim, Claimed
  <2>2. claim' \in Receipts
    BY <1>1, <2>1, ClaimsMade
  <2> QED
    BY <1>9, <2>2 DEF LockFreeClaim, Goto, Return
<1>10. CASE LockFreeFlags(c)
  BY <1>10 DEF LockFreeFlags, Return
<1> QED
  BY <1>2, <1>3, <1>4, <1>5, <1>6, <1>7, <1>8, <1>9, <1>10 DEF CloserStep

\* What a failing call adds to the count of faults stays within the bound.
LEMMA FaultTypes ==
  ASSUME TypeOK
  PROVE  /\ Fault => faults' \in 0..MaxFaults /\ faults' = faults + 1
         /\ Invalidate =>
              /\ faults' \in 0..MaxFaults /\ faults' >= faults
              /\ content' \in [Streams -> {"open", "complete", "invalid"}]
              /\ \A s \in Streams : content'[s] \in {content[s], "invalid"}
<1>1. faults \in Nat /\ MaxFaults \in Nat /\ faults <= MaxFaults
  BY CommitAssumption DEF TypeOK
<1>2. Fault => faults' \in 0..MaxFaults /\ faults' = faults + 1
  BY <1>1 DEF Fault
<1>3. ASSUME Invalidate
      PROVE  /\ faults' \in 0..MaxFaults /\ faults' >= faults
             /\ content' \in [Streams -> {"open", "complete", "invalid"}]
             /\ \A s \in Streams : content'[s] \in {content[s], "invalid"}
  <2>1. PICK bad \in SUBSET Streams :
          /\ content' = [s \in Streams |-> IF s \in bad THEN content[s] ELSE "invalid"]
          /\ faults' = faults + Cardinality(bad)
          /\ faults' <= MaxFaults
    BY <1>3 DEF Invalidate
  <2>2. Cardinality(bad) \in Nat
    BY StreamCount
  <2>3. faults' \in 0..MaxFaults /\ faults' >= faults
    BY <1>1, <2>1, <2>2
  <2>4. content \in [Streams -> {"open", "complete", "invalid"}]
    BY DEF TypeOK
  <2> QED
    BY <2>1, <2>3, <2>4
<1> QED
  BY <1>2, <1>3

LEMMA WriterTypes ==
  ASSUME TypeOK, Writer
  PROVE  StateTypes'
<1>1. claim \in Receipts /\ summaryWritten \in BOOLEAN
  BY DEF TypeOK
<1>2. faults \in Nat /\ MaxFaults \in Nat
  BY CommitAssumption DEF TypeOK
<1> USE TypeParts DEF StateTypes, flagVars, resultVars, closerVars, fileVars, WriterGoes
<1>3. CASE InitializeWriter
  BY <1>3 DEF InitializeWriter
<1>4. CASE InitializeFails
  BY <1>4, FaultTypes DEF InitializeFails
<1>5. CASE CheckInitialization
  BY <1>5 DEF CheckInitialization
<1>6. CASE WriterLoop
  <2>1. CASE WriterFails
    BY <1>6, <2>1, FaultTypes DEF WriterLoop, WriterFails
  <2>2. CASE ~WriterFails
    BY <1>6, <2>2 DEF WriterLoop, WriterTimesOut
  <2> QED
    BY <2>1, <2>2
<1>7. CASE CheckDeadline
  BY <1>7 DEF CheckDeadline, WriterTimesOut
<1>8. CASE MoveShard
  BY <1>8 DEF MoveShard
<1>9. CASE MoveFails
  BY <1>9, FaultTypes DEF MoveFails, WriterFails
<1>10. CASE BeginSummary
  BY <1>10 DEF BeginSummary
<1>11. CASE WriteSummary
  BY <1>11 DEF WriteSummary
<1>12. CASE SummaryFails
  BY <1>12, FaultTypes DEF SummaryFails, WriterFails
<1>13. CASE CheckSummary
  <2>1. CASE Invalidate
    BY <1>13, <2>1, FaultTypes DEF CheckSummary, WriterTimesOut
  <2>2. CASE ~Invalidate
    BY <1>13, <2>2 DEF CheckSummary
  <2> QED
    BY <2>1, <2>2
<1>14. CASE InvalidateLateSummary
  <2>1. CASE Invalidate
    BY <1>14, <2>1, FaultTypes DEF InvalidateLateSummary
  <2>2. CASE ~Invalidate
    BY <1>14, <2>2 DEF InvalidateLateSummary
  <2> QED
    BY <2>1, <2>2
<1>15. CASE CloseDescriptors
  BY <1>15, FaultTypes DEF CloseDescriptors, PublicationFails
<1>16. CASE CheckEligible
  BY <1>16 DEF CheckEligible
<1>17. CASE VerifyFails
  BY <1>17, FaultTypes DEF VerifyFails, PublicationFails
<1>18. CASE PublishShard
  BY <1>18 DEF PublishShard
<1>19. CASE PublishFails
  BY <1>19, FaultTypes DEF PublishFails
<1>20. CASE CommitClaim
  <2>1. claim' \in Receipts
    BY <1>20, <1>1, ClaimsMade DEF CommitClaim
  <2> QED
    BY <1>20, <2>1 DEF CommitClaim, ToRetract
<1>21. CASE RetractShard
  <2>1. faults' \in 0..MaxFaults
    BY <1>21, <1>2, FaultTypes DEF RetractShard
  <2> QED
    BY <1>21, <2>1 DEF RetractShard, Retracted
<1>22. CASE RetractionDone
  BY <1>22 DEF RetractionDone, PublicationFails
<1>23. CASE WriterEnds
  <2>1. claim' = claim \/ claim' = Claim(FinalOutcome, summaryWritten, "writer")
    BY <1>23 DEF WriterEnds, Claimed
  <2>2. claim' \in Receipts
    BY <1>1, <2>1, ClaimsMade, OutcomeTypes
  <2> QED
    BY <1>23, <2>2 DEF WriterEnds
<1> QED
  BY <1>3, <1>4, <1>5, <1>6, <1>7, <1>8, <1>9, <1>10, <1>11, <1>12, <1>13, <1>14, <1>15,
     <1>16, <1>17, <1>18, <1>19, <1>20, <1>21, <1>22, <1>23 DEF Writer

--------------------------------------------------------------------------------
(* What a step leaves alone *)

\* The constructor and the closers touch neither the files nor the writer.
LEMMA OutsideWriter ==
  ASSUME Constructor \/ \E c \in Closers : CallClose(c) \/ Tick(c) \/ CloserStep(c)
  PROVE  /\ UNCHANGED <<formal, hidden, content>>
         /\ UNCHANGED <<wpc, retracting, publication, faults, summaryWritten>>
BY DEF Constructor, ConstructorReturns, ConstructorTimesOut, CallClose, Tick, CloserStep,
   AcquireCloseLock, EnterClose, JoinReturns, Settle, ConditionTimesOut, LockFreeClaim,
   LockFreeFlags, flagVars, resultVars, closerVars, fileVars

\* The writer touches neither the closers nor the constructor, nor the flags
\* through which they speak to it.
LEMMA OutsideClosers ==
  ASSUME Writer
  PROVE  /\ UNCHANGED <<ctor, closing, abandoned>>
         /\ UNCHANGED <<deadline, late, closeLock, cpc, result>>
<1> USE DEF flagVars, resultVars, closerVars, fileVars, WriterGoes
<1>1. CASE InitializeWriter \/ InitializeFails \/ CheckInitialization
  BY <1>1 DEF InitializeWriter, InitializeFails, CheckInitialization
<1>2. CASE WriterLoop \/ CheckDeadline \/ MoveShard \/ MoveFails
  BY <1>2 DEF WriterLoop, CheckDeadline, MoveShard, MoveFails, WriterFails, WriterTimesOut
<1>3. CASE BeginSummary \/ WriteSummary \/ SummaryFails \/ CheckSummary
  BY <1>3 DEF BeginSummary, WriteSummary, SummaryFails, CheckSummary, WriterFails, WriterTimesOut
<1>4. CASE InvalidateLateSummary \/ CloseDescriptors \/ CheckEligible
  BY <1>4 DEF InvalidateLateSummary, CloseDescriptors, CheckEligible, PublicationFails
<1>5. CASE VerifyFails \/ PublishShard \/ PublishFails \/ CommitClaim
  BY <1>5 DEF VerifyFails, PublishShard, PublishFails, CommitClaim, PublicationFails
<1>6. CASE RetractShard \/ RetractionDone \/ WriterEnds
  BY <1>6 DEF RetractShard, RetractionDone, WriterEnds, PublicationFails
<1> QED
  BY <1>1, <1>2, <1>3, <1>4, <1>5, <1>6 DEF Writer

\* Of the writer's steps, only its commit point and its last one claim.
LEMMA WriterClaims ==
  ASSUME Writer
  PROVE  claim' = claim \/ CommitClaim \/ WriterEnds
<1> USE DEF flagVars, resultVars, closerVars, fileVars, WriterGoes
<1>1. CASE InitializeWriter \/ InitializeFails \/ CheckInitialization
  BY <1>1 DEF InitializeWriter, InitializeFails, CheckInitialization
<1>2. CASE WriterLoop \/ CheckDeadline \/ MoveShard \/ MoveFails
  BY <1>2 DEF WriterLoop, CheckDeadline, MoveShard, MoveFails, WriterFails, WriterTimesOut
<1>3. CASE BeginSummary \/ WriteSummary \/ SummaryFails \/ CheckSummary
  BY <1>3 DEF BeginSummary, WriteSummary, SummaryFails, CheckSummary, WriterFails, WriterTimesOut
<1>4. CASE InvalidateLateSummary \/ CloseDescriptors \/ CheckEligible
  BY <1>4 DEF InvalidateLateSummary, CloseDescriptors, CheckEligible, PublicationFails
<1>5. CASE VerifyFails \/ PublishShard \/ PublishFails
  BY <1>5 DEF VerifyFails, PublishShard, PublishFails, PublicationFails
<1>6. CASE RetractShard \/ RetractionDone
  BY <1>6 DEF RetractShard, RetractionDone, PublicationFails
<1> QED
  BY <1>1, <1>2, <1>3, <1>4, <1>5, <1>6 DEF Writer

\* A closer's claim, when there is none yet: never of the publication, and
\* drained only where a summary was written and the writer is done.
LEMMA CloserClaims ==
  ASSUME TypeOK, NEW c \in Closers, CallClose(c) \/ Tick(c) \/ CloserStep(c), claim' # claim
  PROVE  /\ claim = NoClaim /\ claim' # NoClaim /\ claim'.by # "publication"
         /\ \/ claim'.outcome # "drained"
            \/ wpc = "done" /\ cpc[c] = "settle"
<1>1. summaryWritten \in BOOLEAN
  BY DEF TypeOK
<1>2. \/ EnterClose(c) \/ Settle(c) \/ LockFreeClaim(c)
  BY DEF CallClose, Tick, CloserStep, AcquireCloseLock, JoinReturns, ConditionTimesOut,
         LockFreeFlags, resultVars
<1>3. claim = NoClaim
  BY <1>2 DEF EnterClose, Settle, LockFreeClaim, Claimed
<1>4. CASE EnterClose(c)
  <2>1. claim' = Claim("writer_failure", FALSE, "closer")
    BY <1>4, <1>3 DEF EnterClose, Claimed
  <2> QED
    BY <1>3, <2>1, ClaimFields
<1>5. CASE Settle(c)
  <2>1. CASE wpc = "done"
    <3>1. claim' = Claim(SettledOutcome, summaryWritten, "closer")
      BY <1>3, <1>5, <2>1 DEF Settle, Claimed, SettledOutcome
    <3>2. cpc[c] = "settle"
      BY <1>5 DEF Settle
    <3> QED
      BY <1>1, <1>3, <2>1, <3>1, <3>2, OutcomeTypes, ClaimFields
  <2>2. CASE wpc # "done"
    <3>1. claim' = Claim("timeout", FALSE, "closer")
      BY <1>3, <1>5, <2>2 DEF Settle
    <3> QED
      BY <1>3, <3>1, ClaimFields
  <2> QED
    BY <2>1, <2>2
<1>6. CASE LockFreeClaim(c)
  <2>1. claim' = Claim("timeout", FALSE, "lockfree")
    BY <1>6, <1>3 DEF LockFreeClaim, Claimed
  <2> QED
    BY <1>3, <2>1, ClaimFields
<1> QED
  BY <1>2, <1>4, <1>5, <1>6

\* The claim the writer makes in its last critical section.
LEMMA WriterEndClaims ==
  ASSUME TypeOK, WriterEnds, claim' # claim
  PROVE  /\ claim = NoClaim /\ claim' # NoClaim /\ closing
         /\ claim'.by = "writer" /\ claim'.outcome = FinalOutcome
         /\ claim'.summary = summaryWritten
<1>1. summaryWritten \in BOOLEAN
  BY DEF TypeOK
<1>2. claim = NoClaim /\ closing /\ claim' = Claim(FinalOutcome, summaryWritten, "writer")
  BY DEF WriterEnds, Claimed, MustClaim
<1> QED
  BY <1>1, <1>2, OutcomeTypes, ClaimFields

\* The first claim wins: whatever the step, a claim once made stays.
LEMMA ClaimStays ==
  ASSUME TypeOK, [Next]_vars, claim # NoClaim
  PROVE  claim' = claim
<1>1. CASE Constructor
  BY <1>1 DEF Constructor, ConstructorReturns, ConstructorTimesOut, resultVars
<1>2. ASSUME NEW c \in Closers, CallClose(c) \/ Tick(c) \/ CloserStep(c)
      PROVE  claim' = claim
  BY <1>2, CloserClaims
<1>3. CASE Writer
  <2>1. CASE CommitClaim
    BY <2>1 DEF CommitClaim, CanCommit
  <2>2. CASE WriterEnds
    BY <2>2, WriterEndClaims
  <2> QED
    BY <1>3, <2>1, <2>2, WriterClaims
<1>4. CASE Quiescent \/ UNCHANGED vars
  BY <1>4 DEF Quiescent, vars, resultVars
<1> QED
  BY <1>1, <1>2, <1>3, <1>4 DEF Next

--------------------------------------------------------------------------------
(* The files follow the writer *)

LEMMA FilesKeptOutside ==
  ASSUME TypeOK, FilesFollowStage, WorkRemains, PublicationWon,
         Constructor \/ (\E c \in Closers : CallClose(c) \/ Tick(c) \/ CloserStep(c)) \/ UNCHANGED vars
  PROVE  FilesFollowStage' /\ WorkRemains' /\ PublicationWon'
<1>1. /\ UNCHANGED <<formal, hidden, content>>
      /\ UNCHANGED <<wpc, retracting, publication, faults, summaryWritten>>
  BY OutsideWriter DEF vars, fileVars, resultVars
<1>2. ASSUME claim' # claim
      PROVE  claim.by # "publication" /\ claim'.by # "publication"
  <2>1. PICK c \in Closers : CallClose(c) \/ Tick(c) \/ CloserStep(c)
    BY <1>2 DEF Constructor, ConstructorReturns, ConstructorTimesOut, vars, resultVars
  <2>2. claim = NoClaim /\ claim'.by # "publication"
    BY <1>2, <2>1, CloserClaims
  <2> QED
    BY <2>2 DEF NoClaim
<1>3. FilesFollowStage'
  BY <1>1, <1>2 DEF FilesFollowStage, StageFiles, InPlace, SetAside
<1>4. WorkRemains'
  BY <1>1 DEF WorkRemains, ToMove, Unsummarized, ToPublish
<1>5. PublicationWon'
  BY <1>1, <1>2 DEF PublicationWon
<1> QED
  BY <1>3, <1>4, <1>5

\* The streams a loop of the writer still has to visit, and the one it visits.
LEMMA NextStream ==
  ASSUME WorkRemains
  PROVE  /\ wpc = "move" => /\ First(ToMove) \in ToMove /\ First(ToMove) \in Streams
                            /\ Cardinality(ToMove) = 1 <=> ToMove = {First(ToMove)}
         /\ wpc \in {"summary", "summarizing"} =>
              First(Unsummarized) \in Unsummarized /\ First(Unsummarized) \in Streams
         /\ wpc = "publish" =>
              /\ First(ToPublish) \in ToPublish /\ First(ToPublish) \in Streams
              /\ Cardinality(ToPublish) = 1 <=> ToPublish = {First(ToPublish)}
<1>1. ToMove \subseteq Streams /\ Unsummarized \subseteq Streams /\ ToPublish \subseteq Streams
  BY DEF ToMove, Unsummarized, ToPublish
<1> QED
  BY <1>1, PickStream DEF WorkRemains

LEMMA FilesKeptByWriter ==
  ASSUME TypeOK, FilesFollowStage, WorkRemains, SummaryState, Writer, NEW s \in Streams
  PROVE  StageFiles(s)'
<1>1. StageFiles(s) /\ (wpc \in BeforeFinalize => ~summaryWritten)
  BY DEF FilesFollowStage, SummaryState
<1>2. /\ formal \in [Streams -> {"absent", "shard", "sentinel"}]
      /\ hidden \in [Streams -> BOOLEAN]
      /\ content \in [Streams -> {"open", "complete", "invalid"}]
  BY DEF TypeOK
<1>3. faults \in Nat /\ MaxFaults \in Nat
  BY CommitAssumption DEF TypeOK
<1> USE DEF StageFiles, BeforeFinalize, Finalizing, InPlace, SetAside, flagVars, resultVars,
            closerVars, fileVars, WriterGoes
<1>4. CASE InitializeWriter
  BY <1>1, <1>4 DEF InitializeWriter
<1>5. CASE InitializeFails
  BY <1>1, <1>5 DEF InitializeFails
<1>6. CASE CheckInitialization
  BY <1>1, <1>6 DEF CheckInitialization
<1>7. CASE WriterLoop
  <2>1. /\ wpc = "loop" /\ UNCHANGED fileVars
        /\ UNCHANGED summaryWritten /\ wpc' \in {"finalize", "drained"}
    BY <1>7 DEF WriterLoop, WriterFails, WriterTimesOut
  <2> QED
    BY <1>1, <2>1
<1>8. CASE CheckDeadline
  BY <1>1, <1>8 DEF CheckDeadline, WriterTimesOut
<1>9. CASE MoveShard
  BY <1>1, <1>2, <1>9, NextStream DEF MoveShard, ToMove
<1>10. CASE MoveFails
  BY <1>1, <1>2, <1>10, NextStream DEF MoveFails, WriterFails
<1>11. CASE BeginSummary
  BY <1>1, <1>11 DEF BeginSummary
<1>12. CASE WriteSummary
  BY <1>1, <1>2, <1>12, NextStream DEF WriteSummary
<1>13. CASE SummaryFails
  BY <1>1, <1>2, <1>13, NextStream DEF SummaryFails, WriterFails
<1>14. CASE CheckSummary
  BY <1>1, <1>14, FaultTypes DEF CheckSummary, WriterTimesOut, PairSummarized, Unsummarized
<1>15. CASE InvalidateLateSummary
  BY <1>1, <1>15, FaultTypes DEF InvalidateLateSummary
<1>16. CASE CloseDescriptors
  BY <1>1, <1>16 DEF CloseDescriptors, PublicationFails
<1>17. CASE CheckEligible
  BY <1>1, <1>17 DEF CheckEligible, Eligible
<1>18. CASE VerifyFails
  BY <1>1, <1>18 DEF VerifyFails, PublicationFails
<1>19. CASE PublishShard
  BY <1>1, <1>2, <1>19, NextStream DEF PublishShard, ToPublish
<1>20. CASE PublishFails
  BY <1>1, <1>20 DEF PublishFails, ToPublish
<1>21. CASE CommitClaim
  BY <1>1, <1>21, ClaimFields DEF CommitClaim, ToRetract
<1>22. CASE RetractShard
  BY <1>1, <1>2, <1>3, <1>22, PickStream DEF RetractShard, Retracted, Fault, TypeOK
<1>23. CASE RetractionDone
  BY <1>1, <1>23 DEF RetractionDone, PublicationFails
<1>24. CASE WriterEnds
  <2>1. claim'.by = claim.by \/ claim.by # "publication"
    BY <1>24, WriterEndClaims DEF NoClaim
  <2> QED
    BY <1>1, <1>24, <2>1 DEF WriterEnds
<1> QED
  BY <1>4, <1>5, <1>6, <1>7, <1>8, <1>9, <1>10, <1>11, <1>12, <1>13, <1>14, <1>15, <1>16,
     <1>17, <1>18, <1>19, <1>20, <1>21, <1>22, <1>23, <1>24 DEF Writer

LEMMA WorkKeptByWriter ==
  ASSUME TypeOK, FilesFollowStage, WorkRemains, SummaryState, Writer
  PROVE  WorkRemains'
<1>1. "base" \in Streams
  BY CommitAssumption
<1>2. StageFiles("base")
  BY <1>1 DEF FilesFollowStage
<1>3. /\ formal \in [Streams -> {"absent", "shard", "sentinel"}]
      /\ hidden \in [Streams -> BOOLEAN]
      /\ content \in [Streams -> {"open", "complete", "invalid"}]
  BY DEF TypeOK
<1> USE DEF WorkRemains, flagVars, resultVars, closerVars, fileVars, WriterGoes
<1>4. CASE CheckDeadline
  <2>1. formal' = formal /\ content' = content /\ hidden' = hidden
        /\ \/ wpc = "drained" /\ wpc' = "move"
           \/ wpc = "moved" /\ wpc' = "summary"
           \/ wpc' = "finalize"
    BY <1>4 DEF CheckDeadline, WriterTimesOut
  <2> QED
    BY <1>1, <1>2, <2>1 DEF StageFiles, InPlace, ToMove, Unsummarized
<1>5. CASE MoveShard
  <2> DEFINE first == First(ToMove)
  <2>1. first \in ToMove /\ (Cardinality(ToMove) # 1 => ToMove # {first})
    BY <1>5, NextStream DEF MoveShard
  <2>2. CASE Cardinality(ToMove) = 1
    BY <1>5, <2>2 DEF MoveShard
  <2>3. CASE Cardinality(ToMove) # 1
    <3>1. PICK t \in ToMove : t # first
      BY <2>1, <2>3
    <3> HIDE DEF first
    <3>2. t \in ToMove'
      BY <1>3, <1>5, <3>1 DEF MoveShard, ToMove, first
    <3> QED
      BY <1>5, <2>3, <3>2 DEF MoveShard
  <2> QED
    BY <2>2, <2>3
<1>6. CASE BeginSummary
  BY <1>6 DEF BeginSummary, Unsummarized
<1>7. CASE CheckSummary
  <2>1. \/ wpc' = "finalize"
        \/ wpc' = "summary" /\ content' = content /\ ~PairSummarized
    BY <1>7 DEF CheckSummary, WriterTimesOut
  <2> QED
    BY <2>1 DEF PairSummarized, Unsummarized
<1>8. CASE CheckEligible
  <2>1. hidden' = hidden /\ (wpc' = "end" \/ (wpc' = "publish" /\ hidden["base"]))
    BY <1>2, <1>8 DEF CheckEligible, Eligible, StageFiles, Finalizing, SetAside
  <2> QED
    BY <1>1, <2>1 DEF ToPublish
<1>9. CASE PublishShard
  <2> DEFINE first == First(ToPublish)
  <2>1. first \in ToPublish /\ (Cardinality(ToPublish) # 1 => ToPublish # {first})
    BY <1>9, NextStream DEF PublishShard
  <2>2. CASE Cardinality(ToPublish) = 1
    BY <1>9, <2>2 DEF PublishShard
  <2>3. CASE Cardinality(ToPublish) # 1
    <3>1. PICK t \in ToPublish : t # first
      BY <2>1, <2>3
    <3> HIDE DEF first
    <3>2. t \in ToPublish'
      BY <1>3, <1>9, <3>1 DEF PublishShard, ToPublish, first
    <3> QED
      BY <1>9, <2>3, <3>2 DEF PublishShard
  <2> QED
    BY <2>2, <2>3
<1>10. CASE InitializeWriter \/ InitializeFails \/ CheckInitialization
  BY <1>10 DEF InitializeWriter, InitializeFails, CheckInitialization
<1>11. CASE WriterLoop \/ MoveFails \/ WriteSummary \/ SummaryFails
  BY <1>11 DEF WriterLoop, MoveFails, WriteSummary, SummaryFails, WriterFails, WriterTimesOut
<1>12. CASE InvalidateLateSummary \/ CloseDescriptors \/ VerifyFails \/ PublishFails
  BY <1>12 DEF InvalidateLateSummary, CloseDescriptors, VerifyFails, PublishFails,
     PublicationFails
<1>13. CASE CommitClaim \/ RetractShard \/ RetractionDone \/ WriterEnds
  BY <1>13 DEF CommitClaim, RetractShard, RetractionDone, WriterEnds, PublicationFails
<1> QED
  BY <1>4, <1>5, <1>6, <1>7, <1>8, <1>9, <1>10, <1>11, <1>12, <1>13 DEF Writer

\* Whoever has published and claimed has nothing left to do with the files.
LEMMA PublicationKeptByWriter ==
  ASSUME TypeOK, FilesFollowStage, PublicationWon, Writer
  PROVE  PublicationWon'
<1>1. CASE claim.by = "publication"
  <2>1. wpc \in {"end", "done"}
    BY <1>1 DEF PublicationWon
  <2>2. WriterEnds
    BY <2>1 DEF Writer, InitializeWriter, InitializeFails, CheckInitialization, WriterLoop,
       CheckDeadline, MoveShard, MoveFails, BeginSummary, WriteSummary, SummaryFails,
       CheckSummary, InvalidateLateSummary, CloseDescriptors, CheckEligible, VerifyFails,
       PublishShard, PublishFails, CommitClaim, RetractShard, RetractionDone
  <2>3. claim' = claim
    BY <1>1, <2>2, WriterEndClaims DEF NoClaim
  <2>4. formal' = formal /\ content' = content /\ wpc' = "done"
    BY <2>2 DEF WriterEnds, WriterGoes, fileVars
  <2> QED
    BY <1>1, <2>3, <2>4 DEF PublicationWon
<1>2. CASE claim.by # "publication" /\ claim' = claim
  BY <1>2 DEF PublicationWon
<1>3. CASE claim' # claim /\ CommitClaim
  <2>1. claim' = Claim("drained", TRUE, "publication") /\ wpc = "claim" /\ wpc' = "end"
        /\ formal' = formal /\ content' = content
    BY <1>3 DEF CommitClaim, fileVars
  <2>2. \A s \in Streams : formal[s] = "shard" /\ content[s] = "complete"
    BY <2>1 DEF FilesFollowStage, StageFiles
  <2> QED
    BY <2>1, <2>2 DEF PublicationWon
<1>4. CASE claim' # claim /\ WriterEnds
  <2>1. claim'.by = "writer"
    BY <1>4, WriterEndClaims
  <2> QED
    BY <2>1 DEF PublicationWon
<1> QED
  BY <1>1, <1>2, <1>3, <1>4, WriterClaims

--------------------------------------------------------------------------------
(* The closers and the deadline *)

\* A deadline, once set, is not set again: its closer holds the close lock
\* until there is a receipt, and without a receipt no other closer enters.
LEMMA DeadlineStays ==
  ASSUME TypeOK, CloseProtocol, [Next]_vars, deadline # Nobody
  PROVE  deadline' = deadline /\ late \subseteq late'
<1>1. CASE Constructor
  BY <1>1 DEF Constructor, ConstructorReturns, ConstructorTimesOut, closerVars
<1>2. ASSUME NEW c \in Closers, CallClose(c) \/ Tick(c) \/ CloserStep(c)
      PROVE  deadline' = deadline /\ late \subseteq late'
  <2>1. CASE EnterClose(c)
    <3>1. CASE claim = NoClaim /\ ~closed
      <4>1. deadline \in Closers
        BY DEF TypeOK
      <4>2. closeLock = deadline /\ cpc[deadline] # "enter"
        BY <3>1, <4>1 DEF CloseProtocol, CloserState
      <4>3. closeLock = c /\ cpc[c] = "enter"
        BY <2>1 DEF EnterClose, CloseProtocol, CloserState
      <4> QED
        BY <4>2, <4>3
    <3>2. CASE claim # NoClaim \/ closed
      BY <2>1, <3>2 DEF EnterClose
    <3> QED
      BY <3>1, <3>2
  <2>2. CASE ~EnterClose(c)
    BY <1>2, <2>2 DEF CallClose, Tick, CloserStep, AcquireCloseLock, JoinReturns, Settle,
       ConditionTimesOut, LockFreeClaim, LockFreeFlags
  <2> QED
    BY <2>1, <2>2
<1>3. CASE Writer
  BY <1>3, OutsideClosers
<1>4. CASE Quiescent \/ UNCHANGED vars
  BY <1>4 DEF Quiescent, vars, closerVars
<1> QED
  BY <1>1, <1>2, <1>3, <1>4 DEF Next

LEMMA ExpiredStays ==
  ASSUME TypeOK, CloseProtocol, [Next]_vars, Expired
  PROVE  Expired'
BY DeadlineStays DEF Expired

\* CloseProtocol under a step of the writer or of the constructor.
LEMMA ProtocolKeptOutside ==
  ASSUME TypeOK, CloseProtocol, Constructor \/ Writer \/ UNCHANGED vars
  PROVE  CloseProtocol'
<1>1. CASE Constructor
  BY <1>1 DEF Constructor, ConstructorReturns, ConstructorTimesOut, CloseProtocol, CloserState,
     flagVars, resultVars, closerVars
<1>2. CASE Writer
  <2>1. UNCHANGED <<ctor, closing, abandoned>> /\ UNCHANGED <<deadline, late, closeLock, cpc, result>>
    BY <1>2, OutsideClosers
  <2>2. claim # NoClaim => claim' = claim
    BY <1>2, ClaimStays DEF Next
  <2>3. \A c \in Closers : CloserState(c)'
    BY <2>1, <2>2 DEF CloseProtocol, CloserState
  <2>4. wpc' = "done" => closed' /\ (closing => claim' # NoClaim)
    <3>1. CASE WriterEnds
      <4>1. closed'
        BY <3>1 DEF WriterEnds
      <4>2. ASSUME closing PROVE claim' # NoClaim
        <5>1. claim # NoClaim \/ claim' = Claim(FinalOutcome, summaryWritten, "writer")
          BY <3>1, <4>2 DEF WriterEnds, MustClaim, Claimed
        <5>2. summaryWritten \in BOOLEAN
          BY DEF TypeOK
        <5> QED
          BY <2>2, <5>1, <5>2, OutcomeTypes, ClaimFields
      <4> QED
        BY <4>1, <4>2
    <3>2. CASE ~WriterEnds
      <4>1. wpc' # "done"
        BY <1>2, <3>2 DEF Writer, InitializeWriter, InitializeFails, CheckInitialization, WriterLoop,
           CheckDeadline, MoveShard, MoveFails, BeginSummary, WriteSummary, SummaryFails,
           CheckSummary, InvalidateLateSummary, CloseDescriptors, CheckEligible, VerifyFails,
           PublishShard, PublishFails, CommitClaim, RetractShard, RetractionDone, WriterFails,
           WriterTimesOut, PublicationFails, WriterGoes
      <4> QED
        BY <4>1
    <3> QED
      BY <3>1, <3>2
  <2> QED
    BY <2>1, <2>3, <2>4 DEF CloseProtocol
<1>3. CASE UNCHANGED vars
  BY <1>3 DEF vars, CloseProtocol, CloserState, flagVars, resultVars, closerVars
<1> QED
  BY <1>1, <1>2, <1>3

\* CloserState of d under a step of closer c, which may be d itself.
LEMMA CloserStateKept ==
  ASSUME TypeOK, CloseProtocol, NEW c \in Closers, CallClose(c) \/ Tick(c) \/ CloserStep(c),
         NEW d \in Closers
  PROVE  CloserState(d)'
<1>1. CloserState(c) /\ CloserState(d)
  BY DEF CloseProtocol
<1>2. claim # NoClaim => claim' = claim
  BY ClaimStays DEF Next
<1>3. /\ cpc \in [Closers -> {"idle", "lock", "enter", "join", "settle", "lockfree", "flags",
                             "returned"}]
      /\ result \in [Closers -> Receipts] /\ Nobody \notin Closers
  BY CommitAssumption DEF TypeOK
<1>4. summaryWritten \in BOOLEAN
  BY DEF TypeOK
<1> USE DEF CloserState, flagVars, resultVars, fileVars
<1>5. CASE CallClose(c)
  BY <1>1, <1>3, <1>5 DEF CallClose, Goto, Return
<1>6. CASE Tick(c)
  BY <1>1, <1>6 DEF Tick
<1>7. CASE AcquireCloseLock(c)
  BY <1>1, <1>3, <1>7 DEF AcquireCloseLock, Goto
<1>8. CASE EnterClose(c)
  <2>1. CASE claim # NoClaim \/ closed
    <3>1. claim' # NoClaim
      <4>1. claim' = claim \/ claim' = Claim("writer_failure", FALSE, "closer")
        BY <1>8, <2>1 DEF EnterClose, Claimed
      <4> QED
        BY <1>8, <2>1, <4>1, ClaimFields DEF EnterClose, Claimed
    <3> QED
      BY <1>1, <1>2, <1>3, <1>8, <2>1, <3>1 DEF EnterClose, Return
  <2>2. CASE claim = NoClaim /\ ~closed
    BY <1>1, <1>3, <1>8, <2>2 DEF EnterClose, Goto
  <2> QED
    BY <2>1, <2>2
<1>9. CASE JoinReturns(c)
  BY <1>1, <1>3, <1>9 DEF JoinReturns, Goto
<1>10. CASE Settle(c)
  <2>1. claim' # NoClaim
    <3>1. CASE claim = NoClaim
      <4>1. \/ claim' = Claim("timeout", FALSE, "closer")
            \/ claim' = Claim(SettledOutcome, summaryWritten, "closer")
        BY <1>10, <3>1 DEF Settle, Claimed, SettledOutcome
      <4>2. Claim(SettledOutcome, summaryWritten, "closer") # NoClaim
        BY <1>4, OutcomeTypes, ClaimFields
      <4>3. Claim("timeout", FALSE, "closer") # NoClaim
        BY ClaimFields
      <4> QED
        BY <4>1, <4>2, <4>3
    <3> QED
      BY <1>2, <3>1
  <2>2. Return(c, claim') /\ UNCHANGED <<ctor, closing, deadline>>
    BY <1>10 DEF Settle
  <2> QED
    BY <1>1, <1>2, <1>3, <2>1, <2>2, <1>10 DEF Settle, Return
<1>11. CASE ConditionTimesOut(c)
  BY <1>1, <1>3, <1>11 DEF ConditionTimesOut, Goto
<1>12. CASE LockFreeClaim(c)
  <2>1. claim' # NoClaim
    <3>1. \/ claim' = claim /\ claim # NoClaim
          \/ claim' = Claim("timeout", FALSE, "lockfree")
      BY <1>12 DEF LockFreeClaim, Claimed
    <3> QED
      BY <3>1, ClaimFields
  <2>2. \/ claim = NoClaim /\ Goto(c, "flags") /\ closeLock' = closeLock
        \/ claim # NoClaim /\ Return(c, claim)
    BY <1>12 DEF LockFreeClaim
  <2>3. cpc[c] = "lockfree" /\ UNCHANGED <<ctor, closing, deadline>>
    BY <1>12 DEF LockFreeClaim
  <2> QED
    BY <1>1, <1>2, <1>3, <2>1, <2>2, <2>3 DEF Goto, Return
<1>13. CASE LockFreeFlags(c)
  BY <1>1, <1>2, <1>3, <1>13 DEF LockFreeFlags, Return
<1> QED
  BY <1>5, <1>6, <1>7, <1>8, <1>9, <1>10, <1>11, <1>12, <1>13 DEF CloserStep

LEMMA ProtocolKeptByCloser ==
  ASSUME TypeOK, CloseProtocol, NEW c \in Closers, CallClose(c) \/ Tick(c) \/ CloserStep(c)
  PROVE  CloseProtocol'
<1>1. \A d \in Closers : CloserState(d)'
  BY CloserStateKept
<1>2. claim # NoClaim => claim' = claim
  BY ClaimStays DEF Next
<1>3. wpc' = wpc
  BY OutsideWriter
<1>4. CASE EnterClose(c)
  <2>1. CASE claim # NoClaim \/ closed
    <3>1. UNCHANGED <<closing, deadline, ctor, closed>>
      BY <1>4, <2>1 DEF EnterClose
    <3> QED
      BY <1>1, <1>2, <1>3, <3>1 DEF CloseProtocol
  <2>2. CASE claim = NoClaim /\ ~closed
    <3>1. wpc # "done" /\ ctor = "open" /\ c # Nobody
      BY <1>4, <2>2, CommitAssumption DEF EnterClose, CloseProtocol, CloserState
    <3>2. closing' = TRUE /\ deadline' = c /\ ctor' = ctor
      BY <1>4, <2>2 DEF EnterClose
    <3> QED
      BY <1>1, <1>3, <3>1, <3>2 DEF CloseProtocol
  <2> QED
    BY <2>1, <2>2
<1>5. CASE ~EnterClose(c)
  <2>1. UNCHANGED <<closing, deadline, ctor>>
    BY <1>5 DEF CallClose, Tick, CloserStep, AcquireCloseLock, JoinReturns, Settle,
       ConditionTimesOut, LockFreeClaim, LockFreeFlags, flagVars
  <2>2. closed => closed'
    BY <1>5 DEF CallClose, Tick, CloserStep, AcquireCloseLock, JoinReturns, Settle,
       ConditionTimesOut, LockFreeClaim, LockFreeFlags, flagVars
  <2> QED
    BY <1>1, <1>2, <1>3, <2>1, <2>2 DEF CloseProtocol
<1> QED
  BY <1>4, <1>5

--------------------------------------------------------------------------------
(* The summary and the receipt *)

\* A closer that fails or abandons the writer, or sets its outcome, has a receipt.
LEMMA CloserFlags ==
  ASSUME TypeOK, CloseProtocol, NEW c \in Closers, CallClose(c) \/ Tick(c) \/ CloserStep(c),
         claim' = NoClaim
  PROVE  UNCHANGED <<failed, outcome, abandoned>>
<1>1. claim = NoClaim
  BY ClaimStays DEF Next
<1>2. CASE Settle(c)
  <2>1. cpc'[c] = "returned"
    BY <1>2 DEF Settle, Return, TypeOK
  <2>2. CloserState(c)'
    BY CloserStateKept
  <2> QED
    BY <2>1, <2>2 DEF CloserState
<1>3. CASE LockFreeFlags(c)
  BY <1>1, <1>3 DEF LockFreeFlags, CloseProtocol, CloserState
<1>4. CASE ~Settle(c) /\ ~LockFreeFlags(c)
  BY <1>4 DEF CallClose, Tick, CloserStep, AcquireCloseLock, EnterClose, JoinReturns,
     ConditionTimesOut, LockFreeClaim, flagVars, resultVars
<1> QED
  BY <1>2, <1>3, <1>4

\* closing is never taken back.
LEMMA ClosingStays ==
  ASSUME TypeOK, CloseProtocol, [Next]_vars, closing
  PROVE  closing'
<1>1. CASE Constructor
  BY <1>1 DEF Constructor, ConstructorReturns, ConstructorTimesOut, flagVars
<1>2. ASSUME NEW c \in Closers, CallClose(c) \/ Tick(c) \/ CloserStep(c)
      PROVE  closing'
  BY <1>2 DEF CallClose, Tick, CloserStep, AcquireCloseLock, EnterClose, JoinReturns,
     Settle, ConditionTimesOut, LockFreeClaim, LockFreeFlags, flagVars
<1>3. CASE Writer
  BY <1>3, OutsideClosers
<1>4. CASE Quiescent \/ UNCHANGED vars
  BY <1>4 DEF Quiescent, vars, flagVars
<1> QED
  BY <1>1, <1>2, <1>3, <1>4 DEF Next

LEMMA SummaryKeptOutside ==
  ASSUME TypeOK, CloseProtocol, SummaryState,
         Constructor \/ (\E c \in Closers : CallClose(c) \/ Tick(c) \/ CloserStep(c)) \/ UNCHANGED vars
  PROVE  SummaryState'
<1>1. UNCHANGED <<wpc, summaryWritten>>
  BY OutsideWriter DEF vars, resultVars
<1>2. /\ claim # NoClaim => claim' = claim
      /\ closing => closing'
      /\ Expired => Expired'
  BY ClaimStays, ClosingStays, ExpiredStays DEF Next
<1>3. CASE Constructor
  <2>1. /\ claim' = claim /\ failed' = failed /\ outcome' = outcome
        /\ \/ abandoned' = abandoned /\ ctor # "raised"
           \/ ctor' = "raised"
    BY <1>3 DEF Constructor, ConstructorReturns, ConstructorTimesOut, flagVars, resultVars
  <2> QED
    BY <1>1, <1>2, <2>1 DEF SummaryState
<1>4. ASSUME NEW c \in Closers, CallClose(c) \/ Tick(c) \/ CloserStep(c)
      PROVE  SummaryState'
  <2>1. ctor' = ctor
    BY <1>4 DEF CallClose, Tick, CloserStep, AcquireCloseLock, EnterClose, JoinReturns,
       Settle, ConditionTimesOut, LockFreeClaim, LockFreeFlags
  <2>2. claim' # NoClaim \/ UNCHANGED <<failed, outcome, abandoned>>
    BY <1>4, CloserFlags
  <2> QED
    BY <1>1, <1>2, <2>1, <2>2 DEF SummaryState
<1>5. CASE UNCHANGED vars
  BY <1>5 DEF vars, SummaryState, Expired, flagVars, resultVars, closerVars
<1> QED
  BY <1>3, <1>4, <1>5

LEMMA SummaryKeptByWriter ==
  ASSUME TypeOK, CloseProtocol, SummaryState, PublicationWon, Writer
  PROVE  SummaryState'
<1>1. /\ claim # NoClaim => claim' = claim
      /\ Expired => Expired'
  BY ClaimStays, ExpiredStays DEF Next
<1>2. UNCHANGED <<ctor, closing, abandoned>>
  BY OutsideClosers
<1>3. wpc \in {"init", "ready", "loop", "drained", "move", "moved", "summary", "summarizing",
               "checked", "finalize", "closefd", "eligible", "publish", "claim", "retract",
               "end", "done"}
  BY DEF TypeOK
<1> USE DEF SummaryState, BeforeFinalize, flagVars, resultVars, closerVars, fileVars, WriterGoes
<1>4. CASE InitializeWriter \/ InitializeFails \/ CheckInitialization
  <2>1. /\ wpc \in {"init", "ready"} /\ wpc' \in {"ready", "finalize", "loop"}
        /\ UNCHANGED <<failed, outcome, summaryWritten, claim>>
    BY <1>4 DEF InitializeWriter, InitializeFails, CheckInitialization
  <2> QED
    BY <1>1, <1>2, <2>1
<1>5. CASE WriterLoop
  <2>1. wpc = "loop" /\ UNCHANGED <<summaryWritten, claim>>
    BY <1>5 DEF WriterLoop, WriterFails, WriterTimesOut
  <2>2. CASE wpc' = "finalize"
    BY <1>1, <1>2, <2>1, <2>2
  <2>3. CASE wpc' # "finalize"
    <3>1. wpc' = "drained" /\ closing /\ failed' = failed
      BY <1>5, <2>3 DEF WriterLoop, WriterFails, WriterTimesOut
    <3> QED
      BY <1>1, <1>2, <2>1, <3>1
  <2> QED
    BY <2>2, <2>3
<1>6. CASE CheckDeadline \/ MoveShard \/ WriteSummary
  <2>1. /\ wpc \in {"drained", "move", "moved", "summarizing"}
        /\ \/ wpc' = "finalize"
           \/ wpc' \in {"move", "moved", "summary", "checked"} /\ failed' = failed
        /\ UNCHANGED <<summaryWritten, claim>>
    BY <1>6 DEF CheckDeadline, MoveShard, WriteSummary, WriterTimesOut
  <2> QED
    BY <1>1, <1>2, <2>1
<1>7. CASE MoveFails \/ SummaryFails
  <2>1. /\ wpc \in {"move", "summarizing"} /\ wpc' = "finalize"
        /\ UNCHANGED <<summaryWritten, claim>>
    BY <1>7 DEF MoveFails, SummaryFails, WriterFails
  <2> QED
    BY <1>1, <1>2, <2>1
<1>8. CASE BeginSummary
  <2>1. wpc = "summary" /\ UNCHANGED <<summaryWritten, claim>>
    BY <1>8 DEF BeginSummary
  <2>2. CASE wpc' = "finalize"
    BY <1>1, <1>2, <2>1, <2>2
  <2>3. CASE wpc' # "finalize"
    <3>1. wpc' = "summarizing" /\ failed' = failed
      BY <1>8, <2>3 DEF BeginSummary
    <3> QED
      BY <1>1, <1>2, <2>1, <3>1
  <2> QED
    BY <2>2, <2>3
<1>9. CASE CheckSummary
  <2>1. /\ wpc = "checked" /\ wpc' \in {"finalize", "summary"}
        /\ UNCHANGED <<failed, claim>>
        /\ \/ summaryWritten' = summaryWritten
           \/ outcome' = "drained" /\ wpc' = "finalize"
    BY <1>9 DEF CheckSummary, WriterTimesOut
  <2> QED
    BY <1>1, <1>2, <2>1
<1>10. CASE InvalidateLateSummary
  <2>1. /\ wpc = "finalize" /\ wpc' = "closefd"
        /\ UNCHANGED <<failed, claim>>
        /\ \/ ~summaryWritten'
           \/ summaryWritten' = summaryWritten /\ outcome' = outcome
    BY <1>10 DEF InvalidateLateSummary
  <2> QED
    BY <1>1, <1>2, <2>1
<1>11. CASE CloseDescriptors
  <2>1. /\ wpc = "closefd" /\ wpc' = "eligible" /\ claim' = claim
        /\ ~summaryWritten' \/ UNCHANGED <<failed, summaryWritten, outcome>>
    BY <1>11 DEF CloseDescriptors, PublicationFails
  <2> QED
    BY <1>1, <1>2, <2>1
<1>12. CASE CheckEligible
  <2>1. /\ wpc = "eligible" /\ UNCHANGED <<failed, outcome, summaryWritten, claim>>
        /\ \/ wpc' = "end" /\ ~Eligible
           \/ wpc' = "publish" /\ summaryWritten
    BY <1>12 DEF CheckEligible, Eligible
  <2>2. wpc' = "end" /\ summaryWritten /\ claim = NoClaim => Expired
    BY <2>1 DEF Eligible, CloseProtocol
  <2> QED
    BY <1>1, <1>2, <2>1, <2>2
<1>13. CASE VerifyFails \/ RetractionDone
  <2>1. wpc' = "end" /\ claim' = claim /\ ~summaryWritten'
    BY <1>13 DEF VerifyFails, RetractionDone, PublicationFails
  <2> QED
    BY <1>1, <1>2, <2>1
<1>14. CASE PublishShard \/ PublishFails \/ RetractShard
  <2>1. /\ wpc \in {"publish", "retract"} /\ wpc' \in {"publish", "claim", "retract"}
        /\ UNCHANGED <<failed, outcome, summaryWritten, claim>>
    BY <1>14 DEF PublishShard, PublishFails, RetractShard
  <2> QED
    BY <1>1, <1>2, <2>1
<1>15. CASE CommitClaim
  <2>1. /\ wpc = "claim" /\ UNCHANGED <<failed, outcome, summaryWritten>>
        /\ \/ wpc' = "end" /\ claim' = Claim("drained", TRUE, "publication")
           \/ wpc' = "retract" /\ claim' = claim
    BY <1>15 DEF CommitClaim
  <2>2. Claim("drained", TRUE, "publication") # NoClaim
    BY ClaimFields
  <2> QED
    BY <1>1, <1>2, <2>1, <2>2
<1>16. CASE WriterEnds
  <2>1. wpc = "end" /\ wpc' = "done" /\ UNCHANGED <<failed, outcome, summaryWritten>>
    BY <1>16 DEF WriterEnds
  <2>2. claim' = NoClaim => claim = NoClaim
    BY <1>1
  <2> QED
    BY <1>1, <1>2, <2>1, <2>2
<1> QED
  BY <1>4, <1>5, <1>6, <1>7, <1>8, <1>9, <1>10, <1>11, <1>12, <1>13, <1>14, <1>15, <1>16
  DEF Writer

\* A drained receipt without a publication: made by the writer in its last
\* critical section, after it has found itself past the deadline.
LEMMA LateReceiptKept ==
  ASSUME TypeOK, CloseProtocol, SummaryState, LateReceipt, [Next]_vars
  PROVE  LateReceipt'
<1>1. CASE claim' = claim
  <2>1. Expired => Expired'
    BY ExpiredStays
  <2> QED
    BY <1>1, <2>1 DEF LateReceipt, Committed
<1>2. CASE claim' # claim
  <2>1. CASE Constructor \/ Quiescent \/ UNCHANGED vars
    BY <1>2, <2>1 DEF Constructor, ConstructorReturns, ConstructorTimesOut, Quiescent, vars,
       resultVars
  <2>2. ASSUME NEW c \in Closers, CallClose(c) \/ Tick(c) \/ CloserStep(c)
        PROVE  LateReceipt'
    <3>1. claim = NoClaim /\ (claim'.outcome # "drained" \/ (wpc = "done" /\ cpc[c] = "settle"))
      BY <1>2, <2>2, CloserClaims
    <3>2. claim'.outcome # "drained"
      BY <3>1 DEF CloseProtocol, CloserState
    <3> QED
      BY <3>2 DEF LateReceipt, Committed
  <2>3. CASE CommitClaim
    <3>1. claim' = Claim("drained", TRUE, "publication")
      BY <1>2, <2>3 DEF CommitClaim
    <3>2. claim'.by = "publication"
      BY <3>1, ClaimFields
    <3> QED
      BY <3>2 DEF LateReceipt
  <2>4. CASE WriterEnds
    <3>1. claim = NoClaim /\ claim'.summary = summaryWritten /\ wpc = "end"
      BY <1>2, <2>4, WriterEndClaims DEF WriterEnds
    <3>2. claim'.summary => Expired
      BY <3>1 DEF SummaryState
    <3>3. Expired => Expired'
      BY ExpiredStays
    <3> QED
      BY <3>2, <3>3 DEF LateReceipt, Committed
  <2> QED
    BY <1>2, <2>1, <2>2, <2>3, <2>4, WriterClaims DEF Next
<1> QED
  BY <1>1, <1>2

--------------------------------------------------------------------------------
(* The theorems *)

LEMMA InitInvariant == Init => IInv
<1> SUFFICES ASSUME Init PROVE IInv
  OBVIOUS
<1>1. TypeOK
  BY InitType
<1>2. FilesFollowStage /\ WorkRemains
  BY DEF Init, FilesFollowStage, StageFiles, InPlace, SetAside, Finalizing, WorkRemains
<1>3. PublicationWon /\ LateReceipt
  BY DEF Init, PublicationWon, LateReceipt, Committed, NoClaim
<1>4. CloseProtocol
  BY CommitAssumption DEF Init, CloseProtocol, CloserState
<1>5. SummaryState
  BY DEF Init, SummaryState, BeforeFinalize
<1> QED
  BY <1>1, <1>2, <1>3, <1>4, <1>5 DEF IInv

LEMMA NextInvariant == IInv /\ [Next]_vars => IInv'
<1> SUFFICES ASSUME IInv, [Next]_vars PROVE IInv'
  OBVIOUS
<1> USE DEF IInv
<1>0. FlagTypes' /\ StateTypes' => TypeOK'
  BY DEF FlagTypes, StateTypes, TypeOK
<1>1. FlagTypes'
  BY FlagTypesKept, TypeParts
<1>2. LateReceipt'
  BY LateReceiptKept
<1>3. CASE Constructor
  <2>1. StateTypes'
    BY <1>3, ConstructorTypes, TypeParts
  <2>2. FilesFollowStage' /\ WorkRemains' /\ PublicationWon'
    BY <1>3, FilesKeptOutside
  <2>3. CloseProtocol' /\ SummaryState'
    BY <1>3, ProtocolKeptOutside, SummaryKeptOutside
  <2> QED
    BY <1>0, <1>1, <1>2, <2>1, <2>2, <2>3
<1>4. ASSUME NEW c \in Closers, CallClose(c) \/ Tick(c) \/ CloserStep(c)
      PROVE  IInv'
  <2>1. StateTypes'
    BY <1>4, CloserTypes
  <2>2. FilesFollowStage' /\ WorkRemains' /\ PublicationWon'
    BY <1>4, FilesKeptOutside
  <2>3. CloseProtocol' /\ SummaryState'
    BY <1>4, ProtocolKeptByCloser, SummaryKeptOutside
  <2> QED
    BY <1>0, <1>1, <1>2, <2>1, <2>2, <2>3
<1>5. CASE Writer
  <2>1. StateTypes'
    BY <1>5, WriterTypes
  <2>2. FilesFollowStage'
    BY <1>5, FilesKeptByWriter DEF FilesFollowStage
  <2>3. WorkRemains' /\ PublicationWon'
    BY <1>5, WorkKeptByWriter, PublicationKeptByWriter
  <2>4. CloseProtocol' /\ SummaryState'
    BY <1>5, ProtocolKeptOutside, SummaryKeptByWriter
  <2> QED
    BY <1>0, <1>1, <1>2, <2>1, <2>2, <2>3, <2>4
<1>6. CASE UNCHANGED vars
  <2>1. StateTypes'
    BY <1>6, TypeParts DEF StateTypes, vars, resultVars, closerVars, fileVars
  <2>2. FilesFollowStage' /\ WorkRemains' /\ PublicationWon'
    BY <1>6, FilesKeptOutside
  <2>3. CloseProtocol' /\ SummaryState'
    BY <1>6, ProtocolKeptOutside, SummaryKeptOutside
  <2> QED
    BY <1>0, <1>1, <1>2, <2>1, <2>2, <2>3
<1> QED
  BY <1>3, <1>4, <1>5, <1>6 DEF Next, Quiescent

\* The invariant above holds in every state of the sink.
THEOREM CommitInvariance == Spec => []IInv
BY InitInvariant, NextInvariant, PTL DEF Spec

\* The types of the sink's state hold.
THEOREM CommitTypeCorrect == Spec => []TypeOK
<1>1. IInv => TypeOK
  BY DEF IInv
<1> QED
  BY <1>1, CommitInvariance, PTL

\* Every close() that has returned, lock-free or not, has returned the receipt
\* that _completion_claim still holds, and the writer never ends a closing
\* sink without one.
THEOREM SingleReceipt == Spec => []OneReceipt
<1>1. IInv => OneReceipt
  BY DEF IInv, CloseProtocol, CloserState, OneReceipt
<1> QED
  BY <1>1, CommitInvariance, PTL

\* committed_shard_path admits a pair only if the publication has claimed, with
\* every shard complete under its formal name, or if the deadline had passed.
THEOREM CommittedBacked == Spec => []CommitPointIsComplete
<1>1. IInv => CommitPointIsComplete
  BY DEF IInv, LateReceipt, PublicationWon, CommitPointIsComplete, Visible
<1> QED
  BY <1>1, CommitInvariance, PTL

\* As long as fewer than three file system calls have failed, a writer that has
\* ended without winning the claim for its publication leaves no complete shard
\* under a formal name, neither both nor half of the pair.
THEOREM RefusedHidden == Spec => []NothingVisibleUncommitted
<1>1. IInv => NothingVisibleUncommitted
  <2> SUFFICES ASSUME IInv, wpc = "done", claim.by # "publication", faults < 3
               PROVE  Visible = {}
    BY DEF NothingVisibleUncommitted
  <2>1. faults \in Nat
    BY CommitAssumption DEF IInv, TypeOK
  <2>2. \A s \in Streams : ~(formal[s] = "shard" /\ content[s] = "complete")
    BY <2>1 DEF IInv, FilesFollowStage, StageFiles
  <2> QED
    BY <2>2 DEF Visible
<1> QED
  BY <1>1, CommitInvariance, PTL

\* Once the publication has won, no step of the writer, of a closer or of the
\* constructor changes the receipt or the published shards.
THEOREM PublicationFinal == Spec => CommitIsFinal
<1>1. ASSUME IInv, [Next]_vars, claim.by = "publication"
      PROVE  UNCHANGED <<claim, formal, hidden, content>>
  <2>1. wpc \in {"end", "done"}
    BY <1>1 DEF IInv, PublicationWon
  <2>2. claim' = claim
    <3>1. claim # NoClaim
      BY <1>1 DEF NoClaim
    <3> QED
      BY <1>1, <3>1, ClaimStays DEF IInv
  <2>3. UNCHANGED <<formal, hidden, content>>
    <3>1. CASE Writer
      <4>1. WriterEnds
        BY <2>1, <3>1 DEF Writer, InitializeWriter, InitializeFails, CheckInitialization,
           WriterLoop, CheckDeadline, MoveShard, MoveFails, BeginSummary, WriteSummary,
           SummaryFails, CheckSummary, InvalidateLateSummary, CloseDescriptors, CheckEligible,
           VerifyFails, PublishShard, PublishFails, CommitClaim, RetractShard, RetractionDone
      <4> QED
        BY <4>1 DEF WriterEnds, fileVars
    <3>2. CASE ~Writer
      BY <1>1, <3>2, OutsideWriter DEF Next, Quiescent, vars, fileVars
    <3> QED
      BY <3>1, <3>2
  <2> QED
    BY <2>2, <2>3
<1>2. IInv /\ [Next]_vars =>
        [claim.by = "publication" => UNCHANGED <<claim, formal, hidden, content>>]_vars
  BY <1>1
<1> QED
  BY <1>2, CommitInvariance, PTL DEF Spec, CommitIsFinal

--------------------------------------------------------------------------------
(* The sink implements EvidenceCommit *)

LEMMA InitRefines == Init => Evidence!Init
BY DEF Init, Evidence!Init, Verdict, Visible

\* A step that puts no complete shard in place and takes none away.
LEMMA VisibleFrame ==
  ASSUME \A s \in Streams : (formal[s] = "shard" /\ content[s] = "complete")
                            <=> (formal'[s] = "shard" /\ content'[s] = "complete")
  PROVE  Visible' = Visible
BY DEF Visible

\* What a step of the writer makes visible or hides, apart from its claim.
LEMMA WriterShows ==
  ASSUME IInv, Writer
  PROVE  \/ Visible' = Visible
         \/ /\ wpc = "publish"
            /\ \E s \in Streams : s \notin Visible /\ Visible' = Visible \cup {s}
         \/ /\ wpc = "retract"
            /\ \E s \in Streams : s \in Visible /\ Visible' = Visible \ {s}
<1>1. \A s \in Streams : StageFiles(s)
  BY DEF IInv, FilesFollowStage
<1>2. /\ formal \in [Streams -> {"absent", "shard", "sentinel"}]
      /\ hidden \in [Streams -> BOOLEAN]
      /\ content \in [Streams -> {"open", "complete", "invalid"}]
      /\ retracting \subseteq Streams
  BY DEF IInv, TypeOK
<1>3. CASE PublishShard
  <2> DEFINE s == First(ToPublish)
  <2>1. s \in ToPublish /\ s \in Streams
    BY <1>3, NextStream DEF IInv, PublishShard
  <2>2. wpc = "publish" /\ formal[s] = "sentinel" /\ content[s] = "complete"
    BY <1>1, <1>3, <2>1 DEF PublishShard, ToPublish, StageFiles, InPlace, SetAside
  <2>3. formal' = [formal EXCEPT ![s] = "shard"] /\ content' = content
    BY <1>3 DEF PublishShard
  <2> HIDE DEF s
  <2>4. s \notin Visible /\ Visible' = Visible \cup {s}
    BY <1>2, <2>1, <2>2, <2>3 DEF Visible
  <2> QED
    BY <2>1, <2>2, <2>4
<1>4. CASE RetractShard
  <2> DEFINE s == Last(retracting)
  <2>1. s \in retracting /\ s \in Streams
    BY <1>2, <1>4, PickStream DEF RetractShard
  <2>2. wpc = "retract" /\ formal[s] = "shard" /\ content[s] = "complete"
    BY <1>1, <1>4, <2>1 DEF RetractShard, StageFiles
  <2>3. \/ formal' = [formal EXCEPT ![s] = "absent"] /\ content' = content
        \/ content' = [content EXCEPT ![s] = "invalid"] /\ formal' = formal
        \/ formal' = formal /\ content' = content
    BY <1>4 DEF RetractShard, fileVars
  <2> HIDE DEF s
  <2>4. s \in Visible /\ (Visible' = Visible \ {s} \/ Visible' = Visible)
    BY <1>2, <2>1, <2>2, <2>3 DEF Visible
  <2> QED
    BY <2>1, <2>2, <2>4
<1>5. CASE formal' = formal /\ content' = content
  BY <1>5 DEF Visible
<1>6. CASE \/ InitializeWriter \/ CheckInitialization \/ MoveShard \/ MoveFails
  <2>1. content' = content /\ wpc \in {"init", "ready", "move"}
    BY <1>6 DEF InitializeWriter, CheckInitialization, MoveShard, MoveFails, fileVars
  <2>2. \A s \in Streams : content[s] = "open"
    BY <1>1, <2>1 DEF StageFiles
  <2> QED
    BY <2>1, <2>2, VisibleFrame
<1>7. CASE WriteSummary \/ SummaryFails
  <2>1. formal' = formal /\ wpc = "summarizing"
    BY <1>7 DEF WriteSummary, SummaryFails
  <2>2. \A s \in Streams : formal[s] = "sentinel"
    BY <1>1, <2>1 DEF StageFiles, SetAside
  <2> QED
    BY <2>1, <2>2, VisibleFrame
<1>8. CASE (CheckSummary \/ InvalidateLateSummary) /\ content' # content
  <2>1. formal' = formal /\ wpc \in {"checked", "finalize"} /\ Invalidate
    BY <1>8 DEF CheckSummary, InvalidateLateSummary
  <2>2. \A s \in Streams : content'[s] \in {content[s], "invalid"}
    BY <2>1, FaultTypes DEF IInv
  <2>3. \A s \in Streams : ~(formal[s] = "shard" /\ content[s] = "complete")
    BY <1>1, <2>1 DEF StageFiles, SetAside, Finalizing
  <2> QED
    BY <2>1, <2>2, <2>3, VisibleFrame
<1>9. CASE (CheckSummary \/ InvalidateLateSummary) /\ content' = content
  BY <1>5, <1>9 DEF CheckSummary, InvalidateLateSummary
<1>10. CASE \/ InitializeFails \/ WriterLoop \/ CheckDeadline \/ BeginSummary
            \/ CloseDescriptors \/ CheckEligible \/ VerifyFails \/ PublishFails
            \/ CommitClaim \/ RetractionDone \/ WriterEnds
  <2>1. formal' = formal /\ content' = content
    BY <1>10 DEF InitializeFails, WriterLoop, CheckDeadline, BeginSummary, CloseDescriptors,
       CheckEligible, VerifyFails, PublishFails, CommitClaim, RetractionDone, WriterEnds, fileVars
  <2> QED
    BY <1>5, <2>1
<1> QED
  BY <1>3, <1>4, <1>6, <1>7, <1>8, <1>9, <1>10 DEF Writer

\* A step that claims leaves what is visible alone, and if it claims for the
\* publication then everything is visible.
LEMMA ClaimShows ==
  ASSUME IInv, [Next]_vars, claim' # claim
  PROVE  /\ claim = NoClaim /\ claim' # NoClaim /\ Visible' = Visible
         /\ claim'.by = "publication" => Visible = Streams
<1>1. CASE Constructor \/ Quiescent \/ UNCHANGED vars
  BY <1>1 DEF Constructor, ConstructorReturns, ConstructorTimesOut, Quiescent, vars, resultVars
<1>2. ASSUME NEW c \in Closers, CallClose(c) \/ Tick(c) \/ CloserStep(c)
      PROVE  /\ claim = NoClaim /\ claim' # NoClaim /\ Visible' = Visible
             /\ claim'.by # "publication"
  <2>1. Visible' = Visible
    BY <1>2, OutsideWriter DEF Visible
  <2> QED
    BY <1>2, <2>1, CloserClaims DEF IInv
<1>3. CASE CommitClaim
  <2>1. claim = NoClaim /\ claim' = Claim("drained", TRUE, "publication") /\ wpc = "claim"
    BY <1>3 DEF CommitClaim, CanCommit
  <2>2. claim' # NoClaim
    BY <2>1, ClaimFields
  <2>3. formal' = formal /\ content' = content
    BY <1>3 DEF CommitClaim, fileVars
  <2>4. Visible' = Visible /\ Visible = Streams
    BY <2>1, <2>3 DEF IInv, FilesFollowStage, StageFiles, Visible
  <2> QED
    BY <2>1, <2>2, <2>4
<1>4. CASE WriterEnds
  <2>1. claim = NoClaim /\ claim' # NoClaim /\ claim'.by = "writer"
    BY <1>4, WriterEndClaims DEF IInv
  <2>2. Visible' = Visible
    BY <1>4 DEF WriterEnds, fileVars, Visible
  <2> QED
    BY <2>1, <2>2
<1> QED
  BY <1>1, <1>2, <1>3, <1>4, WriterClaims DEF Next

LEMMA StepRefines ==
  ASSUME IInv, [Next]_vars
  PROVE  [Evidence!Next]_(Evidence!vars)
<1> USE DEF Evidence!Next, Evidence!vars, Evidence!Show, Evidence!Withdraw, Evidence!Commit,
            Evidence!Refuse
<1>1. CASE claim' # claim
  <2>1. /\ claim = NoClaim /\ claim' # NoClaim /\ Visible' = Visible
        /\ claim'.by = "publication" => Visible = Streams
    BY <1>1, ClaimShows
  <2>2. Verdict = "open" /\ Verdict' = IF claim'.by = "publication" THEN "committed" ELSE "refused"
    BY <2>1 DEF Verdict
  <2> QED
    BY <2>1, <2>2
<1>2. CASE claim' = claim
  <2>1. Verdict' = Verdict
    BY <1>2 DEF Verdict
  <2>2. CASE Writer
    <3>1. wpc \in {"publish", "retract"} => Verdict # "committed"
      BY DEF IInv, PublicationWon, Verdict
    <3> QED
      BY <2>1, <2>2, <3>1, WriterShows
  <2>3. CASE ~Writer
    <3>1. Visible' = Visible
      BY <2>3, OutsideWriter DEF Next, Quiescent, vars, fileVars, Visible
    <3> QED
      BY <2>1, <3>1
  <2> QED
    BY <2>2, <2>3
<1> QED
  BY <1>1, <1>2

\* The sink implements the abstract commit protocol: its shards become evidence
\* in one step, both of them and for good, or never.  (That what is refused also
\* vanishes in the end is a liveness property and is left to the model checker.)
THEOREM SinkRefinesEvidence == Spec => Evidence!Spec
<1>1. IInv /\ [Next]_vars => [Evidence!Next]_(Evidence!vars)
  BY StepRefines
<1> QED
  BY <1>1, InitRefines, CommitInvariance, PTL DEF Spec, Evidence!Spec

================================================================================
