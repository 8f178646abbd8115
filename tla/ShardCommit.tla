------------------------------ MODULE ShardCommit ------------------------------
(***************************************************************************)
(* How runtime_hooks.JsonlTraceSink decides whether its shards are         *)
(* evidence: the constructor's wait for the writer, the threads that call  *)
(* close() within a 2000 ms deadline, the writer's summary, publication    *)
(* and retraction in the file system, and the single-winner CloseResult    *)
(* claim both sides race for.                                              *)
(*                                                                         *)
(* A critical section of `_condition` is one action and what a thread does *)
(* outside of it is broken at each read of the clock or of a flag, and at  *)
(* each file system call.  The queue is left to module TraceLedger: here   *)
(* the writer may find it empty or not whenever it looks.  A file system   *)
(* call fails nondeterministically, at most MaxFaults times.               *)
(***************************************************************************)
EXTENDS Integers, FiniteSets

CONSTANTS
  Streams,    \* {"base"}, or {"base", "profile"} with the KV profile on
  Closers,    \* the threads that call close(): owners, atexit
  MaxFaults,  \* bound: failing file system calls
  Nobody      \* not a closer

ASSUME CommitAssumption ==
  /\ "base" \in Streams /\ Streams \subseteq {"base", "profile"}
  /\ MaxFaults \in Nat
  /\ Nobody \notin Closers

VARIABLES
  ctor,           \* the constructor: waiting, late, open, raised
  ready,          \* _writer_ready
  closing, closed, abandoned, failed,  \* _closing, _closed, _abandoned, _writer_failed
  deadline,       \* the closer whose deadline is _close_deadline_ns, or Nobody
  late,           \* the closers whose 2000 ms have passed
  summaryWritten, \* _summary_written
  outcome,        \* _writer_outcome
  claim,          \* _completion_claim
  closeLock,      \* holder of _close_lock, or Nobody
  cpc, result,    \* where each closer is in close(), and what it returned
  wpc,            \* where the writer is
  formal,         \* what the formal shard name of each stream names
  hidden,         \* the incomplete name of each stream names its shard
  content,        \* the bytes of each shard: open, complete, invalid
  retracting,     \* published shards the writer still has to retract
  publication,    \* why it retracts: expired, failed
  faults          \* failing file system calls so far

flagVars == <<closing, closed, abandoned, failed>>
resultVars == <<summaryWritten, outcome, claim>>
closerVars == <<deadline, late, closeLock, cpc, result>>
fileVars == <<formal, hidden, content>>
vars == <<ctor, ready, flagVars, resultVars, closerVars, fileVars,
          wpc, retracting, publication, faults>>

NoClaim == [outcome |-> "none", summary |-> FALSE, by |-> "none"]
Claim(o, s, by) == [outcome |-> o, summary |-> s, by |-> by]

\* A mistaken variant: the last claim wins.
ClaimedLast(o, s, by) == Claim(o, s, by)

\* dict.setdefault: the first claim wins.
Claimed(o, s, by) == IF claim = NoClaim THEN Claim(o, s, by) ELSE claim

\* The writer visits base before profile, and retracts in the reverse order.
First(S) == IF "base" \in S THEN "base" ELSE "profile"
Last(S) == IF "profile" \in S THEN "profile" ELSE "base"

\* _close_deadline_reached
Expired == deadline # Nobody /\ deadline \in late

Fault == faults < MaxFaults /\ faults' = faults + 1

--------------------------------------------------------------------------------
(* Initialization: the writer opens the shards while the constructor waits *)

InitializeWriter ==
  /\ wpc = "init"
  /\ formal' = [s \in Streams |-> "shard"]
  /\ ready' = TRUE
  /\ wpc' = "ready"
  /\ UNCHANGED <<ctor, flagVars, resultVars, closerVars, hidden, content,
                 retracting, publication, faults>>

\* Opening a shard or writing its process_start raises: what exists is removed
\* before the constructor is told.
InitializeFails ==
  /\ wpc = "init"
  /\ Fault
  /\ ready' = TRUE
  /\ wpc' = "finalize"
  /\ UNCHANGED <<ctor, flagVars, resultVars, closerVars, fileVars, retracting, publication>>

\* A mistaken variant: an abandoned writer does not return.
CheckInitializationHangs ==
  /\ wpc = "ready" /\ ~abandoned
  /\ wpc' = "loop"
  /\ UNCHANGED <<ctor, ready, flagVars, resultVars, closerVars, fileVars,
                 retracting, publication, faults>>

\* The writer looks once whether the constructor has given up meanwhile.
CheckInitialization ==
  /\ wpc = "ready"
  /\ \/ /\ abandoned
        /\ formal' = [s \in Streams |-> "absent"]
        /\ wpc' = "finalize"
     \/ /\ ~abandoned
        /\ wpc' = "loop"
        /\ UNCHANGED formal
  /\ UNCHANGED <<ctor, ready, flagVars, resultVars, closerVars, hidden, content,
                 retracting, publication, faults>>

ConstructorReturns ==
  /\ ctor = "waiting" /\ ready
  /\ ctor' = IF formal["base"] = "absent" THEN "raised" ELSE "open"
  /\ UNCHANGED <<ready, flagVars, resultVars, closerVars, fileVars, wpc,
                 retracting, publication, faults>>

\* _writer_ready.wait times out; the flag is set in a later critical section.
ConstructorTimesOut ==
  /\ \/ ctor = "waiting" /\ ~ready /\ ctor' = "late" /\ UNCHANGED abandoned
     \/ ctor = "late" /\ ctor' = "raised" /\ abandoned' = TRUE
  /\ UNCHANGED <<ready, closing, closed, failed, resultVars, closerVars, fileVars, wpc,
                 retracting, publication, faults>>

--------------------------------------------------------------------------------
(* close() *)

Return(c, r) ==
  /\ result' = [result EXCEPT ![c] = r]
  /\ cpc' = [cpc EXCEPT ![c] = "returned"]
  /\ closeLock' = IF closeLock = c THEN Nobody ELSE closeLock

Goto(c, p) == cpc' = [cpc EXCEPT ![c] = p] /\ UNCHANGED result

CallClose(c) ==
  /\ ctor = "open" /\ cpc[c] = "idle"
  /\ IF claim # NoClaim THEN Return(c, claim)
     ELSE Goto(c, "lock") /\ UNCHANGED closeLock
  /\ UNCHANGED <<ctor, ready, flagVars, resultVars, deadline, late, fileVars, wpc,
                 retracting, publication, faults>>

\* 2000 ms after c called close().
Tick(c) ==
  /\ cpc[c] \notin {"idle", "returned"} /\ c \notin late
  /\ late' = late \cup {c}
  /\ UNCHANGED <<ctor, ready, flagVars, resultVars, deadline, closeLock, cpc, result,
                 fileVars, wpc, retracting, publication, faults>>

AcquireCloseLock(c) ==
  /\ cpc[c] = "lock"
  /\ \/ closeLock = Nobody /\ closeLock' = c /\ Goto(c, "enter")
     \/ closeLock # Nobody /\ c \in late /\ Goto(c, "lockfree") /\ UNCHANGED closeLock
  /\ UNCHANGED <<ctor, ready, flagVars, resultVars, deadline, late, fileVars, wpc,
                 retracting, publication, faults>>

\* The first critical section: only one closer ever gets to set the deadline.
EnterClose(c) ==
  /\ cpc[c] = "enter"
  /\ \/ /\ claim # NoClaim \/ closed
        /\ claim' = Claimed("writer_failure", FALSE, "closer")
        /\ Return(c, claim')
        /\ UNCHANGED <<closing, deadline>>
     \/ /\ claim = NoClaim /\ ~closed
        /\ closing' = TRUE
        /\ deadline' = c
        /\ Goto(c, "join")
        /\ UNCHANGED <<claim, closeLock>>
  /\ UNCHANGED <<ctor, ready, closed, abandoned, failed, summaryWritten, outcome, late,
                 fileVars, wpc, retracting, publication, faults>>

\* A mistaken variant: the join has no timeout.
JoinEndsWithWriter(c) == wpc = "done"

JoinEnds(c) == wpc = "done" \/ c \in late

JoinReturns(c) ==
  /\ cpc[c] = "join" /\ JoinEnds(c)
  /\ Goto(c, "settle")
  /\ UNCHANGED <<ctor, ready, flagVars, resultVars, deadline, late, closeLock, fileVars, wpc,
                 retracting, publication, faults>>

\* The second critical section: an unclaimed live writer is timed out
\* (_force_timeout_accounting_locked) and abandoned.
Settle(c) ==
  /\ cpc[c] = "settle"
  /\ \/ /\ claim = NoClaim /\ wpc # "done"
        /\ failed' = (failed \/ outcome # "timeout")
        /\ outcome' = "timeout"
        /\ abandoned' = TRUE
        /\ closed' = TRUE
        /\ claim' = Claim("timeout", FALSE, "closer")
     \/ /\ claim # NoClaim \/ wpc = "done"
        /\ claim' = Claimed(IF outcome = "none" THEN "writer_failure" ELSE outcome,
                            summaryWritten, "closer")
        /\ UNCHANGED <<failed, outcome, abandoned, closed>>
  /\ Return(c, claim')
  /\ UNCHANGED <<ctor, ready, closing, summaryWritten, deadline, late, fileVars, wpc,
                 retracting, publication, faults>>

\* The condition is not free by the deadline of c.
ConditionTimesOut(c) ==
  /\ cpc[c] \in {"enter", "settle"} /\ c \in late
  /\ Goto(c, "lockfree")
  /\ UNCHANGED <<ctor, ready, flagVars, resultVars, deadline, late, closeLock, fileVars, wpc,
                 retracting, publication, faults>>

\* _bounded_timeout_without_lock: the claim, then the flags, without a lock.
LockFreeClaim(c) ==
  /\ cpc[c] = "lockfree"
  /\ claim' = Claimed("timeout", FALSE, "lockfree")
  /\ IF claim = NoClaim THEN Goto(c, "flags") /\ UNCHANGED closeLock
     ELSE Return(c, claim)
  /\ UNCHANGED <<ctor, ready, flagVars, summaryWritten, outcome, deadline, late, fileVars, wpc,
                 retracting, publication, faults>>

LockFreeFlags(c) ==
  /\ cpc[c] = "flags"
  /\ abandoned' = TRUE
  /\ closed' = TRUE
  /\ outcome' = "timeout"
  /\ Return(c, claim)
  /\ UNCHANGED <<ctor, ready, closing, failed, summaryWritten, claim, deadline, late, fileVars,
                 wpc, retracting, publication, faults>>

--------------------------------------------------------------------------------
(* The writer: from the loop to the summary *)

WriterGoes(p) ==
  /\ wpc' = p
  /\ UNCHANGED <<ctor, ready, closerVars, retracting, publication>>

\* _mark_writer_failure, and the writer returns.
WriterFails ==
  /\ failed' = TRUE
  /\ Fault
  /\ WriterGoes("finalize")
  /\ UNCHANGED <<closing, closed, abandoned, resultVars>>

\* The writer returns with outcome timeout.
WriterTimesOut ==
  /\ outcome' = "timeout"
  /\ WriterGoes("finalize")
  /\ UNCHANGED <<flagVars, summaryWritten, claim>>

\* The main loop: it is left when abandoned, at the cutoff with records still
\* queued, when the queue is drained while closing, or when a write raises.
WriterLoop ==
  /\ wpc = "loop"
  /\ UNCHANGED fileVars
  /\ \/ /\ abandoned
        /\ failed' \in {failed, TRUE}   \* TRUE: noticed inside of _write_all
        /\ WriterGoes("finalize")
        /\ UNCHANGED <<closing, closed, abandoned, resultVars, faults>>
     \/ ~abandoned /\ closing /\ Expired /\ WriterTimesOut /\ UNCHANGED faults
     \/ /\ ~abandoned /\ closing
        /\ WriterGoes("drained")
        /\ UNCHANGED <<flagVars, resultVars, faults>>
     \/ WriterFails

\* _write_summary_in_writer reads the clock before and after the shards are
\* moved to their incomplete names.
CheckDeadline ==
  /\ wpc \in {"drained", "moved"}
  /\ UNCHANGED <<fileVars, faults>>
  /\ \/ Expired /\ WriterTimesOut
     \/ /\ ~Expired
        /\ WriterGoes(IF wpc = "drained" THEN "move" ELSE "summary")
        /\ UNCHANGED <<flagVars, resultVars>>

ToMove == {s \in Streams : formal[s] = "shard"}

\* _move_formal_shard_to_incomplete_in_writer: link the incomplete name, then
\* replace the formal name by an empty sentinel that reserves it.
MoveShard ==
  /\ wpc = "move"
  /\ formal' = [formal EXCEPT ![First(ToMove)] = "sentinel"]
  /\ hidden' = [hidden EXCEPT ![First(ToMove)] = TRUE]
  /\ WriterGoes(IF Cardinality(ToMove) = 1 THEN "moved" ELSE "move")
  /\ UNCHANGED <<flagVars, resultVars, content, faults>>

\* It raises before the replacement, or after it: then the only link to the
\* bytes has been removed.
MoveFails ==
  /\ wpc = "move"
  /\ formal' \in {formal, [formal EXCEPT ![First(ToMove)] = "sentinel"]}
  /\ WriterFails
  /\ UNCHANGED <<hidden, content>>

Unsummarized == {s \in Streams : content[s] = "open"}

\* The write looks at _abandoned under the condition and raises if it is set.
BeginSummary ==
  /\ wpc = "summary"
  /\ \/ /\ ~abandoned
        /\ WriterGoes("summarizing")
        /\ UNCHANGED failed
     \/ /\ abandoned
        /\ failed' = TRUE
        /\ WriterGoes("finalize")
  /\ UNCHANGED <<closing, closed, abandoned, resultVars, fileVars, faults>>

WriteSummary ==
  /\ wpc = "summarizing"
  /\ content' = [content EXCEPT ![First(Unsummarized)] = "complete"]
  /\ WriterGoes("checked")
  /\ UNCHANGED <<flagVars, resultVars, formal, hidden, faults>>

\* The write raises and leaves a partial line.
SummaryFails ==
  /\ wpc = "summarizing"
  /\ content' = [content EXCEPT ![First(Unsummarized)] = "invalid"]
  /\ WriterFails
  /\ UNCHANGED <<formal, hidden>>

\* _append_timeout_invalidation_in_writer: a second, timeout summary on every
\* stream; an append that raises is ignored.
Invalidate ==
  \E bad \in SUBSET Streams :
    /\ content' = [s \in Streams |-> IF s \in bad THEN content[s] ELSE "invalid"]
    /\ faults' = faults + Cardinality(bad)
    /\ faults' <= MaxFaults

\* A mistaken variant: the base summary completes the pair.
BaseSummarized == content["base"] # "open"

PairSummarized == Unsummarized = {}

\* The clock is read after each summary.  The last one sets the outcome
\* without the condition, over whatever a closer has set.
CheckSummary ==
  /\ wpc = "checked"
  /\ UNCHANGED <<formal, hidden>>
  /\ \/ Expired /\ Invalidate /\ WriterTimesOut
     \/ /\ ~Expired /\ ~PairSummarized
        /\ WriterGoes("summary")
        /\ UNCHANGED <<flagVars, resultVars, content, faults>>
     \/ /\ ~Expired /\ PairSummarized
        /\ summaryWritten' = TRUE
        /\ outcome' = "drained"
        /\ WriterGoes("finalize")
        /\ UNCHANGED <<flagVars, claim, content, faults>>

--------------------------------------------------------------------------------
(* The writer: finalization, publication, retraction *)

InvalidateLateSummary ==
  /\ wpc = "finalize"
  /\ \/ /\ abandoned /\ summaryWritten
        /\ Invalidate
        /\ summaryWritten' = FALSE
        /\ outcome' = "timeout"
     \/ /\ ~(abandoned /\ summaryWritten)
        /\ UNCHANGED <<content, faults, summaryWritten, outcome>>
  /\ WriterGoes("closefd")
  /\ UNCHANGED <<flagVars, claim, formal, hidden>>

\* _mark_publication_failure
PublicationFails(p) ==
  /\ failed' = TRUE
  /\ summaryWritten' = FALSE
  /\ outcome' = "writer_failure"
  /\ WriterGoes(p)
  /\ UNCHANGED <<closing, closed, abandoned, claim>>

CloseDescriptors ==
  /\ wpc = "closefd"
  /\ \/ WriterGoes("eligible") /\ UNCHANGED <<flagVars, resultVars, faults>>
     \/ Fault /\ PublicationFails("eligible")
  /\ UNCHANGED fileVars

Eligible ==
  /\ summaryWritten /\ outcome = "drained"
  /\ ~failed /\ ~abandoned /\ ~Expired

CheckEligible ==
  /\ wpc = "eligible"
  /\ WriterGoes(IF Eligible THEN "publish" ELSE "end")
  /\ UNCHANGED <<flagVars, resultVars, fileVars, faults>>

\* The sentinels are verified before the first shard is published; any process
\* may have removed one.
VerifyFails ==
  /\ wpc = "publish" /\ \A s \in Streams : hidden[s]
  /\ Fault
  /\ PublicationFails("end")
  /\ UNCHANGED fileVars

ToPublish == {s \in Streams : hidden[s]}

PublishShard ==
  /\ wpc = "publish"
  /\ formal' = [formal EXCEPT ![First(ToPublish)] = "shard"]
  /\ hidden' = [hidden EXCEPT ![First(ToPublish)] = FALSE]
  /\ WriterGoes(IF Cardinality(ToPublish) = 1 THEN "claim" ELSE "publish")
  /\ UNCHANGED <<flagVars, resultVars, content, faults>>

\* os.replace raises: what is already published is retracted.
PublishFails ==
  /\ wpc = "publish"
  /\ Fault
  /\ wpc' = "retract"
  /\ retracting' = Streams \ ToPublish
  /\ publication' = "failed"
  /\ UNCHANGED <<ctor, ready, flagVars, resultVars, closerVars, fileVars>>

\* A mistaken variant: a claim that somebody has made already is overlooked.
CanCommitLate == ~abandoned /\ ~Expired

CanCommit == ~abandoned /\ ~Expired /\ claim = NoClaim

\* A mistaken variant: the profile shard of an expired publication is left in place.
RetractBaseOnly == {"base"}

ToRetract == Streams

\* A mistaken variant: the claim is made first and the deadline looked at afterwards.
CommitThenCheck ==
  /\ wpc = "claim"
  /\ claim' = Claimed("drained", TRUE, "publication")
  /\ closed' = TRUE
  /\ wpc' = IF Expired THEN "retract" ELSE "end"
  /\ retracting' = Streams
  /\ publication' = "expired"
  /\ UNCHANGED <<ctor, ready, closing, abandoned, failed, summaryWritten, outcome,
                 closerVars, fileVars, faults>>

\* The commit point, under the condition.
CommitClaim ==
  /\ wpc = "claim"
  /\ UNCHANGED <<ctor, ready, closing, abandoned, failed, summaryWritten, outcome,
                 closerVars, fileVars, faults>>
  /\ \/ /\ CanCommit
        /\ claim' = Claim("drained", TRUE, "publication")
        /\ closed' = TRUE
        /\ wpc' = "end"
        /\ UNCHANGED <<retracting, publication>>
     \/ /\ ~CanCommit
        /\ wpc' = "retract"
        /\ retracting' = ToRetract
        /\ publication' = "expired"
        /\ UNCHANGED <<claim, closed>>

Retracted(s) == retracting' = retracting \ {s}

\* _retract_published_shard_in_writer: rename back, else unlink, else append an
\* invalidating summary, which may raise too.
RetractShard ==
  /\ wpc = "retract" /\ retracting # {}
  /\ LET s == Last(retracting) IN
       /\ Retracted(s)
       /\ \/ /\ formal' = [formal EXCEPT ![s] = "absent"]
             /\ hidden' = [hidden EXCEPT ![s] = TRUE]
             /\ UNCHANGED <<content, faults>>
          \/ /\ formal' = [formal EXCEPT ![s] = "absent"]
             /\ Fault
             /\ UNCHANGED <<hidden, content>>
          \/ /\ content' = [content EXCEPT ![s] = "invalid"]
             /\ faults + 2 <= MaxFaults /\ faults' = faults + 2
             /\ UNCHANGED <<formal, hidden>>
          \/ /\ faults + 3 <= MaxFaults /\ faults' = faults + 3
             /\ UNCHANGED fileVars
  /\ UNCHANGED <<ctor, ready, flagVars, resultVars, closerVars, wpc, publication>>

RetractionDone ==
  /\ wpc = "retract" /\ retracting = {}
  /\ \/ publication = "failed" /\ PublicationFails("end")
     \/ /\ publication = "expired"
        /\ summaryWritten' = FALSE
        /\ outcome' = "timeout"
        /\ WriterGoes("end")
        /\ UNCHANGED <<flagVars, claim>>
  /\ UNCHANGED <<fileVars, faults>>

\* A mistaken variant: the outcome of a writer that set none is taken as it is.
FinalOutcomeUnset == outcome

FinalOutcome == IF outcome # "none" THEN outcome
                ELSE IF failed THEN "writer_failure" ELSE "drained"

MustClaim == closing

\* The last critical section of _writer_main.
WriterEnds ==
  /\ wpc = "end"
  /\ closed' = TRUE
  /\ claim' = IF MustClaim THEN Claimed(FinalOutcome, summaryWritten, "writer") ELSE claim
  /\ WriterGoes("done")
  /\ UNCHANGED <<closing, abandoned, failed, summaryWritten, outcome, fileVars, faults>>

--------------------------------------------------------------------------------
Init ==
  /\ ctor = "waiting" /\ ready = FALSE
  /\ closing = FALSE /\ closed = FALSE /\ abandoned = FALSE /\ failed = FALSE
  /\ deadline = Nobody /\ late = {}
  /\ summaryWritten = FALSE /\ outcome = "none" /\ claim = NoClaim
  /\ closeLock = Nobody
  /\ cpc = [c \in Closers |-> "idle"] /\ result = [c \in Closers |-> NoClaim]
  /\ wpc = "init"
  /\ formal = [s \in Streams |-> "absent"]
  /\ hidden = [s \in Streams |-> FALSE]
  /\ content = [s \in Streams |-> "open"]
  /\ retracting = {} /\ publication = "none" /\ faults = 0

Constructor == ConstructorReturns \/ ConstructorTimesOut

CloserStep(c) ==
  \/ AcquireCloseLock(c) \/ EnterClose(c) \/ JoinReturns(c) \/ Settle(c)
  \/ ConditionTimesOut(c) \/ LockFreeClaim(c) \/ LockFreeFlags(c)

Writer ==
  \/ InitializeWriter \/ InitializeFails \/ CheckInitialization
  \/ WriterLoop \/ CheckDeadline \/ MoveShard \/ MoveFails
  \/ BeginSummary \/ WriteSummary \/ SummaryFails \/ CheckSummary
  \/ InvalidateLateSummary \/ CloseDescriptors \/ CheckEligible
  \/ VerifyFails \/ PublishShard \/ PublishFails \/ CommitClaim
  \/ RetractShard \/ RetractionDone \/ WriterEnds

\* The writer is done and whoever called close() has returned.
Quiescent ==
  /\ wpc = "done" /\ ctor \in {"open", "raised"}
  /\ \A c \in Closers : cpc[c] = "returned" \/ ctor = "raised"
  /\ UNCHANGED vars

Next ==
  \/ Constructor
  \/ \E c \in Closers : CallClose(c) \/ Tick(c) \/ CloserStep(c)
  \/ Writer
  \/ Quiescent

Spec == Init /\ [][Next]_vars

\* Every call of close() that is under way makes its own steps and its own time
\* passes.  Nothing is assumed of the writer, of the constructor or of callers.
CloseFairness == \A c \in Closers : WF_vars(CloserStep(c)) /\ WF_vars(Tick(c))

CloseSpec == Spec /\ CloseFairness

\* The writer thread is scheduled and no file system call blocks it forever.
WriterFairness == WF_vars(Writer) /\ WF_vars(Constructor)

--------------------------------------------------------------------------------
(* Properties *)

Receipts == {NoClaim} \cup
  [outcome : {"drained", "timeout", "writer_failure"}, summary : BOOLEAN,
   by : {"closer", "lockfree", "publication", "writer"}]

\* The types of the sink's state.
TypeOK ==
  /\ ctor \in {"waiting", "late", "open", "raised"} /\ ready \in BOOLEAN
  /\ closing \in BOOLEAN /\ closed \in BOOLEAN /\ abandoned \in BOOLEAN /\ failed \in BOOLEAN
  /\ deadline \in Closers \cup {Nobody} /\ late \subseteq Closers
  /\ summaryWritten \in BOOLEAN
  /\ outcome \in {"none", "drained", "timeout", "writer_failure"}
  /\ claim \in Receipts
  /\ closeLock \in Closers \cup {Nobody}
  /\ cpc \in [Closers -> {"idle", "lock", "enter", "join", "settle", "lockfree", "flags",
                          "returned"}]
  /\ result \in [Closers -> Receipts]
  /\ wpc \in {"init", "ready", "loop", "drained", "move", "moved", "summary", "summarizing", "checked",
              "finalize", "closefd", "eligible", "publish", "claim", "retract", "end", "done"}
  /\ formal \in [Streams -> {"absent", "shard", "sentinel"}]
  /\ hidden \in [Streams -> BOOLEAN]
  /\ content \in [Streams -> {"open", "complete", "invalid"}]
  /\ retracting \subseteq Streams
  /\ publication \in {"none", "expired", "failed"}
  /\ faults \in 0..MaxFaults

\* What committed_shard_path goes by.
Committed == claim.outcome = "drained" /\ claim.summary

\* The streams whose formal name holds a complete shard.
Visible == {s \in Streams : formal[s] = "shard" /\ content[s] = "complete"}

\* The manifest rule of the contracts: a path that committed_shard_path admits
\* names a complete shard, on both streams.
CommittedIsComplete == Committed => Visible = Streams

\* The same as far as the code keeps it: a drained receipt is either won at the
\* commit point, with both shards complete, or made after the deadline.
CommitPointIsComplete ==
  Committed => (claim.by = "publication" /\ Visible = Streams) \/ Expired

\* The comment at the publication ("the final commit point"): once the
\* publication claim has won, no step changes the published shards.
CommitIsFinal ==
  [][claim.by = "publication" => UNCHANGED <<claim, formal, hidden, content>>]_vars

\* _completion_claim has a single winner: every close() that has returned has
\* returned the same receipt, the lock-free ones too, and it is still the one;
\* and a close() that finds the writer ended needs no claim of its own: the
\* writer has claimed in its last critical section, whichever way it ended.
OneReceipt ==
  /\ \A c \in Closers : cpc[c] = "returned" => claim # NoClaim /\ result[c] = claim
  /\ wpc = "done" /\ closing => claim # NoClaim

\* When the writer has ended and its publication has not won, neither stream
\* shows a complete shard under its formal name: not after a timeout that raced
\* the publication, nor half of the pair.  It takes three failing file system
\* calls on one shard to break this.
NothingVisibleUncommitted ==
  wpc = "done" /\ claim.by # "publication" /\ faults < 3 => Visible = {}

\* close() returns: no schedule of the writer, of the file system or of the
\* other closers can keep it waiting (contract: close waits at most 2000 ms).
CloseReturns == \A c \in Closers : cpc[c] = "lock" ~> cpc[c] = "returned"

\* A writer that is closed, abandoned or whose construction failed ends, if the
\* thread is scheduled and no file system call blocks it forever.  The closers
\* need no such premise: CloseReturns holds although the writer may hang.
WriterStops == WriterFairness => ((closing \/ abandoned) ~> wpc = "done")

\* Abstractly a sink is open, then committed or refused, and shows shards.  A
\* drained receipt that no publication backs counts as refused here; that it
\* exists at all is what CommittedIsComplete is about.  A sink whose
\* writer ends before any close is refused by the first close().
Verdict == IF claim = NoClaim THEN "open"
           ELSE IF claim.by = "publication" THEN "committed" ELSE "refused"

Evidence == INSTANCE EvidenceCommit WITH verdict <- Verdict, shown <- Visible

\* The sink implements the abstract commit protocol: the pair is complete when
\* it is committed, a committed pair is never withdrawn, and of a refused one
\* nothing remains visible once a writer that does not hang has retracted it.
ImplementsEvidenceCommit ==
  Evidence!Spec /\ (WriterFairness => Evidence!RefusedVanishes)
================================================================================
