--------------------------- MODULE BlindAttribution ---------------------------
(***************************************************************************)
(* The pre-reveal half of the blind attribution study: the null            *)
(* calibration of preblind_calibration.py, the full-DAG scorer and the     *)
(* locked result files of blind_attribution.py, and the development runner *)
(* that drives them.  A case has been accepted by the validator (module    *)
(* CaseBundle); of an observation the model keeps the charge of each       *)
(* candidate, how its spans are linked, and what is wrong with its         *)
(* evidence.                                                               *)
(*                                                                         *)
(* Durations are integers; medians are doubled so that the average of two  *)
(* middle values stays one, and shares are compared by cross-              *)
(* multiplication.  The bootstrap's percentile interval depends on a       *)
(* seeded generator: any interval between two resample medians that holds  *)
(* the sample median is possible, fixed once per case.                     *)
(***************************************************************************)
EXTENDS Integers, FiniteSets, Sequences, SequencesExt

CONSTANTS
    Candidates,    \* measurable candidates, numbered in the order of their ids
    NullDeltas,    \* arm-to-arm differences of a candidate in a null pair
    NullPairs,     \* 5 in the code
    MinFloor,      \* MIN_ABSOLUTE_FLOOR_MS, also the default of --noise-floor-ms
    BaseCharge,    \* what the baseline arm charges to every candidate
    Charges,       \* what a treatment arm may charge to a candidate
    Linkages,      \* how the spans of a candidate may be linked in a case
    Flaws,         \* what may be wrong with an arm's evidence
    MinPairs,      \* 5 in the code
    MaxPairs,      \* bound on the pairs of a case
    Runners,       \* processes that run the development pipeline
    Views,         \* comparison views written before the result
    None

\* What the constants are.
BlindConstants ==
    /\ Candidates \subseteq Nat /\ Candidates # {}
    /\ NullDeltas \subseteq Int /\ Charges \subseteq Nat
    /\ {NullPairs, MinFloor, BaseCharge, MinPairs, MaxPairs} \subseteq Nat
    /\ NullPairs > 0 /\ MinPairs > 0
    /\ Linkages \subseteq {"causal", "precedes", "link", "loose"}
    /\ Views \in Seq(STRING)
    /\ \A i, j \in DOMAIN Views : Views[i] = Views[j] => i = j
    /\ \A i \in DOMAIN Views : Views[i] # "result"

VARIABLES
    null,       \* total positive deltas of the null pairs run so far
    floor,      \* the floor handed to the scorer, None before
    linkage,    \* how the case links each candidate's spans
    pairs,      \* the matched pairs of the case
    boot,       \* the percentile interval of the case, None until it is closed
    files,      \* the output directory: what each path holds
    pc, at      \* each runner's control state and the index of its file

blindVars == <<null, floor, linkage, pairs, boot, files, pc, at>>
study == <<null, floor, linkage, pairs, boot>>

-----------------------------------------------------------------------------
(* Statistics *)

SumOver(S, f(_)) == MapThenSumSet(f, S)

Positive(n) == IF n > 0 THEN n ELSE 0

Sorted(s) == SortSeq(s, <)

(* statistics.median, doubled.                                              *)
Median2(s) ==
    LET t == Sorted(s)
        n == Len(s)
    IN t[(n + 1) \div 2] + t[n \div 2 + 1]

\* A mistaken variant: the rank is rounded down.
NearestRankBelow(s, percent) ==
    LET rank == (percent * Len(s)) \div 100
    IN Sorted(s)[IF rank > 1 THEN rank ELSE 1]

NearestRank(s, percent) ==
    LET rank == (percent * Len(s) + 99) \div 100
    IN Sorted(s)[IF rank > 1 THEN rank ELSE 1]

(* Medians a resample of the pairs can have, doubled.                       *)
ResampleMedians(s) ==
    IF Len(s) % 2 = 1 THEN {2 * x : x \in Range(s)}
    ELSE {x + y : x \in Range(s), y \in Range(s)}

-----------------------------------------------------------------------------
(* Null calibration *)

(* One no-intervention pair: the total of its positive candidate deltas.    *)
RunNullPair ==
    /\ floor = None
    /\ Len(null) < NullPairs
    /\ \E deltas \in [Candidates -> NullDeltas] :
        null' = Append(null, SumOver(Candidates, LAMBDA c : Positive(deltas[c])))
    /\ UNCHANGED <<floor, linkage, pairs, boot, files, pc, at>>

CalibratedFloor ==
    LET p95 == NearestRank(null, 95)
    IN IF p95 > MinFloor THEN p95 ELSE MinFloor

(* The calibration reports its floor to the operator, who hands it to the     *)
(* runner with --noise-floor-ms or leaves the default in place.             *)
Calibrate ==
    /\ floor = None
    /\ Len(null) = NullPairs
    /\ floor' \in {CalibratedFloor, MinFloor}
    /\ \E f \in [Candidates -> Linkages] : linkage' = f
    /\ UNCHANGED <<null, pairs, boot, files, pc, at>>

-----------------------------------------------------------------------------
(* The case *)

AddPair ==
    /\ floor # None /\ boot = None
    /\ Len(pairs) < MaxPairs
    /\ \E charge \in [Candidates -> Charges \cup {None}], flaw \in Flaws \cup {None} :
        /\ \E c \in Candidates : charge[c] # None
        /\ flaw # None => \A p \in Range(pairs) : p.flaw = None
        /\ pairs' = Append(pairs, [charge |-> charge, flaw |-> flaw])
    /\ UNCHANGED <<null, floor, linkage, boot, files, pc, at>>

(* _candidate_totals: a candidate without a span has no duration.           *)
ChargeTotal(pair, c) == IF pair.charge[c] = None THEN 0 ELSE pair.charge[c]

DeltasOf(c) == [i \in DOMAIN pairs |-> ChargeTotal(pairs[i], c) - BaseCharge]

Medians == [c \in Candidates |-> Median2(DeltasOf(c))]

(* Candidates with a positive median, the largest first, ties by id.        *)
Ranked(m) ==
    SetToSortSeq({c \in Candidates : m[c] > 0},
        LAMBDA c, d : m[c] > m[d] \/ (m[c] = m[d] /\ c < d))

Top(m) == IF Ranked(m) = <<>> THEN None ELSE Head(Ranked(m))

PositiveTotal(m) == SumOver(Candidates, LAMBDA c : Positive(m[c]))

(* The case is closed; from here on its bootstrap interval is determined.   *)
CloseCase ==
    /\ boot = None
    /\ Len(pairs) >= MinPairs
    /\ LET top == Top(Medians)
       IN \/ /\ top = None
             /\ boot' = <<0, 0>>
          \/ /\ top # None
             /\ \E low, high \in ResampleMedians(DeltasOf(top)) :
                /\ low <= Median2(DeltasOf(top)) /\ Median2(DeltasOf(top)) <= high
                /\ boot' = <<low, high>>
    /\ UNCHANGED <<null, floor, linkage, pairs, files, pc, at>>

-----------------------------------------------------------------------------
(* Scoring *)

(* Edge kinds and supported links of a candidate's spans in one arm.        *)
ArmLinkage(c, flaw) == IF flaw = "loose" THEN "loose" ELSE linkage[c]

EdgeKindsOf(c) == {linkage[c]} \cap {"causal", "precedes"}

LinkCount(c) == IF linkage[c] = "link" THEN 1 ELSE 0

SpanCount(c) ==
    Len(pairs) + Cardinality({i \in DOMAIN pairs : pairs[i].charge[c] # None})

(* Evidence reasons: a flawed arm, or a span with neither a causal edge nor *)
(* a supported link.                                                        *)
EvidenceReasons ==
    {p.flaw : p \in {q \in Range(pairs) : q.flaw \notin {None, "loose"}}}
    \cup (IF \E c \in Candidates, p \in Range(pairs) :
                ArmLinkage(c, p.flaw) \in {"precedes", "loose"}
          THEN {"unlinked_lifecycle_span"} ELSE {})

(* dominance >= 0.60, on the doubled medians.                               *)
Dominant(m) == Top(m) # None /\ 10 * m[Top(m)] >= 6 * PositiveTotal(m)

CrossesZero(m) == Top(m) # None /\ boot[1] <= 0 /\ 0 <= boot[2]

Reasons(m) ==
    EvidenceReasons
    \cup (IF PositiveTotal(m) < 2 * floor THEN {"below_floor"} ELSE {})
    \cup (IF Top(m) = None THEN {"no_positive"} ELSE {})
    \cup (IF Dominant(m) THEN {} ELSE {"no_single_root"})
    \cup (IF CrossesZero(m) THEN {"crosses_zero"} ELSE {})

Score(c, m) ==
    [id |-> c, median |-> m[c], deltas |-> DeltasOf(c), spans |-> SpanCount(c),
     edges |-> EdgeKindsOf(c), links |-> LinkCount(c)]

Result ==
    LET m       == Medians
        ranked  == Ranked(m)
        reasons == Reasons(m)
    IN [top1 |-> IF reasons = {} THEN Top(m) ELSE None,
        top3 |-> SubSeq(ranked, 1, IF Len(ranked) < 3 THEN Len(ranked) ELSE 3),
        candidates |-> [i \in DOMAIN ranked |-> Score(ranked[i], m)],
        dominance |-> IF Top(m) = None THEN 0 ELSE m[Top(m)],
        total |-> PositiveTotal(m),
        interval |-> boot,
        abstained |-> reasons # {},
        reasons |-> reasons,
        complete |-> EvidenceReasons = {},
        lost |-> Cardinality({i \in DOMAIN pairs : pairs[i].flaw = "event_loss"})]

-----------------------------------------------------------------------------
(* write_locked_method_result: what is accepted of a result.                *)

ValidScore(score) ==
    /\ score.median > 0
    /\ score.median = Median2(score.deltas)
    /\ Len(score.deltas) >= MinPairs
    /\ score.spans > 0
    /\ score.edges \ {"precedes"} # {} \/ score.links > 0

ValidResult(r) ==
    /\ \A i \in DOMAIN r.candidates : ValidScore(r.candidates[i])
    /\ \A i, j \in DOMAIN r.candidates :
        i # j => r.candidates[i].id # r.candidates[j].id
    /\ r.top3 = [i \in DOMAIN r.top3 |-> r.candidates[i].id]
    /\ Len(r.top3) = IF Len(r.candidates) < 3 THEN Len(r.candidates) ELSE 3
    /\ \A i, j \in DOMAIN r.candidates :
        Len(r.candidates[i].deltas) = Len(r.candidates[j].deltas)
    /\ r.abstained => r.top1 = None
    /\ ~r.abstained => r.candidates # <<>> /\ r.top1 = Head(r.candidates).id
    /\ r.abstained = (r.reasons # {})
    /\ IF r.candidates = <<>> THEN r.dominance = 0
       ELSE /\ FoldLeft(LAMBDA sum, s : sum + s.median, 0, r.candidates) = r.total
            /\ Head(r.candidates).median = r.dominance
    /\ r.interval[1] <= r.interval[2]
    /\ r.lost > 0 => ~r.complete

-----------------------------------------------------------------------------
(* The development runner: the views, then the scored result, each created  *)
(* exclusively (write_locked_result).                                       *)

\* A mistaken variant: the result is locked before the views are written.
PathsResultFirst == <<"result">> \o Views

Paths == Append(Views, "result")

NoFile == [state |-> "absent", by |-> None]

Name(p) == Paths[at[p]]

Start(p) ==
    /\ boot # None
    /\ pc[p] = "idle"
    /\ pc' = [pc EXCEPT ![p] = "open"]
    /\ UNCHANGED <<study, files, at>>

(* Before the result is opened it is scored and validated.                  *)
CanOpen(p) == at[p] < Len(Paths) \/ ValidResult(Result)

\* A mistaken variant: the create is inside the handler that unlinks.
OpenRefusedUnlinks(p) == [pc EXCEPT ![p] = "unlink"]

(* open(O_CREAT | O_EXCL) of a path that exists raises before the handler.  *)
OpenRefused(p) == [pc EXCEPT ![p] = "failed"]

Open(p) ==
    /\ pc[p] = "open"
    /\ \/ /\ CanOpen(p)
          /\ files[Name(p)] = NoFile
          /\ files' = [files EXCEPT ![Name(p)] = [state |-> "partial", by |-> p]]
          /\ pc' = [pc EXCEPT ![p] = "write"]
       \/ /\ CanOpen(p)
          /\ files[Name(p)] # NoFile
          /\ pc' = OpenRefused(p)
          /\ UNCHANGED files
       \/ /\ ~CanOpen(p)
          /\ pc' = [pc EXCEPT ![p] = "failed"]
          /\ UNCHANGED files
    /\ UNCHANGED <<study, at>>

WriteFile(p) ==
    /\ pc[p] = "write"
    /\ files' = [files EXCEPT ![Name(p)].state = "complete"]
    /\ IF at[p] = Len(Paths)
       THEN pc' = [pc EXCEPT ![p] = "done"] /\ UNCHANGED at
       ELSE pc' = [pc EXCEPT ![p] = "open"] /\ at' = [at EXCEPT ![p] = @ + 1]
    /\ UNCHANGED study

(* A failing write or fsync: the handler unlinks the path and re-raises.    *)
WriteFails(p) ==
    /\ pc[p] = "write"
    /\ pc' = [pc EXCEPT ![p] = "unlink"]
    /\ UNCHANGED <<study, files, at>>

Unlinked(p) == [files EXCEPT ![Name(p)] = NoFile]

Unlink(p) ==
    /\ pc[p] = "unlink"
    /\ files' = Unlinked(p)
    /\ pc' = [pc EXCEPT ![p] = "failed"]
    /\ UNCHANGED <<study, at>>

Crash(p) ==
    /\ pc[p] \in {"open", "write", "unlink"}
    /\ pc' = [pc EXCEPT ![p] = "crashed"]
    /\ UNCHANGED <<study, files, at>>

BlindInit ==
    /\ null = <<>> /\ floor = None
    /\ linkage = [c \in Candidates |-> None] /\ pairs = <<>> /\ boot = None
    /\ files = [f \in Range(Paths) |-> NoFile]
    /\ pc = [p \in Runners |-> "idle"]
    /\ at = [p \in Runners |-> 1]

BlindRest ==
    /\ boot # None
    /\ \A p \in Runners : pc[p] \in {"done", "failed", "crashed"}
    /\ UNCHANGED blindVars

StudyNext == RunNullPair \/ Calibrate \/ AddPair \/ CloseCase

BlindNext ==
    \/ StudyNext \/ BlindRest
    \/ \E p \in Runners :
        \/ Start(p) \/ Open(p) \/ WriteFile(p) \/ WriteFails(p) \/ Unlink(p) \/ Crash(p)

BlindSpec == BlindInit /\ [][BlindNext]_blindVars

-----------------------------------------------------------------------------
(* Properties *)

Closed == boot # None

(* A published top-1 rests on clean evidence in every arm of every pair and *)
(* on a slowdown that at least half of the pairs show, and it outweighs all *)
(* the other candidates together (docs/blind_attribution_contract.md        *)
(* 199-204): no reason found in one arm is lost on the way to the decision. *)
PublishedIsSound ==
    Closed =>
        LET r == Result
        IN r.top1 # None =>
            /\ \A p \in Range(pairs) : p.flaw = None
            /\ \A c \in Candidates : linkage[c] \in {"causal", "link"}
            /\ 2 * Cardinality({i \in DOMAIN pairs : DeltasOf(r.top1)[i] > 0}) >= Len(pairs)
            /\ SumOver(Candidates \ {r.top1}, LAMBDA c : Positive(Medians[c])) < Medians[r.top1]
            /\ r.interval[1] > 0

(* If the calibrated floor was handed over, a published top-1 is not service *)
(* jitter: the slowdown of all candidates together, which the scorer        *)
(* compares with the floor, reaches the total positive delta of every null  *)
(* pair, although scorer and calibration add up their deltas differently.   *)
PublishedBeatsNoise ==
    Closed =>
        LET r == Result
        IN r.top1 # None /\ floor >= CalibratedFloor =>
               \A i \in DOMAIN null : r.total >= 2 * null[i]

(* What the scorer computes from a case whose every candidate is linked,    *)
(* attributed or abstained, passes the separate checks of                   *)
(* write_locked_method_result.                                              *)
LinkedResultLocks ==
    (Closed /\ \A c \in Candidates : linkage[c] \in {"causal", "link"}) =>
        ValidResult(Result)

(* Each method must write a result artifact before reveal, an abstention    *)
(* with its reason included (docs/blind_attribution_contract.md:109-115).   *)
EveryResultLocks == Closed => ValidResult(Result)

(* The files of an output directory are one runner's: a result stands       *)
(* beside the views of the same runner, whatever other runners failed or    *)
(* died there, and a runner that finished left all of them.                 *)
OneRunPerOutput ==
    /\ \A f, g \in Range(Paths) :
        (files[f].state = "complete" /\ files[g].state = "complete") =>
            files[f].by = files[g].by
    /\ \A f \in Range(Paths) : \A p \in Runners :
        (pc[p] = "done" \/ files["result"] = [state |-> "complete", by |-> p]) =>
            files[f] = [state |-> "complete", by |-> p]

(* A half-written file is being written, or its writer died: a failed write *)
(* leaves the path free for the next attempt.                               *)
PartialHasWriter ==
    \A f \in Range(Paths) : files[f].state = "partial" =>
        pc[files[f].by] \in {"write", "unlink", "crashed"}

(* The files of an output directory are those of one runner, and a          *)
(* half-written one has a writer, or its writer died (write_locked_result). *)
OutputOfOneRunner == OneRunPerOutput /\ PartialHasWriter

(* A complete file is never changed or removed, by any runner that starts,  *)
(* fails or dies beside it (write_locked_method_result).                    *)
LockedStays ==
    [][\A f \in DOMAIN files : files[f].state = "complete" => files'[f] = files[f]]_blindVars
=============================================================================
