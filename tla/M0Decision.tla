----------------------------- MODULE M0Decision -----------------------------
(***************************************************************************)
(* The campaign of .benchmarks/run_issue19_m0_baseline.py: main runs both  *)
(* arms of each repetition, pairs their latencies, rewrites summary.json   *)
(* with the decision of _aggregate and stops at invalid evidence.          *)
(*                                                                         *)
(* What an arm returns is a nondeterministic analysis (M0Ledger and M0Run  *)
(* model how it comes about).  Latencies are integers; a boundary is a     *)
(* number, which stands for the order of the names that breaks ties.  The  *)
(* runner may be killed at any point; writing a file truncates it first.   *)
(***************************************************************************)
EXTENDS Integers, Sequences, FiniteSets, FiniteSetsExt

CONSTANTS Total,       \* repetitions of a complete campaign (10)
          Required,    \* repetitions that must show the pathology (8)
          Boundaries,  \* lifecycle boundaries
          Latencies,   \* survivor p99 of an arm, in tenths of a second
          Deltas,      \* fault minus control p99 of a boundary
          Plans,       \* the --repetitions explored: sequences of indexes
          NoValue      \* None in a report

(* _parse_repetitions: the indexes differ and are those of a campaign.      *)
ParsedRepetitions(p) ==
    /\ p \in Seq(0..(Total - 1))
    /\ \A i, j \in DOMAIN p : p[i] = p[j] => i = j

\* What the constants are.
DecisionConstants ==
    /\ Total \in Nat /\ Required \in 1..Total
    /\ Boundaries \subseteq Nat /\ IsFiniteSet(Boundaries)
    /\ Latencies \subseteq Nat /\ Deltas \subseteq Int
    /\ \A p \in Plans : ParsedRepetitions(p)

VARIABLES plan,     \* the repetitions still to run
          arms,     \* what the arms of the current repetition returned
          results,  \* one entry per repetition run
          summary,  \* summary.json: its decision, "absent" or "torn", and results
          main      \* "running", "truncated", "closing", "rewriting", "ended", "dead"

campaignVars == <<plan, arms, results, summary, main>>

Arms == {"fault", "normal-control"}

(* Even repetitions run the control first.                                  *)
ArmOrder(index) ==
    IF index % 2 = 0 THEN <<"normal-control", "fault">> ELSE <<"fault", "normal-control">>

(* A p99 is NoValue when no survivor completed.                             *)
Analyses ==
    [valid : BOOLEAN, pathology : BOOLEAN, p99 : Latencies \cup {NoValue}]

-----------------------------------------------------------------------------
(* _paired_latency *)

Comparable(f, c) ==
    f.valid /\ c.valid /\ f.p99 # NoValue /\ c.p99 # NoValue /\ c.p99 # 0

Crossed(f, c) == 10 * (f.p99 - c.p99) >= c.p99

(* The boundary that grew most, NoValue when none grew.                     *)
Top1(delta) ==
    LET grown == {b \in Boundaries : delta[b] > 0}
        most  == {b \in grown : \A o \in grown : delta[o] <= delta[b]}
    IN IF grown = {} THEN NoValue ELSE Max(most)

PairedLatency(f, c, delta) ==
    LET top == Top1(delta)
        evaluable == Comparable(f, c) /\ ~(Crossed(f, c) /\ top = NoValue)
    IN [evaluable |-> evaluable,
        observed |-> evaluable /\ Crossed(f, c),
        top1 |-> IF evaluable THEN top ELSE NoValue]

-----------------------------------------------------------------------------
(* _aggregate *)

WithPathology(rs) == {i \in DOMAIN rs : rs[i].pathology}

WithTop1(rs, b) ==
    {i \in DOMAIN rs : rs[i].latency.observed /\ rs[i].latency.top1 = b}

\* A mistaken variant: every latency pathology counts, whatever its boundary.
DominantOfAny(rs) == Cardinality({i \in DOMAIN rs : rs[i].latency.observed})

DominantCount(rs) == Max({0} \cup {Cardinality(WithTop1(rs, b)) : b \in Boundaries})

EvidenceValid(rs) ==
    rs # <<>> /\ \A i \in DOMAIN rs : rs[i].valid /\ rs[i].latency.evaluable

Go(rs) ==
    \/ Cardinality(WithPathology(rs)) >= Required
    \/ DominantCount(rs) >= Required

Decision(rs) ==
    IF Len(rs) # Total THEN "INCOMPLETE"
    ELSE IF ~EvidenceValid(rs) THEN "INVALID_EVIDENCE"
    ELSE IF Go(rs) THEN "GO" ELSE "NO_GO"

-----------------------------------------------------------------------------
(* main *)

Torn == [decision |-> "torn", results |-> <<>>]

Stopped == results # <<>> /\ ~results[Len(results)].valid

CanRun == main = "running" /\ plan # <<>>

(* An arm returns its analysis.                                             *)
RunArm ==
    /\ CanRun
    /\ \E k \in 1..2 :
        LET arm == ArmOrder(Head(plan))[k]
        IN  /\ Cardinality(DOMAIN arms) = k - 1
            /\ \E a \in Analyses :
                arms' = [x \in DOMAIN arms \cup {arm} |-> IF x = arm THEN a ELSE arms[x]]
    /\ UNCHANGED <<plan, results, summary, main>>

(* Both arms are there: the repetition is appended and the summary opened.  *)
Pair ==
    /\ CanRun /\ DOMAIN arms = Arms
    /\ \E delta \in [Boundaries -> Deltas] :
        LET f == arms["fault"]
            c == arms["normal-control"]
            latency == PairedLatency(f, c, delta)
        IN results' = Append(results,
               [index |-> Head(plan), pathology |-> f.pathology, latency |-> latency,
                valid |-> f.valid /\ c.valid /\ latency.evaluable])
    /\ plan' = Tail(plan)
    /\ arms' = <<>>
    /\ summary' = Torn /\ main' = "truncated"

Written == [decision |-> Decision(results), results |-> results]

(* The summary is written; after the last repetition it is written again.   *)
WriteSummary ==
    /\ main = "truncated"
    /\ summary' = Written
    /\ main' = IF plan = <<>> \/ Stopped THEN "closing" ELSE "running"
    /\ UNCHANGED <<plan, arms, results>>

Rewrite ==
    /\ \/ main = "closing" /\ main' = "rewriting" /\ summary' = Torn
       \/ main = "rewriting" /\ main' = "ended" /\ summary' = Written
    /\ UNCHANGED <<plan, arms, results>>

(* An arm raises, or the runner is killed: nothing is written any more.     *)
Die ==
    /\ main \notin {"ended", "dead"}
    /\ main' = "dead"
    /\ UNCHANGED <<plan, arms, results, summary>>

CampaignInit ==
    /\ plan \in Plans
    /\ arms = <<>> /\ results = <<>> /\ main = "running"
    /\ summary = [decision |-> "absent", results |-> <<>>]

CampaignRest == main \in {"ended", "dead"} /\ UNCHANGED campaignVars

CampaignNext == RunArm \/ Pair \/ WriteSummary \/ Rewrite \/ Die \/ CampaignRest

CampaignSpec == CampaignInit /\ [][CampaignNext]_campaignVars

-----------------------------------------------------------------------------
(* Properties *)

Decided == summary.decision \in {"GO", "NO_GO"}

(* A decision rests on Total different repetitions, valid in both arms, and *)
(* GO means what the plan says: one pathology, the resource pathology or    *)
(* one and the same top boundary, in at least Required of them.  Nothing is *)
(* run after a repetition with invalid evidence.                            *)
DecisionIsGate ==
    /\ \A i \in DOMAIN results : i < Len(results) => results[i].valid
    /\ Decided =>
        LET rs == summary.results
            Shown(S) == Cardinality(S) >= Required
        IN /\ {rs[i].index : i \in DOMAIN rs} = 0..(Total - 1)
           /\ \A i \in DOMAIN rs : rs[i].valid
           /\ (summary.decision = "GO") <=>
                (\/ Shown({i \in DOMAIN rs : rs[i].pathology})
                 \/ \E b \in Boundaries :
                     Shown({i \in DOMAIN rs :
                               rs[i].latency.observed /\ rs[i].latency.top1 = b}))
=============================================================================
