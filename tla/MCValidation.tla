---------------------------- MODULE MCValidation ----------------------------
(***************************************************************************)
(* The parts that judge evidence, in one model for TLC: the wire           *)
(* validators with the drafts of their producers (LifecycleRecords), the   *)
(* case bundle validator (CaseBundle), blind attribution                   *)
(* (BlindAttribution), the resource ledger of an M0 lifecycle (M0Ledger)   *)
(* and the decision of an M0 campaign (M0Decision).  They share no state.  *)
(* A behaviour is one of one instance, which part names, while the         *)
(* variables of the others rest in an initial state; so the states add up  *)
(* instead of multiplying.                                                 *)
(***************************************************************************)
EXTENDS LifecycleRecords, BlindAttribution, M0Decision

CONSTANTS j1, j2, l1,
          Parts      \* the instances explored

VARIABLES part,
          spans, edges, links, verdict,                           \* CaseBundle
          arm, held, worker, engine, queue, shard, complete, witness, report   \* M0Ledger

bundleVars == <<spans, edges, links, verdict>>
ledgerVars == <<arm, held, worker, engine, queue, shard, complete, witness, report>>
\* A clean exit, a failure and SIGKILL.
MCExitCodes == {0, 1, -9}

\* The views that are written before the result.
MCViews == <<"aggregate_metrics", "flat_stage_timers">>

\* A campaign of three repetitions that decides on two, over two boundaries: every
\* subset of the repetitions in order, and one that is out of order.
MCPlans == {<<0>>, <<1>>, <<2>>, <<0, 1>>, <<0, 2>>, <<1, 2>>, <<0, 1, 2>>, <<2, 0, 1>>}
MCDeltas == {-1, 1, 2}

allVars == <<part, vars, bundleVars, blindVars, ledgerVars, campaignVars>>

-----------------------------------------------------------------------------
(* Three bundles: edges among three spans; charges of three spans on a time *)
(* line of four points; one span and one link, with slips of the author.    *)

Graph == INSTANCE CaseBundle WITH
    Requests <- {"r1"}, Clocks <- {"host"}, Steps <- {None}, Times <- {0, 1},
    Charges <- {0}, Kinds <- {"precedes", "resource_owner"}, LinkKeys <- {{}},
    Slips <- FALSE, MaxSpans <- 3, MaxEdges <- 3, MaxLinks <- 0,
    Capacity <- 4, RecursionLimit <- 8

Accounting == INSTANCE CaseBundle WITH
    Requests <- {"r1"}, Clocks <- {"host"}, Steps <- {None}, Times <- 0..3,
    Charges <- {0, 1, 2}, Kinds <- {}, LinkKeys <- {{}},
    Slips <- FALSE, MaxSpans <- 3, MaxEdges <- 0, MaxLinks <- 0,
    Capacity <- 4, RecursionLimit <- 8

Drilldown == INSTANCE CaseBundle WITH
    Requests <- {"r1"}, Clocks <- {"host", "device"}, Steps <- {None, "s1"},
    Times <- {0, 1}, Charges <- {0, 1}, Kinds <- {},
    LinkKeys <- {{}, {"event_id"}, {"tree_id", "node_id", "occurrence_idx"}, Graph!TreeKeys},
    Slips <- TRUE, MaxSpans <- 1, MaxEdges <- 0, MaxLinks <- 1,
    Capacity <- 4, RecursionLimit <- 8

(* A case of up to three pairs with flaws, which is scored and not written.  *)
(* The runners that write their results have a case of one pair.            *)

Scoring == INSTANCE BlindAttribution WITH
    NullDeltas <- {0, 9}, NullPairs <- 2, Charges <- {12},
    Linkages <- {"link", "precedes"}, Flaws <- {"event_loss", "loose"},
    MinPairs <- 2, MaxPairs <- 3

(* Two transfers and a lease, in both arms.                                *)

Ledger == INSTANCE M0Ledger WITH
    Jobs <- {j1, j2}, Leases <- {l1}, Arms <- {"fault", "control"}, summary <- complete

ASSUME ValidationAssumption ==
    /\ Graph!BundleConstants /\ Accounting!BundleConstants /\ Drilldown!BundleConstants
    /\ Scoring!BlindConstants /\ BlindConstants
    /\ Ledger!LedgerConstants /\ DecisionConstants
    /\ Parts \subseteq {"records", "graph", "accounting", "drilldown", "scoring", "locking",
                       "ledger", "campaign"}

-----------------------------------------------------------------------------

MCInit ==
    /\ part \in Parts
    /\ Init
    /\ Graph!Init
    /\ BlindInit
    /\ Ledger!Init /\ (part # "ledger" => arm = "fault")
    /\ CampaignInit /\ (part # "campaign" => plan = <<0>>)

RecordStep ==
    /\ part = "records" /\ Next
    /\ UNCHANGED <<part, bundleVars, blindVars, ledgerVars, campaignVars>>

BundleStep ==
    /\ \/ part = "graph" /\ Graph!Next
       \/ part = "accounting" /\ Accounting!Next
       \/ part = "drilldown" /\ Drilldown!Next
    /\ UNCHANGED <<part, vars, blindVars, ledgerVars, campaignVars>>

BlindStep ==
    /\ \/ part = "scoring" /\ Scoring!StudyNext
       \/ part = "scoring" /\ Scoring!Closed /\ UNCHANGED blindVars
       \/ part = "locking" /\ BlindNext
    /\ UNCHANGED <<part, vars, bundleVars, ledgerVars, campaignVars>>

LedgerStep ==
    /\ part = "ledger" /\ Ledger!Next
    /\ UNCHANGED <<part, vars, bundleVars, blindVars, campaignVars>>

CampaignStep ==
    /\ part = "campaign" /\ CampaignNext
    /\ UNCHANGED <<part, vars, bundleVars, blindVars, ledgerVars>>

MCNext == RecordStep \/ BundleStep \/ BlindStep \/ LedgerStep \/ CampaignStep

MCSpec == MCInit /\ [][MCNext]_allVars

-----------------------------------------------------------------------------
(* Properties of the instances; those of the extended modules hold as they  *)
(* are.                                                                     *)

\* The validator of a case bundle decides rightly.  Its search accepts exactly
\* the acyclic edge sets, and chains of "precedes" edges are ordered in time
\* although only neighbours are compared; no request is charged more time than
\* its spans cover, and the sweep over sorted intervals is that coverage; every
\* device-backed span of an accepted bundle can be drilled down to its TraceLoom
\* occurrence.
ValidatorIsRight ==
    /\ part = "graph" => /\ Graph!AcceptedIsDag /\ Graph!DagIsAccepted
                         /\ Graph!AcceptedIsOrdered
    /\ part = "accounting" => Accounting!AcceptedChargesOnce /\ Accounting!UnionIsCoverage
    /\ part = "drilldown" => Drilldown!AcceptedIsDrillable

\* A published top-1 rests on clean evidence in every arm of every pair and,
\* scored with the calibrated floor, outweighs every null pair of the calibration;
\* and what the scorer computes from a linked case passes the checks of
\* write_locked_method_result.
ResultIsSound ==
    part = "scoring" => /\ Scoring!PublishedIsSound /\ Scoring!PublishedBeatsNoise
                        /\ Scoring!LinkedResultLocks

\* The ledger of an M0 lifecycle: the transfer that the injector witnessed is
\* settled by the exit of the killed worker, whatever part of its rows had been
\* written; killing the worker hides no leak of a lease; and of a service that
\* ended cleanly the ledger is exact.
LedgerIsTrue == Ledger!WitnessSettled /\ Ledger!LeaksReported /\ Ledger!ControlLedgerIsExact
=============================================================================
