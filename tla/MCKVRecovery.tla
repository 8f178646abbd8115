---------------------------- MODULE MCKVRecovery ----------------------------
(***************************************************************************)
(* The recovery adapters and, on its own, the in-memory ledger in which    *)
(* they keep profile records.  The adapters see of it only whether a       *)
(* record was taken, so a behaviour is one of the adapters or one of the   *)
(* ledger, and the variables of the other rest.                            *)
(***************************************************************************)
EXTENDS KVRecovery, ProfileLedger

VARIABLE part

allVars == <<part, vars, ledgerVars>>

\* Plans of optional steps: an undisturbed episode with two requeues and a
\* preserved context, and each disturbance with a repeated delivery.
MCPlans ==
    {{"requeue", "requeue_again", "preserve"}} \cup
    {{step, "repeat"} : step \in {"reset", "close", "wait", "migrate"}}

MCInit ==
    /\ part \in {"adapters", "ledger"}
    /\ Init /\ (part = "ledger" => ahead = {"reset", "repeat"})
    /\ LedgerInit

AdapterStep == part = "adapters" /\ Next /\ UNCHANGED <<part, ledgerVars>>

LedgerStep == part = "ledger" /\ LedgerNext /\ UNCHANGED <<part, vars>>

MCNext == AdapterStep \/ LedgerStep

MCSpec == MCInit /\ [][MCNext]_allVars
=============================================================================
