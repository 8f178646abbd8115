----------------------------- MODULE EvidenceCommit -----------------------------
(***************************************************************************)
(* What a trace sink promises to whoever builds a run manifest from its    *)
(* CloseResult (runtime_hooks.JsonlTraceSink.committed_shard_path): the    *)
(* shards of all streams become evidence in one step, for good, or never.  *)
(***************************************************************************)
CONSTANT Streams

VARIABLES
  verdict,  \* open, committed or refused: the one CloseResult
  shown     \* the streams with a complete shard under its formal name

vars == <<verdict, shown>>

Init == verdict = "open" /\ shown = {}

\* A shard may be put in place ahead of the verdict, and also after a refusal
\* that its writer has not noticed yet.
Show(s) ==
  /\ verdict # "committed" /\ s \notin shown
  /\ shown' = shown \cup {s}
  /\ UNCHANGED verdict

Withdraw(s) ==
  /\ verdict # "committed" /\ s \in shown
  /\ shown' = shown \ {s}
  /\ UNCHANGED verdict

Commit ==
  /\ verdict = "open" /\ shown = Streams
  /\ verdict' = "committed"
  /\ UNCHANGED shown

Refuse ==
  /\ verdict = "open"
  /\ verdict' = "refused"
  /\ UNCHANGED shown

Next == (\E s \in Streams : Show(s) \/ Withdraw(s)) \/ Commit \/ Refuse

\* Nothing of a refused sink stays visible.
RefusedVanishes == (verdict = "refused") ~> [](shown = {})

Spec == Init /\ [][Next]_vars
================================================================================
