------------------------------- MODULE MCM0Run -------------------------------
(* One M0 lifecycle with one client before the request of the worker.  The *)
(* control arm has no client with a fault.                                 *)
EXTENDS M0Run

MCGroups == {{"survivor"}, {"disconnect"}, {"timeout"}, {"duplicate"}}
==============================================================================
