-------------------------- MODULE MCLifecycleBridge --------------------------
\* The bridge for TLC.
EXTENDS LifecycleBridge
=============================================================================
