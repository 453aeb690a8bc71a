---------------------------- MODULE MCLifecycle ----------------------------
(* Lifecycle for TLC: its constants are ordinary values.                   *)
EXTENDS Lifecycle
=============================================================================
