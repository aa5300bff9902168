---------------------------- MODULE MCLifecycle ----------------------------
(* One master, one stranger's address and two relays; two sessions.        *)
EXTENDS Lifecycle
CONSTANTS m1, o1, r1, r2
=============================================================================
