---------------------------- MODULE MCFetchFile ----------------------------
(* Small instances of FetchFile.  The first fetch always finds a leftover  *)
(* .part; later ones find none after an abort.                             *)
EXTENDS FetchFile, TLC
CONSTANTS w1, w2
MCSizes == <<2, 1>>     \* the device's file shrinks when it is rewritten
MCSymmetry == Permutations(Worker)
MCInit == Init /\ part = Old
MCSpec == MCInit /\ [][Next]_vars
=============================================================================
