----------------------------- MODULE MCUpload ------------------------------
(* A file that overfills the queue and the workers, and a short one, in    *)
(* one directory.                                                          *)
EXTENDS Upload
CONSTANTS w1, w2
Two == << <<"d", "e", "f">>, <<"d", "e", "g">> >>
MCInit == Init /\ size[1] = MaxSize /\ size[2] \in {0, 3}
MCSpec == MCInit /\ [][Next]_vars /\ Fairness
=============================================================================
