----------------------------- MODULE MCMirror ------------------------------
(* A tree with two wanted files at different depths, one of an excluded    *)
(* type, one under a directory outside TARGETS and one at the top.  At     *)
(* first one wanted file is absent, present or of another size than the    *)
(* archive's copy, and the others are on the device.                       *)
EXTENDS Mirror
Tree == {<<>>, <<"a">>, <<"a", "b">>, <<"b">>}
Files == {<<"a", "x">>, <<"a", "b", "y">>, <<"a", "v">>, <<"b", "z">>, <<"t">>}
Videos == {<<"a", "v">>}

MCInit ==
  /\ Init
  /\ \A f \in File : /\ local[f] \in IF Wanted(f) THEN {Absent, 1} ELSE {Absent}
                     /\ f # <<"a", "x">> => device[f] = 1
MCSpec == MCInit /\ [][Next]_vars /\ WF_vars(~Connecting /\ Download)
=============================================================================
