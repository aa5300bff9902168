----------------------------- MODULE MCGoBackN -----------------------------
(* Small instances of GoBackN.                                             *)
EXTENDS GoBackN

CONSTANTS m1, m2, c1

MCLens == [m \in Msg |-> IF m = m1 THEN 3 ELSE 1]

=============================================================================
