----------------------------- MODULE MCInbound -----------------------------
(* Small instances of Inbound; every constant is given by the cfg.         *)
EXTENDS Inbound
=============================================================================
