--------------------------- MODULE MCTunnelSetup ---------------------------
(* Small instances of TunnelSetup; every constant is given by the cfg.     *)
EXTENDS TunnelSetup
=============================================================================
