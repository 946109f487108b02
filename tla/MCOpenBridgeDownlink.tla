------------------------- MODULE MCOpenBridgeDownlink -------------------------
(***************************************************************************)
(* The instance TLC checks: three streams, which may alternate packet by   *)
(* packet, and bursts that wait up to two ticks.                           *)
(***************************************************************************)
EXTENDS OpenBridgeDownlink
=============================================================================
