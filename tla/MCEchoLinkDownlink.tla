-------------------------- MODULE MCEchoLinkDownlink --------------------------
(***************************************************************************)
(* The instance TLC checks: two stations, two frames to a packet.          *)
(***************************************************************************)
EXTENDS EchoLinkDownlink
=============================================================================
