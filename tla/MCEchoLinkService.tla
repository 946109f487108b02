------------------------- MODULE MCEchoLinkService -------------------------
(* Two endpoints at two IP addresses and one station A, which gives its    *)
(* callsign from both (it roams) while voice comes from both: an endpoint, *)
(* an address or a callsign may stand for another station than before, up  *)
(* to two speak at once, and the conference may be full for a third.  On   *)
(* one socket each (MCOneSocket) or, for the run that fills the            *)
(* conference, on both and with an SDES that names nobody (MCBothSockets). *)
EXTENDS EchoLinkService, TLC
CONSTANTS A, i1, i2, x, y
MCTwoIps == x :> i1 @@ y :> i2
MCOneSocket ==
  x :> [control |-> {}, audio |-> {A}] @@ y :> [control |-> {}, audio |-> {A}]
MCBothSockets ==
  x :> [control |-> {A, UnknownCall(i1)}, audio |-> {}] @@ y :> [control |-> {}, audio |-> {A}]
=============================================================================
