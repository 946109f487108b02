-------------------------- MODULE MCOpenBridgeUplink --------------------------
(* The TLV-to-OpenBridge direction on a small instance: one station with an *)
(* id of its own besides the fallback, superframes of two bursts, and       *)
(* sequence numbers that wrap inside a flush.  The templates: a clean one   *)
(* (header, terminator); one that starts with an old terminator and ends    *)
(* with a packet that is none; and one of voice only.                       *)
EXTENDS OpenBridgeUplink

MCTemplates ==
  { [prefix |-> <<FALSE>>, suffix |-> <<TRUE>>],
    [prefix |-> <<TRUE, FALSE>>, suffix |-> <<FALSE>>],
    [prefix |-> <<>>, suffix |-> <<>>] }
=============================================================================
