----------------------------- MODULE MCDmrCapture -----------------------------
(***************************************************************************)
(* The instance TLC checks: two streams that may alternate, superframes of *)
(* two bursts, sequence numbers that wrap after three packets.  The flag   *)
(* bytes are a header, a voice sync, a burst (in slot 2), a terminator and *)
(* a private voice burst, which is not let through.                        *)
(***************************************************************************)
EXTENDS DmrCapture

TheFlags == {33, 16, 129, 34, 65}
StreamSymmetry == Permutations(Streams)
=============================================================================
