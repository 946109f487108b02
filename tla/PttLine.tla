------------------------------- MODULE PttLine -------------------------------
(***************************************************************************)
(* What the gateway promises Analog_Bridge on its USRP socket: a push-to-  *)
(* talk line.  Every transmission starts with one key-up header, carries   *)
(* voice frames only while the line is keyed, ends with one unkey packet,  *)
(* and every packet has the successor of the previous sequence number.     *)
(* UsrpTx implements it.                                                   *)
(***************************************************************************)
EXTENDS Naturals

CONSTANT SeqMod   \* the sequence counter wraps here (2^32 in the code)

VARIABLES
  ptt,    \* the line is keyed
  last,   \* kind of the last packet sent
  seq     \* sequence number the next packet will carry

pttVars == <<ptt, last, seq>>

PttInit ==
  /\ ptt = FALSE
  /\ last = "nothing"
  /\ seq = 1 % SeqMod

Packet(kind) ==
  /\ last' = kind
  /\ seq' = (seq + 1) % SeqMod

Keyup == ~ptt /\ ptt' = TRUE  /\ Packet("header")
Voice ==  ptt /\ ptt' = TRUE  /\ Packet("voice")
Unkey ==  ptt /\ ptt' = FALSE /\ Packet("unkey")

PttNext == Keyup \/ Voice \/ Unkey

PttSpec == PttInit /\ [][PttNext]_pttVars
=============================================================================
