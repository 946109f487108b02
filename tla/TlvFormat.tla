------------------------------ MODULE TlvFormat ------------------------------
(***************************************************************************)
(* Passive learning of the TLV framing Analog_Bridge uses                  *)
(* (_learn_tlv_format_from_datagram).  A datagram is told apart by its     *)
(* length; data stands for the bytes that are learnt from it: the header   *)
(* of an audio datagram, all of any other.                                 *)
(*   "audio"  30 bytes           "end"   3 bytes                           *)
(*   "begin"  4 to 27 bytes      "long"  28 or 29 bytes, or more than 30   *)
(***************************************************************************)

CONSTANTS
  Variants,   \* the headers, end and begin datagrams that builds differ in
  NotSeen     \* none learnt: the default header or end, no begin

ASSUME FormatAssumption == NotSeen \notin Variants

Datagrams == [kind : {"audio", "end", "begin", "long"}, data : Variants]
Learnt == Variants \cup {NotSeen}

(* header is learnt if and only if source is "passive-learned".            *)
Formats == [header : Learnt, end : Learnt, start : Learnt]

DefaultFormat == [header |-> NotSeen, end |-> NotSeen, start |-> NotSeen]

(* start_candidate: the last begin/control datagram seen.                  *)
Candidate(candidate, d) == IF d.kind \in {"begin", "long"} THEN d.data ELSE candidate

Learned(f) == f.header # NotSeen

(* Mutant: another audio header takes a begin datagram seen since, or none. *)
LearnCandidateOnly(f, candidate, d) ==
  IF d.kind = "audio" /\ f.header # d.data
  THEN [f EXCEPT !.header = d.data, !.start = IF Learned(f) THEN NotSeen ELSE candidate]
  ELSE IF d.kind \in {"begin", "long"} /\ Learned(f) /\ f.start = NotSeen
  THEN [f EXCEPT !.start = d.data]
  ELSE f

Learn(f, candidate, d) ==
  IF d.kind = "audio" /\ f.header # d.data
  THEN [f EXCEPT !.header = d.data, !.start = IF candidate # NotSeen THEN candidate ELSE @]
  ELSE IF d.kind = "end" /\ Learned(f)
  THEN [f EXCEPT !.end = d.data]
  ELSE IF d.kind \in {"begin", "long"} /\ Learned(f) /\ f.start = NotSeen
  THEN [f EXCEPT !.start = d.data]
  ELSE f

(* extract_dmr_ambe_blocks: 30 bytes are audio, and so are the last 27 of  *)
(* any datagram of more than 27; shorter ones carry none.                  *)
HasBlock(d) == d.kind \in {"audio", "long"}
=============================================================================
