------------------------------ MODULE DmrPackets ------------------------------
(***************************************************************************)
(* DMRD packets: the flag byte (dmrd.py), what the analyzer makes of a     *)
(* capture, how a capture is replayed, and how a captured stream serves as *)
(* the template around new voice (tone_openbridge.py, and the same split   *)
(* in the bridge runtime).  A raw packet is the 53 bytes, a packet the     *)
(* decoded DMRDPacket; the ids that a station has once are left out.       *)
(***************************************************************************)
EXTENDS Naturals, Sequences, FiniteSets, SequencesExt

CONSTANTS
  SeqWrap,     \* modulus of the sequence number (256)
  Superframe   \* voice bursts of a superframe (6)

ASSUME PacketAssumption == SeqWrap \in Nat \ {0} /\ Superframe \in Nat \ {0}

Bit(b, n) == (b \div n) % 2 = 1

(* Mutant: the flag of slot 2 is dropped.                                  *)
PackSlotOne(slot, call, frame, dtype) ==
  CASE call = "unit" -> 64 + 16 * frame + dtype
    [] call = "vcsbk" -> 16 * (2 + (frame % 2)) + 3
    [] OTHER -> 16 * frame + dtype

(* pack_bits: a VCSBK has its data type overwritten by 3.                  *)
PackBits(slot, call, frame, dtype) ==
  (IF slot = 2 THEN 128 ELSE 0)
  + CASE call = "unit" -> 64 + 16 * frame + dtype
      [] call = "vcsbk" -> 16 * (2 + (frame % 2)) + 3
      [] OTHER -> 16 * frame + dtype

UnpackBits(bits) ==
  [slot |-> IF bits >= 128 THEN 2 ELSE 1,
   call |-> CASE Bit(bits, 64) -> "unit"
              [] ~Bit(bits, 64) /\ Bit(bits, 32) /\ bits % 4 = 3 -> "vcsbk"
              [] OTHER -> "group",
   frame |-> (bits \div 16) % 4,
   dtype |-> bits % 16]

(* from_raw53 and to_raw53.                                                *)
FromRaw(raw) == [seq |-> raw.seq, flags |-> UnpackBits(raw.bits), stream |-> raw.stream, payload |-> raw.payload]

ToRaw(pkt) ==
  [seq |-> pkt.seq,
   bits |-> PackBits(pkt.flags.slot, pkt.flags.call, pkt.flags.frame, pkt.flags.dtype),
   stream |-> pkt.stream, payload |-> pkt.payload]

Voice(pkt) == pkt.flags.frame \in {0, 1}
StreamEnd(pkt) == pkt.flags.frame = 2 /\ pkt.flags.dtype = 2
-----------------------------------------------------------------------------
(* The analyzer.  _sequence_gaps, as the places where one is.              *)
SequenceGaps(pkts) == {i \in 1 .. Len(pkts) - 1 : pkts[i + 1].seq # (pkts[i].seq + 1) % SeqWrap}

(* _voice_cycle_summary: a superframe opens with a voice sync; any packet  *)
(* that does not carry it on closes it.                                    *)
CycleStep(acc, pkt) ==
  LET sync == pkt.flags.frame = 1 /\ pkt.flags.dtype = 0
      burst == pkt.flags.frame = 0 /\ pkt.flags.dtype \in 1 .. Superframe - 1
  IN IF burst /\ acc.current # <<>>
     THEN [acc EXCEPT !.current = Append(@, pkt)]
     ELSE [cycles |-> IF acc.current = <<>> THEN acc.cycles ELSE Append(acc.cycles, acc.current),
           current |-> IF sync THEN <<pkt>> ELSE <<>>]

VoiceCycles(pkts) ==
  LET end == FoldLeft(CycleStep, [cycles |-> <<>>, current |-> <<>>], pkts)
  IN IF end.current = <<>> THEN end.cycles ELSE Append(end.cycles, end.current)

CompleteCycle(c) == Len(c) = Superframe /\ \A i \in DOMAIN c : c[i].flags.dtype = i - 1

(* extract_ambe72_from_packets: three AMBE frames of each voice burst,     *)
(* numbered within their stream.                                           *)
AmbeFrames(pkts) ==
  LET Before(i) == Cardinality({j \in 1 .. i - 1 : Voice(pkts[j]) /\ pkts[j].stream = pkts[i].stream})
      Of(i) == IF Voice(pkts[i])
               THEN [k \in 1 .. 3 |-> [stream |-> pkts[i].stream, packet |-> i - 1, inPacket |-> k - 1,
                                       index |-> 3 * Before(i) + k - 1, data |-> <<pkts[i].payload.voice, k>>]]
               ELSE <<>>
  IN FlattenSeq([i \in DOMAIN pkts |-> Of(i)])
-----------------------------------------------------------------------------
(* The packets of a set, in their order; a fold, so that it can be         *)
(* reasoned about (SelectSeq is not defined to the proof system).          *)
Select(pkts, wanted) ==
  FoldLeft(LAMBDA acc, p : IF p \in wanted THEN Append(acc, p) ELSE acc, <<>>, pkts)

OfStream(pkts, stream) == Select(pkts, {p \in Range(pkts) : p.stream = stream})
Voices(pkts) == Select(pkts, {p \in Range(pkts) : Voice(p)})

(* Mutant: the sequence number is not wrapped.                             *)
RewriteUnwrapped(pkts, stream, slot) ==
  [i \in DOMAIN pkts |->
    [pkts[i] EXCEPT !.seq = i - 1, !.stream = stream,
                    !.flags = [@ EXCEPT !.slot = slot, !.call = "group"]]]

(* rewrite_for_replay, and rewrite of the template: packets numbered from  *)
(* 0 on, all in one stream, group calls in the configured slot.            *)
Rewrite(pkts, stream, slot) ==
  [i \in DOMAIN pkts |->
    [pkts[i] EXCEPT !.seq = (i - 1) % SeqWrap, !.stream = stream,
                    !.flags = [@ EXCEPT !.slot = slot, !.call = "group"]]]

(* Mutant: the suffix is whatever follows the first voice burst.           *)
SplitFirst(pkts) ==
  LET first == SelectInSeq(pkts, Voice)
      after == SubSeq(pkts, first + 1, Len(pkts))
  IN [prefix |-> SubSeq(pkts, 1, first - 1), voice |-> Voices(pkts), suffix |-> after]

FirstOnly(pkts) == IF pkts = <<>> THEN <<>> ELSE <<Head(pkts)>>

(* split_template_packets, of a template with voice in it.                 *)
Split(pkts) ==
  LET first == SelectInSeq(pkts, Voice)
      last == SelectLastInSubSeq(pkts, 1, Len(pkts), Voice)
      after == SubSeq(pkts, last + 1, Len(pkts))
      ends == Select(after, {p \in Range(after) : StreamEnd(p)})
  IN [prefix |-> SubSeq(pkts, 1, first - 1),
      voice |-> Voices(pkts),
      suffix |-> IF ends # <<>> THEN ends ELSE FirstOnly(after)]

(* Voice of one block in a burst, around the centre of its template.       *)
Burst(template, block) == [template EXCEPT !.payload = [centre |-> @.centre, voice |-> block]]

(* build_openbridge_packets_from_ambe_blocks.                              *)
Build(blocks, template, stream, slot) ==
  LET parts == Split(template)
      voice == [i \in DOMAIN blocks |-> Burst(parts.voice[((i - 1) % Len(parts.voice)) + 1], blocks[i])]
  IN Rewrite(parts.prefix \o voice \o FirstOnly(parts.suffix), stream, slot)
=============================================================================
