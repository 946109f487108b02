------------------------------- MODULE Decisions -------------------------------
(***************************************************************************)
(* The pure decisions of the gateway: what a datagram from an EchoLink     *)
(* client is taken for, on the audio and on the control port, and which    *)
(* ports a program plans.  One step reads an input and leaves the result.  *)
(***************************************************************************)
EXTENDS EchoLinkPackets, PortPlan

CONSTANTS RtcpInputs, VoiceInputs, TextInputs, PortInputs   \* the inputs that are put

Byte == 0 .. 255
DatagramWords == [first : Byte, second : Byte, rest : Nat]

(* What can be read in a datagram.  One word is never long.                *)
TextsIn(frames) ==
  {t \in [frame : frames, words : Seq(Words), length : Nat] : Len(t.words) = 1 => t.length <= 64}

(* A datagram of RTCP packets, padded with words of zeros.                 *)
RtcpDatagrams ==
  [kind : {"rtcp"}, packets : Seq([type : Byte, body : Seq(DatagramWords)]), zeros : Nat,
   text : TextsIn({"binary"})]

VoiceDatagrams ==
  [kind : {"voice"}, first : {128, 192}, marker : BOOLEAN, seq : 0 .. SeqMax,
   timestamp : DatagramWords, ssrc : DatagramWords, payload : Seq(DatagramWords),
   text : TextsIn({"binary"})]

(* A text behind a first word that may be that of RTCP, of RTP without     *)
(* GSM, or of neither; the first byte of its other words is that of a      *)
(* character, or a zero that pads the datagram.                            *)
TextDatagrams ==
  {i \in [kind : {"text"}, head : DatagramWords, tail : Seq([first : 0 .. 127, second : Byte, rest : Nat]),
          text : TextsIn(Frames)] :
     i.head.second # RTCP_BYE /\ ~(Version(i.head) = 2 /\ i.head.second % 128 = RTP_PAYLOAD_GSM)}

PortQuestions ==
  [kind : {"ports"},
   cfg : [explicit : [Ports -> Nat \cup {AutoPort}], start : Nat, end : Nat, reserved : SUBSET Nat],
   saved : {None} \cup Plans, busy : SUBSET Nat, allowInUse : BOOLEAN, reuse : BOOLEAN]

ASSUME DecisionAssumption ==
  /\ RtcpInputs \subseteq RtcpDatagrams /\ VoiceInputs \subseteq VoiceDatagrams
  /\ TextInputs \subseteq TextDatagrams /\ PortInputs \subseteq PortQuestions

VARIABLES input, result

Inputs == RtcpInputs \cup VoiceInputs \cup TextInputs \cup PortInputs

DecisionInit == input \in Inputs /\ result = None

Compound(packets) == FlattenSeq([i \in DOMAIN packets |-> RtcpPacket(packets[i].type, packets[i].body)])

RtcpWords == Compound(input.packets) \o [i \in 1 .. input.zeros |-> Zero]

ReadRtcp ==
  /\ input.kind = "rtcp" /\ result = None
  /\ result' = <<AudioKind(RtcpWords, input.text), ControlKind(RtcpWords, input.text)>>
  /\ UNCHANGED input

VoiceWords ==
  GsmRtp(input.first, input.marker, input.seq, input.timestamp, input.ssrc, input.payload)

ReadVoice ==
  /\ input.kind = "voice" /\ result = None
  /\ result' = <<AudioKind(VoiceWords, input.text)>>
  /\ UNCHANGED input

TextWords == <<input.head>> \o input.tail

ReadText ==
  /\ input.kind = "text" /\ result = None
  /\ result' = <<AudioKind(TextWords, input.text), ControlKind(TextWords, input.text)>>
  /\ UNCHANGED input

MakePlan ==
  /\ input.kind = "ports" /\ result = None
  /\ result' = <<Plan(input.cfg, input.saved, input.busy, input.allowInUse, input.reuse)>>
  /\ UNCHANGED input

Decide == ReadRtcp \/ ReadVoice \/ ReadText \/ MakePlan

DecisionSpec == DecisionInit /\ [][Decide]_<<input, result>>
-----------------------------------------------------------------------------
Lone(words) == Len(words) = 1 /\ words[1] \in Commands
Quiet(words) == Range(words) \cap (Commands \cup Tokens) = {}

(* A goodbye is seen in a datagram of several RTCP packets wherever it is  *)
(* among them, on either port; a datagram of others is taken for one only  *)
(* if its text has a word that can be a command, whatever its packets      *)
(* contain otherwise; and on the control port a command in it is one in up *)
(* to 256 bytes (rtp.py:132-205,                                           *)
(* tests/test_reverse_audio_and_disconnects.py:136-148).                   *)
ByeSeen ==
  input.kind = "rtcp" /\ result # None =>
    LET bye == \E i \in DOMAIN input.packets : input.packets[i].type = RTCP_BYE
        kinds == {result[1], result[2]}
    IN /\ bye => kinds = {"disconnect"}
       /\ ~bye /\ Quiet(input.text.words) => "disconnect" \notin kinds
       /\ Lone(input.text.words) /\ Size(RtcpWords) <= 256 => result[2] = "disconnect"

(* GSM voice whose sequence number is not less than its length in words is *)
(* voice: the walk over RTCP packets, which takes the sequence number for  *)
(* a length, then ends at the first word.  Only the voice of older         *)
(* programs, which is searched for a goodbye like any datagram             *)
(* (service.py:503), must not have in it what reads as one.                *)
LateVoiceStays ==
  input.kind = "voice" /\ result # None /\ input.seq >= Len(VoiceWords) - 1 =>
    (input.first = 128 \/ Quiet(input.text.words) => result[1] = "voice")

(* "This avoids false positives from compressed voice payload bytes"       *)
(* (service.py:500-502): no normal GSM voice is taken for a goodbye.       *)
VoiceStays == input.kind = "voice" /\ input.first = 128 /\ result # None => result[1] = "voice"

(* On either port and in any framing, a text that is a command is a        *)
(* goodbye, unless it is in a datagram that looks like RTP and has more    *)
(* than 256 bytes; one without a word that is or contains a command is     *)
(* none; and a station block is recognised unless it looks like RTP or     *)
(* contains such a word, though its callsign or name may be a word that    *)
(* ends a connection when alone (rtp.py:172-205, 258-362).                 *)
TextsKnown ==
  input.kind = "text" /\ result # None =>
    LET words == input.text.words
        kinds == {result[1], result[2]}
        likeRtp == IsProbableRtp(TextWords)
        station == Len(words) > 1 /\ words[1] \in {"Station", "station"} /\ ~HasToken(words)
    IN /\ Lone(words) /\ (~likeRtp \/ Size(TextWords) <= 256) => kinds = {"disconnect"}
       /\ Quiet(words) => "disconnect" \notin kinds
       /\ station /\ ~likeRtp => kinds = {"identity"}

(* Programs that plan their ports one after the other come to the same     *)
(* ones and so meet: once a plan is saved every program that reuses it     *)
(* gets that plan, whatever ports are bound by then, though it was made    *)
(* around the ports in use at its time; and a range with four free ports   *)
(* yields a plan (ports.py:191-242).                                       *)
PortsAgree ==
  input.kind = "ports" /\ result # None =>
    LET plan == result[1]
        free == InRange(input.cfg) \ (input.cfg.reserved \cup input.busy)
    IN /\ plan # None =>
            LET again == Plan(input.cfg, plan, input.busy \cup ToSet(plan.ports), TRUE, TRUE)
            IN again # None /\ Mapping(again) = Mapping(plan)
       /\ (\A i \in Ports : input.cfg.explicit[i] = AutoPort) /\ input.saved = None /\ Cardinality(free) >= 4
            => plan # None
=============================================================================
