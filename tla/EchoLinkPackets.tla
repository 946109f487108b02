---------------------------- MODULE EchoLinkPackets ----------------------------
(***************************************************************************)
(* How the conference service tells the datagrams of EchoLink clients      *)
(* apart (rtp.py and the first lines of _handle_audio and _handle_control):*)
(* RTCP packets, possibly several in one datagram, RTP voice and text.  A  *)
(* datagram is its 32-bit words (a last part of one is left out), and the  *)
(* text that can be read in it.                                            *)
(***************************************************************************)
EXTENDS EchoLinkTexts

CONSTANT SeqMax   \* largest RTP sequence number (2^16 - 1)

ASSUME SeqAssumption == SeqMax \in Nat

RTCP_SDES == 202
RTCP_BYE == 203
RTP_PAYLOAD_GSM == 3

Word(first, second, rest) == [first |-> first, second |-> second, rest |-> rest]
Zero == Word(0, 0, 0)
Version(w) == w.first \div 64
Size(words) == 4 * Len(words)

(* _rtcp_header: the length counts the words after the first.              *)
RtcpPacket(type, body) == <<Word(129, type, Len(body))>> \o body

(* build_gsm_rtp and the packets of clients: the first byte is 128, or 192 *)
(* from older programs; time stamp and source may be anything.             *)
GsmRtp(first, marker, seq, timestamp, ssrc, payload) ==
  <<Word(first, IF marker THEN 128 + RTP_PAYLOAD_GSM ELSE RTP_PAYLOAD_GSM, seq % (SeqMax + 1)),
    timestamp, ssrc>> \o payload

(* Mutant: only the first packet of a datagram is looked at.               *)
FirstTypeOnly(words) ==
  IF words # <<>> /\ Version(words[1]) \in {2, 3} THEN {words[1].second} ELSE {}

(* iter_rtcp_packet_types, as the set of types.  A packet that claims more *)
(* words than there are is the last; words of zeros end the walk.          *)
RtcpTypes(words) ==
  LET types[pos \in 1 .. Len(words) + 1] ==
        IF pos > Len(words) \/ Version(words[pos]) \notin {2, 3}
        THEN {}
        ELSE LET next == pos + words[pos].rest + 1
             IN {words[pos].second} \cup (IF next > Len(words) THEN {} ELSE types[next])
  IN types[1]

IsBye(words) == RTCP_BYE \in RtcpTypes(words)

IsProbableRtp(words) == Len(words) >= 3 /\ (Version(words[1]) = 2 \/ words[1].first = 192)

(* Mutant: the voice of current programs is searched for a goodbye too.    *)
NoVoice(words) == FALSE

(* The exemption of _handle_audio from the search for a goodbye; the voice *)
(* of older programs, whose first byte is 192, is searched.                *)
NormalVoice(words) == Len(words) >= 3 /\ Version(words[1]) = 2 /\ words[1].second % 128 = RTP_PAYLOAD_GSM

(* What is done with a text that is not a goodbye (_handle_text_identity). *)
TextKind(words, length) ==
  IF DisconnectText(words, length) THEN "disconnect" ELSE IF NamesStation(words) THEN "identity" ELSE "chat"

AudioKind(words, text) ==
  LET parsed == ParsedText(text, IsProbableRtp(words))
  IN CASE IsBye(words) \/ (~NormalVoice(words) /\ DisconnectCommand(text, Size(words))) -> "disconnect"
       [] OTHER ->
            IF parsed # <<>> THEN TextKind(parsed, text.length)
            ELSE IF IsProbableRtp(words) /\ words[1].second % 128 = RTP_PAYLOAD_GSM THEN "voice"
            ELSE "bad"

ControlKind(words, text) ==
  LET parsed == ParsedText(text, IsProbableRtp(words))
  IN CASE IsBye(words) \/ DisconnectCommand(text, Size(words)) -> "disconnect"
       [] OTHER ->
            IF parsed # <<>> THEN TextKind(parsed, text.length)
            ELSE IF Len(words) >= 2 /\ Version(words[1]) = 2 /\ words[1].second = RTCP_SDES THEN "sdes"
            ELSE "bad"
=============================================================================
