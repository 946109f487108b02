----------------------------- MODULE EchoLinkTexts -----------------------------
(***************************************************************************)
(* The texts that EchoLink clients send in place of RTCP packets, or in    *)
(* them: how a goodbye and a station block are found (rtp.py).  A text is  *)
(* the words of one line, a space between them; the lines of a station     *)
(* block after its first, which have the name and the place, are left out. *)
(***************************************************************************)
EXTENDS Naturals, Sequences

(* A word is what the code can tell about it:                              *)
(*   goodbye     begins with GOODBYE or DISCONNECT                         *)
(*   logoff      is LOGOFF or LOG OFF                                      *)
(*   embedded    has one of those four in another place, or more after     *)
(*               LOGOFF: MYGOODBYE, or the pair CATALOG OFFICE             *)
(*   bye         is BYE; quit is LEAVE or QUIT                             *)
(*   Station, station, STATION   is that word, STATION in a spelling but   *)
(*               the first two                                             *)
(*   SubStation, substation      ends in it                                *)
(*   Stations    begins with it                                            *)
(*   other       is any other word                                         *)
(* A word of which two of these can be said is left out.                   *)
Tokens == {"goodbye", "logoff", "embedded"}
Commands == {"goodbye", "logoff", "bye", "quit"}
Markers == {"Station", "SubStation"}
LowerMarkers == {"station", "substation"}
Words == Tokens \cup Commands \cup Markers \cup LowerMarkers \cup {"STATION", "Stations", "other"}

(* "ndata" is a text behind the NDATA header, "binary" one with bytes that *)
(* are not printable before and after it, or none at all.                  *)
Frames == {"ndata", "plain", "binary"}
NoText == [frame |-> "binary", words |-> <<>>, length |-> 0]

(* The search for a token, in any place of the text.                       *)
HasToken(words) == \E i \in DOMAIN words : words[i] \in Tokens

(* Mutant: a command is looked for in any place.                           *)
AnyCommand(words, length) == \E i \in DOMAIN words : words[i] \in Commands

(* is_disconnect_text                                                      *)
DisconnectText(words, length) ==
  \/ \E w \in Commands : words = <<w>>
  \/ words # <<>> /\ length <= 64 /\ (words[1] = "goodbye" \/ (words[1] = "bye" /\ Len(words) > 1))

(* packet_contains_disconnect_command, of a datagram of size bytes in any  *)
(* framing: the parsed, the decoded and the printable view of it have the  *)
(* same words.                                                             *)
DisconnectCommand(t, size) ==
  size <= 256 /\ (DisconnectText(t.words, t.length) \/ HasToken(t.words))

(* Where "Station " is in the text, or else "station ".                    *)
MarkersIn(words) ==
  LET Of(marks) == {i \in 1 .. Len(words) - 1 : words[i] \in marks}
  IN IF Of(Markers) # {} THEN Of(Markers) ELSE Of(LowerMarkers)

(* The text from the first of them on.                                     *)
FromMarker(words) ==
  LET first == CHOOSE i \in MarkersIn(words) : \A j \in MarkersIn(words) : i <= j
  IN <<IF words[first] \in Markers THEN "Station" ELSE "station">> \o SubSeq(words, first + 1, Len(words))

(* parse_echolink_text_packet: the words of the text it returns, or none.  *)
ParsedText(t, likeRtp) ==
  IF likeRtp \/ t.words = <<>> THEN <<>>
  ELSE IF t.frame = "ndata" THEN t.words
  ELSE IF MarkersIn(t.words) # {} THEN FromMarker(t.words)
  ELSE IF \/ DisconnectText(t.words, t.length)
          \/ t.length <= 96 /\ HasToken(t.words)
          \/ t.frame = "plain" /\ t.words[1] \in {"Station", "Stations"}
  THEN t.words
  ELSE <<>>

(* parse_station_identity_text: a text that names its station.             *)
NamesStation(words) == Len(words) > 1 /\ words[1] \in {"Station", "STATION", "station"}
=============================================================================
