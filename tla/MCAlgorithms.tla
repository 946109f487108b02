----------------------------- MODULE MCAlgorithms -----------------------------
(***************************************************************************)
(* The inputs TLC puts to the decisions: every one of a bounded set.       *)
(***************************************************************************)
EXTENDS Decisions

(* What is read in RTCP and in voice, three to eight characters.           *)
ShortTexts ==
  {NoText} \cup [frame : {"binary"}, length : {3}, words : {<<"bye">>, <<"other">>}]
           \cup [frame : {"binary"}, length : {7, 8},
                 words : {<<"goodbye">>, <<"embedded">>, <<"bye", "other">>, <<"other", "quit">>}]

(* RTCP datagrams of up to two packets, whose bodies may look like a BYE   *)
(* or have room for a text, and zeros after them.                          *)
Plain == Word(65, 0, 9)
ByeLike == Word(129, RTCP_BYE, 1)
Bodies == {<<>>, <<Plain>>, <<ByeLike>>, <<Plain, Plain>>, <<Plain, ByeLike>>, <<ByeLike, Plain>>}
Room(body) == Size(SelectSeq(body, LAMBDA w : w = Plain))
RtcpTypesSent == {200, 201, RTCP_SDES, RTCP_BYE}
Rtcps == [type : RtcpTypesSent, body : Bodies]

TheRtcpInputs ==
  {i \in [kind : {"rtcp"}, packets : {<<p>> : p \in Rtcps} \cup (Rtcps \X Rtcps), zeros : {0, 1, 2, 70},
          text : ShortTexts] :
     \E k \in DOMAIN i.packets : i.text.length <= Room(i.packets[k].body)}

TheVoiceInputs ==
  {i \in [kind : {"voice"}, first : {128, 192}, marker : BOOLEAN, seq : 0 .. SeqMax,
          timestamp : {Zero}, ssrc : {Plain}, payload : Bodies \cup {<<ByeLike, Plain, Plain, Plain>>},
          text : ShortTexts] :
     i.text.length <= Room(i.payload)}

(* Texts of up to three words, in datagrams that they fill or that are     *)
(* padded to 300 bytes; only a binary one looks like RTCP or RTP.          *)
Texts ==
  {t \in [frame : Frames, words : UNION {[1 .. n -> Words] : n \in 1 .. 3}, length : {20, 80, 200, 300}] :
     Len(t.words) = 1 => t.length = 20}
Heads(t) ==
  IF t.frame = "binary" THEN {Plain, Word(129, 201, 9), Word(128, 0, 1), Word(192, 0, 0)} ELSE {Plain}
Tails(t) == {[i \in 1 .. (size \div 4) - 1 |-> Plain] : size \in IF t.length = 20 THEN {20, 300} ELSE {t.length}}
TheTextInputs ==
  UNION {[kind : {"text"}, head : Heads(t), tail : Tails(t), text : {t}] : t \in Texts}

(* Five ports from 11 on, of which the fourth is reserved, and ranges that *)
(* hold four or more of them, or three.                                    *)
Configs == [explicit : [Ports -> {11, 13, AutoPort}], start : {10, 11, 12}, end : {14, 15}, reserved : {{}, {14}}]
Saved == {None} \cup [ports : {<<11, 12, 13, 15>>, <<15, 13, 12, 11>>, <<11, 12, 13, 14>>},
                      start : {11}, end : {15}]
ThePortInputs ==
  [kind : {"ports"}, cfg : Configs, saved : Saved, busy : {{}, {11}, {12, 13}},
   allowInUse : BOOLEAN, reuse : BOOLEAN]
=============================================================================
