------------------------------ MODULE DmrStream ------------------------------
(***************************************************************************)
(* What the gateway promises the OpenBridge peer: DMR streams, one at a    *)
(* time, each cut after the template.  A stream is all the packets that    *)
(* the template has before its voice, at least one voice burst, and the    *)
(* packet that closes the template if it has one, with one stream id and   *)
(* one source id and with successive sequence numbers from 0.  The voice   *)
(* bursts keep the order in which the audio came, none missing up to the   *)
(* close, and step through the positions of the superframe.  A stream may  *)
(* also be a lone closing packet.  Whether a packet is a DMR terminator is *)
(* copied from the template, which may have one in any place or none.      *)
(* OpenBridgeUplink implements it.                                         *)
(***************************************************************************)
EXTENDS Naturals, Sequences

CONSTANTS SeqMod,      \* the packet sequence number wraps here (256)
          Superframe   \* voice bursts in the template; positions repeat

VARIABLES template,    \* what each of its packets around the voice is
          wire         \* the last packet sent to the OpenBridge peer

(* p is a terminator if and only if its original in the template is one.   *)
Copied(p) ==
  \/ p.kind = "prefix" /\ p.pos < Len(template.prefix) /\ p.ends = template.prefix[p.pos + 1]
  \/ p.kind = "voice" /\ p.ends = FALSE
  \/ p.kind = "close" /\ template.suffix = <<p.ends>>

First(p) ==
  /\ p.seq = 0
  /\ p.kind = "prefix" => p.pos = 0
  /\ p.kind = "voice" => template.prefix = <<>> /\ p.pos = 0 /\ p.heard = 0

(* q may follow p within a stream.                                         *)
Continues(p, q) ==
  /\ q.stream = p.stream /\ q.src = p.src
  /\ q.seq = (p.seq + 1) % SeqMod
  /\ \/ p.kind = "prefix" /\ q.kind = "prefix" /\ q.pos = p.pos + 1
     \/ /\ p.kind = "prefix" /\ p.pos + 1 = Len(template.prefix)
        /\ q.kind = "voice" /\ q.pos = 0 /\ q.heard = 0
     \/ /\ p.kind = "voice" /\ q.kind \in {"voice", "close"}
        /\ q.pos = (p.pos + 1) % Superframe
        /\ q.heard = (p.heard + 1) % Superframe

(* No stream is open after p: it was closed as the template is.            *)
Closed(p) == p.kind \in {"none", "close"} \/ (p.kind = "voice" /\ template.suffix = <<>>)

Begins(p, q) == Closed(p) /\ q.stream # p.stream /\ First(q)

StreamInit == wire.kind = "none"

StreamNext == Copied(wire') /\ (Begins(wire, wire') \/ Continues(wire, wire'))

StreamSpec == StreamInit /\ [][StreamNext]_wire
=============================================================================
