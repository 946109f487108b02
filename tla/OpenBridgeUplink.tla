--------------------------- MODULE OpenBridgeUplink ---------------------------
(***************************************************************************)
(* The EchoLink-to-DMR direction of AnalogOpenBridgeRuntime: the thread    *)
(* _tlv_to_openbridge_loop receives Analog_Bridge's TLV datagrams, opens a *)
(* stream on the first voice block, holds back Prebuffer blocks, forwards  *)
(* the rest as they come, and closes the stream when no audio has come for *)
(* tx_hang or when the runtime stops.                                      *)
(*                                                                         *)
(* A call of the loop that sends computes its packets at once (only this   *)
(* thread touches the builder) and leaves them in `out`; each then goes    *)
(* out in a step of its own, since _pace_interval sleeps between them      *)
(* while audio arrives, time passes, the speaker changes or the runtime is *)
(* stopped.  A voice block is its position among the blocks the stream has *)
(* heard, modulo the superframe.  The template is what the gateway was     *)
(* started with: any recording with voice in it may be, so old terminators *)
(* may come before its voice, and after it a terminator, another packet or *)
(* nothing at all.                                                         *)
(***************************************************************************)
EXTENDS Naturals, Sequences, TlvFormat

CONSTANTS
  Speakers,     \* source ids that RadioID gives EchoLink stations
  Fallback,     \* the configured fallback source id
  Prebuffer,    \* prebuffer_blocks
  Templates,    \* packets of a template around its voice, TRUE: a terminator
  Superframe,   \* voice packets of the template
  SeqMod,       \* modulus of the DMRD sequence number (256)
  StreamMod,    \* bound: stream ids in rotation (random 32-bit ids)
  TlvMax,       \* bound: datagrams held by the TLV socket
  TxHang        \* tx_hang in units of the loop's idle time

ASSUME UplinkAssumption ==
  /\ Fallback \notin Speakers
  /\ Prebuffer \in Nat \ {0}
  /\ Templates \subseteq [prefix : Seq(BOOLEAN), suffix : {<<>>, <<TRUE>>, <<FALSE>>}]
  /\ Superframe \in Nat \ {0}
  /\ SeqMod \in Nat \ {0}
  /\ StreamMod \in Nat \ {0, 1}
  /\ TlvMax \in Nat \ {0}
  /\ TxHang \in Nat \ {0}

VARIABLES
  template,   \* builder.parts: prefix and suffix[:1]
  speaker,    \* what source_id_provider answers now
  tlv,        \* datagrams in the TLV socket
  muted,      \* the startup mute still holds
  format,     \* tlv_format
  candidate,  \* start_candidate
  open,       \* builder is not None
  builder,    \* the OpenBridgeStreamBuilder, the last one if not open
  heard,      \* history: voice blocks this stream has received
  buffered,   \* blocks held back before the stream starts
  idle,       \* time since last_audio_time
  out,        \* packets the current _send_ob calls have yet to send
  wire,       \* the last packet sent to the OpenBridge peer
  stop,       \* stop_event
  done        \* the loop has ended

vars == <<template, speaker, tlv, muted, format, candidate, open, builder, heard,
          buffered, idle, out, wire, stop, done>>
env == <<template, speaker, muted, stop>>
stream == <<open, builder, heard, buffered>>

Sources == Speakers \cup {Fallback}
Blocks == 0 .. Superframe - 1
Builders == [stream : 0 .. StreamMod - 1, src : Sources, seq : 0 .. SeqMod - 1,
             voiceIndex : 0 .. Superframe - 1, started : BOOLEAN]
Packets == [kind : {"none", "prefix", "voice", "close"}, ends : BOOLEAN,
            stream : 0 .. StreamMod - 1, src : Sources, seq : 0 .. SeqMod - 1,
            pos : Nat, heard : 0 .. Superframe - 1]

Init ==
  /\ template \in Templates
  /\ speaker = Fallback
  /\ tlv = <<>>
  /\ muted = TRUE
  /\ format = DefaultFormat
  /\ candidate = NotSeen
  /\ open = FALSE
  /\ builder = [stream |-> 0, src |-> Fallback, seq |-> 0, voiceIndex |-> 0, started |-> FALSE]
  /\ heard = 0
  /\ buffered = <<>>
  /\ idle = 0
  /\ out = <<>>
  /\ wire = [kind |-> "none", ends |-> FALSE, stream |-> 0, src |-> Fallback, seq |-> 0,
             pos |-> 0, heard |-> 0]
  /\ stop = FALSE
  /\ done = FALSE
-----------------------------------------------------------------------------
(* Analog_Bridge sends a datagram; a full socket buffer loses it.          *)
AnalogBridge(d) ==
  /\ ~done /\ Len(tlv) < TlvMax
  /\ tlv' = Append(tlv, d)
  /\ UNCHANGED <<env, format, candidate, stream, idle, out, wire, done>>

(* The conference's active speaker changes (current_gateway_source_id).    *)
ChangeSpeaker ==
  /\ ~done
  /\ speaker' \in Sources \ {speaker}
  /\ UNCHANGED <<template, muted, stop, tlv, format, candidate, stream, idle, out, wire, done>>

EndMute ==
  /\ muted /\ ~done
  /\ muted' = FALSE
  /\ UNCHANGED <<template, speaker, stop, tlv, format, candidate, stream, idle, out, wire, done>>

RequestStop ==
  /\ ~stop
  /\ stop' = TRUE
  /\ UNCHANGED <<template, speaker, muted, tlv, format, candidate, stream, idle, out, wire, done>>

(* Time passes; only the age of the last audio of an open stream matters.  *)
Tick ==
  /\ open /\ ~done /\ idle < TxHang
  /\ idle' = idle + 1
  /\ UNCHANGED <<env, tlv, format, candidate, stream, out, wire, done>>
-----------------------------------------------------------------------------
(* OpenBridgeStreamBuilder._rewrite: the i-th packet (from 0) of a call.   *)
Rewrite(b, kind, ends, i, pos, block) ==
  [kind |-> kind, ends |-> ends, stream |-> b.stream, src |-> b.src, seq |-> (b.seq + i) % SeqMod,
   pos |-> pos, heard |-> block]

(* start_packets, which send nothing once the stream has started.          *)
Prefix(b) == IF b.started THEN <<>> ELSE template.prefix

(* voice_packet: the j-th voice packet of a call, from template position   *)
(* voice_index + j.                                                        *)
Voice(b, j, block) ==
  Rewrite(b, "voice", FALSE, Len(Prefix(b)) + j, (b.voiceIndex + j) % Superframe, block)

(* start_packets followed by voice_packet for each block.                  *)
Flush(b, blocks) ==
  [i \in 1 .. Len(Prefix(b)) + Len(blocks) |->
     IF i <= Len(Prefix(b)) THEN Rewrite(b, "prefix", Prefix(b)[i], i - 1, i - 1, 0)
     ELSE Voice(b, i - 1 - Len(Prefix(b)), blocks[i - Len(Prefix(b))])]

Flushed(b, blocks) ==
  [stream |-> b.stream, src |-> b.src, started |-> TRUE,
   seq |-> (b.seq + Len(Prefix(b)) + Len(blocks)) % SeqMod,
   voiceIndex |-> (b.voiceIndex + Len(blocks)) % Superframe]

(* end_packets: the first packet after the template's voice, if any.       *)
End(b) ==
  [i \in 1 .. Len(template.suffix) |->
     Rewrite(b, "close", template.suffix[i], i - 1, b.voiceIndex, heard)]

(* Its random stream id is taken not to be the last one the peer has seen. *)
NewBuilder ==
  [stream |-> IF wire.stream + 1 < StreamMod THEN wire.stream + 1 ELSE 0,
   src |-> speaker, seq |-> 0, voiceIndex |-> 0, started |-> FALSE]
-----------------------------------------------------------------------------
Running == ~done /\ out = <<>>

(* Mutant: the block that fills the prebuffer is not flushed with it.      *)
ForwardHeldOnly(b, block, held) ==
  /\ heard' = (block + 1) % Superframe
  /\ IF ~b.started /\ Len(held) + 1 < Prebuffer
     THEN /\ buffered' = Append(held, block)
          /\ builder' = b
          /\ out' = <<>>
     ELSE /\ buffered' = <<>>
          /\ builder' = Flushed(b, IF b.started THEN <<block>> ELSE held)
          /\ out' = Flush(b, IF b.started THEN <<block>> ELSE held)

(* The `for block in blocks` loop body: hold the block back, flush what is *)
(* held when it is the Prebuffer-th, or send it at once.                   *)
Forward(b, block, held) ==
  /\ heard' = (block + 1) % Superframe
  /\ IF ~b.started /\ Len(held) + 1 < Prebuffer
     THEN /\ buffered' = Append(held, block)
          /\ builder' = b
          /\ out' = <<>>
     ELSE /\ buffered' = <<>>
          /\ builder' = Flushed(b, Append(held, block))
          /\ out' = Flush(b, Append(held, block))

(* A datagram arrives.  A muted or non-audio one only teaches the format.  *)
Receive ==
  /\ Running /\ ~stop /\ tlv # <<>>
  /\ LET d == Head(tlv) IN
       /\ format' = Learn(format, candidate, d)
       /\ candidate' = Candidate(candidate, d)
       /\ IF muted \/ ~HasBlock(d)
          THEN UNCHANGED <<stream, idle, out>>
          ELSE /\ open' = TRUE
               /\ idle' = 0
               /\ IF open
                  THEN Forward(builder, heard, buffered)
                  ELSE Forward(NewBuilder, 0, <<>>)
  /\ tlv' = Tail(tlv)
  /\ UNCHANGED <<env, wire, done>>

(* Mutant: the hang timeout closes only a stream that has started.         *)
TimedOutIfStarted == open /\ idle >= TxHang /\ builder.started

TimedOut == open /\ idle >= TxHang

(* socket.timeout after tx_hang without audio.                             *)
PollTimeout ==
  /\ Running /\ ~stop /\ tlv = <<>> /\ TimedOut
  /\ out' = End(builder)
  /\ open' = FALSE
  /\ buffered' = <<>>
  /\ UNCHANGED <<env, tlv, format, candidate, builder, heard, idle, wire, done>>

(* Mutant: the finally clause does not end the stream.                     *)
FarewellNone == <<>>

Farewell == IF open /\ builder.started THEN End(builder) ELSE <<>>

(* stop_event is seen at the top of the loop, then the finally clause.     *)
Exit ==
  /\ Running /\ stop
  /\ out' = Farewell
  /\ open' = FALSE
  /\ done' = TRUE
  /\ UNCHANGED <<env, tlv, format, candidate, builder, heard, buffered, idle, wire>>

(* client.send_packet                                                      *)
Send ==
  /\ out # <<>>
  /\ wire' = Head(out)
  /\ out' = Tail(out)
  /\ UNCHANGED <<env, tlv, format, candidate, stream, idle, done>>
-----------------------------------------------------------------------------
Stopped == done /\ stop /\ out = <<>> /\ UNCHANGED vars

Next ==
  \/ \E d \in Datagrams : AnalogBridge(d)
  \/ ChangeSpeaker \/ EndMute \/ RequestStop \/ Tick
  \/ Receive \/ PollTimeout \/ Exit \/ Send
  \/ Stopped

(* The thread keeps running and the clock keeps going; nobody is obliged   *)
(* to speak or to stop the runtime.                                        *)
Fairness ==
  /\ WF_vars(Receive \/ PollTimeout \/ Exit \/ Send)
  /\ WF_vars(Tick)

Spec == Init /\ [][Next]_vars /\ Fairness
-----------------------------------------------------------------------------
TypeOK ==
  /\ template \in Templates
  /\ speaker \in Sources
  /\ tlv \in Seq(Datagrams) /\ Len(tlv) <= TlvMax
  /\ muted \in BOOLEAN
  /\ format \in Formats
  /\ candidate \in Learnt
  /\ open \in BOOLEAN
  /\ builder \in Builders
  /\ heard \in 0 .. Superframe - 1
  /\ buffered \in Seq(Blocks) /\ Len(buffered) < Prebuffer
  /\ idle \in 0 .. TxHang
  /\ out \in Seq(Packets)
  /\ wire \in Packets
  /\ stop \in BOOLEAN
  /\ done \in BOOLEAN

(* Every packet continues a DMR stream cut after the template (DmrStream), *)
(* whatever the speaker, the timeouts and the stop do between two packets. *)
Wire == INSTANCE DmrStream
StreamSpec == Wire!StreamSpec

(* A stopped runtime leaves no stream open at the peer: what was started   *)
(* is closed by the finally clause (runtime.py:655-657), with a terminator *)
(* if the template has one after its voice.  With a template that has no   *)
(* packet there, the last burst is all the peer gets.                      *)
TerminatedAtExit ==
  done /\ out = <<>> =>
    /\ Wire!Closed(wire)
    /\ template.suffix = <<TRUE>> /\ wire.kind # "none" => wire.ends

(* When no audio comes any more, the stream is closed at the peer, and so  *)
(* no talkgroup stays keyed by a station that went silent (tx_hang), even  *)
(* if datagrams without audio keep coming and put the close off: they must *)
(* only leave, now and then, the 0.1 s without a datagram that recvfrom    *)
(* waits for (runtime.py:591), which is the strong fairness.               *)
StreamsEnd ==
  SF_vars(PollTimeout) /\ <>[](\A i \in 1 .. Len(tlv) : ~HasBlock(tlv[i]))
    => <>[](~open /\ out = <<>> /\ Wire!Closed(wire))
=============================================================================
