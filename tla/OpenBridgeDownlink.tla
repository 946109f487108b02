-------------------------- MODULE OpenBridgeDownlink --------------------------
(***************************************************************************)
(* The DMR-to-EchoLink direction of AnalogOpenBridgeRuntime: the thread    *)
(* _openbridge_to_tlv_loop takes the packets that OpenBridgeClient lets    *)
(* through and hands their voice to Analog_Bridge as TLV datagrams, a      *)
(* start datagram first where its framing has been learnt.                 *)
(*                                                                         *)
(* The network may deliver any packet at any time, so it loses, repeats    *)
(* and reorders them; only its packet in hand is state.  The TLV framing   *)
(* is written by the other thread of the runtime (Learn is the action of   *)
(* OpenBridgeUplink on it) between any two steps of this one.              *)
(***************************************************************************)
EXTENDS Naturals, TlvFormat

CONSTANTS
  Streams,    \* DMR stream ids
  None,       \* no stream
  CallType,   \* openbridge.call_type
  BothSlots,  \* openbridge.both_slots
  Interval    \* packet_ms in ticks

CallTypes == {"group", "unit", "vcsbk"}

ASSUME DownlinkAssumption ==
  /\ None \notin Streams
  /\ CallType \in CallTypes
  /\ BothSlots \in BOOLEAN
  /\ Interval \in Nat \ {0}

VARIABLES
  pc,         \* where the loop is
  active,     \* active_openbridge_stream_id
  format,     \* tlv_format, shared with the uplink thread
  candidate,  \* start_candidate of the uplink thread
  wait,       \* time until _next_tlv_audio_send_at
  since,      \* history: time since the last audio datagram
  opening,    \* history: no audio has been sent since the last activation
  sent,       \* the last TLV datagram sent to Analog_Bridge
  headed,     \* history: the stream of the last start datagram
  owed,       \* history: one was known when the active stream opened
  stop        \* stop_event

vars == <<pc, active, format, candidate, wait, since, opening, sent, headed, owed, stop>>
shared == <<format, candidate>>
pacer == <<wait, since, opening>>
toAnalog == <<sent, headed, owed>>

(* What a UDP packet may be, and what the DMRD packet in it is for:        *)
(* "voice" is is_voice_payload, "end" is is_possible_stream_end.           *)
Packets == [fromPeer : BOOLEAN, signed : BOOLEAN, fixedTgid : BOOLEAN, ownSlot : BOOLEAN,
            callType : CallTypes, kind : {"voice", "end", "control"}, stream : Streams]

(* What goes to Analog_Bridge: for which stream, and whose bytes.          *)
TlvOut == [kind : {"none", "start", "audio", "end"}, stream : Streams \cup {None},
           data : Learnt]

Init ==
  /\ pc = "recv"
  /\ active = None
  /\ format = DefaultFormat
  /\ candidate = NotSeen
  /\ wait = 0
  /\ since = Interval
  /\ opening = FALSE
  /\ sent = [kind |-> "none", stream |-> None, data |-> NotSeen]
  /\ headed = None
  /\ owed = FALSE
  /\ stop = FALSE
-----------------------------------------------------------------------------
(* recv_packet: what it rejects is counted and otherwise ignored.          *)
Accepted(p) ==
  /\ p.fromPeer /\ p.signed /\ p.fixedTgid
  /\ p.ownSlot \/ BothSlots \/ p.callType = "unit"
  /\ p.callType = CallType

Emit(kind, stream) ==
  sent' = [kind |-> kind, stream |-> stream,
           data |-> CASE kind = "start" -> format.start
                      [] kind = "audio" -> format.header
                      [] kind = "end" -> format.end]

(* _reset_tlv_audio_pacer: the next burst is due now.                      *)
ResetPacer == wait' = 0

(* Voice of a stream other than the active one opens it.                   *)
Activate(p) ==
  /\ pc = "recv" /\ ~stop
  /\ Accepted(p) /\ p.kind = "voice" /\ p.stream # active
  /\ active' = p.stream
  /\ ResetPacer
  /\ opening' = TRUE
  /\ owed' = (format.start # NotSeen)
  /\ pc' = "start"
  /\ UNCHANGED <<shared, since, sent, headed, stop>>

(* Mutant: a start datagram is sent for the first stream only.             *)
StartOnce ==
  /\ pc = "start"
  /\ IF format.start # NotSeen /\ headed = None
     THEN Emit("start", active) /\ headed' = active
     ELSE UNCHANGED <<sent, headed>>
  /\ pc' = "audio"
  /\ UNCHANGED <<active, shared, pacer, owed, stop>>

(* The start datagram, if one is known by now.                             *)
Start ==
  /\ pc = "start"
  /\ IF format.start # NotSeen
     THEN Emit("start", active) /\ headed' = active
     ELSE UNCHANGED <<sent, headed>>
  /\ pc' = "audio"
  /\ UNCHANGED <<active, shared, pacer, owed, stop>>

Continue(p) ==
  /\ pc = "recv" /\ ~stop
  /\ Accepted(p) /\ p.kind = "voice" /\ p.stream = active
  /\ pc' = "audio"
  /\ UNCHANGED <<active, shared, pacer, toAnalog, stop>>

(* Mutant: the deadline is not moved on.                                   *)
AudioUnpaced ==
  /\ pc = "audio"
  /\ Emit("audio", active)
  /\ since' = 0
  /\ opening' = FALSE
  /\ pc' = "recv"
  /\ UNCHANGED <<active, shared, headed, owed, wait, stop>>

(* One voice burst: _pace_interval sleeps until its deadline and sets the  *)
(* next one, then the audio datagram goes out.                             *)
Audio ==
  /\ pc = "audio" /\ wait = 0
  /\ Emit("audio", active)
  /\ wait' = Interval
  /\ since' = 0
  /\ opening' = FALSE
  /\ pc' = "recv"
  /\ UNCHANGED <<active, shared, headed, owed, stop>>

(* A terminator, of whatever stream, sends an end datagram at once; only   *)
(* the one of the active stream closes it.                                 *)
Terminate(p) ==
  /\ pc = "recv" /\ ~stop
  /\ Accepted(p) /\ p.kind = "end"
  /\ Emit("end", p.stream)
  /\ active' = IF active = p.stream THEN None ELSE active
  /\ UNCHANGED <<pc, shared, pacer, headed, owed, stop>>

(* Time passes: while the loop sleeps in _pace_interval or waits.          *)
Tick ==
  /\ wait > 0 \/ since < Interval
  /\ wait' = IF wait > 0 THEN wait - 1 ELSE 0
  /\ since' = IF since < Interval THEN since + 1 ELSE since
  /\ UNCHANGED <<pc, active, shared, opening, toAnalog, stop>>

(* The uplink thread sees a TLV datagram of Analog_Bridge.                 *)
LearnFrom(d) ==
  /\ pc # "joined"
  /\ format' = Learn(format, candidate, d)
  /\ candidate' = Candidate(candidate, d)
  /\ UNCHANGED <<pc, active, pacer, toAnalog, stop>>

RequestStop ==
  /\ ~stop
  /\ stop' = TRUE
  /\ UNCHANGED <<pc, active, shared, pacer, toAnalog>>

(* The loop ends where it would receive.                                   *)
Leave ==
  /\ pc = "recv" /\ stop
  /\ pc' = "ended"
  /\ UNCHANGED <<active, shared, pacer, toAnalog, stop>>

(* run(): the thread is joined and the status file shows no stream.        *)
Joined ==
  /\ pc = "ended"
  /\ pc' = "joined"
  /\ active' = None
  /\ UNCHANGED <<shared, pacer, toAnalog, stop>>
-----------------------------------------------------------------------------
Loop ==
  \/ \E p \in Packets : Activate(p) \/ Continue(p) \/ Terminate(p)
  \/ Start \/ Audio \/ Leave \/ Joined

Next ==
  \/ Loop
  \/ Tick \/ RequestStop
  \/ \E d \in Datagrams : LearnFrom(d)
  \/ pc = "joined" /\ UNCHANGED vars

Spec == Init /\ [][Next]_vars
-----------------------------------------------------------------------------
TypeOK ==
  /\ pc \in {"recv", "start", "audio", "ended", "joined"}
  /\ active \in Streams \cup {None}
  /\ format \in Formats
  /\ candidate \in Learnt
  /\ wait \in 0 .. Interval
  /\ since \in 0 .. Interval
  /\ opening \in BOOLEAN
  /\ sent \in TlvOut
  /\ headed \in Streams \cup {None}
  /\ owed \in BOOLEAN
  /\ stop \in BOOLEAN

(* A begin datagram seen before or after the audio that taught the framing *)
(* is known for the DMR-to-EchoLink direction (runtime.py:534-574), also   *)
(* when another audio header is learnt after it: without it Analog_Bridge  *)
(* does not decode what the gateway sends back.                            *)
StartDatagramKept == Learned(format) /\ candidate # NotSeen => format.start # NotSeen

(* If a start datagram was known when a stream was opened, all its audio   *)
(* comes after a start datagram of that very stream, none of it framed     *)
(* with the default header, although start and audio read a tlv_format     *)
(* that the other thread replaces (runtime.py:679, :702), streams reopen   *)
(* each other and terminators of other streams come between.  A start that *)
(* is learnt while a stream is open is not sent until another one opens    *)
(* (runtime.py:671-681), so the audio of the open one goes without.        *)
OwnStart == [][Audio /\ owed => headed = active /\ sent'.data # NotSeen]_vars

(* Analog_Bridge gets the bursts no closer than packet_ms, however the     *)
(* network bunches or delays them, but for the first burst after a stream  *)
(* was opened (runtime.py:502-524): that one goes out at once, because the *)
(* pacer is reset there (runtime.py:673).                                  *)
Paced == [][Audio => since = Interval \/ opening]_vars
=============================================================================
