------------------------------ MODULE DmrCapture ------------------------------
(***************************************************************************)
(* DMRStreamRecorder: every packet that OpenBridgeClient lets through is   *)
(* appended to four files of its stream, one after the other, so a session *)
(* that is interrupted or fails (a full disk) between two of them leaves   *)
(* the packet in some of the files only, and a failing write may leave a   *)
(* part of a record behind.  The next session appends to what it finds; a  *)
(* reader refuses a file with a torn record in it, because its length is   *)
(* not a multiple of the record's (that the parts of several cuts add up   *)
(* to a record is left out).  The files are what replay, the AMBE          *)
(* extractor and both stream builders read; the counters of StreamStats,   *)
(* which go to the log and to summary.json and are read by nothing, are    *)
(* left out.                                                               *)
(***************************************************************************)
EXTENDS DmrPackets

CONSTANTS
  Streams,     \* DMR stream ids
  NewStream,   \* the stream id of a replay or of a built stream
  Flags,       \* flag bytes the network may send, a subset of 0 .. 255
  CallType,    \* openbridge.call_type
  Slot,        \* openbridge.slot
  BothSlots,   \* openbridge.both_slots
  MaxPackets,  \* bound: packets received in all sessions plus sessions cut short
  MaxCuts      \* bound: sessions that end inside a packet

ASSUME CaptureAssumption ==
  /\ Flags \subseteq 0 .. 255
  /\ CallType \in {"group", "unit"}
  /\ Slot \in {1, 2} /\ BothSlots \in BOOLEAN
  /\ MaxPackets \in Nat /\ MaxCuts \in Nat

VARIABLES
  pc,        \* where the recorder is: the file to be written next
  hand,      \* the packet in hand, as it was received
  files,     \* of each stream: .dmrd, .signed-dmrd, .payload33, .jsonl, their whole records
  torn,      \* of each stream: the files with a part of a record in them
  received,  \* history: of each stream, the packets as they came that were kept
  count,     \* packets received in all sessions
  cuts       \* history: sessions that ended inside a packet

vars == <<pc, hand, files, torn, received, count, cuts>>

NoPacket == [seq |-> 0, bits |-> 0, stream |-> NewStream, payload |-> [centre |-> 0, voice |-> 0]]
Appending == {"raw", "signed", "payload", "meta"}

Init ==
  /\ pc = "listen"
  /\ hand = NoPacket
  /\ files = [s \in Streams |-> [raw |-> <<>>, signed |-> <<>>, payload |-> <<>>, meta |-> <<>>]]
  /\ torn = [s \in Streams |-> {}]
  /\ received = [s \in Streams |-> <<>>]
  /\ count = 0
  /\ cuts = 0
-----------------------------------------------------------------------------
(* recv_packet, of a signed packet of the peer for the fixed talkgroup.    *)
Accepted(pkt) ==
  /\ pkt.flags.slot = Slot \/ BothSlots \/ pkt.flags.call = "unit"
  /\ pkt.flags.call = CallType

(* record_packet up to its first write.  Every packet has a payload of its *)
(* own; sequence numbers count what was sent, of whichever stream.         *)
Receive(stream, bits) ==
  LET raw == [seq |-> count % SeqWrap, bits |-> bits, stream |-> stream,
              payload |-> [centre |-> count, voice |-> count]]
  IN /\ pc = "listen" /\ count + cuts < MaxPackets
     /\ Accepted(FromRaw(raw))
     /\ hand' = raw
     /\ count' = count + 1
     /\ pc' = "raw"
     /\ UNCHANGED <<files, torn, received, cuts>>

File == files[hand.stream]
Write(file) == files' = [files EXCEPT ![hand.stream] = file]

AppendRaw ==
  /\ pc = "raw"
  /\ Write([File EXCEPT !.raw = Append(@, ToRaw(FromRaw(hand)))])
  /\ received' = [received EXCEPT ![hand.stream] = Append(@, hand)]
  /\ pc' = "signed"
  /\ UNCHANGED <<hand, torn, count, cuts>>

AppendSigned ==
  /\ pc = "signed"
  /\ Write([File EXCEPT !.signed = Append(@, ToRaw(FromRaw(hand)))])
  /\ pc' = "payload"
  /\ UNCHANGED <<hand, torn, received, count, cuts>>

AppendPayload ==
  /\ pc = "payload"
  /\ Write([File EXCEPT !.payload = Append(@, hand.payload)])
  /\ pc' = "meta"
  /\ UNCHANGED <<hand, torn, received, count, cuts>>

(* Mutant: the terminator is logged and left out of the .jsonl file.       *)
AppendMetaOpen ==
  /\ pc = "meta"
  /\ IF StreamEnd(FromRaw(hand)) THEN UNCHANGED files ELSE Write([File EXCEPT !.meta = Append(@, FromRaw(hand))])
  /\ pc' = "listen"
  /\ hand' = NoPacket
  /\ UNCHANGED <<torn, received, count, cuts>>

AppendMeta ==
  /\ pc = "meta"
  /\ Write([File EXCEPT !.meta = Append(@, FromRaw(hand))])
  /\ pc' = "listen"
  /\ hand' = NoPacket
  /\ UNCHANGED <<torn, received, count, cuts>>

(* The time is up, Ctrl-C, or a write that fails: nothing of the record is *)
(* in its file then, or a part of it.                                      *)
Leave ==
  /\ pc \in Appending \cup {"listen"}
  /\ pc \in Appending => cuts < MaxCuts
  /\ cuts' = IF pc \in Appending THEN cuts + 1 ELSE cuts
  /\ \/ torn' = torn
     \/ pc \in Appending /\ torn' = [torn EXCEPT ![hand.stream] = @ \cup {pc}]
  /\ hand' = NoPacket
  /\ pc' = "done"
  /\ UNCHANGED <<files, received, count>>

(* The next session appends to the files.                                  *)
Restart ==
  /\ pc = "done"
  /\ pc' = "listen"
  /\ UNCHANGED <<hand, files, torn, received, count, cuts>>
-----------------------------------------------------------------------------
Next ==
  \/ \E stream \in Streams, bits \in Flags : Receive(stream, bits)
  \/ AppendRaw \/ AppendSigned \/ AppendPayload \/ AppendMeta
  \/ Leave \/ Restart

Spec == Init /\ [][Next]_vars
-----------------------------------------------------------------------------
Payloads == [centre : Nat, voice : Nat]
Raws == [seq : Nat, bits : Nat, stream : Streams, payload : Payloads]
Decodings ==
  [seq : Nat, stream : Streams, payload : Payloads,
   flags : [slot : {1, 2}, call : {"group", "unit", "vcsbk"}, frame : 0 .. 3, dtype : 0 .. 15]]

Files == [raw : Seq(Raws), signed : Seq(Raws), payload : Seq(Payloads), meta : Seq(Decodings)]

TypeOK ==
  /\ pc \in Appending \cup {"listen", "done"}
  /\ IF pc \in Appending THEN hand \in Raws ELSE hand = NoPacket
  /\ files \in [Streams -> Files]
  /\ torn \in [Streams -> SUBSET Appending]
  /\ received \in [Streams -> Seq(Raws)]
  /\ count \in Nat
  /\ cuts \in Nat

(* The small sequence is the first n entries of the large one but for some *)
(* that it leaves out.                                                     *)
WithinFirst(small, large, n) ==
  \E at \in [DOMAIN small -> 1 .. n] :
    /\ \A i, j \in DOMAIN small : i < j => at[i] < at[j]
    /\ \A i \in DOMAIN small : small[i] = large[at[i]]

Within(small, large) == WithinFirst(small, large, Len(large))
PayloadsOf(pkts) == [i \in DOMAIN pkts |-> pkts[i].payload]

(* However often sessions are cut short and the next one appends to what   *)
(* is there, file by file the whole records are those of the file written  *)
(* before it, in the same order, less at most one for every cut: none is   *)
(* repeated and none overtakes another (recorder.py:80-138).               *)
FilesAgree ==
  \A s \in Streams :
    LET f == files[s]
    IN /\ Within(f.signed, f.raw)
       /\ Within(f.payload, PayloadsOf(f.signed))
       /\ Within(PayloadsOf(f.meta), f.payload)
       /\ Len(f.raw) <= Len(f.meta) + cuts + (IF pc \in Appending /\ hand.stream = s THEN 1 ELSE 0)

(* The whole records of a stream's .dmrd file are its packets in the order *)
(* they came and byte for byte as they came, though each was decoded and   *)
(* encoded again, streams alternated and sessions were cut (dmrd.py:60-91).*)
RecordedAsReceived == \A s \in Streams : files[s].raw = received[s]

(* The captures that load_dmrd_capture does not refuse.                    *)
Captures == {s \in Streams : files[s].raw # <<>> /\ "raw" \notin torn[s]}
Decoded(raws) == [i \in DOMAIN raws |-> FromRaw(raws[i])]
Sent(pkts) == Decoded([i \in DOMAIN pkts |-> ToRaw(pkts[i])])
Has(pkts, Test(_)) == \E i \in DOMAIN pkts : Test(pkts[i])

(* Replaying a recorded stream gives the peer one stream without sequence  *)
(* gaps, with the payloads of the recording in order and voice and         *)
(* terminators where they were, whatever was lost or interleaved when it   *)
(* was recorded; one replay of it, not the repeats that --repeat asks for  *)
(* (replay.py:56-126).                                                     *)
CaptureReplays ==
  \A s \in Captures :
    LET capture == Decoded(files[s].raw)
        heard == Sent(Rewrite(OfStream(capture, s), NewStream, Slot))
    IN /\ SequenceGaps(heard) = {}
       /\ Len(heard) = Len(capture)
       /\ \A i \in DOMAIN heard :
            /\ heard[i].stream = NewStream /\ heard[i].flags.slot = Slot /\ heard[i].seq < SeqWrap
            /\ heard[i].payload = capture[i].payload
            /\ Voice(heard[i]) = Voice(capture[i]) /\ StreamEnd(heard[i]) = StreamEnd(capture[i])

Blocks(n) == [i \in 1 .. n |-> <<"block", i>>]
WholeSuperframes(pkts) ==
  /\ \A i \in DOMAIN VoiceCycles(pkts) : CompleteCycle(VoiceCycles(pkts)[i])
  /\ Superframe * Len(VoiceCycles(pkts)) = Len(Voices(pkts))

(* The stream built around n blocks with any recording as its template has *)
(* those blocks as its voice, in order and without gaps; it ends in a      *)
(* terminator if the recording had one after its last voice; and if the    *)
(* recording was made of whole superframes so is the stream, but for the   *)
(* last one (tone_openbridge.py:75-144, runtime.py:57-74).                 *)
TemplateBuilds ==
  \A s \in Captures, n \in 1 .. 2 * Superframe + 1 :
    LET template == Decoded(files[s].raw)
        heard == Sent(Build(Blocks(n), template, NewStream, Slot))
        voice == Voices(heard)
        cycles == VoiceCycles(heard)
        lastVoice == SelectLastInSubSeq(template, 1, Len(template), Voice)
    IN Has(template, Voice) =>
         /\ SequenceGaps(heard) = {}
         /\ [i \in DOMAIN voice |-> voice[i].payload.voice] = Blocks(n)
         /\ \A i \in DOMAIN AmbeFrames(heard) : AmbeFrames(heard)[i].index = i - 1
         /\ StreamEnd(heard[Len(heard)]) =
              Has(SubSeq(template, lastVoice + 1, Len(template)), StreamEnd)
         /\ WholeSuperframes(template) =>
              \A i \in 1 .. Len(cycles) - 1 : CompleteCycle(cycles[i])
=============================================================================
