----------------------- MODULE OpenBridgeDownlinkProofs -----------------------
(***************************************************************************)
(* Theorems about OpenBridgeDownlink, for any streams, framings and pacing *)
(* interval: its types, that the begin datagram is kept, that audio        *)
(* follows the start datagram of its own stream, and that it is paced.     *)
(*                                                                         *)
(* OwnStart is about what is sent, so it needs HeadInv: where the loop     *)
(* may send audio next, the last start was for the active stream, unless   *)
(* none was known when that was opened; and what is known stays known.     *)
(* Paced needs ClockInv: but for the first burst of an activation, what is *)
(* left to wait and what has passed add up to the interval.                *)
(***************************************************************************)
EXTENDS OpenBridgeDownlink, TLAPS

HeadInv ==
  /\ pc \in {"start", "audio"} => active # None
  /\ format.start # NotSeen => Learned(format)
  /\ active # None /\ owed => format.start # NotSeen
  /\ pc # "start" /\ active # None /\ owed => headed = active

ClockInv == IF opening THEN wait = 0 ELSE wait + since = Interval

IInv == TypeOK /\ HeadInv /\ StartDatagramKept /\ ClockInv

(* What a datagram changes: one of these, or nothing.                      *)
LEMMA LearnCases ==
  ASSUME NEW f \in Formats, NEW c \in Learnt, NEW d \in Datagrams
  PROVE  \/ Learn(f, c, d) = f
         \/ d.kind = "audio" /\ Learn(f, c, d) = [f EXCEPT !.header = d.data, !.start = c] /\ c # NotSeen
         \/ d.kind = "audio" /\ Learn(f, c, d) = [f EXCEPT !.header = d.data, !.start = f.start] /\ c = NotSeen
         \/ Learned(f) /\ d.kind = "end" /\ Learn(f, c, d) = [f EXCEPT !.end = d.data]
         \/ Learned(f) /\ Learn(f, c, d) = [f EXCEPT !.start = d.data]
  BY DEF Learn

(* Learning keeps what has been learnt, and a begin datagram is learnt if  *)
(* one has been seen and the framing is known.                             *)
LEMMA LearnKeeps ==
  ASSUME NEW f \in Formats, NEW c \in Learnt, NEW d \in Datagrams,
         f.start # NotSeen => Learned(f),
         Learned(f) /\ c # NotSeen => f.start # NotSeen
  PROVE  /\ Learn(f, c, d) \in Formats
         /\ Candidate(c, d) \in Learnt
         /\ f.start # NotSeen => Learn(f, c, d).start # NotSeen
         /\ Learn(f, c, d).start # NotSeen => Learned(Learn(f, c, d))
         /\ Learned(Learn(f, c, d)) /\ Candidate(c, d) # NotSeen
              => Learn(f, c, d).start # NotSeen
  <1> DEFINE g == Learn(f, c, d)
  <1>1. d.data \in Learnt /\ d.data # NotSeen
    BY FormatAssumption DEF Datagrams, Learnt
  <1>2. Candidate(c, d) \in Learnt
    BY <1>1 DEF Candidate
  <1>3. /\ g \in Formats
        /\ f.start # NotSeen => g.start # NotSeen
        /\ g.start # NotSeen => Learned(g)
    <2>1. CASE g = f
      BY <2>1
    <2>2. CASE g = [f EXCEPT !.header = d.data, !.start = c] /\ c # NotSeen
      <3>1. g.header = d.data /\ g.start = c /\ g \in Formats
        BY <1>1, <2>2 DEF Formats
      <3>2. QED BY <1>1, <2>2, <3>1 DEF Learned
    <2>3. CASE g = [f EXCEPT !.header = d.data, !.start = f.start] /\ c = NotSeen
      <3>1. g.header = d.data /\ g.start = f.start /\ g \in Formats
        BY <1>1, <2>3 DEF Formats
      <3>2. QED BY <1>1, <3>1 DEF Learned
    <2>4. CASE Learned(f) /\ g = [f EXCEPT !.end = d.data]
      <3>1. g.header = f.header /\ g.start = f.start /\ g \in Formats
        BY <1>1, <2>4 DEF Formats
      <3>2. QED BY <2>4, <3>1 DEF Learned
    <2>5. CASE Learned(f) /\ g = [f EXCEPT !.start = d.data]
      <3>1. g.header = f.header /\ g.start = d.data /\ g \in Formats
        BY <1>1, <2>5 DEF Formats
      <3>2. QED BY <1>1, <2>5, <3>1 DEF Learned
    <2>6. QED BY <2>1, <2>2, <2>3, <2>4, <2>5, LearnCases
  <1>4. ASSUME Learned(g), Candidate(c, d) # NotSeen PROVE g.start # NotSeen
    <2>1. CASE d.kind \in {"begin", "long"}
      <3>1. g = IF Learned(f) /\ f.start = NotSeen THEN [f EXCEPT !.start = d.data] ELSE f
        BY <2>1 DEF Learn
      <3>2. [f EXCEPT !.start = d.data].start = d.data
        BY DEF Formats
      <3>3. QED BY <1>1, <1>4, <3>1, <3>2
    <2>2. CASE d.kind \notin {"begin", "long"}
      <3>1. c # NotSeen
        BY <1>4, <2>2 DEF Candidate
      <3>2. CASE d.kind = "audio" /\ f.header # d.data
        <4>1. g = [f EXCEPT !.header = d.data, !.start = c]
          BY <3>1, <3>2 DEF Learn
        <4>2. g.start = c
          BY <4>1 DEF Formats
        <4>3. QED BY <3>1, <4>2
      <3>3. CASE ~(d.kind = "audio" /\ f.header # d.data)
        <4>1. g = f \/ g = [f EXCEPT !.end = d.data]
          BY <2>2, <3>3 DEF Learn
        <4>2. g.header = f.header /\ g.start = f.start
          BY <4>1 DEF Formats
        <4>3. QED BY <1>4, <3>1, <4>2 DEF Learned
      <3>4. QED BY <3>2, <3>3
    <2>3. QED BY <2>1, <2>2
  <1>5. QED BY <1>2, <1>3, <1>4

LEMMA EmitType ==
  ASSUME TypeOK, NEW kind \in {"start", "audio", "end"}, NEW st \in Streams,
         Emit(kind, st)
  PROVE  sent' \in TlvOut
  <1>1. /\ format.start \in Learnt /\ format.header \in Learnt /\ format.end \in Learnt
    BY DEF TypeOK, Formats
  <1>2. \E x \in Learnt : sent' = [kind |-> kind, stream |-> st, data |-> x]
    BY <1>1 DEF Emit
  <1>3. QED BY <1>2 DEF TlvOut

LEMMA InitInv == Init => IInv
  <1> SUFFICES ASSUME Init PROVE IInv
    OBVIOUS
  <1>1. format \in Formats /\ format.start = NotSeen /\ ~Learned(format)
    BY DEF Init, DefaultFormat, Formats, Learnt, Learned
  <1>2. sent \in TlvOut
    BY DEF Init, TlvOut, Learnt
  <1>3. wait \in 0 .. Interval /\ since \in 0 .. Interval /\ wait + since = Interval
    BY DownlinkAssumption DEF Init
  <1>4. TypeOK
    BY <1>1, <1>2, <1>3 DEF Init, TypeOK, Learnt
  <1>5. QED BY <1>1, <1>3, <1>4 DEF Init, IInv, HeadInv, StartDatagramKept, ClockInv

LEMMA Preserved == IInv /\ [Next]_vars => IInv'
  <1> SUFFICES ASSUME IInv, [Next]_vars PROVE IInv'
    OBVIOUS
  <1> USE DownlinkAssumption DEF IInv, TypeOK, HeadInv, StartDatagramKept, ClockInv,
          shared, pacer, toAnalog
  <1>1. ASSUME NEW p \in Packets, Activate(p) PROVE IInv'
    BY <1>1 DEF Activate, ResetPacer, Packets
  <1>2. ASSUME NEW p \in Packets, Continue(p) PROVE IInv'
    BY <1>2 DEF Continue, Packets
  <1>3. ASSUME NEW p \in Packets, Terminate(p) PROVE IInv'
    <2>1. sent' \in TlvOut
      BY <1>3, EmitType DEF Terminate, Packets
    <2>2. QED BY <1>3, <2>1 DEF Terminate, Packets
  <1>4. CASE Start
    <2>1. CASE format.start # NotSeen
      <3>1. sent' \in TlvOut
        BY <1>4, <2>1, EmitType DEF Start
      <3>2. QED BY <1>4, <2>1, <3>1 DEF Start
    <2>2. CASE format.start = NotSeen
      BY <1>4, <2>2 DEF Start
    <2>3. QED BY <2>1, <2>2
  <1>5. CASE Audio
    <2>1. sent' \in TlvOut
      BY <1>5, EmitType DEF Audio
    <2>2. wait' = Interval /\ since' = 0 /\ opening' = FALSE
      BY <1>5, Zenon DEF Audio
    <2>3. Interval \in 0 .. Interval /\ 0 \in 0 .. Interval /\ Interval + 0 = Interval
      BY DownlinkAssumption
    <2>4. pc' = "recv" /\ UNCHANGED <<active, format, candidate, headed, owed, stop>>
      BY <1>5 DEF Audio
    <2>5. pc = "audio"
      BY <1>5 DEF Audio
    <2>6. QED BY <2>1, <2>2, <2>3, <2>4, <2>5
  <1>6. CASE Leave
    BY <1>6 DEF Leave
  <1>7. CASE Joined
    BY <1>7 DEF Joined
  <1>8. CASE Tick
    BY <1>8 DEF Tick
  <1>9. CASE RequestStop
    BY <1>9 DEF RequestStop
  <1>10. ASSUME NEW d \in Datagrams, LearnFrom(d) PROVE IInv'
    <2>1. /\ format' \in Formats /\ candidate' \in Learnt
          /\ format.start # NotSeen => format'.start # NotSeen
          /\ format'.start # NotSeen => Learned(format')
          /\ Learned(format') /\ candidate' # NotSeen => format'.start # NotSeen
      BY <1>10, LearnKeeps DEF LearnFrom
    <2>2. QED BY <1>10, <2>1 DEF LearnFrom
  <1>11. CASE UNCHANGED vars
    BY <1>11 DEF vars
  <1>12. QED
    BY <1>1, <1>2, <1>3, <1>4, <1>5, <1>6, <1>7, <1>8, <1>9, <1>10, <1>11 DEF Next, Loop

(* The inductive invariant.                                                *)
THEOREM Inductive == Spec => []IInv
  BY InitInv, Preserved, PTL DEF Spec

(* Every variable keeps to its type.                                       *)
THEOREM TypeCorrect == Spec => []TypeOK
  <1>1. IInv => TypeOK
    BY DEF IInv
  <1>2. QED BY <1>1, Inductive, PTL

(* The begin datagram is kept, whether it came before or after the audio   *)
(* that taught the framing, and when another framing is learnt.            *)
THEOREM StartKept == Spec => []StartDatagramKept
  <1>1. IInv => StartDatagramKept
    BY DEF IInv
  <1>2. QED BY <1>1, Inductive, PTL

(* Audio follows the start datagram of its own stream if one was known     *)
(* when the stream opened, for any number of alternating streams.          *)
THEOREM StartsItsStream == Spec => OwnStart
  <1>1. IInv /\ [Next]_vars => [Audio /\ owed => headed = active /\ sent'.data # NotSeen]_vars
    <2> SUFFICES ASSUME IInv, Audio, owed PROVE headed = active /\ sent'.data # NotSeen
      OBVIOUS
    <2>1. headed = active /\ Learned(format)
      BY DEF IInv, HeadInv, Audio
    <2>2. sent'.data = format.header
      BY DEF Audio, Emit
    <2>3. QED BY <2>1, <2>2 DEF Learned
  <1>2. QED BY <1>1, Inductive, PTL DEF Spec, OwnStart

(* But for the first after a stream was opened, no burst leaves before the *)
(* interval since the last one has passed.                                 *)
THEOREM KeepsPace == Spec => Paced
  <1>1. IInv /\ [Next]_vars => [Audio => since = Interval \/ opening]_vars
    <2> SUFFICES ASSUME IInv, Audio, ~opening PROVE since = Interval
      OBVIOUS
    <2>1. QED BY DownlinkAssumption DEF Audio, IInv, ClockInv, TypeOK
  <1>2. QED BY <1>1, Inductive, PTL DEF Spec, Paced
=============================================================================
