------------------------ MODULE EchoLinkDownlinkProofs ------------------------
(***************************************************************************)
(* Theorems about EchoLinkDownlink, for any stations, any number of frames *)
(* per packet and any moduli: its types, and that each frame given to a    *)
(* station is accounted for.                                               *)
(*                                                                         *)
(* FramesAccounted is inductive as it stands, once the types are known:    *)
(* the argument is the arithmetic of counters that wrap, which is stated   *)
(* first.                                                                  *)
(***************************************************************************)
EXTENDS EchoLinkDownlink, Integers, TLAPS

LEMMA Quotient ==
  ASSUME NEW n \in Nat, NEW m \in Nat \ {0}
  PROVE  n % m \in 0 .. m - 1 /\ n \div m \in Nat /\ n = (m * (n \div m)) + (n % m)
  BY SMTT(20)

LEMMA Remainder ==
  ASSUME NEW m \in Nat \ {0}, NEW q \in Nat, NEW r \in 0 .. m - 1
  PROVE  ((m * q) + r) % m = r
  BY SMTT(20)

(* A whole turn more does not show.                                        *)
LEMMA Turn ==
  ASSUME NEW n \in Nat, NEW m \in Nat \ {0}
  PROVE  (n + m) % m = n % m
  <1> DEFINE q == n \div m
             r == n % m
  <1>1. q \in Nat /\ r \in 0 .. m - 1 /\ n = (m * q) + r
    BY Quotient
  <1>2. n + m = (m * (q + 1)) + r /\ q + 1 \in Nat
    BY <1>1
  <1>3. ((m * (q + 1)) + r) % m = r
    BY <1>1, <1>2, Remainder
  <1>4. QED BY <1>2, <1>3

(* Counting one on before or after taking the remainder is the same.       *)
LEMMA ModSucc ==
  ASSUME NEW n \in Nat, NEW m \in Nat \ {0}
  PROVE  ((n % m) + 1) % m = (n + 1) % m
  <1> DEFINE q == n \div m
             r == n % m
  <1>1. q \in Nat /\ r \in 0 .. m - 1 /\ n = (m * q) + r
    BY Quotient
  <1>2. CASE r + 1 < m
    <2>1. n + 1 = (m * q) + (r + 1) /\ r + 1 \in 0 .. m - 1
      BY <1>1, <1>2
    <2>2. ((m * q) + (r + 1)) % m = r + 1
      BY <1>1, <2>1, Remainder
    <2>3. (r + 1) % m = r + 1
      BY <2>1, SMTT(20)
    <2>4. QED BY <2>1, <2>2, <2>3
  <1>3. CASE r + 1 = m
    <2>1. n + 1 = (m * (q + 1)) + 0 /\ q + 1 \in Nat /\ 0 \in 0 .. m - 1
      BY <1>1, <1>3
    <2>2. ((m * (q + 1)) + 0) % m = 0
      BY <2>1, Remainder
    <2>3. (r + 1) % m = 0
      BY <1>3, SMTT(20)
    <2>4. QED BY <2>1, <2>2, <2>3
  <1>4. QED BY <1>1, <1>2, <1>3

LEMMA Constants ==
  /\ PacketFrames \in Nat \ {0} /\ RtpMod \in Nat \ {0}
  /\ FrameMod = PacketFrames * RtpMod /\ FrameMod \in Nat \ {0}
  <1>1. PacketFrames \in Nat \ {0} /\ RtpMod \in Nat \ {0}
    BY EchoLinkDownlinkAssumption
  <1>2. PacketFrames * RtpMod \in Nat \ {0}
    BY <1>1, SMTT(20)
  <1>3. QED BY <1>1, <1>2 DEF FrameMod
-----------------------------------------------------------------------------
(* Frames given, by what was counted of them.                              *)
Given(r, u, p) == (PacketFrames * (r + u)) + p

(* One frame more: in the buffer, or out of it with its packet, whose      *)
(* sequence number may wrap.                                               *)
LEMMA OneMore ==
  ASSUME NEW r \in 0 .. RtpMod - 1, NEW u \in 0 .. RtpMod - 1, NEW p \in 0 .. PacketFrames - 1
  PROVE  /\ p + 1 # PacketFrames =>
              (p + 1) % PacketFrames = p + 1 /\ Given(r, u, p) + 1 = Given(r, u, p + 1)
         /\ p + 1 = PacketFrames =>
              /\ (p + 1) % PacketFrames = 0
              /\ (Given(r, u, p) + 1) % FrameMod = Given((r + 1) % RtpMod, u, 0) % FrameMod
              /\ (Given(r, u, p) + 1) % FrameMod = Given(r, (u + 1) % RtpMod, 0) % FrameMod
  <1> USE Constants
  <1>1. ASSUME p + 1 # PacketFrames
        PROVE  (p + 1) % PacketFrames = p + 1 /\ Given(r, u, p) + 1 = Given(r, u, p + 1)
    <2>1. (p + 1) % PacketFrames = p + 1
      BY <1>1, SMTT(20)
    <2>2. PacketFrames * (r + u) \in Nat
      BY SMTT(20)
    <2>3. QED BY <2>1, <2>2 DEF Given
  <1>2. ASSUME p + 1 = PacketFrames
        PROVE  /\ (p + 1) % PacketFrames = 0
               /\ (Given(r, u, p) + 1) % FrameMod = Given((r + 1) % RtpMod, u, 0) % FrameMod
               /\ (Given(r, u, p) + 1) % FrameMod = Given(r, (u + 1) % RtpMod, 0) % FrameMod
    <2>1. (p + 1) % PacketFrames = 0
      BY <1>2, SMTT(20)
    <2>2. Given(r, u, p) + 1 = PacketFrames * (r + u + 1)
      BY <1>2, SMTT(20) DEF Given
    <2>3. ASSUME NEW a \in 0 .. RtpMod - 1, NEW b \in 0 .. RtpMod - 1
          PROVE  (PacketFrames * (a + b + 1)) % FrameMod = (PacketFrames * (((a + 1) % RtpMod) + b)) % FrameMod
      <3>1. CASE a + 1 < RtpMod
        <4>1. (a + 1) % RtpMod = a + 1
          BY <3>1, SMTT(20)
        <4>2. a + b + 1 = (a + 1) + b
          OBVIOUS
        <4>3. QED BY <4>1, <4>2
      <3>2. CASE a + 1 = RtpMod
        <4>1. (a + 1) % RtpMod = 0
          BY <3>2, SMTT(20)
        <4>2. PacketFrames * (a + b + 1) = (PacketFrames * b) + FrameMod /\ PacketFrames * b \in Nat
          BY <3>2, SMTT(20)
        <4>3. ((PacketFrames * b) + FrameMod) % FrameMod = (PacketFrames * b) % FrameMod
          BY <4>2, Turn
        <4>4. 0 + b = b
          OBVIOUS
        <4>5. QED BY <4>1, <4>2, <4>3, <4>4
      <3>3. QED BY <3>1, <3>2
    <2>4. r + u + 1 = u + r + 1 /\ ((u + 1) % RtpMod) + r = r + ((u + 1) % RtpMod)
      BY Quotient
    <2>5. /\ Given((r + 1) % RtpMod, u, 0) = PacketFrames * (((r + 1) % RtpMod) + u)
          /\ Given(r, (u + 1) % RtpMod, 0) = PacketFrames * (r + ((u + 1) % RtpMod))
      <3>1. (r + 1) % RtpMod \in Nat /\ (u + 1) % RtpMod \in Nat
        BY Quotient
      <3>2. /\ PacketFrames * (((r + 1) % RtpMod) + u) \in Nat
            /\ PacketFrames * (r + ((u + 1) % RtpMod)) \in Nat
        BY <3>1, SMTT(20)
      <3>3. QED BY <3>2 DEF Given
    <2>6. QED BY <2>1, <2>2, <2>3, <2>4, <2>5
  <1>3. QED BY <1>1, <1>2

Accounted(h, r, u, p) == h = Given(r, u, p) % FrameMod

(* What SendPcm does to the four counters of a station.                    *)
LEMMA CountsOn ==
  ASSUME NEW r \in 0 .. RtpMod - 1, NEW u \in 0 .. RtpMod - 1, NEW p \in 0 .. PacketFrames - 1,
         NEW h \in 0 .. FrameMod - 1, Accounted(h, r, u, p), NEW delivered \in BOOLEAN
  PROVE  /\ (h + 1) % FrameMod \in 0 .. FrameMod - 1
         /\ (p + 1) % PacketFrames \in 0 .. PacketFrames - 1
         /\ (r + 1) % RtpMod \in 0 .. RtpMod - 1
         /\ (u + 1) % RtpMod \in 0 .. RtpMod - 1
         /\ Accounted((h + 1) % FrameMod,
                      IF p + 1 = PacketFrames /\ delivered THEN (r + 1) % RtpMod ELSE r,
                      IF p + 1 = PacketFrames /\ ~delivered THEN (u + 1) % RtpMod ELSE u,
                      (p + 1) % PacketFrames)
  <1> USE Constants
  <1>1. /\ (h + 1) % FrameMod \in 0 .. FrameMod - 1
        /\ (p + 1) % PacketFrames \in 0 .. PacketFrames - 1
        /\ (r + 1) % RtpMod \in 0 .. RtpMod - 1
        /\ (u + 1) % RtpMod \in 0 .. RtpMod - 1
    BY Quotient
  <1>2. Given(r, u, p) \in Nat
    BY SMTT(20) DEF Given
  <1>3. (h + 1) % FrameMod = (Given(r, u, p) + 1) % FrameMod
    BY <1>2, ModSucc DEF Accounted
  <1>4. CASE p + 1 # PacketFrames
    BY <1>1, <1>3, <1>4, OneMore DEF Accounted
  <1>5. CASE p + 1 = PacketFrames
    BY <1>1, <1>3, <1>5, OneMore DEF Accounted
  <1>6. QED BY <1>4, <1>5
-----------------------------------------------------------------------------
BuffersOK ==
  /\ pending \in [Calls -> 0 .. PacketFrames - 1]
  /\ rtpSequence \in [Calls -> 0 .. RtpMod - 1]
  /\ heard \in [Calls -> 0 .. FrameMod - 1]
  /\ unsent \in [Calls -> 0 .. RtpMod - 1]

BufferInv == BuffersOK /\ FramesAccounted

(* All of the state but the buffers.                                       *)
RestOK ==
  /\ stations \subseteq Calls
  /\ dmrActive \in BOOLEAN
  /\ dmrIdle \in 0 .. IdleTimeout
  /\ rosterAge \in 0 .. RosterPeriod
  /\ walk \in Walks
  /\ left \subseteq Calls
  /\ speaker \in Calls \cup {NoCall}
  /\ shrunk \in BOOLEAN /\ polled \in BOOLEAN /\ stopping \in BOOLEAN /\ alive \in BOOLEAN

LEMMA TypeParts == TypeOK <=> BuffersOK /\ RestOK
  BY DEF TypeOK, BuffersOK, RestOK

LEMMA InitInv == Init => BufferInv /\ RestOK
  <1> SUFFICES ASSUME Init PROVE BufferInv /\ RestOK
    OBVIOUS
  <1>1. BuffersOK
    BY Constants DEF Init, BuffersOK
  <1>2. (PacketFrames * (0 + 0) + 0) % FrameMod = 0
    BY Constants, SMTT(20)
  <1>3. FramesAccounted
    BY <1>2 DEF Init, FramesAccounted
  <1>4. RestOK
    <2>1. dmrIdle \in 0 .. IdleTimeout /\ rosterAge \in 0 .. RosterPeriod
      BY EchoLinkDownlinkAssumption DEF Init
    <2>2. QED BY <2>1 DEF Init, RestOK, Walks
  <1>5. QED BY <1>1, <1>3, <1>4 DEF BufferInv

(* A frame to one station leaves the account of every station right.       *)
LEMMA SendPcmKeeps ==
  ASSUME BufferInv, NEW c \in Calls, NEW delivered \in BOOLEAN, SendPcm(c, delivered)
  PROVE  BufferInv'
  <1> DEFINE h == heard[c]
             r == rtpSequence[c]
             u == unsent[c]
             p == pending[c]
  <1>1. r \in 0 .. RtpMod - 1 /\ u \in 0 .. RtpMod - 1 /\ p \in 0 .. PacketFrames - 1
        /\ h \in 0 .. FrameMod - 1 /\ Accounted(h, r, u, p)
    BY DEF BufferInv, BuffersOK, FramesAccounted, Accounted, Given
  <1>2. /\ heard' = [heard EXCEPT ![c] = (h + 1) % FrameMod]
        /\ pending' = [pending EXCEPT ![c] = (p + 1) % PacketFrames]
        /\ rtpSequence' = [rtpSequence EXCEPT ![c] =
                             IF p + 1 = PacketFrames /\ delivered THEN (r + 1) % RtpMod ELSE r]
        /\ unsent' = [unsent EXCEPT ![c] =
                        IF p + 1 = PacketFrames /\ ~delivered THEN (u + 1) % RtpMod ELSE u]
    BY DEF SendPcm
  <1> HIDE DEF h, r, u, p
  <1> DEFINE h2 == (h + 1) % FrameMod
             p2 == (p + 1) % PacketFrames
             r2 == IF p + 1 = PacketFrames /\ delivered THEN (r + 1) % RtpMod ELSE r
             u2 == IF p + 1 = PacketFrames /\ ~delivered THEN (u + 1) % RtpMod ELSE u
  <1>3. /\ h2 \in 0 .. FrameMod - 1 /\ p2 \in 0 .. PacketFrames - 1
        /\ r2 \in 0 .. RtpMod - 1 /\ u2 \in 0 .. RtpMod - 1
        /\ Accounted(h2, r2, u2, p2)
    BY <1>1, CountsOn
  <1>4. /\ heard' = [heard EXCEPT ![c] = h2] /\ pending' = [pending EXCEPT ![c] = p2]
        /\ rtpSequence' = [rtpSequence EXCEPT ![c] = r2] /\ unsent' = [unsent EXCEPT ![c] = u2]
    BY <1>2
  <1> HIDE DEF h2, r2, u2, p2
  <1>5. BuffersOK'
    BY <1>3, <1>4 DEF BufferInv, BuffersOK
  <1>6. ASSUME NEW d \in Calls
        PROVE  Accounted(heard'[d], rtpSequence'[d], unsent'[d], pending'[d])
    <2>1. CASE d = c
      BY <1>3, <1>4, <2>1 DEF BufferInv, BuffersOK
    <2>2. CASE d # c
      <3>1. /\ heard'[d] = heard[d] /\ rtpSequence'[d] = rtpSequence[d]
            /\ unsent'[d] = unsent[d] /\ pending'[d] = pending[d]
        BY <1>4, <2>2 DEF BufferInv, BuffersOK
      <3>2. Accounted(heard[d], rtpSequence[d], unsent[d], pending[d])
        BY DEF BufferInv, FramesAccounted, Accounted, Given
      <3>3. QED BY <3>1, <3>2
    <2>3. QED BY <2>1, <2>2
  <1>7. FramesAccounted'
    BY <1>6 DEF FramesAccounted, Accounted, Given
  <1>8. QED BY <1>5, <1>7 DEF BufferInv

LEMMA JoinKeeps ==
  ASSUME BufferInv, NEW c \in Calls, Join(c)
  PROVE  BufferInv'
  <1>1. BuffersOK'
    BY Constants DEF Join, BufferInv, BuffersOK
  <1>2. (PacketFrames * (0 + 0) + 0) % FrameMod = 0
    BY Constants, SMTT(20)
  <1>3. ASSUME NEW d \in Calls
        PROVE  heard'[d] = (PacketFrames * (rtpSequence'[d] + unsent'[d]) + pending'[d]) % FrameMod
    <2>1. CASE d = c
      BY <1>2, <2>1 DEF Join, BufferInv, BuffersOK
    <2>2. CASE d # c
      <3>1. /\ heard'[d] = heard[d] /\ rtpSequence'[d] = rtpSequence[d]
            /\ unsent'[d] = unsent[d] /\ pending'[d] = pending[d]
        BY <2>2 DEF Join, BufferInv, BuffersOK
      <3>2. QED BY <3>1 DEF BufferInv, FramesAccounted
    <2>3. QED BY <2>1, <2>2
  <1>4. QED BY <1>1, <1>3 DEF BufferInv, FramesAccounted

LEMMA BuffersKept == BufferInv /\ UNCHANGED buffers => BufferInv'
  BY DEF buffers, BufferInv, BuffersOK, FramesAccounted

LEMMA BuffersStep == BufferInv /\ [Next]_vars => BufferInv'
  <1> SUFFICES ASSUME BufferInv, [Next]_vars PROVE BufferInv'
    OBVIOUS
  <1>1. ASSUME NEW c \in Calls, Join(c) PROVE BufferInv'
    BY <1>1, JoinKeeps
  <1>2. ASSUME NEW c \in Calls, NEW delivered \in BOOLEAN, SendFrame(c, delivered) PROVE BufferInv'
    <2>1. SendPcm(c, delivered) \/ UNCHANGED buffers
      BY <1>2 DEF SendFrame
    <2>2. QED BY <2>1, SendPcmKeeps, BuffersKept
  <1>3. ASSUME NEW c \in Calls, Part(c) \/ Remove(c) \/ SpeakerVoice(c) \/ Visit(c)
        PROVE  UNCHANGED buffers
    BY <1>3 DEF Part, Remove, SpeakerVoice, Visit
  <1>4. ASSUME NEW c \in Calls, NEW delivered \in BOOLEAN, SendRoster(c, delivered)
        PROVE  UNCHANGED buffers
    BY <1>4 DEF SendRoster
  <1>5. CASE UsrpVoice \/ UsrpUnkey \/ WalkDone \/ WalkRaises
    BY <1>5, BuffersKept DEF UsrpVoice, UsrpUnkey, WalkDone, WalkRaises
  <1>6. CASE Housekeeping \/ Tick \/ RequestStop \/ LeaveRun
    BY <1>6, BuffersKept DEF Housekeeping, Tick, RequestStop, LeaveRun
  <1>7. CASE Dead \/ UNCHANGED vars
    BY <1>7, BuffersKept DEF Dead, vars
  <1>8. QED BY <1>1, <1>2, <1>3, <1>4, <1>5, <1>6, <1>7, BuffersKept DEF Next, ContinueWalk

LEMMA RestStep == RestOK /\ [Next]_vars => RestOK'
  <1> SUFFICES ASSUME RestOK, [Next]_vars PROVE RestOK'
    OBVIOUS
  <1> USE EchoLinkDownlinkAssumption DEF RestOK, Walks, Begin, EndWalk, Raise, Idle, clock, walking
  <1>1. ASSUME NEW c \in Calls, Join(c) \/ Part(c) PROVE RestOK'
    BY <1>1 DEF Join, Part
  <1>2. ASSUME NEW c \in Calls, Remove(c) PROVE RestOK'
    <2>1. shrunk' \in BOOLEAN
      BY <1>2, Zenon DEF Remove
    <2>2. QED BY <1>2, <2>1 DEF Remove
  <1>3. ASSUME NEW c \in Calls, SpeakerVoice(c) \/ Visit(c) PROVE RestOK'
    BY <1>3 DEF SpeakerVoice, Visit
  <1>4. ASSUME NEW c \in Calls, NEW delivered \in BOOLEAN, SendFrame(c, delivered) PROVE RestOK'
    BY <1>4 DEF SendFrame
  <1>5. ASSUME NEW c \in Calls, NEW delivered \in BOOLEAN, SendRoster(c, delivered) PROVE RestOK'
    <2>1. CASE delivered
      BY <1>5, <2>1 DEF SendRoster
    <2>2. CASE ~delivered
      BY <1>5, <2>2 DEF SendRoster
    <2>3. QED BY <2>1, <2>2
  <1>6. CASE UsrpVoice
    <2>1. dmrIdle' \in 0 .. IdleTimeout
      BY <1>6 DEF UsrpVoice
    <2>2. walk' \in Walks
      BY <1>6, Zenon DEF UsrpVoice
    <2>3. QED BY <1>6, <2>1, <2>2 DEF UsrpVoice
  <1>7. CASE UsrpUnkey \/ RequestStop \/ LeaveRun
    BY <1>7 DEF UsrpUnkey, RequestStop, LeaveRun
  <1>8. CASE WalkDone
    BY <1>8 DEF WalkDone
  <1>9. CASE WalkRaises
    BY <1>9 DEF WalkRaises
  <1>10. CASE Housekeeping
    <2>1. dmrActive' \in BOOLEAN
      BY <1>10, Zenon DEF Housekeeping
    <2>2. CASE rosterAge >= RosterPeriod
      <3>1. rosterAge' \in 0 .. RosterPeriod
        BY <1>10, <2>2 DEF Housekeeping
      <3>2. QED BY <1>10, <2>1, <2>2, <3>1 DEF Housekeeping
    <2>3. CASE ~(rosterAge >= RosterPeriod)
      BY <1>10, <2>1, <2>3 DEF Housekeeping
    <2>4. QED BY <2>2, <2>3
  <1>11. CASE Tick
    <2>1. dmrIdle' \in 0 .. IdleTimeout
      BY <1>11 DEF Tick
    <2>2. rosterAge' \in 0 .. RosterPeriod
      BY <1>11 DEF Tick
    <2>3. QED BY <1>11, <2>1, <2>2 DEF Tick
  <1>12. CASE Dead \/ UNCHANGED vars
    BY <1>12 DEF Dead, vars
  <1>13. QED
    BY <1>1, <1>2, <1>3, <1>4, <1>5, <1>6, <1>7, <1>8, <1>9, <1>10, <1>11, <1>12
       DEF Next, ContinueWalk

(* The inductive invariant.                                                *)
THEOREM Inductive == Spec => [](BufferInv /\ RestOK)
  BY InitInv, BuffersStep, RestStep, PTL DEF Spec

(* Every variable keeps to its type.                                       *)
THEOREM TypeCorrect == Spec => []TypeOK
  <1>1. BufferInv /\ RestOK => TypeOK
    BY TypeParts DEF BufferInv
  <1>2. QED BY <1>1, Inductive, PTL

(* Each frame given to a station is in its buffer, has left under one of   *)
(* its sequence numbers or was lost with its packet.                       *)
THEOREM AccountsForFrames == Spec => []FramesAccounted
  <1>1. BufferInv /\ RestOK => FramesAccounted
    BY DEF BufferInv
  <1>2. QED BY <1>1, Inductive, PTL
=============================================================================
