---------------------------- MODULE UsrpTxProofs ----------------------------
(***************************************************************************)
(* Proofs about UsrpTx, for every set of administrative threads, every     *)
(* queue capacity and every sequence modulus.                              *)
(***************************************************************************)
EXTENDS UsrpTx, SequenceTheorems, TLAPS

EndsInUnkey ==
  IF queue = <<>> THEN hand = "unkey" \/ (~keyed /\ hand \notin {"keyup", "voice"})
                  ELSE queue[Len(queue)] = "unkey"

EndsKeyed ==
  IF queue = <<>> THEN hand \in {"keyup", "voice"} \/ (keyed /\ hand # "unkey")
                  ELSE queue[Len(queue)] # "unkey"

(* Where the threads can be, whether or not calls overlapped.              *)
PlaceInv ==
  /\ \A t \in Admins : pc[t] \in {"idle", "unkeyLock"} \cup UnkeySteps
  /\ stop => pc[Svc] \in {"join", "closed"}
  /\ hand = "exited" => stop
  /\ pc[Svc] = "closed" => hand = "exited"

Exclusive == \A t, u \in Threads : t # u => Quiet(t) \/ Quiet(u)

(* The request flag, the active speaker and the call in progress.          *)
RequestInv ==
  /\ pc[Svc] \in FrameSteps => keyRequested /\ active
  /\ pc[Svc] = "keyLock" => active
  /\ pc[Svc] \in {"setStop", "join", "closed"} => ~keyRequested
  /\ \A t \in Threads : pc[t] \in UnkeySteps => ~keyRequested
  /\ (~active /\ keyRequested) => \E t \in Threads : pc[t] = "unkeyLock"

(* The queue: what its end says about the line once it has been sent.      *)
QueueInv ==
  /\ \A t \in Threads : /\ pc[t] \notin {"drainAgain", "rePutUnkey"}
                        /\ pc[t] = "putUnkey" => queue = <<>>
  /\ pc[Svc] \in {"rePutKey", "rePutVoice"} => Len(queue) < QMax
  /\ (~keyRequested /\ \A t \in Threads : pc[t] \notin UnkeySteps) => EndsInUnkey
  /\ (keyRequested /\ pc[Svc] \notin {"putKey", "popKey", "rePutKey", "rePutVoice"})
        => EndsKeyed
  /\ hand = "exited" => ~keyed

SerialInv == ~overlapped => Exclusive /\ RequestInv /\ QueueInv

IInv == TypeOK /\ PlaceInv /\ SerialInv
-----------------------------------------------------------------------------
(* What put_nowait and get_nowait do to the end of the queue.              *)
LEMMA QueueOps ==
  ASSUME NEW q \in Seq(Items), NEW item \in Items
  PROVE  /\ Append(q, item) \in Seq(Items)
         /\ Len(Append(q, item)) = Len(q) + 1
         /\ Append(q, item) # <<>>
         /\ Append(q, item)[Len(Append(q, item))] = item
         /\ q # <<>> => /\ Head(q) \in Items
                        /\ Tail(q) \in Seq(Items)
                        /\ Len(q) \in Nat \ {0}
                        /\ Len(Tail(q)) = Len(q) - 1
                        /\ Tail(q) = <<>> => Head(q) = q[Len(q)]
                        /\ Tail(q) # <<>> => Tail(q)[Len(Tail(q))] = q[Len(q)]
  <1>1. q # <<>> => /\ Head(q) \in Items
                    /\ Tail(q) \in Seq(Items)
                    /\ Len(q) \in Nat \ {0}
                    /\ Len(Tail(q)) = Len(q) - 1
    OBVIOUS
  <1>2. q # <<>> /\ Tail(q) = <<>> => Head(q) = q[Len(q)]
    <2>1. ASSUME q # <<>>, Tail(q) = <<>> PROVE Len(q) = 1
      <3>0. Len(<<>>) = 0
        OBVIOUS
      <3>1. Len(Tail(q)) = 0
        BY <2>1, <3>0, Zenon
      <3>2. QED BY <1>1, <2>1, <3>1
    <2>2. QED BY <2>1
  <1>3. q # <<>> /\ Tail(q) # <<>> => Tail(q)[Len(Tail(q))] = q[Len(q)]
    OBVIOUS
  <1>4. QED BY <1>1, <1>2, <1>3

LEMMA SeqRange == \A n \in Nat : n % SeqMod \in 0 .. SeqMod - 1
  BY UsrpTxAssumption

(* The queue operations of a producer keep the types.                      *)
LEMMA ProducerTypes ==
  ASSUME TypeOK, NEW t \in Threads, NEW at, NEW item \in Items,
         NEW to \in Steps, NEW full \in Steps,
         \/ PutNoWait(t, at, item, to, full)
         \/ PopOldest(t, at, to)
         \/ at \in Steps /\ Drain(t, at, to)
  PROVE  TypeOK'
  <1> USE UsrpTxAssumption DEF TypeOK
  <1>1. queue' \in Seq(Items) /\ Len(queue') <= QMax
    <2>1. CASE PutNoWait(t, at, item, to, full)
      BY <2>1, QueueOps DEF PutNoWait
    <2>2. CASE queue' = IF queue = <<>> THEN queue ELSE Tail(queue)
      BY <2>2, QueueOps
    <2>3. QED BY <2>1, <2>2 DEF PopOldest, Drain
  <1>2. pc' \in [Threads -> Steps]
    BY DEF PutNoWait, PopOldest, Drain, Goto
  <1>3. QED BY <1>1, <1>2 DEF PutNoWait, PopOldest, Drain, producer, pacer

(* Type correctness of the transmit queue, its producers and the pacer.    *)
THEOREM TypeCorrect == Spec => []TypeOK
  <1> USE UsrpTxAssumption DEF Threads, Items, Steps, FrameSteps, UnkeySteps, RestSteps
  <1>1. Init => TypeOK
    <2>1. <<>> \in Seq(Items) /\ Len(<<>>) <= QMax
      OBVIOUS
    <2>2. 1 % SeqMod \in 0 .. SeqMod - 1
      BY SeqRange
    <2>3. QED BY <2>1, <2>2 DEF Init, TypeOK
  <1>2. TypeOK /\ [Next]_vars => TypeOK'
    <2> SUFFICES ASSUME TypeOK, [Next]_vars PROVE TypeOK'
      OBVIOUS
    <2>1. CASE SpeakerFrame
      BY <2>1 DEF TypeOK, SpeakerFrame, Enter, Goto, Quiet, pacer
    <2>2. CASE ReleaseSpeaker
      BY <2>2 DEF TypeOK, ReleaseSpeaker, Enter, Goto, Quiet, pacer
    <2>3. CASE Close
      BY <2>3 DEF TypeOK, Close, Enter, Goto, Quiet, pacer
    <2>4. CASE RequestKeyup
      BY <2>4 DEF TypeOK, RequestKeyup, Goto, pacer
    <2>5. CASE PutKeyup
      BY <2>5, ProducerTypes DEF PutKeyup
    <2>6. CASE PutVoice
      BY <2>6, ProducerTypes DEF PutVoice
    <2>7. CASE SetStop
      BY <2>7 DEF TypeOK, SetStop, Goto, pacer
    <2>8. CASE JoinPacer
      BY <2>8 DEF TypeOK, JoinPacer, Goto, pacer, producer
    <2>9. ASSUME NEW t \in Threads, AdminDisconnect(t) PROVE TypeOK'
      BY <2>9 DEF TypeOK, AdminDisconnect, Enter, Goto, Quiet, pacer
    <2>10. ASSUME NEW t \in Threads, ClearKeyRequest(t) PROVE TypeOK'
      BY <2>10 DEF TypeOK, ClearKeyRequest, Goto, pacer
    <2>11. ASSUME NEW t \in Threads, DrainQueue(t) PROVE TypeOK'
      BY <2>11, ProducerTypes DEF DrainQueue
    <2>12. ASSUME NEW t \in Threads, PutUnkey(t) PROVE TypeOK'
      BY <2>12, ProducerTypes DEF PutUnkey, AfterUnkey
    <2>13. CASE TakeItem
      BY <2>13, QueueOps DEF TypeOK, TakeItem, producer
    <2>14. CASE SendHeader \/ SendVoice \/ SendUnkey
      <3>0. seq + 1 \in Nat
        BY DEF TypeOK
      <3>1. (seq + 1) % SeqMod \in 0 .. SeqMod - 1
        BY <3>0, SeqRange, Zenon
      <3>2. seq' = (seq + 1) % SeqMod
        BY <2>14, Zenon DEF SendHeader, SendVoice, SendUnkey, Send
      <3>3. QED BY <2>14, <3>1, <3>2 DEF TypeOK, SendHeader, SendVoice, SendUnkey, Send, producer
    <2>15. CASE SkipEdge \/ PacerExit
      BY <2>15 DEF TypeOK, SkipEdge, PacerExit, producer
    <2>16. CASE UNCHANGED vars
      BY <2>16 DEF TypeOK, vars
    <2>17. QED
      BY <2>1, <2>2, <2>3, <2>4, <2>5, <2>6, <2>7, <2>8, <2>9, <2>10, <2>11, <2>12,
         <2>13, <2>14, <2>15, <2>16 DEF Next, Pacer, Stopped
  <1>3. QED
    BY <1>1, <1>2, PTL DEF Spec
-----------------------------------------------------------------------------
(* The places of the threads: only the service thread routes audio and     *)
(* closes, and the pacer is gone before the sockets are.                   *)
LEMMA PlaceInvariant == Spec => []PlaceInv
  <1> USE UsrpTxAssumption DEF Threads
  <1>1. Init => PlaceInv
    BY DEF Init, PlaceInv
  <1>2. TypeOK /\ PlaceInv /\ [Next]_vars => PlaceInv'
    <2> SUFFICES ASSUME TypeOK, PlaceInv, [Next]_vars PROVE PlaceInv'
      OBVIOUS
    <2> USE DEF PlaceInv, TypeOK
    <2>1. CASE SpeakerFrame \/ ReleaseSpeaker \/ Close
      BY <2>1 DEF SpeakerFrame, ReleaseSpeaker, Close, Enter, Goto, pacer
    <2>2. CASE RequestKeyup \/ SetStop \/ JoinPacer
      BY <2>2 DEF RequestKeyup, SetStop, JoinPacer, Goto, pacer, producer
    <2>3. CASE PutKeyup
      BY <2>3 DEF PutKeyup, PutNoWait, PopOldest, Goto, pacer, producer
    <2>4. CASE PutVoice
      BY <2>4 DEF PutVoice, PutNoWait, PopOldest, Goto, pacer, producer
    <2>5. ASSUME NEW t \in Threads, AdminDisconnect(t) \/ ClearKeyRequest(t) PROVE PlaceInv'
      BY <2>5 DEF AdminDisconnect, ClearKeyRequest, Enter, Goto, UnkeySteps, pacer
    <2>6. ASSUME NEW t \in Threads, DrainQueue(t) PROVE PlaceInv'
      BY <2>6 DEF DrainQueue, Drain, Goto, UnkeySteps, pacer, producer
    <2>7. ASSUME NEW t \in Threads, PutUnkey(t) PROVE PlaceInv'
      BY <2>7 DEF PutUnkey, PutNoWait, AfterUnkey, Goto, UnkeySteps, pacer, producer
    <2>8. CASE Pacer
      BY <2>8 DEF Pacer, TakeItem, SendHeader, SendVoice, SendUnkey, SkipEdge, PacerExit,
                  Send, Items, producer
    <2>9. CASE UNCHANGED vars
      BY <2>9 DEF vars
    <2>10. QED
      BY <2>1, <2>2, <2>3, <2>4, <2>5, <2>6, <2>7, <2>8, <2>9 DEF Next, Stopped
  <1>3. QED
    BY <1>1, <1>2, TypeCorrect, PTL DEF Spec
-----------------------------------------------------------------------------
(* The strengthening is kept by every step: what the queue holds last      *)
(* agrees with the request flag, as long as no two calls overlapped.       *)
LEMMA SerialStep ==
  ASSUME TypeOK, TypeOK', PlaceInv, PlaceInv', SerialInv, [Next]_vars
  PROVE  SerialInv'
  <1> SUFFICES ASSUME ~overlapped' PROVE (Exclusive /\ RequestInv /\ QueueInv)'
    BY DEF SerialInv
  <1>0. ~overlapped /\ Exclusive /\ RequestInv /\ QueueInv
    <2> SUFFICES ASSUME overlapped PROVE overlapped'
      BY DEF SerialInv
    <2>1. ASSUME NEW t \in Threads, NEW to, Enter(t, to) PROVE overlapped'
      BY <2>1, Zenon DEF Enter
    <2>2. CASE SpeakerFrame \/ ReleaseSpeaker \/ Close \/ \E t \in Threads : AdminDisconnect(t)
      BY <2>1, <2>2, Zenon DEF SpeakerFrame, ReleaseSpeaker, Close, AdminDisconnect, Threads
    <2>3. CASE RequestKeyup \/ PutKeyup \/ PutVoice \/ SetStop \/ JoinPacer
      BY <2>3 DEF RequestKeyup, PutKeyup, PutVoice, SetStop, JoinPacer, PutNoWait, PopOldest,
                  producer
    <2>4. CASE \E t \in Threads : ClearKeyRequest(t) \/ DrainQueue(t) \/ PutUnkey(t)
      BY <2>4 DEF ClearKeyRequest, DrainQueue, PutUnkey, Drain, PutNoWait, producer
    <2>5. CASE Pacer
      BY <2>5 DEF Pacer, TakeItem, SendHeader, SendVoice, SendUnkey, SkipEdge, PacerExit, Send,
                  producer
    <2>6. CASE UNCHANGED vars
      BY <2>6 DEF vars
    <2>7. QED BY <2>2, <2>3, <2>4, <2>5, <2>6 DEF Next, Stopped
  <1> USE <1>0, UsrpTxAssumption DEF Threads, FrameSteps, UnkeySteps, RestSteps, Items,
          TypeOK, PlaceInv, Exclusive, Quiet
  <1>1. CASE SpeakerFrame
    BY <1>1 DEF SpeakerFrame, Enter, Goto, RequestInv, QueueInv, EndsInUnkey, EndsKeyed, pacer
  <1>2. CASE ReleaseSpeaker
    BY <1>2 DEF ReleaseSpeaker, Enter, Goto, RequestInv, QueueInv, EndsInUnkey, EndsKeyed, pacer
  <1>3. CASE Close
    BY <1>3 DEF Close, Enter, Goto, RequestInv, QueueInv, EndsInUnkey, EndsKeyed, pacer
  <1>4. CASE RequestKeyup
    BY <1>4 DEF RequestKeyup, Goto, RequestInv, QueueInv, EndsInUnkey, EndsKeyed, pacer
  <1>5. CASE PutKeyup
    BY <1>5, QueueOps
       DEF PutKeyup, PutNoWait, PopOldest, Goto, RequestInv, QueueInv, EndsInUnkey, EndsKeyed,
           pacer, producer
  <1>6. CASE PutVoice
    BY <1>6, QueueOps
       DEF PutVoice, PutNoWait, PopOldest, Goto, RequestInv, QueueInv, EndsInUnkey, EndsKeyed,
           pacer, producer
  <1>7. CASE SetStop
    BY <1>7 DEF SetStop, Goto, RequestInv, QueueInv, EndsInUnkey, EndsKeyed, pacer
  <1>8. CASE JoinPacer
    BY <1>8 DEF JoinPacer, Goto, RequestInv, QueueInv, EndsInUnkey, EndsKeyed, pacer, producer
  <1>9. ASSUME NEW t \in Threads, AdminDisconnect(t)
        PROVE  (Exclusive /\ RequestInv /\ QueueInv)'
    BY <1>9 DEF AdminDisconnect, Enter, Goto, RequestInv, QueueInv, EndsInUnkey, EndsKeyed, pacer
  <1>10. ASSUME NEW t \in Threads, ClearKeyRequest(t)
         PROVE  (Exclusive /\ RequestInv /\ QueueInv)'
    BY <1>10 DEF ClearKeyRequest, Goto, RequestInv, QueueInv, EndsInUnkey, EndsKeyed, pacer
  <1>11. ASSUME NEW t \in Threads, DrainQueue(t)
         PROVE  (Exclusive /\ RequestInv /\ QueueInv)'
    BY <1>11, QueueOps
       DEF DrainQueue, Drain, Goto, RequestInv, QueueInv, EndsInUnkey, EndsKeyed, pacer, producer
  <1>12. ASSUME NEW t \in Threads, PutUnkey(t)
         PROVE  (Exclusive /\ RequestInv /\ QueueInv)'
    BY <1>12, QueueOps
       DEF PutUnkey, PutNoWait, AfterUnkey, Goto, RequestInv, QueueInv, EndsInUnkey, EndsKeyed,
           pacer, producer
  <1>13. CASE TakeItem
    BY <1>13, QueueOps DEF TakeItem, RequestInv, QueueInv, EndsInUnkey, EndsKeyed, producer
  <1>14. CASE SendHeader \/ SendVoice \/ SendUnkey
    BY <1>14 DEF SendHeader, SendVoice, SendUnkey, Send, RequestInv, QueueInv, EndsInUnkey,
                 EndsKeyed, producer
  <1>15. CASE SkipEdge \/ PacerExit
    BY <1>15 DEF SkipEdge, PacerExit, RequestInv, QueueInv, EndsInUnkey, EndsKeyed, producer
  <1>16. CASE UNCHANGED vars
    BY <1>16 DEF vars, RequestInv, QueueInv, EndsInUnkey, EndsKeyed
  <1>17. QED
    BY <1>1, <1>2, <1>3, <1>4, <1>5, <1>6, <1>7, <1>8, <1>9, <1>10, <1>11, <1>12, <1>13,
       <1>14, <1>15, <1>16 DEF Next, Pacer, Stopped

(* The inductive invariant of the transmit side.                           *)
THEOREM Inductive == Spec => []IInv
  <1>1. Init => SerialInv
    BY UsrpTxAssumption DEF Init, SerialInv, Exclusive, RequestInv, QueueInv, EndsInUnkey,
       EndsKeyed, Quiet, UnkeySteps, FrameSteps, Threads
  <1>2. TypeOK /\ TypeOK' /\ PlaceInv /\ PlaceInv' /\ SerialInv /\ [Next]_vars => SerialInv'
    BY SerialStep
  <1>3. QED
    BY <1>1, <1>2, TypeCorrect, PlaceInvariant, PTL DEF Spec, IInv
-----------------------------------------------------------------------------
(* The transmitter is never left keyed with nobody speaking and nothing    *)
(* pending, as long as no two calls overlapped.                            *)
THEOREM NeverStuck == Spec => []SerialNoStuckKey
  <1>1. IInv => SerialNoStuckKey
    <2> SUFFICES ASSUME IInv, ~overlapped, ~active, NothingPending,
                        \A t \in Threads : Quiet(t)
                 PROVE  ~keyed
      BY DEF SerialNoStuckKey, NoStuckKey
    <2>1. ~keyRequested
      BY DEF IInv, SerialInv, RequestInv, Quiet
    <2>2. EndsInUnkey
      BY <2>1 DEF IInv, SerialInv, QueueInv, Quiet, UnkeySteps
    <2>3. QED
      BY <2>2 DEF EndsInUnkey, NothingPending
  <1>2. QED
    BY <1>1, Inductive, PTL

(* After close() the line is unkeyed, as long as no two calls overlapped.  *)
THEOREM CloseUnkeys == Spec => []ClosedUnkeyed
  <1>1. IInv => ClosedUnkeyed
    BY DEF IInv, ClosedUnkeyed, PlaceInv, SerialInv, QueueInv
  <1>2. QED
    BY <1>1, Inductive, PTL

(* A requested key-up reaches the line however full the queue was.         *)
THEOREM KeyupSurvives == Spec => []KeyupNotLost
  <1>1. IInv => KeyupNotLost
    <2> SUFFICES ASSUME IInv, ~overlapped, keyRequested, \A t \in Threads : pc[t] = "idle"
                 PROVE  IF Ahead = <<>> THEN keyed ELSE Ahead[Len(Ahead)] # "unkey"
      BY DEF KeyupNotLost
    <2>1. EndsKeyed
      BY DEF IInv, SerialInv, QueueInv, Threads
    <2>2. hand # "exited"
      BY DEF IInv, PlaceInv, Threads
    <2>3. queue \in Seq(Items) /\ hand \in Items \cup {"none"}
      BY <2>2 DEF IInv, TypeOK
    <2>4. CASE hand = "none"
      <3>1. Ahead = queue
        BY <2>3, <2>4, ConcatEmptySeq DEF Ahead, Items
      <3>2. QED
        BY <2>1, <2>4, <3>1 DEF EndsKeyed
    <2>5. CASE hand \in Items
      <3>1. /\ <<hand>> \in Seq(Items)
            /\ Len(<<hand>>) = 1
            /\ <<hand>>[1] = hand
            /\ Ahead = <<hand>> \o queue
        BY <2>5 DEF Ahead
      <3>2. /\ Len(Ahead) = 1 + Len(queue)
            /\ Ahead # <<>>
            /\ Len(queue) \in Nat
            /\ Ahead[1] = hand
            /\ Len(queue) > 0 => Ahead[Len(Ahead)] = queue[Len(queue)]
        BY <2>3, <3>1, ConcatProperties
      <3>3. CASE queue = <<>>
        <4>1. Len(queue) = 0
          BY <3>3, EmptySeq
        <4>2. QED
          BY <2>1, <2>5, <3>2, <3>3, <4>1 DEF EndsKeyed, Items
      <3>4. CASE queue # <<>>
        <4>1. Len(queue) > 0
          BY <2>3, <3>4, EmptySeq
        <4>2. QED
          BY <2>1, <3>2, <3>4, <4>1 DEF EndsKeyed
      <3>5. QED BY <3>3, <3>4
    <2>6. QED
      BY <2>3, <2>4, <2>5
  <1>2. QED
    BY <1>1, Inductive, PTL

(* UsrpTx implements the push-to-talk line of PttLine.                     *)
THEOREM ImplementsLine == Spec => LineSpec
  <1>1. Init => Line!PttInit
    BY DEF Init, Line!PttInit
  <1>2. TypeOK /\ [Next]_vars => [Line!PttNext]_(Line!pttVars)
    <2> SUFFICES ASSUME TypeOK, [Next]_vars, ~UNCHANGED <<keyed, last, seq>>
                 PROVE  Line!PttNext
      BY DEF Line!pttVars
    <2>1. SendHeader \/ SendVoice \/ SendUnkey
      BY DEF Next, vars, SpeakerFrame, ReleaseSpeaker, Close, RequestKeyup, PutKeyup, PutVoice,
             SetStop, JoinPacer, AdminDisconnect, ClearKeyRequest, DrainQueue, PutUnkey, Drain,
             PutNoWait, PopOldest, Pacer, TakeItem, SkipEdge, PacerExit, Stopped, pacer
    <2>2. QED
      BY <2>1 DEF TypeOK, SendHeader, SendVoice, SendUnkey, Send, Line!PttNext, Line!Keyup,
                  Line!Voice, Line!Unkey, Line!Packet
  <1>3. QED
    BY <1>1, <1>2, TypeCorrect, PTL DEF Spec, LineSpec, Line!PttSpec
=============================================================================
