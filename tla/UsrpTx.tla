-------------------------------- MODULE UsrpTx --------------------------------
(***************************************************************************)
(* The transmit side of the EchoLink service towards Analog_Bridge: the    *)
(* bounded queue of PTT edges and voice frames, the threads that put into  *)
(* it, and the pacer thread that turns its items into USRP packets.        *)
(*                                                                         *)
(*   Svc     the service thread: routes speaker audio, releases speakers,  *)
(*           and closes the service when its loop ends.                    *)
(*   Admins  other threads that disconnect stations (the runtime's main    *)
(*           thread: dashboard disconnects, bans and shutdown).            *)
(*                                                                         *)
(* Every get_nowait, put_nowait and locked section is one step, so the     *)
(* threads interleave between any two of them.  Of the conference only     *)
(* "is there an active speaker" is kept; EchoLinkService models the rest.  *)
(* The pacer's sleeps are left out, and the one second that close() waits  *)
(* for it is taken to be enough: it owes an item in hand and one unkey.    *)
(*                                                                         *)
(* The calls of two threads are not serialised by the code.  The history   *)
(* variable overlapped records whether that has mattered so far, so that   *)
(* the properties can say what holds until two calls overlap.              *)
(***************************************************************************)
EXTENDS Naturals, Sequences

CONSTANTS
  Svc,      \* the service thread
  Admins,   \* threads that only disconnect stations
  QMax,     \* capacity of _usrp_tx_queue (250 in the code)
  SeqMod    \* modulus of the USRP sequence number (2^32 in the code)

ASSUME UsrpTxAssumption ==
  /\ Svc \notin Admins
  /\ QMax \in Nat \ {0}
  /\ SeqMod \in Nat \ {0}

VARIABLES
  queue,         \* _usrp_tx_queue
  keyRequested,  \* _usrp_key_requested
  active,        \* conference.active_speaker is not None
  pc,            \* where each producer thread is inside its call
  closing,       \* close() has begun: _stop is set
  stop,          \* _usrp_tx_stop
  hand,          \* the item the pacer took and has not finished
  keyed,         \* _usrp_keyed
  last,          \* kind of the last packet on the USRP socket
  seq,           \* _usrp_seq
  overlapped     \* history: a call began while another thread was inside one

vars == <<queue, keyRequested, active, pc, closing, stop, hand, keyed, last, seq, overlapped>>
producer == <<keyRequested, active, closing, stop, overlapped>>
pacer == <<hand, keyed, last, seq>>

Threads == {Svc} \cup Admins
Items == {"keyup", "voice", "unkey"}
FrameSteps == {"putKey", "popKey", "rePutKey", "putVoice", "popVoice", "rePutVoice"}
UnkeySteps == {"drain", "putUnkey", "drainAgain", "rePutUnkey"}
RestSteps == {"idle", "keyLock", "setStop", "join", "closed"}
Steps == FrameSteps \cup UnkeySteps \cup RestSteps \cup {"unkeyLock"}

Init ==
  /\ queue = <<>>
  /\ keyRequested = FALSE
  /\ active = FALSE
  /\ pc = [t \in Threads |-> "idle"]
  /\ closing = FALSE
  /\ stop = FALSE
  /\ hand = "none"
  /\ keyed = FALSE
  /\ last = "nothing"
  /\ seq = 1 % SeqMod
  /\ overlapped = FALSE
-----------------------------------------------------------------------------
Goto(t, from, to) == pc[t] = from /\ pc' = [pc EXCEPT ![t] = to]

Quiet(t) == pc[t] \in {"idle", "closed"}

(* Thread t enters a call.                                                 *)
Enter(t, to) ==
  /\ Goto(t, "idle", to)
  /\ overlapped' = (overlapped \/ \E u \in Threads \ {t} : ~Quiet(u))

(* The continuation of _queue_usrp_unkey: only close() goes on to stop.    *)
AfterUnkey(t) == IF t = Svc /\ closing THEN "setStop" ELSE "idle"

(* Mutant: an unbounded queue.Queue().                                     *)
PutUnbounded(t, at, item, ok, full) ==
  /\ Goto(t, at, ok)
  /\ queue' = Append(queue, item)
  /\ UNCHANGED <<producer, pacer>>

(* queue.put_nowait: go on at `ok`, or at `full` when queue.Full is raised. *)
PutNoWait(t, at, item, ok, full) ==
  /\ Goto(t, at, IF Len(queue) < QMax THEN ok ELSE full)
  /\ queue' = IF Len(queue) < QMax THEN Append(queue, item) ELSE queue
  /\ UNCHANGED <<producer, pacer>>

(* queue.get_nowait of a producer; queue.Empty is swallowed.               *)
PopOldest(t, at, to) ==
  /\ Goto(t, at, to)
  /\ queue' = IF queue = <<>> THEN queue ELSE Tail(queue)
  /\ UNCHANGED <<producer, pacer>>

(* _drain_usrp_queue: one get_nowait per step until queue.Empty.           *)
Drain(t, at, to) ==
  /\ Goto(t, at, IF queue = <<>> THEN to ELSE at)
  /\ queue' = IF queue = <<>> THEN queue ELSE Tail(queue)
  /\ UNCHANGED <<producer, pacer>>
-----------------------------------------------------------------------------
(* speaker_pcm with a frame the conference accepts, up to the call of      *)
(* _send_pcm_to_usrp: the speaker is selected and the frame is on its way. *)
SpeakerFrame ==
  /\ ~closing
  /\ Enter(Svc, "keyLock")
  /\ active' = TRUE
  /\ UNCHANGED <<queue, keyRequested, closing, stop, pacer>>

(* _queue_usrp_keyup, the section under _usrp_state_lock.                  *)
RequestKeyup ==
  /\ Goto(Svc, "keyLock", IF keyRequested THEN "putVoice" ELSE "putKey")
  /\ keyRequested' = TRUE
  /\ UNCHANGED <<queue, active, closing, stop, overlapped, pacer>>

PutKeyup ==
  \/ PutNoWait(Svc, "putKey", "keyup", "putVoice", "popKey")
  \/ PopOldest(Svc, "popKey", "rePutKey")
  \/ PutNoWait(Svc, "rePutKey", "keyup", "putVoice", "putVoice")

(* The rest of _send_pcm_to_usrp.                                          *)
PutVoice ==
  \/ PutNoWait(Svc, "putVoice", "voice", "idle", "popVoice")
  \/ PopOldest(Svc, "popVoice", "rePutVoice")
  \/ PutNoWait(Svc, "rePutVoice", "voice", "idle", "idle")

(* Mutant: the run loop ignores what release_inactive_speaker returned.    *)
ReleaseWithoutUnkey ==
  /\ ~closing /\ active /\ pc[Svc] = "idle"
  /\ active' = FALSE
  /\ UNCHANGED <<queue, keyRequested, pc, closing, stop, overlapped, pacer>>

(* The service thread stops the active speaker: release_inactive_speaker   *)
(* after the idle timeout, or _disconnect_peer of the active speaker.      *)
ReleaseSpeaker ==
  /\ ~closing /\ active
  /\ Enter(Svc, "unkeyLock")
  /\ active' = FALSE
  /\ UNCHANGED <<queue, keyRequested, closing, stop, pacer>>

(* disconnect_station / disconnect_all of the active speaker by another    *)
(* thread: was_active is read, the station is removed, the unkey follows.  *)
AdminDisconnect(t) ==
  /\ t # Svc /\ active
  /\ Enter(t, "unkeyLock")
  /\ active' = FALSE
  /\ UNCHANGED <<queue, keyRequested, closing, stop, pacer>>

(* Mutant: close() tears down without queueing the final unkey first.      *)
CloseWithoutUnkey ==
  /\ ~closing
  /\ Enter(Svc, "setStop")
  /\ closing' = TRUE
  /\ UNCHANGED <<queue, keyRequested, active, stop, pacer>>

(* close(), called in run()'s finally.                                     *)
Close ==
  /\ ~closing
  /\ Enter(Svc, "unkeyLock")
  /\ closing' = TRUE
  /\ UNCHANGED <<queue, keyRequested, active, stop, pacer>>

(* Mutant: _usrp_key_requested is not reset.                               *)
KeepKeyRequest(t) ==
  /\ Goto(t, "unkeyLock", "drain")
  /\ UNCHANGED <<queue, producer, pacer>>

(* _queue_usrp_unkey(clear_pending=True), the only form the service calls. *)
ClearKeyRequest(t) ==
  /\ Goto(t, "unkeyLock", "drain")
  /\ keyRequested' = FALSE
  /\ UNCHANGED <<queue, active, closing, stop, overlapped, pacer>>

DrainQueue(t) ==
  \/ Drain(t, "drain", "putUnkey")
  \/ Drain(t, "drainAgain", "rePutUnkey")

PutUnkey(t) ==
  \/ PutNoWait(t, "putUnkey", "unkey", AfterUnkey(t), "drainAgain")
  \/ PutNoWait(t, "rePutUnkey", "unkey", AfterUnkey(t), AfterUnkey(t))

SetStop ==
  /\ Goto(Svc, "setStop", "join")
  /\ stop' = TRUE
  /\ UNCHANGED <<queue, keyRequested, active, closing, overlapped, pacer>>

(* The join returns when the pacer has exited; the sockets are closed.     *)
JoinPacer ==
  /\ hand = "exited"
  /\ Goto(Svc, "join", "closed")
  /\ UNCHANGED <<queue, producer, pacer>>
-----------------------------------------------------------------------------
(* _usrp_tx_loop: the pacer thread.                                        *)
TakeItem ==
  /\ hand = "none" /\ queue # <<>>
  /\ hand' = Head(queue)
  /\ queue' = Tail(queue)
  /\ UNCHANGED <<producer, pc, keyed, last, seq>>

(* _send_usrp_packet                                                       *)
Send(kind, key) ==
  /\ keyed' = key
  /\ last' = kind
  /\ seq' = (seq + 1) % SeqMod
  /\ UNCHANGED <<queue, producer, pc>>

(* The header of a key-up item, or the defensive one before a voice frame. *)
SendHeader ==
  /\ hand \in {"keyup", "voice"} /\ ~keyed
  /\ Send("header", TRUE)
  /\ hand' = IF hand = "keyup" THEN "none" ELSE hand

(* Mutant: no defensive key-up: the voice frame itself keys the line.      *)
SendVoiceUnheralded ==
  /\ hand = "voice"
  /\ Send("voice", TRUE)
  /\ hand' = "none"

SendVoice ==
  /\ hand = "voice" /\ keyed
  /\ Send("voice", TRUE)
  /\ hand' = "none"

SendUnkey ==
  /\ hand = "unkey" /\ keyed
  /\ Send("unkey", FALSE)
  /\ hand' = "none"

(* A key-up while keyed, or an unkey while not keyed, sends nothing.       *)
SkipEdge ==
  /\ \/ hand = "keyup" /\ keyed
     \/ hand = "unkey" /\ ~keyed
  /\ hand' = "none"
  /\ UNCHANGED <<queue, producer, pc, keyed, last, seq>>

PacerExit ==
  /\ hand = "none" /\ stop /\ queue = <<>>
  /\ hand' = "exited"
  /\ UNCHANGED <<queue, producer, pc, keyed, last, seq>>

Pacer == TakeItem \/ SendHeader \/ SendVoice \/ SendUnkey \/ SkipEdge \/ PacerExit
-----------------------------------------------------------------------------
(* Steps of a thread that is inside a call, and so is bound to go on.      *)
Unkeying(t) == ClearKeyRequest(t) \/ DrainQueue(t) \/ PutUnkey(t)
SvcContinues ==
  RequestKeyup \/ PutKeyup \/ PutVoice \/ Unkeying(Svc) \/ SetStop \/ JoinPacer

Stopped == pc[Svc] = "closed" /\ UNCHANGED vars

Next ==
  \/ SpeakerFrame \/ ReleaseSpeaker \/ Close
  \/ RequestKeyup \/ PutKeyup \/ PutVoice \/ SetStop \/ JoinPacer
  \/ \E t \in Threads : AdminDisconnect(t) \/ ClearKeyRequest(t) \/ DrainQueue(t) \/ PutUnkey(t)
  \/ Pacer
  \/ Stopped

(* The pacer and a thread inside a call run on; the run loop polls the     *)
(* idle timeout at least every 0.25 s, so a speaker whose audio has ceased *)
(* is released.  Nobody is obliged to speak, disconnect or close.          *)
Fairness ==
  /\ WF_vars(Pacer)
  /\ WF_vars(SvcContinues)
  /\ \A t \in Admins : WF_vars(Unkeying(t))
  /\ WF_vars(ReleaseSpeaker)

Spec == Init /\ [][Next]_vars /\ Fairness
-----------------------------------------------------------------------------
TypeOK ==
  /\ queue \in Seq(Items)
  /\ Len(queue) <= QMax
  /\ keyRequested \in BOOLEAN
  /\ active \in BOOLEAN
  /\ pc \in [Threads -> Steps]
  /\ closing \in BOOLEAN
  /\ stop \in BOOLEAN
  /\ hand \in Items \cup {"none", "exited"}
  /\ keyed \in BOOLEAN
  /\ last \in {"nothing", "header", "voice", "unkey"}
  /\ seq \in 0 .. SeqMod - 1
  /\ overlapped \in BOOLEAN

NothingPending == queue = <<>> /\ hand \in {"none", "exited"}

(* What the service thread has asked for and the pacer has not yet done.   *)
Ahead == (IF hand \in Items THEN <<hand>> ELSE <<>>) \o queue

(* No stuck transmitter (_queue_usrp_unkey, _usrp_tx_loop): when no        *)
(* speaker is selected, no thread is inside a call and nothing is queued   *)
(* or in the pacer's hand, Analog_Bridge is not keyed.  Nothing would ever *)
(* unkey it: release_inactive_speaker acts on an active speaker only.      *)
NoStuckKey ==
  (~active /\ NothingPending /\ \A t \in Threads : Quiet(t)) => ~keyed

(* No stuck transmitter as long as the calls of two threads (speaker audio *)
(* on one, an administrative disconnect on the other) have not overlapped. *)
SerialNoStuckKey == ~overlapped => NoStuckKey

(* close() leaves Analog_Bridge unkeyed: the queued unkey is sent before   *)
(* the transmit socket goes away (service.py:154-156), again unless calls  *)
(* overlapped.                                                             *)
ClosedUnkeyed == (~overlapped /\ pc[Svc] = "closed") => ~keyed

(* The PTT edge survives queue pressure (service.py:613-614, 653-656):     *)
(* while key-up is requested and no thread is inside a call, either the    *)
(* line is keyed and nothing is pending, or the last pending item keys it. *)
KeyupNotLost ==
  (~overlapped /\ keyRequested /\ \A t \in Threads : pc[t] = "idle") =>
     IF Ahead = <<>> THEN keyed ELSE Ahead[Len(Ahead)] # "unkey"

(* The wire is a push-to-talk line (PttLine), whatever the queue dropped   *)
(* and whichever calls overlapped.                                         *)
Line == INSTANCE PttLine WITH ptt <- keyed
LineSpec == Line!PttSpec

(* A speaker that falls silent does not hold the line: unless calls        *)
(* overlapped, the line does not stay keyed for ever while the service     *)
(* thread is idle (release_inactive_speaker, the unkey and the pacer).     *)
SilenceUnkeys == <>overlapped \/ []<>(~keyed \/ ~Quiet(Svc))
=============================================================================
