--------------------------- MODULE EchoLinkDownlink ---------------------------
(***************************************************************************)
(* The half of the EchoLink service that voice takes towards the clients:  *)
(* USRP packets from Analog_Bridge and the voice of the speaking station   *)
(* go, frame by frame, into a buffer per station, from which every         *)
(* PacketFrames frames leave as one RTP packet; the tail of the run loop   *)
(* ends DMR audio that has gone idle and sends the roster.                 *)
(*                                                                         *)
(* The service thread walks the dictionaries of stations and peers with no *)
(* lock while the main thread may delete from them (variable walk): a walk *)
(* that finds its dictionary shrunk raises RuntimeError, and nothing       *)
(* catches it.  EchoLinkService keeps peers_by_call and                    *)
(* conference.stations equal; here they are one set, and each of its       *)
(* members has an audio address.  Nothing in the program ever mutes a      *)
(* station.  next_rtp_marker and rtp_timestamp are left out: no packet     *)
(* carries them.                                                           *)
(***************************************************************************)
EXTENDS Naturals, FiniteSets

CONSTANTS
  Calls,         \* callsigns of EchoLink stations
  NoCall,        \* no callsign
  PacketFrames,  \* GSM frames per RTP packet (4)
  RtpMod,        \* modulus of the RTP sequence number (65536)
  IdleTimeout,   \* idle time that ends DMR audio, in ticks
  RosterPeriod   \* time between two rosters, in ticks

ASSUME EchoLinkDownlinkAssumption ==
  /\ NoCall \notin Calls
  /\ PacketFrames \in Nat \ {0}
  /\ RtpMod \in Nat \ {0}
  /\ IdleTimeout \in Nat \ {0}
  /\ RosterPeriod \in Nat \ {0}

VARIABLES
  stations,     \* keys of peers_by_call and of conference.stations
  pending,      \* frames in pending_pcm of each peer
  rtpSequence,  \* rtp_sequence of each peer
  heard,        \* history: frames given to each peer, modulo PacketFrames * RtpMod
  unsent,       \* history: RTP packets of each peer that failed, modulo RtpMod
  dmrActive,    \* _dmr_audio_active
  dmrIdle,      \* time since _last_dmr_usrp_at
  rosterAge,    \* time since _last_roster
  walk,         \* the dictionary walk the service thread is in
  left,         \* the stations it has not come to yet
  speaker,      \* the station whose voice is being repeated
  shrunk,       \* the dictionary has lost a key since the walk began
  polled,       \* the tail of the run loop has run in this tick
  stopping,     \* _stop
  alive         \* the service thread runs

buffers == <<pending, rtpSequence, heard, unsent>>
walking == <<walk, left, speaker, shrunk>>
vars == <<stations, buffers, dmrActive, dmrIdle, rosterAge, walking, polled, stopping, alive>>
clock == <<dmrIdle, rosterAge, polled>>

FrameMod == PacketFrames * RtpMod

(* "mark": _mark_dmr_audio_start; "collect": the recipients of a DMR frame *)
(* (broadcast_from_dmr); "repeat": those of a station's frame              *)
(* (route_speaker_audio); "send": the frame to each of them, a list that   *)
(* cannot shrink; "roster": _send_periodic_roster.                         *)
Walks == {"none", "mark", "collect", "repeat", "send", "roster"}

Init ==
  /\ stations = {}
  /\ pending = [c \in Calls |-> 0]
  /\ rtpSequence = [c \in Calls |-> 0]
  /\ heard = [c \in Calls |-> 0]
  /\ unsent = [c \in Calls |-> 0]
  /\ dmrActive = FALSE
  /\ dmrIdle = 0
  /\ rosterAge = RosterPeriod
  /\ walk = "none"
  /\ left = {}
  /\ speaker = NoCall
  /\ shrunk = FALSE
  /\ polled = TRUE
  /\ stopping = FALSE
  /\ alive = TRUE

Idle == alive /\ walk = "none"

Begin(name, calls) == walk' = name /\ left' = calls /\ shrunk' = FALSE
EndWalk == Begin("none", {}) /\ speaker' = NoCall

(* An exception leaves run() through its finally.                          *)
Raise == alive' = FALSE /\ EndWalk
-----------------------------------------------------------------------------
(* A station connects: a new peer.                                         *)
Join(c) ==
  /\ Idle /\ c \notin stations
  /\ stations' = stations \cup {c}
  /\ pending' = [pending EXCEPT ![c] = 0]
  /\ rtpSequence' = [rtpSequence EXCEPT ![c] = 0]
  /\ heard' = [heard EXCEPT ![c] = 0]
  /\ unsent' = [unsent EXCEPT ![c] = 0]
  /\ UNCHANGED <<dmrActive, clock, walking, stopping, alive>>

(* The service thread itself disconnects one: a BYE or the peer timeout.   *)
Part(c) ==
  /\ Idle /\ c \in stations
  /\ stations' = stations \ {c}
  /\ UNCHANGED <<buffers, dmrActive, clock, walking, stopping, alive>>

(* The main thread disconnects one, whatever the service thread is in.     *)
Remove(c) ==
  /\ alive /\ c \in stations
  /\ stations' = stations \ {c}
  /\ shrunk' = (walk \notin {"none", "send"})
  /\ UNCHANGED <<buffers, dmrActive, clock, walk, left, speaker, stopping, alive>>
-----------------------------------------------------------------------------
(* Mutant: the frames of a packet stay in the buffer when it fails.        *)
KeepUnsent(c, delivered) ==
  LET full == pending[c] + 1 = PacketFrames
  IN  /\ heard' = [heard EXCEPT ![c] = (@ + 1) % FrameMod]
      /\ pending' = [pending EXCEPT ![c] = IF full /\ ~delivered THEN @ ELSE (@ + 1) % PacketFrames]
      /\ rtpSequence' = [rtpSequence EXCEPT ![c] = IF full /\ delivered THEN (@ + 1) % RtpMod ELSE @]
      /\ unsent' = [unsent EXCEPT ![c] = IF full /\ ~delivered THEN (@ + 1) % RtpMod ELSE @]

(* _send_pcm_to_station: a frame into the buffer of c, and when that holds *)
(* a packet, the packet out of it; sent or not, its frames are gone.       *)
SendPcm(c, delivered) ==
  LET full == pending[c] + 1 = PacketFrames
  IN  /\ heard' = [heard EXCEPT ![c] = (@ + 1) % FrameMod]
      /\ pending' = [pending EXCEPT ![c] = (@ + 1) % PacketFrames]
      /\ rtpSequence' = [rtpSequence EXCEPT ![c] = IF full /\ delivered THEN (@ + 1) % RtpMod ELSE @]
      /\ unsent' = [unsent EXCEPT ![c] = IF full /\ ~delivered THEN (@ + 1) % RtpMod ELSE @]

(* _handle_usrp, a voice frame, whatever its PTT word says.                *)
UsrpVoice ==
  /\ Idle
  /\ Begin(IF dmrActive THEN "collect" ELSE "mark", stations)
  /\ dmrActive' = TRUE
  /\ dmrIdle' = 0
  /\ UNCHANGED <<stations, buffers, rosterAge, speaker, polled, stopping, alive>>

(* A packet of its header only, not keyed.                                 *)
UsrpUnkey ==
  /\ Idle
  /\ dmrActive' = FALSE
  /\ UNCHANGED <<stations, buffers, clock, walking, stopping, alive>>

(* speaker_pcm: the voice of the active speaker goes to the others.  DMR   *)
(* and EchoLink frames share the buffers.                                  *)
SpeakerVoice(c) ==
  /\ Idle /\ c \in stations
  /\ Begin("repeat", stations)
  /\ speaker' = c
  /\ UNCHANGED <<stations, buffers, dmrActive, clock, stopping, alive>>

(* The next key of the dictionary.                                         *)
Visit(c) ==
  /\ alive /\ walk \in {"mark", "collect", "repeat"} /\ c \in left /\ ~shrunk
  /\ left' = left \ {c}
  /\ UNCHANGED <<stations, buffers, dmrActive, clock, walk, speaker, shrunk, stopping, alive>>

(* The next recipient; one that has gone since is skipped.                 *)
SendFrame(c, delivered) ==
  /\ alive /\ walk = "send" /\ c \in left
  /\ IF c \in stations THEN SendPcm(c, delivered) ELSE UNCHANGED buffers
  /\ left' = left \ {c}
  /\ UNCHANGED <<stations, dmrActive, clock, walk, speaker, shrunk, stopping, alive>>

(* The roster to the next client.  sendto is not guarded here.             *)
SendRoster(c, delivered) ==
  /\ alive /\ walk = "roster" /\ c \in left /\ ~shrunk
  /\ IF delivered THEN left' = left \ {c} /\ UNCHANGED <<walk, speaker, shrunk, alive>> ELSE Raise
  /\ UNCHANGED <<stations, buffers, dmrActive, clock, stopping>>

(* The end of a walk: "mark" goes on to "collect"; that and "repeat" go on *)
(* to "send", which leaves the speaker out.                                *)
WalkDone ==
  /\ alive /\ walk # "none" /\ left = {} /\ ~shrunk
  /\ CASE walk = "mark" -> Begin("collect", stations) /\ UNCHANGED speaker
       [] walk \in {"collect", "repeat"} -> Begin("send", stations \ {speaker}) /\ speaker' = NoCall
       [] OTHER -> EndWalk
  /\ UNCHANGED <<stations, buffers, dmrActive, clock, stopping, alive>>

(* RuntimeError: dictionary changed size during iteration.                 *)
WalkRaises ==
  /\ alive /\ shrunk
  /\ Raise
  /\ UNCHANGED <<stations, buffers, dmrActive, clock, stopping>>
-----------------------------------------------------------------------------
(* Mutant: the time stamp of the last frame is not looked at.              *)
NeverIdle == FALSE

(* _release_inactive_dmr_audio.                                            *)
DmrSilent == dmrIdle >= IdleTimeout

(* The tail of the run loop.                                               *)
Housekeeping ==
  /\ Idle
  /\ dmrActive' = (dmrActive /\ ~DmrSilent)
  /\ IF rosterAge >= RosterPeriod
     THEN Begin("roster", stations) /\ rosterAge' = 0 /\ UNCHANGED speaker
     ELSE UNCHANGED <<walking, rosterAge>>
  /\ polled' = TRUE
  /\ UNCHANGED <<stations, buffers, dmrIdle, stopping, alive>>

(* A tick is long enough for the loop to come round.                       *)
Tick ==
  /\ Idle /\ polled
  /\ dmrIdle' = IF dmrIdle < IdleTimeout THEN dmrIdle + 1 ELSE dmrIdle
  /\ rosterAge' = IF rosterAge < RosterPeriod THEN rosterAge + 1 ELSE rosterAge
  /\ polled' = FALSE
  /\ UNCHANGED <<stations, buffers, dmrActive, walking, stopping, alive>>

RequestStop ==
  /\ ~stopping
  /\ stopping' = TRUE
  /\ UNCHANGED <<stations, buffers, dmrActive, clock, walking, alive>>

LeaveRun ==
  /\ Idle /\ stopping
  /\ alive' = FALSE
  /\ UNCHANGED <<stations, buffers, dmrActive, clock, walking, stopping>>

(* What the service thread does when it is in the middle of something.     *)
ContinueWalk ==
  \/ \E c \in Calls : Visit(c)
  \/ \E c \in Calls, delivered \in BOOLEAN : SendFrame(c, delivered) \/ SendRoster(c, delivered)
  \/ WalkDone \/ WalkRaises

(* Stopped, by request or by an exception.                                 *)
Dead == ~alive /\ UNCHANGED vars

Next ==
  \/ \E c \in Calls : Join(c) \/ Part(c) \/ Remove(c) \/ SpeakerVoice(c)
  \/ UsrpVoice \/ UsrpUnkey
  \/ ContinueWalk
  \/ Housekeeping \/ Tick \/ RequestStop \/ LeaveRun
  \/ Dead

(* The thread goes on with a walk, time passes, and the tail of the loop   *)
(* is reached after each round of at most one packet per socket, although  *)
(* packets disable it again and again.                                     *)
Fairness == WF_vars(ContinueWalk) /\ SF_vars(Housekeeping) /\ SF_vars(Tick)

Spec == Init /\ [][Next]_vars /\ Fairness
-----------------------------------------------------------------------------
TypeOK ==
  /\ stations \subseteq Calls
  /\ pending \in [Calls -> 0 .. PacketFrames - 1]
  /\ rtpSequence \in [Calls -> 0 .. RtpMod - 1]
  /\ heard \in [Calls -> 0 .. FrameMod - 1]
  /\ unsent \in [Calls -> 0 .. RtpMod - 1]
  /\ dmrActive \in BOOLEAN
  /\ dmrIdle \in 0 .. IdleTimeout
  /\ rosterAge \in 0 .. RosterPeriod
  /\ walk \in Walks
  /\ left \subseteq Calls
  /\ speaker \in Calls \cup {NoCall}
  /\ shrunk \in BOOLEAN /\ polled \in BOOLEAN /\ stopping \in BOOLEAN /\ alive \in BOOLEAN

(* Of the frames a station was given since it connected, each but the last *)
(* few has left in one RTP packet under its sequence number or was lost    *)
(* with one whose sending failed: none is repeated or skipped, whoever     *)
(* joins, leaves and speaks in between (service.py:544-569).               *)
FramesAccounted ==
  \A c \in Calls :
    heard[c] = (PacketFrames * (rtpSequence[c] + unsent[c]) + pending[c]) % FrameMod

(* When DMR voice stops, with an unkey, without one or with one that is    *)
(* lost on the way, the service stops reporting DMR audio as active,       *)
(* whatever goes on among the EchoLink clients (service.py:699-705).       *)
DmrReleased == <>[](walk # "collect") => <>[](~dmrActive \/ ~alive)
=============================================================================
