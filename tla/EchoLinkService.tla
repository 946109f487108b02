--------------------------- MODULE EchoLinkService ---------------------------
(***************************************************************************)
(* The EchoLink conference service: which stations are connected, at which *)
(* addresses they are found, who the active speaker is, and whether the    *)
(* gateway has been asked to key.  Two threads act on that state: the      *)
(* service thread, which handles one packet at a time and keeps house at   *)
(* the end of each round of its loop, and the runtime's main thread, which *)
(* disconnects, blocks and stops.                                          *)
(*                                                                         *)
(* No lock orders the two.  A handler of the service thread is split where *)
(* it comes back to state it has looked at (job), and _disconnect_peer,    *)
(* which both threads call, is split at each thing it changes (leaving).   *)
(* A command about the very station whose packet or removal the service    *)
(* thread has in hand sets the history variable raced, and the model does  *)
(* not follow the service from there on, where a callsign may stand for    *)
(* two peer objects.                                                       *)
(*                                                                         *)
(* Left out: texts and codecs (a packet is a goodbye, an identity, voice   *)
(* of some frames, maybe none, or noise), statistics, roster and status    *)
(* files, and replies, none of which changes the state kept here; that any *)
(* of these may fail is in Raise.  allow_duplicate_callsigns is false, its *)
(* default, and the ban list is edited by the dashboard only.  Where the   *)
(* code takes the first match in dictionary order, the model takes any.    *)
(***************************************************************************)
EXTENDS Integers, FiniteSets

CONSTANTS
  Named,           \* callsigns a client may identify itself with
  Ips,             \* client IP addresses
  Addrs,           \* client UDP endpoints
  IpOf,            \* the IP address of an endpoint
  Claims,          \* the callsigns that come from an endpoint to a socket
  Bannable,        \* the callsigns that the ban list may come to name
  NoCall,          \* no callsign (None)
  NoAddr,          \* no endpoint (None)
  MaxStations,     \* echolink.max_connected_stations
  MaxFrames,       \* the most GSM frames that one packet carries
  PeerTimeout,     \* echolink.client_timeout_seconds, in ticks
  SpeakerTimeout,  \* the audio-idle timeout of the active speaker, in ticks
  CallsFail        \* a send, a file or a walk over a dictionary may raise

(* Stations that send audio before any identity, or an SDES without one,   *)
(* are known by their IP.                                                  *)
UnknownCall(ip) == <<"UNKNOWN", ip>>
Calls == Named \cup {UnknownCall(ip) : ip \in Ips}
Sockets == {"control", "audio"}

ASSUME ServiceAssumption ==
  /\ IpOf \in [Addrs -> Ips]
  /\ Claims \in [Addrs -> [Sockets -> SUBSET Calls]]
  /\ Bannable \subseteq Calls
  /\ NoCall \notin Calls
  /\ NoAddr \notin Addrs
  /\ MaxStations \in Nat \ {0}
  /\ MaxFrames \in Nat
  /\ PeerTimeout \in Nat \ {0}
  /\ SpeakerTimeout \in Nat \ {0}
  /\ CallsFail \in BOOLEAN

VARIABLES
  known,         \* keys of peers_by_call
  control,       \* control_addr of each peer
  audio,         \* audio_addr of each peer
  age,           \* ticks since last_rx of each peer
  byIp,          \* peers_by_ip
  stations,      \* keys of conference.stations
  active,        \* conference.active_speaker
  speakerAge,    \* ticks since last_heard_at of the active speaker
  keyRequested,  \* _usrp_key_requested, as UsrpTx keeps it
  job,           \* the packet or the round the service thread is in
  leaving,       \* the _disconnect_peer that each thread is in
  banned,        \* callsigns that access_rules.check refuses
  main,          \* what the runtime's main thread is doing
  target,        \* the callsigns it has still to disconnect
  alive,         \* the service thread runs
  stopping,      \* _stop
  polled,        \* the run loop has done its housekeeping in this tick
  raced          \* history: a command hit the station in hand

tableVars == <<known, control, audio, age, byIp, stations>>
speakerVars == <<active, speakerAge, keyRequested>>
mainVars == <<main, target, stopping>>
vars == <<tableVars, speakerVars, mainVars, job, leaving, alive, polled, banned, raced>>

Threads == {"service", "main"}

(* A job: what is left to do for the peer of callsign call.  For admit, the *)
(* access rules have allowed it; for add, it is in peers_by_call; for bind, *)
(* it is connected; for heard, its audio is decoded; for voice, a frame is  *)
(* to be routed; for key, the frame has the floor.  voice counts the frames *)
(* left, or is -1 when the packet has no voice that can be decoded: voice   *)
(* of no frames is an RTP header with nothing behind it.                    *)
NoJob == [step |-> "none", call |-> NoCall, addr |-> NoAddr, sock |-> "audio", voice |-> -1]
Tail == [NoJob EXCEPT !.step = "tail"]
Job(step, c, addr, sock, voice) ==
  [step |-> step, call |-> c, addr |-> addr, sock |-> sock, voice |-> voice]
HeardFrom(c, voice) == Job("heard", c, NoAddr, "audio", voice)

(* A removal: station, leave the conference; peer, leave peers_by_call;     *)
(* ips, leave peers_by_ip, of which ips are the entries found; key, unkey,  *)
(* if it was the speaker.                                                   *)
NotLeaving == [step |-> "none", call |-> NoCall, wasActive |-> FALSE, ips |-> {}]

Init ==
  /\ known = {}
  /\ control = [c \in Calls |-> NoAddr]
  /\ audio = [c \in Calls |-> NoAddr]
  /\ age = [c \in Calls |-> 0]
  /\ byIp = [ip \in Ips |-> NoCall]
  /\ stations = {}
  /\ active = NoCall
  /\ speakerAge = 0
  /\ keyRequested = FALSE
  /\ job = NoJob
  /\ leaving = [t \in Threads |-> NotLeaving]
  /\ banned \in SUBSET Bannable
  /\ main = "idle"
  /\ target = {}
  /\ alive = TRUE
  /\ stopping = FALSE
  /\ polled = TRUE
  /\ raced = FALSE

(* The removal or block that the main thread is in is about the station    *)
(* whose packet or removal the service thread has in hand.                 *)
Collide ==
  \/ leaving["main"].step # "none" /\ leaving["main"].call \in {job.call, leaving["service"].call}
  \/ main = "blocking" /\ job.call \in target

Watch == raced' = (raced \/ Collide')

(* The service thread can take a packet or keep house.                     *)
Ready == alive /\ job = NoJob /\ leaving["service"] = NotLeaving /\ ~raced

(* The service thread leaves run(), through its finally: close() unkeys.   *)
Die ==
  /\ alive' = FALSE
  /\ keyRequested' = FALSE
  /\ job' = NoJob
  /\ leaving' = [leaving EXCEPT !["service"] = NotLeaving]
-----------------------------------------------------------------------------
(* _peer_for_disconnect_addr: the peers it may find: one at this endpoint, *)
(* else the one last seen at this IP, else the only one there is.          *)
Lookup(addr) ==
  LET exact == {c \in known : addr \in {control[c], audio[c]}}
      seen == {byIp[IpOf[addr]]} \ {NoCall}
  IN  IF exact # {} THEN exact
      ELSE IF seen # {} THEN seen
      ELSE IF Cardinality(known) = 1 THEN known ELSE {}

(* _touch_peer_by_addr, at the head of both handlers: last_rx is set.      *)
Touch(addr) ==
  IF Lookup(addr) = {} THEN UNCHANGED age ELSE \E c \in Lookup(addr) : age' = [age EXCEPT ![c] = 0]
-----------------------------------------------------------------------------
(* _disconnect_peer, by thread t.  Mutant: was_active is read after        *)
(* remove_station, so it is never true.                                    *)
NeverActive(c) == FALSE

WasActive(c) == active = c

(* Thread t enters _disconnect_peer, which returns if the peer is gone.    *)
Disconnect(t, c) ==
  leaving' = IF c \in known
             THEN [leaving EXCEPT ![t] =
                     [step |-> "station", call |-> c, wasActive |-> WasActive(c), ips |-> {}]]
             ELSE leaving

(* Mutant: a station that is speaking stays in the conference.             *)
LeaveUnlessSpeaking(c) == stations' = stations \ ({c} \ {active})

LeaveConference(c) == stations' = stations \ {c}

FreeFloor == active' = NoCall /\ speakerAge' = 0

RemoveStation(t) ==
  LET c == leaving[t].call
  IN  /\ leaving[t].step = "station"
      /\ IF active = c THEN FreeFloor ELSE UNCHANGED <<active, speakerAge>>
      /\ LeaveConference(c)
      /\ leaving' = [leaving EXCEPT ![t].step = "peer"]
      /\ UNCHANGED <<known, control, audio, age, byIp, keyRequested, mainVars, job, alive, polled, banned>>

ForgetPeer(t) ==
  LET c == leaving[t].call
  IN  /\ leaving[t].step = "peer"
      /\ known' = known \ {c}
      /\ control' = [control EXCEPT ![c] = NoAddr]
      /\ audio' = [audio EXCEPT ![c] = NoAddr]
      /\ age' = [age EXCEPT ![c] = 0]
      /\ leaving' = [leaving EXCEPT ![t].step = "ips", ![t].ips = {ip \in Ips : byIp[ip] = c}]
      /\ UNCHANGED <<byIp, stations, speakerVars, mainVars, job, alive, polled, banned>>

(* Mutant: peers_by_ip keeps its entries.                                  *)
KeepIps(ips) == UNCHANGED byIp

(* The entries that were found are popped, whatever they have become.      *)
PopIps(ips) == byIp' = [ip \in Ips |-> IF ip \in ips THEN NoCall ELSE byIp[ip]]

ForgetIps(t) ==
  /\ leaving[t].step = "ips"
  /\ PopIps(leaving[t].ips)
  /\ leaving' = IF leaving[t].wasActive
                THEN [leaving EXCEPT ![t].step = "key", ![t].ips = {}]
                ELSE [leaving EXCEPT ![t] = NotLeaving]
  /\ UNCHANGED <<known, control, audio, age, stations, speakerVars, mainVars, job, alive, polled, banned>>

Unkey(t) ==
  /\ leaving[t].step = "key"
  /\ keyRequested' = FALSE
  /\ leaving' = [leaving EXCEPT ![t] = NotLeaving]
  /\ UNCHANGED <<tableVars, active, speakerAge, mainVars, job, alive, polled, banned>>

Leave(t) == RemoveStation(t) \/ ForgetPeer(t) \/ ForgetIps(t) \/ Unkey(t)
-----------------------------------------------------------------------------
(* A BYE or a goodbye text, on either socket.                              *)
Goodbye(addr) ==
  /\ \E c \in Lookup(addr) : Disconnect("service", c)
  /\ Touch(addr)
  /\ UNCHANGED <<known, control, audio, byIp, stations, job>>

(* A packet with no effect but the touch: an unparsable or foreign packet, *)
(* or one from a station that the access rules refuse.                     *)
TouchOnly(addr) ==
  /\ Touch(addr)
  /\ UNCHANGED <<known, control, audio, byIp, stations, job, leaving>>

(* _connect_or_update_peer up to its lookup and its access check.          *)
Connect(addr, sock, c, voice) ==
  /\ Touch(addr)
  /\ \/ c \in known /\ job' = Job("bind", c, addr, sock, voice)
     \/ c \notin known \cup banned /\ job' = Job("admit", c, addr, sock, voice)
  /\ UNCHANGED <<known, control, audio, byIp, stations, leaving>>

(* A station-info text or an SDES, from a client that calls itself c.      *)
Identify(addr, sock, c) == Connect(addr, sock, c, -1)

(* Voice or a damaged voice packet from an IP where no peer is known.      *)
UnknownAudio(addr, voice) ==
  byIp[IpOf[addr]] = NoCall /\ Connect(addr, "audio", UnknownCall(IpOf[addr]), voice)

(* The same from an IP where one is: the peer is found by IP alone.        *)
KnownAudio(addr, voice) ==
  LET c == byIp[IpOf[addr]]
  IN  /\ c # NoCall
      /\ Touch(addr)
      /\ audio' = [audio EXCEPT ![c] = addr]
      /\ job' = IF voice >= 0 THEN HeardFrom(c, voice) ELSE NoJob
      /\ UNCHANGED <<known, control, byIp, stations, leaving>>

(* The clients: who may send what from where.                              *)
Packet(addr) ==
  /\ Ready
  /\ \/ Goodbye(addr)
     \/ TouchOnly(addr)
     \/ \E sock \in Sockets : \E c \in Claims[addr][sock] : Identify(addr, sock, c)
     \/ \E voice \in -1 .. MaxFrames : KnownAudio(addr, voice) \/ UnknownAudio(addr, voice)
  /\ UNCHANGED <<speakerVars, mainVars, alive, polled, banned>>
  /\ Watch
-----------------------------------------------------------------------------
(* The new peer goes into peers_by_call.                                   *)
RecordPeer ==
  /\ job.step = "admit"
  /\ known' = known \cup {job.call}
  /\ job' = [job EXCEPT !.step = "add"]
  /\ UNCHANGED <<control, audio, age, byIp, stations, speakerVars, leaving, alive>>

(* Mutant: the limit is passed by one.                                     *)
AdmitOneMore == Cardinality(stations) > MaxStations \/ job.call \in stations

Refused == Cardinality(stations) >= MaxStations \/ job.call \in stations

(* add_station.  When the conference is full it raises RuntimeError, which *)
(* no handler catches.                                                     *)
AddStation ==
  /\ job.step = "add"
  /\ IF Refused
     THEN Die /\ UNCHANGED stations
     ELSE /\ stations' = stations \cup {job.call}
          /\ job' = [job EXCEPT !.step = "bind"]
          /\ UNCHANGED <<alive, keyRequested, leaving>>
  /\ UNCHANGED <<known, control, audio, age, byIp, active, speakerAge>>

(* The addresses and last_rx of the peer; then its voice, if it sent any.  *)
Bind ==
  LET Set(addrs, sock) ==
        IF job.sock = sock /\ job.call \in known THEN [addrs EXCEPT ![job.call] = job.addr] ELSE addrs
  IN  /\ job.step = "bind"
      /\ control' = Set(control, "control")
      /\ audio' = Set(audio, "audio")
      /\ byIp' = [byIp EXCEPT ![IpOf[job.addr]] = job.call]
      /\ age' = [age EXCEPT ![job.call] = 0]
      /\ job' = IF job.voice >= 0 THEN HeardFrom(job.call, job.voice) ELSE NoJob
      /\ UNCHANGED <<known, stations, speakerVars, leaving, alive>>

(* On to the next frame of the packet, if there is one.                    *)
NextFrame ==
  job' = IF job.voice > 0 THEN [job EXCEPT !.step = "voice", !.voice = @ - 1] ELSE NoJob

(* The packet is decoded: last_heard_at is set, whatever came out of it.   *)
Hear ==
  /\ job.step = "heard"
  /\ speakerAge' = IF active = job.call THEN 0 ELSE speakerAge
  /\ NextFrame
  /\ UNCHANGED <<tableVars, active, keyRequested, leaving, alive>>

HasFloor == active \in {NoCall, job.call}

(* route_speaker_audio, up to the call of the gateway sink: begin_speaker  *)
(* gives a free floor to the station, lets the speaker go on and holds     *)
(* every other back.                                                       *)
TakeFloor ==
  /\ job.step = "voice" /\ job.call \in stations /\ HasFloor
  /\ active' = job.call /\ speakerAge' = 0
  /\ job' = [job EXCEPT !.step = "key"]
  /\ UNCHANGED <<tableVars, keyRequested, leaving, alive>>

HoldBack ==
  /\ job.step = "voice" /\ job.call \in stations /\ ~HasFloor
  /\ NextFrame
  /\ UNCHANGED <<tableVars, speakerVars, leaving, alive>>

(* It raises KeyError, which no handler catches, for a callsign that is    *)
(* not connected: at once, or where it comes back to the station, which    *)
(* may be after the floor is given.                                        *)
SpeakerGone ==
  /\ job.step \in {"voice", "key"} /\ job.call \notin stations
  /\ Die
  /\ \/ UNCHANGED active
     \/ job.step = "voice" /\ active = NoCall /\ active' = job.call
  /\ UNCHANGED <<tableVars, speakerAge>>

(* _send_pcm_to_usrp.                                                      *)
RequestKey ==
  /\ job.step = "key"
  /\ keyRequested' = TRUE
  /\ NextFrame
  /\ UNCHANGED <<tableVars, active, speakerAge, leaving, alive>>

HandlePacket ==
  /\ alive /\ ~raced
  /\ \/ RecordPeer \/ AddStation \/ Bind
     \/ Hear \/ TakeFloor \/ HoldBack \/ SpeakerGone \/ RequestKey
  /\ UNCHANGED <<mainVars, polled, banned>>
  /\ Watch
-----------------------------------------------------------------------------
(* The tail of the run loop: release_inactive_speaker, _expire_stale_peers. *)
(* Mutant: last_rx, which any packet sets, in place of last_heard_at.      *)
SpeakerSilent == active # NoCall /\ age[active] >= SpeakerTimeout

SpeakerIdle == active # NoCall /\ (active \in stations => speakerAge >= SpeakerTimeout)
Stale == {c \in known : age[c] >= PeerTimeout}

(* The speaker whose audio-idle timeout has run out loses the floor; the   *)
(* unkey that follows is the last step of a removal that removes nobody.   *)
BeginTail ==
  /\ Ready
  /\ job' = Tail
  /\ IF SpeakerIdle
     THEN /\ FreeFloor
          /\ leaving' = [leaving EXCEPT !["service"].step = "key", !["service"].wasActive = TRUE]
     ELSE UNCHANGED <<active, speakerAge, leaving>>
  /\ UNCHANGED <<tableVars, keyRequested, mainVars, alive, polled, banned>>
  /\ Watch

InTail == alive /\ ~raced /\ job = Tail /\ leaving["service"] = NotLeaving

ExpirePeer ==
  /\ InTail
  /\ \E c \in Stale : Disconnect("service", c)
  /\ UNCHANGED <<tableVars, speakerVars, mainVars, job, alive, polled, banned>>
  /\ Watch

EndTail ==
  /\ InTail /\ Stale = {}
  /\ job' = NoJob
  /\ polled' = TRUE
  /\ UNCHANGED <<tableVars, speakerVars, mainVars, leaving, alive, banned>>
  /\ Watch

ServiceLeaves == alive /\ ~raced /\ Leave("service") /\ Watch

(* What the service thread goes on with, once it has begun.                *)
GoOn == HandlePacket \/ ServiceLeaves \/ ExpirePeer \/ EndTail

(* A tick is long enough for the loop to come round (0.25 s) and for the   *)
(* stale-peer check (1 s) to be due.  Ages stop counting at their timeout. *)
Older(t, timeout) == IF t < timeout THEN t + 1 ELSE t

Tick ==
  /\ Ready /\ polled
  /\ age' = [c \in Calls |-> IF c \in known THEN Older(age[c], PeerTimeout) ELSE age[c]]
  /\ speakerAge' = IF active = NoCall THEN speakerAge ELSE Older(speakerAge, SpeakerTimeout)
  /\ polled' = FALSE
  /\ UNCHANGED <<known, control, audio, byIp, stations, active, keyRequested, mainVars, job, leaving,
                 alive, banned>>
  /\ Watch

(* run() leaves its loop after request_stop().                             *)
LoopEnds ==
  /\ Ready /\ stopping
  /\ Die
  /\ UNCHANGED <<tableVars, active, speakerAge, mainVars, polled, banned>>
  /\ Watch

(* An exception that no handler catches, at any point: a sendto without    *)
(* try (service.py:486, 491, 751), a file that cannot be written (260, 299,*)
(* 540, 860), a dictionary that the main thread has changed under a walk   *)
(* over it (311, conference.py:75).                                        *)
Raise ==
  /\ alive /\ ~raced /\ CallsFail
  /\ Die
  /\ UNCHANGED <<tableVars, active, speakerAge, mainVars, polled, banned>>
  /\ Watch
-----------------------------------------------------------------------------
(* Commands of the main thread: disconnect; block, which extends the ban   *)
(* list and reloads the rules before it disconnects; and stop, which       *)
(* disconnects everyone and then ends the loop.  None is modelled after    *)
(* the end of the service, when nobody uses its tables any more.           *)
Idle == main = "idle" /\ leaving["main"] = NotLeaving /\ alive /\ ~raced

AdminDisconnect(c) ==
  /\ Idle /\ c \in known
  /\ Disconnect("main", c)
  /\ UNCHANGED <<mainVars, banned>>

(* Mutant: block extends the ban list and does not disconnect.             *)
BlockWithoutDisconnect(c) ==
  /\ Idle
  /\ banned' = banned \cup {c}
  /\ UNCHANGED <<mainVars, leaving>>

Block(c) ==
  /\ Idle
  /\ banned' = banned \cup {c}
  /\ main' = "blocking" /\ target' = {c}
  /\ UNCHANGED <<stopping, leaving>>

DisconnectAll ==
  /\ Idle
  /\ main' = "clearing" /\ target' = known
  /\ UNCHANGED <<stopping, leaving, banned>>

DisconnectNext ==
  /\ leaving["main"] = NotLeaving /\ ~raced
  /\ \E c \in target : Disconnect("main", c) /\ target' = target \ {c}
  /\ UNCHANGED <<main, stopping, banned>>

(* All are disconnected.  disconnect_all is followed by request_stop.      *)
CommandDone ==
  /\ main \in {"blocking", "clearing"} /\ target = {} /\ leaving["main"] = NotLeaving /\ ~raced
  /\ main' = IF main = "clearing" THEN "stopped" ELSE "idle"
  /\ stopping' = (stopping \/ main = "clearing")
  /\ UNCHANGED <<target, leaving, banned>>

Command ==
  /\ \/ \E c \in Calls : AdminDisconnect(c)
     \/ \E c \in Bannable : Block(c)
     \/ DisconnectAll \/ DisconnectNext \/ CommandDone
  /\ UNCHANGED <<tableVars, speakerVars, job, alive, polled>>
  /\ Watch

MainThread == Command \/ (~raced /\ Leave("main") /\ Watch)

(* The service has ended, or the model does not follow it on.              *)
Ended ==
  /\ raced \/ (~alive /\ main \in {"idle", "stopped"} /\ leaving["main"] = NotLeaving)
  /\ UNCHANGED vars

Next ==
  \/ \E addr \in Addrs : Packet(addr)
  \/ GoOn
  \/ BeginTail \/ Tick \/ LoopEnds \/ Raise
  \/ MainThread
  \/ Ended

(* The service thread finishes what it has begun, and it keeps house after *)
(* each round of packets (at most one per socket) however many keep        *)
(* coming; time passes.  Nothing is assumed of the clients and of the main *)
(* thread.                                                                 *)
Fairness == WF_vars(GoOn) /\ SF_vars(BeginTail) /\ SF_vars(Tick)

Spec == Init /\ [][Next]_vars /\ Fairness
-----------------------------------------------------------------------------
JobSteps == {"none", "admit", "add", "bind", "heard", "voice", "key", "tail"}
LeaveSteps == {"none", "station", "peer", "ips", "key"}
MaybeCall == Calls \cup {NoCall}
MaybeAddr == Addrs \cup {NoAddr}
Jobs == [step : JobSteps, call : MaybeCall, addr : MaybeAddr, sock : Sockets, voice : -1 .. MaxFrames]
Removals == [step : LeaveSteps, call : MaybeCall, wasActive : BOOLEAN, ips : SUBSET Ips]

(* Every variable keeps its type, and the conference never holds more than *)
(* max_connected_stations (conference.py:30).                              *)
TypeOK ==
  /\ known \subseteq Calls
  /\ control \in [Calls -> MaybeAddr]
  /\ audio \in [Calls -> MaybeAddr]
  /\ age \in [Calls -> 0 .. PeerTimeout]
  /\ byIp \in [Ips -> MaybeCall]
  /\ stations \subseteq Calls
  /\ IsFiniteSet(stations) /\ Cardinality(stations) <= MaxStations
  /\ active \in MaybeCall
  /\ speakerAge \in 0 .. SpeakerTimeout
  /\ keyRequested \in BOOLEAN
  /\ job \in Jobs
  /\ leaving \in [Threads -> Removals]
  /\ banned \subseteq Calls
  /\ main \in {"idle", "blocking", "clearing", "stopped"}
  /\ target \subseteq Calls
  /\ alive \in BOOLEAN /\ stopping \in BOOLEAN /\ polled \in BOOLEAN /\ raced \in BOOLEAN

(* The callsigns whose removal, by either thread, is at one of the steps.  *)
LeavingAt(steps) ==
  {c \in Calls : \E t \in Threads : leaving[t].step \in steps /\ leaving[t].call = c}

(* The peer table and the conference name the same stations, except for    *)
(* the one whose peer is in the table and whose station is about to be     *)
(* added, and those that have left the conference and are about to leave   *)
(* the table.  A station with no peer would never expire, and its callsign *)
(* could never connect again.                                              *)
PeersMatchStations ==
  alive /\ ~raced =>
    stations = known \ ((IF job.step = "add" THEN {job.call} ELSE {}) \cup LeavingAt({"peer"}))

(* An IP address leads to a connected station, to one whose removal is     *)
(* under way, or to none, however stations roam, share addresses, expire   *)
(* and are disconnected: voice that is found by its IP alone               *)
(* (service.py:514) is not handed to begin_speaker for a callsign that is  *)
(* gone.                                                                   *)
IpEntriesLive ==
  alive /\ ~raced =>
    \A ip \in Ips : byIp[ip] \in stations \cup {NoCall} \cup LeavingAt({"peer", "ips"})

(* The floor is held by a connected station, and the gateway is asked to   *)
(* key only while a station holds it or the thread that has just freed it  *)
(* is on its way to the unkey: through every way of losing the floor (the  *)
(* audio-idle timeout, a BYE, the peer timeout, a command, the end of the  *)
(* service), also while one thread takes the floor that the other frees.   *)
(* A command about the very station whose frame is in hand is excepted:    *)
(* it does leave the key requested with no speaker.                        *)
KeyFollowsSpeaker ==
  /\ keyRequested => alive
  /\ ~raced =>
       /\ active # NoCall => active \in stations
       /\ keyRequested => active # NoCall \/ \E t \in Threads : leaving[t].wasActive

(* Once block has disconnected its station, it is not connected and does   *)
(* not come back, nor does a station that was on the ban list at the start. *)
BlockedStaysOut ==
  ~raced =>
    \A c \in banned \ (target \cup {leaving["main"].call}) : c \notin known \cup stations

(* The floor is free again and again unless voice packets of the speaker   *)
(* keep coming (conference.py:79-84): a speaker that stops sending them    *)
(* loses it, whatever else it and the others go on sending, so that no     *)
(* keepalive and no damaged packet holds the gateway keyed.  A packet that *)
(* decodes to no audio counts as voice here, as it does in the code        *)
(* (service.py:539): a station that sends nothing else keeps the floor.    *)
SpeakerReleased ==
  []<>(active = NoCall \/ (job.step = "heard" /\ job.call = active) \/ ~alive \/ raced)
-----------------------------------------------------------------------------
(* A full conference refuses the station that is one too many, as          *)
(* tests/test_conference.py:12-18 has it, and the service goes on for the  *)
(* others: only request_stop() ends its thread (service.py:148-149), when  *)
(* no call fails.                                                          *)
ServiceSurvives == ~alive => stopping \/ raced
=============================================================================
