----------------------- MODULE EchoLinkServiceProofs -----------------------
(***************************************************************************)
(* Proofs about EchoLinkService, for every set of callsigns, endpoints and *)
(* addresses, every limit and every timeout.                               *)
(***************************************************************************)
EXTENDS EchoLinkService, FiniteSetTheorems, TLAPS

(* The packet in hand names a station, and until its addresses are bound   *)
(* an endpoint; the service thread is in a packet or in a removal.         *)
JobInv ==
  /\ job.step = "none" => job = NoJob
  /\ job.step = "tail" => job = Tail
  /\ job.step \notin {"none", "tail"} => job.call \in Calls /\ leaving["service"] = NotLeaving
  /\ job.step \in {"admit", "add", "bind"} => job.addr \in Addrs

(* A removal under way names a station.                                    *)
LeaveInv ==
  \A t \in Threads :
    /\ leaving[t].step = "none" => leaving[t] = NotLeaving
    /\ leaving[t].step \in {"station", "peer", "ips"} => leaving[t].call \in Calls

(* A command about the station in hand is on record.                       *)
RacedInv == Collide => raced

(* The main thread has nobody to disconnect when it is in no command.      *)
TargetInv == main \in {"idle", "stopped"} => target = {}

(* What the steps of a packet have established for its station.            *)
TablesInv ==
  ~raced =>
    /\ stations \subseteq known
    /\ job.step = "admit" => job.call \notin known \cup banned
    /\ job.step = "add" => job.call \in known
    /\ job.step \in {"bind", "heard", "voice", "key"} => job.call \in stations
    /\ job.step = "key" => active = job.call

(* What the steps of a removal have established for its station.           *)
RemovalInv ==
  ~raced =>
    \A t \in Threads :
      /\ leaving[t].step = "station" /\ active = leaving[t].call => leaving[t].wasActive
      /\ leaving[t].step \in {"peer", "ips", "key"} => leaving[t].call \notin stations
      /\ leaving[t].step \in {"ips", "key"} => leaving[t].call \notin known
      /\ leaving[t].step = "ips" => \A ip \in Ips : byIp[ip] = leaving[t].call => ip \in leaving[t].ips

Places == JobInv /\ LeaveInv /\ TargetInv

Safe ==
  /\ RacedInv /\ TablesInv /\ RemovalInv
  /\ PeersMatchStations /\ IpEntriesLive /\ KeyFollowsSpeaker /\ BlockedStaysOut

IInv == TypeOK /\ Places /\ Safe
-----------------------------------------------------------------------------
(* The values that stand for no packet and no removal.                     *)
LEMMA NoneFacts ==
  /\ NoJob \in Jobs /\ NoJob.step = "none" /\ NoJob.call = NoCall
  /\ Tail \in Jobs /\ Tail.step = "tail" /\ Tail.call = NoCall
  /\ NotLeaving \in Removals /\ NotLeaving.step = "none" /\ NotLeaving.call = NoCall
  /\ NotLeaving.wasActive = FALSE
  /\ "service" \in Threads /\ "main" \in Threads
  BY ServiceAssumption DEF NoJob, Tail, NotLeaving, Jobs, Removals, JobSteps, LeaveSteps, MaybeCall, MaybeAddr,
         Sockets, Threads

(* Jobs have the type of jobs.                                             *)
LEMMA JobType ==
  ASSUME NEW step \in JobSteps, NEW c \in Calls, NEW addr \in MaybeAddr, NEW sock \in Sockets,
         NEW voice \in -1 .. MaxFrames
  PROVE  /\ Job(step, c, addr, sock, voice) \in Jobs
         /\ Job(step, c, addr, sock, voice).step = step
         /\ Job(step, c, addr, sock, voice).call = c
         /\ Job(step, c, addr, sock, voice).addr = addr
  BY DEF Job, Jobs, MaybeCall

(* Advancing to the next frame keeps the type of the job and its station.  *)
LEMMA NextFrameType ==
  ASSUME job \in Jobs, NextFrame
  PROVE  /\ job' \in Jobs
         /\ job' = NoJob \/ (job'.step = "voice" /\ job'.call = job.call)
  <1>1. CASE job.voice > 0
    <2>1. job' = [job EXCEPT !.step = "voice", !.voice = job.voice - 1]
      BY <1>1 DEF NextFrame
    <2>2. job.voice - 1 \in -1 .. MaxFrames
      BY <1>1, ServiceAssumption DEF Jobs
    <2>3. QED BY <2>1, <2>2 DEF Jobs, JobSteps
  <1>2. CASE ~(job.voice > 0)
    BY <1>2, NoneFacts DEF NextFrame
  <1>3. QED BY <1>1, <1>2

(* _peer_for_disconnect_addr finds stations.                               *)
LEMMA LookupFinds ==
  ASSUME TypeOK, NEW addr \in Addrs
  PROVE  Lookup(addr) \subseteq Calls
  BY ServiceAssumption DEF Lookup, TypeOK, MaybeCall

(* Touching a peer keeps the type of the ages.                             *)
LEMMA TouchType ==
  ASSUME TypeOK, NEW addr \in Addrs, Touch(addr)
  PROVE  age' \in [Calls -> 0 .. PeerTimeout]
  <1>1. CASE Lookup(addr) = {}
    BY <1>1 DEF Touch, TypeOK
  <1>2. CASE Lookup(addr) # {}
    <2>1. PICK c \in Lookup(addr) : age' = [age EXCEPT ![c] = 0]
      BY <1>2 DEF Touch
    <2>2. QED
      BY <2>1, LookupFinds, ServiceAssumption DEF TypeOK
  <1>3. QED BY <1>1, <1>2

(* Entering a removal keeps the types, and touches no other removal.       *)
LEMMA DisconnectType ==
  ASSUME TypeOK, LeaveInv, NEW t \in Threads, NEW c \in Calls, Disconnect(t, c)
  PROVE  leaving' \in [Threads -> Removals] /\ LeaveInv'
  <1>1. CASE c \notin known
    BY <1>1 DEF Disconnect, TypeOK, LeaveInv
  <1>2. CASE c \in known
    <2> DEFINE r == [step |-> "station", call |-> c, wasActive |-> WasActive(c), ips |-> {}]
    <2>1. leaving' = [leaving EXCEPT ![t] = r]
      BY <1>2 DEF Disconnect
    <2>2. WasActive(c) \in BOOLEAN
      BY DEF WasActive
    <2>3. r \in Removals /\ r.step = "station" /\ r.call = c
      BY <2>2 DEF Removals, LeaveSteps, MaybeCall
    <2>4. leaving' \in [Threads -> Removals]
      BY <2>1, <2>3 DEF TypeOK
    <2>5. \A u \in Threads : leaving'[u] = IF u = t THEN r ELSE leaving[u]
      BY <2>1 DEF TypeOK
    <2>6. QED BY <2>3, <2>4, <2>5 DEF LeaveInv
  <1>3. QED BY <1>1, <1>2

(* Dying keeps the types.                                                  *)
LEMMA DieType ==
  ASSUME TypeOK, Places, Die
  PROVE  /\ job' = NoJob /\ keyRequested' \in BOOLEAN /\ alive' \in BOOLEAN
         /\ leaving' \in [Threads -> Removals] /\ JobInv' /\ LeaveInv'
  BY NoneFacts DEF Die, TypeOK, Places, JobInv, LeaveInv

(* Forgetting a station keeps the limit of the conference.                 *)
LEMMA SmallerConference ==
  ASSUME TypeOK, NEW c, stations' = stations \ {c}
  PROVE  /\ stations' \subseteq Calls
         /\ IsFiniteSet(stations') /\ Cardinality(stations') <= MaxStations
  <1>1. stations' \in SUBSET stations
    OBVIOUS
  <1>2. IsFiniteSet(stations') /\ Cardinality(stations') <= Cardinality(stations)
    BY <1>1, FS_Subset DEF TypeOK
  <1>3. Cardinality(stations') \in Nat /\ Cardinality(stations) \in Nat
    BY <1>2, FS_CardinalityType DEF TypeOK
  <1>4. QED BY <1>1, <1>2, <1>3, ServiceAssumption DEF TypeOK
-----------------------------------------------------------------------------
(* Each step of a removal keeps the types.                                 *)
LEMMA LeaveType ==
  ASSUME TypeOK, Places, NEW t \in Threads, Leave(t), Watch,
         t = "service" => job.step \in {"none", "tail"}
  PROVE  TypeOK' /\ Places'
  <1> USE ServiceAssumption, NoneFacts DEF tableVars, speakerVars, mainVars
  <1>1. raced' \in BOOLEAN
    BY DEF Watch, TypeOK
  <1>2. leaving[t] \in Removals
    BY DEF TypeOK
  <1>3. UNCHANGED <<mainVars, job, alive, polled, banned>> /\ (UNCHANGED active \/ active' = NoCall)
    BY DEF Leave, RemoveStation, ForgetPeer, ForgetIps, Unkey, FreeFloor
  <1>4. ASSUME NEW r \in Removals, leaving' = [leaving EXCEPT ![t] = r],
               r = NotLeaving \/ r.step = "key" \/ (r.step # "none" /\ r.call \in Calls),
               UNCHANGED <<mainVars, job>>
        PROVE  leaving' \in [Threads -> Removals] /\ Places'
    <2>1. leaving' \in [Threads -> Removals]
      BY <1>4 DEF TypeOK
    <2>2. \A u \in Threads : leaving'[u] = IF u = t THEN r ELSE leaving[u]
      BY <1>4 DEF TypeOK
    <2>3. LeaveInv'
      BY <1>4, <2>2 DEF Places, LeaveInv
    <2>4. job.step \notin {"none", "tail"} => leaving'["service"] = leaving["service"]
      BY <2>2
    <2>5. JobInv' /\ TargetInv'
      BY <1>4, <2>4 DEF Places, JobInv, TargetInv
    <2>6. QED BY <2>1, <2>3, <2>5 DEF Places
  <1>5. CASE RemoveStation(t)
    <2> DEFINE r == [leaving[t] EXCEPT !.step = "peer"]
    <2>1. r \in Removals /\ r.step = "peer" /\ r.call \in Calls
      BY <1>2, <1>5 DEF Removals, LeaveSteps, RemoveStation, Places, LeaveInv
    <2>2. leaving' = [leaving EXCEPT ![t] = r] /\ UNCHANGED <<mainVars, job>>
      BY <1>5 DEF RemoveStation, TypeOK
    <2>3. leaving' \in [Threads -> Removals] /\ Places'
      BY <1>4, <2>1, <2>2
    <2>4. stations' = stations \ {leaving[t].call}
      BY <1>5 DEF RemoveStation, LeaveConference
    <2>5. active' \in MaybeCall /\ speakerAge' \in 0 .. SpeakerTimeout
      BY <1>5 DEF RemoveStation, FreeFloor, TypeOK, MaybeCall
    <2>6. QED
      BY <1>1, <1>5, <2>3, <2>4, <2>5, SmallerConference DEF RemoveStation, TypeOK
  <1>6. CASE ForgetPeer(t)
    <2> DEFINE c == leaving[t].call
    <2> DEFINE r == [leaving[t] EXCEPT !.step = "ips", !.ips = {ip \in Ips : byIp[ip] = c}]
    <2>1. r \in Removals /\ r.step = "ips" /\ r.call \in Calls
      BY <1>2, <1>6 DEF Removals, LeaveSteps, ForgetPeer, Places, LeaveInv
    <2>2. leaving' = [leaving EXCEPT ![t] = r] /\ UNCHANGED <<mainVars, job>>
      BY <1>6 DEF ForgetPeer, TypeOK
    <2>3. leaving' \in [Threads -> Removals] /\ Places'
      BY <1>4, <2>1, <2>2
    <2>4. /\ known' = known \ {c} /\ age' = [age EXCEPT ![c] = 0]
          /\ control' = [control EXCEPT ![c] = NoAddr] /\ audio' = [audio EXCEPT ![c] = NoAddr]
      BY <1>6 DEF ForgetPeer
    <2> HIDE DEF c, r
    <2>5. 0 \in 0 .. PeerTimeout /\ NoAddr \in MaybeAddr
      BY DEF MaybeAddr
    <2>6. /\ known' \subseteq Calls /\ control' \in [Calls -> MaybeAddr]
          /\ audio' \in [Calls -> MaybeAddr] /\ age' \in [Calls -> 0 .. PeerTimeout]
      BY <2>4, <2>5 DEF TypeOK
    <2>7. QED
      BY <1>1, <1>6, <2>3, <2>6 DEF ForgetPeer, TypeOK
  <1>7. CASE ForgetIps(t)
    <2>1. PICK r \in Removals :
             /\ leaving' = [leaving EXCEPT ![t] = r]
             /\ r = NotLeaving \/ r.step = "key"
      <3> DEFINE r == [leaving[t] EXCEPT !.step = "key", !.ips = {}]
      <3>1. r \in Removals /\ r.step = "key"
        BY <1>2 DEF Removals, LeaveSteps
      <3>2. leaving' = [leaving EXCEPT ![t] = IF leaving[t].wasActive THEN r ELSE NotLeaving]
        BY <1>7 DEF ForgetIps, TypeOK
      <3>3. QED BY <3>1, <3>2
    <2>2. UNCHANGED <<mainVars, job>>
      BY <1>7 DEF ForgetIps
    <2>3. leaving' \in [Threads -> Removals] /\ Places'
      BY <1>4, <2>1, <2>2
    <2>4. byIp' \in [Ips -> MaybeCall]
      BY <1>7 DEF ForgetIps, PopIps, TypeOK, MaybeCall
    <2>5. QED
      BY <1>1, <1>7, <2>3, <2>4 DEF ForgetIps, TypeOK
  <1>8. CASE Unkey(t)
    <2>1. leaving' = [leaving EXCEPT ![t] = NotLeaving] /\ UNCHANGED <<mainVars, job>>
      BY <1>8 DEF Unkey
    <2>2. leaving' \in [Threads -> Removals] /\ Places'
      BY <1>4, <2>1
    <2>3. QED
      BY <1>1, <1>8, <2>2 DEF Unkey, TypeOK
  <1>9. QED BY <1>5, <1>6, <1>7, <1>8 DEF Leave
-----------------------------------------------------------------------------
(* Every step keeps the types and the places.                              *)
LEMMA TypeStep ==
  ASSUME TypeOK, Places, [Next]_vars
  PROVE  TypeOK' /\ Places'
  <1> USE ServiceAssumption, NoneFacts DEF tableVars, speakerVars, mainVars
  <1>1. Watch => raced' \in BOOLEAN
    BY DEF Watch, TypeOK
  <1>2. 0 \in 0 .. SpeakerTimeout /\ 0 \in 0 .. PeerTimeout
    OBVIOUS
  <1>3. ASSUME NEW addr \in Addrs, Packet(addr) PROVE TypeOK' /\ Places'
    <2>1. /\ UNCHANGED <<active, speakerAge, keyRequested, main, target, stopping, alive, polled, banned>>
          /\ raced' \in BOOLEAN /\ Ready
      BY <1>1, <1>3 DEF Packet
    <2>2. leaving["service"] = NotLeaving /\ job = NoJob
      BY <2>1 DEF Ready
    <2>3. ASSUME /\ UNCHANGED <<known, control, byIp, stations>>
                 /\ age' \in [Calls -> 0 .. PeerTimeout] /\ audio' \in [Calls -> MaybeAddr]
                 /\ leaving' \in [Threads -> Removals] /\ LeaveInv' /\ job' \in Jobs
                 /\ \/ job' = NoJob
                    \/ /\ job'.step \notin {"none", "tail"} /\ job'.call \in Calls
                       /\ job'.step \in {"admit", "add", "bind"} => job'.addr \in Addrs
                       /\ UNCHANGED leaving
          PROVE  TypeOK' /\ Places'
      <3>1. TypeOK'
        BY <2>1, <2>3 DEF TypeOK
      <3>2. JobInv' /\ TargetInv'
        BY <2>1, <2>2, <2>3 DEF JobInv, Places, TargetInv
      <3>3. QED BY <2>3, <3>1, <3>2 DEF Places
    <2>4. CASE Goodbye(addr)
      <3>1. PICK c \in Lookup(addr) : Disconnect("service", c)
        BY <2>4 DEF Goodbye
      <3>2. c \in Calls
        BY LookupFinds
      <3>3. leaving' \in [Threads -> Removals] /\ LeaveInv'
        BY <3>1, <3>2, DisconnectType DEF Places
      <3>4. age' \in [Calls -> 0 .. PeerTimeout]
        BY <2>4, TouchType DEF Goodbye
      <3>5. UNCHANGED <<known, control, audio, byIp, stations, job>>
        BY <2>4 DEF Goodbye
      <3>6. QED BY <2>2, <2>3, <3>3, <3>4, <3>5 DEF TypeOK
    <2>5. CASE TouchOnly(addr)
      <3>1. age' \in [Calls -> 0 .. PeerTimeout]
        BY <2>5, TouchType DEF TouchOnly
      <3>2. LeaveInv'
        BY <2>5 DEF TouchOnly, Places, LeaveInv
      <3>3. QED BY <2>2, <2>3, <2>5, <3>1, <3>2 DEF TouchOnly, TypeOK
    <2>6. ASSUME NEW sock \in Sockets, NEW c \in Calls, NEW voice \in -1 .. MaxFrames,
                 Connect(addr, sock, c, voice)
          PROVE  TypeOK' /\ Places'
      <3>1. age' \in [Calls -> 0 .. PeerTimeout]
        BY <2>6, TouchType DEF Connect
      <3>2. PICK step \in {"bind", "admit"} : job' = Job(step, c, addr, sock, voice)
        BY <2>6 DEF Connect
      <3>3. step \in JobSteps /\ step \notin {"none", "tail"} /\ addr \in MaybeAddr
        BY DEF JobSteps, MaybeAddr
      <3>4. job' \in Jobs /\ job'.step = step /\ job'.call = c /\ job'.addr = addr
        BY <3>2, <3>3, JobType
      <3>5. UNCHANGED <<known, control, audio, byIp, stations, leaving>>
        BY <2>6 DEF Connect
      <3>6. LeaveInv'
        BY <3>5 DEF Places, LeaveInv
      <3>7. QED BY <2>3, <3>1, <3>3, <3>4, <3>5, <3>6 DEF TypeOK
    <2>7. ASSUME NEW voice \in -1 .. MaxFrames, KnownAudio(addr, voice) PROVE TypeOK' /\ Places'
      <3> DEFINE c == byIp[IpOf[addr]]
      <3>1. c \in Calls
        BY <2>7 DEF KnownAudio, TypeOK, MaybeCall
      <3>2. age' \in [Calls -> 0 .. PeerTimeout]
        BY <2>7, TouchType DEF KnownAudio
      <3>3. audio' \in [Calls -> MaybeAddr]
        BY <2>7, <3>1 DEF KnownAudio, TypeOK, MaybeAddr
      <3>4. job' = NoJob \/ job' = Job("heard", c, NoAddr, "audio", voice)
        BY <2>7 DEF KnownAudio, HeardFrom
      <3>5. "heard" \in JobSteps /\ "audio" \in Sockets /\ NoAddr \in MaybeAddr
        BY DEF JobSteps, Sockets, MaybeAddr
      <3>6. job' \in Jobs /\ (job' = NoJob \/ (job'.step = "heard" /\ job'.call = c))
        BY <3>1, <3>4, <3>5, JobType
      <3>7. UNCHANGED <<known, control, byIp, stations, leaving>>
        BY <2>7 DEF KnownAudio
      <3>8. LeaveInv'
        BY <3>7 DEF Places, LeaveInv
      <3>9. QED BY <2>3, <3>1, <3>2, <3>3, <3>6, <3>7, <3>8 DEF TypeOK
    <2>8. -1 \in -1 .. MaxFrames /\ "audio" \in Sockets /\ UnknownCall(IpOf[addr]) \in Calls
      BY DEF Sockets, Calls
    <2>9. QED
      BY <1>3, <2>4, <2>5, <2>6, <2>7, <2>8 DEF Packet, Identify, UnknownAudio
  <1>4. CASE HandlePacket
    <2>1. /\ UNCHANGED <<main, target, stopping, polled, banned>> /\ raced' \in BOOLEAN /\ alive
      BY <1>1, <1>4 DEF HandlePacket
    <2>2. TargetInv'
      BY <2>1 DEF Places, TargetInv
    <2>3. ASSUME UNCHANGED leaving PROVE LeaveInv'
      BY <2>3 DEF Places, LeaveInv
    <2>4. job \in Jobs
      BY DEF TypeOK
    <2>5. CASE RecordPeer
      <3>1. job' \in Jobs /\ job'.step = "add" /\ job'.call = job.call /\ job'.addr = job.addr
        BY <2>4, <2>5 DEF RecordPeer, Jobs, JobSteps
      <3>2. JobInv'
        BY <2>5, <3>1 DEF RecordPeer, Places, JobInv
      <3>3. QED
        BY <2>1, <2>2, <2>3, <2>5, <3>1, <3>2 DEF RecordPeer, TypeOK, Places, JobInv
    <2>6. CASE AddStation
      <3>1. CASE Refused
        <4>1. Die /\ UNCHANGED <<known, control, audio, age, byIp, stations, active, speakerAge>>
          BY <2>6, <3>1 DEF AddStation
        <4>2. QED BY <2>1, <2>2, <4>1, DieType DEF TypeOK, Places
      <3>2. CASE ~Refused
        <4>1. /\ IsFiniteSet(stations') /\ stations' \subseteq Calls
              /\ Cardinality(stations') = Cardinality(stations) + 1
              /\ Cardinality(stations) \in Nat
          <5>1. stations' = stations \cup {job.call} /\ job.call \notin stations
            BY <2>6, <3>2 DEF AddStation, Refused
          <5>2. job.call \in Calls
            BY <2>6 DEF AddStation, Places, JobInv
          <5>3. IsFiniteSet(stations) /\ stations \subseteq Calls
            BY DEF TypeOK
          <5>4. /\ IsFiniteSet(stations \cup {job.call})
                /\ Cardinality(stations \cup {job.call}) = Cardinality(stations) + 1
            BY <5>1, <5>3, FS_AddElement
          <5>5. Cardinality(stations) \in Nat
            BY <5>3, FS_CardinalityType
          <5>6. QED BY <5>1, <5>2, <5>3, <5>4, <5>5
        <4>2. Cardinality(stations') <= MaxStations
          BY <3>2, <4>1 DEF Refused
        <4>3. job' \in Jobs /\ job'.step = "bind" /\ job'.call = job.call /\ job'.addr = job.addr
          BY <2>4, <2>6, <3>2 DEF AddStation, Jobs, JobSteps
        <4>4. UNCHANGED <<known, control, audio, age, byIp, active, speakerAge, alive, keyRequested, leaving>>
          BY <2>6, <3>2 DEF AddStation
        <4>5. JobInv'
          BY <2>6, <4>3, <4>4 DEF AddStation, Places, JobInv
        <4>6. QED
          BY <2>1, <2>2, <2>3, <4>1, <4>2, <4>3, <4>4, <4>5 DEF TypeOK, Places
      <3>3. QED BY <3>1, <3>2
    <2>7. CASE Bind
      <3>1. job.call \in Calls /\ job.addr \in Addrs /\ IpOf[job.addr] \in Ips
        BY <2>7 DEF Bind, Places, JobInv
      <3>2. control' \in [Calls -> MaybeAddr] /\ audio' \in [Calls -> MaybeAddr]
        BY <2>7, <3>1 DEF Bind, TypeOK, MaybeAddr
      <3>3. byIp' \in [Ips -> MaybeCall] /\ age' \in [Calls -> 0 .. PeerTimeout]
        BY <1>2, <2>7, <3>1 DEF Bind, TypeOK, MaybeCall
      <3>4. job' = NoJob \/ job' = Job("heard", job.call, NoAddr, "audio", job.voice)
        BY <2>7 DEF Bind, HeardFrom
      <3>5. "heard" \in JobSteps /\ "audio" \in Sockets /\ NoAddr \in MaybeAddr
            /\ job.voice \in -1 .. MaxFrames
        BY <2>4 DEF JobSteps, Sockets, MaybeAddr, Jobs
      <3>6. job' \in Jobs /\ (job' = NoJob \/ (job'.step = "heard" /\ job'.call = job.call))
        BY <3>1, <3>4, <3>5, JobType
      <3>7. UNCHANGED <<known, stations, active, speakerAge, keyRequested, leaving, alive>>
        BY <2>7 DEF Bind
      <3>8. JobInv'
        BY <2>7, <3>1, <3>6, <3>7 DEF Bind, Places, JobInv
      <3>9. QED
        BY <2>1, <2>2, <2>3, <3>2, <3>3, <3>6, <3>7, <3>8 DEF TypeOK, Places
    <2>8. ASSUME NextFrame, job.step \in {"heard", "voice", "key"}, UNCHANGED leaving
          PROVE  job' \in Jobs /\ JobInv' /\ LeaveInv'
      <3>1. job' \in Jobs /\ (job' = NoJob \/ (job'.step = "voice" /\ job'.call = job.call))
        BY <2>4, <2>8, NextFrameType
      <3>2. JobInv'
        BY <2>8, <3>1 DEF Places, JobInv
      <3>3. QED BY <2>3, <2>8, <3>1, <3>2
    <2>9. CASE Hear
      <3>1. speakerAge' \in 0 .. SpeakerTimeout
        BY <1>2, <2>9 DEF Hear, TypeOK
      <3>2. QED
        BY <2>1, <2>2, <2>8, <2>9, <3>1 DEF Hear, TypeOK, Places
    <2>10. CASE TakeFloor
      <3>1. job' \in Jobs /\ job'.step = "key" /\ job'.call = job.call
        BY <2>4, <2>10 DEF TakeFloor, Jobs, JobSteps
      <3>2. JobInv'
        BY <2>10, <3>1 DEF TakeFloor, Places, JobInv
      <3>3. active' \in MaybeCall
        BY <2>4, <2>10 DEF TakeFloor, Jobs
      <3>4. QED
        BY <1>2, <2>1, <2>2, <2>3, <2>10, <3>1, <3>2, <3>3 DEF TakeFloor, TypeOK, Places
    <2>11. CASE HoldBack
      BY <2>1, <2>2, <2>8, <2>11 DEF HoldBack, TypeOK, Places
    <2>12. CASE SpeakerGone
      <3>1. Die /\ UNCHANGED <<known, control, audio, age, byIp, stations, speakerAge>>
            /\ active' \in MaybeCall
        BY <2>4, <2>12 DEF SpeakerGone, TypeOK, Jobs
      <3>2. QED BY <2>1, <2>2, <3>1, DieType DEF TypeOK, Places
    <2>13. CASE RequestKey
      BY <2>1, <2>2, <2>8, <2>13 DEF RequestKey, TypeOK, Places
    <2>14. QED
      BY <1>4, <2>5, <2>6, <2>7, <2>9, <2>10, <2>11, <2>12, <2>13 DEF HandlePacket
  <1>5. CASE ServiceLeaves
    <2>1. leaving["service"].step # "none"
      BY <1>5 DEF ServiceLeaves, Leave, RemoveStation, ForgetPeer, ForgetIps, Unkey
    <2>2. job.step \in {"none", "tail"}
      BY <2>1 DEF Places, JobInv
    <2>3. QED BY <1>5, <2>2, LeaveType DEF ServiceLeaves
  <1>6. ASSUME NEW t \in Threads, NEW c \in Calls, Disconnect(t, c), UNCHANGED <<job, main>>,
               t = "service" => job.step \in {"none", "tail"},
               UNCHANGED <<known, control, audio, age, byIp, stations, active, speakerAge, keyRequested,
                           stopping, alive, polled, banned>>, Watch,
               target' \subseteq target
        PROVE  TypeOK' /\ Places'
    <2>1. leaving' \in [Threads -> Removals] /\ LeaveInv'
      BY <1>6, DisconnectType DEF Places
    <2>2. t = "main" => leaving'["service"] = leaving["service"]
      BY <1>6 DEF Disconnect, TypeOK
    <2>3. t \in {"service", "main"}
      BY DEF Threads
    <2>4. JobInv'
      BY <1>6, <2>2, <2>3 DEF Places, JobInv
    <2>5. TargetInv'
      BY <1>6 DEF Places, TargetInv
    <2>6. QED BY <1>1, <1>6, <2>1, <2>4, <2>5 DEF TypeOK, Places
  <1>7. CASE ExpirePeer
    <2>1. PICK c \in Stale : Disconnect("service", c)
      BY <1>7 DEF ExpirePeer
    <2>2. c \in Calls /\ job.step \in {"none", "tail"}
      BY <1>7 DEF ExpirePeer, InTail, Stale, TypeOK
    <2>3. QED BY <1>6, <1>7, <2>1, <2>2 DEF ExpirePeer
  <1>8. CASE EndTail
    <2>1. JobInv' /\ LeaveInv' /\ TargetInv'
      BY <1>8 DEF EndTail, Places, JobInv, LeaveInv, TargetInv
    <2>2. QED BY <1>1, <1>8, <2>1 DEF EndTail, TypeOK, Places
  <1>9. CASE BeginTail
    <2>1. job' = Tail /\ Ready
      BY <1>9 DEF BeginTail
    <2>2. JobInv' /\ TargetInv'
      BY <1>9, <2>1 DEF BeginTail, JobInv, Places, TargetInv
    <2>3. active' \in MaybeCall /\ speakerAge' \in 0 .. SpeakerTimeout
      BY <1>2, <1>9 DEF BeginTail, FreeFloor, TypeOK, MaybeCall
    <2>4. leaving' \in [Threads -> Removals] /\ LeaveInv'
      <3>1. CASE SpeakerIdle
        <4> DEFINE r == [leaving["service"] EXCEPT !.step = "key", !.wasActive = TRUE]
        <4>1. leaving["service"] \in Removals
          BY DEF TypeOK
        <4>2. r \in Removals /\ r.step = "key"
          BY <4>1 DEF Removals, LeaveSteps
        <4>3. leaving' = [leaving EXCEPT !["service"] = r]
          BY <1>9, <3>1 DEF BeginTail, TypeOK
        <4>4. \A u \in Threads : leaving'[u] = IF u = "service" THEN r ELSE leaving[u]
          BY <4>3 DEF TypeOK
        <4>5. leaving' \in [Threads -> Removals]
          BY <4>2, <4>3 DEF TypeOK
        <4>6. QED BY <4>2, <4>4, <4>5 DEF Places, LeaveInv
      <3>2. CASE ~SpeakerIdle
        BY <1>9, <3>2 DEF BeginTail, TypeOK, Places, LeaveInv
      <3>3. QED BY <3>1, <3>2
    <2>5. QED
      BY <1>1, <1>9, <2>1, <2>2, <2>3, <2>4 DEF BeginTail, TypeOK, Places
  <1>10. CASE Tick
    <2>1. age' \in [Calls -> 0 .. PeerTimeout]
      BY <1>10 DEF Tick, Older, TypeOK
    <2>2. speakerAge' \in 0 .. SpeakerTimeout
      BY <1>10 DEF Tick, Older, TypeOK
    <2>3. Places'
      BY <1>10 DEF Tick, Places, JobInv, LeaveInv, TargetInv
    <2>4. QED BY <1>1, <1>10, <2>1, <2>2, <2>3 DEF Tick, TypeOK
  <1>11. CASE LoopEnds \/ Raise
    <2>1. /\ Die /\ Watch
          /\ UNCHANGED <<tableVars, active, speakerAge, mainVars, polled, banned>>
      BY <1>11 DEF LoopEnds, Raise
    <2>2. TargetInv'
      BY <2>1 DEF Places, TargetInv
    <2>3. QED BY <1>1, <2>1, <2>2, DieType DEF TypeOK, Places
  <1>12. CASE Command
    <2>1. UNCHANGED <<tableVars, speakerVars, job, alive, polled>> /\ Watch
      BY <1>12 DEF Command
    <2>2. ASSUME UNCHANGED leaving PROVE JobInv' /\ LeaveInv'
      BY <2>1, <2>2 DEF Places, JobInv, LeaveInv
    <2>3. ASSUME NEW c \in Calls, AdminDisconnect(c) PROVE TypeOK' /\ Places'
      BY <1>6, <2>1, <2>3 DEF AdminDisconnect
    <2>4. ASSUME NEW c \in Bannable, Block(c) PROVE TypeOK' /\ Places'
      <3>1. UNCHANGED <<stopping, leaving>> /\ banned' = banned \cup {c} /\ main' = "blocking"
            /\ target' = {c}
        BY <2>4 DEF Block
      <3>2. TargetInv'
        BY <3>1 DEF TargetInv
      <3>3. QED BY <1>1, <2>1, <2>2, <3>1, <3>2 DEF TypeOK, Places
    <2>5. CASE DisconnectAll
      <3>1. UNCHANGED <<stopping, leaving, banned>> /\ main' = "clearing" /\ target' = known
        BY <2>5 DEF DisconnectAll
      <3>2. TargetInv'
        BY <3>1 DEF TargetInv
      <3>3. QED BY <1>1, <2>1, <2>2, <3>1, <3>2 DEF TypeOK, Places
    <2>6. CASE DisconnectNext
      <3>1. PICK c \in target : Disconnect("main", c) /\ target' = target \ {c}
        BY <2>6 DEF DisconnectNext
      <3>2. c \in Calls
        BY DEF TypeOK
      <3>3. QED BY <1>6, <2>1, <2>6, <3>1, <3>2 DEF DisconnectNext
    <2>7. CASE CommandDone
      <3>1. UNCHANGED <<target, leaving, banned>> /\ target = {} /\ stopping' \in BOOLEAN
            /\ main' \in {"idle", "stopped"}
        BY <2>7 DEF CommandDone, TypeOK
      <3>2. TargetInv'
        BY <3>1 DEF TargetInv
      <3>3. QED BY <1>1, <2>1, <2>2, <3>1, <3>2 DEF TypeOK, Places
    <2>8. QED BY <1>12, <2>3, <2>4, <2>5, <2>6, <2>7 DEF Command
  <1>13. CASE Leave("main") /\ Watch
    BY <1>13, LeaveType
  <1>14. CASE UNCHANGED vars
    BY <1>14 DEF TypeOK, Places, JobInv, LeaveInv, TargetInv, vars
  <1>15. QED
    BY <1>3, <1>4, <1>5, <1>7, <1>8, <1>9, <1>10, <1>11, <1>12, <1>13, <1>14
       DEF Next, GoOn, MainThread, Ended

(* The initial states have the types and no packet in hand.                *)
LEMMA InitType == Init => TypeOK /\ Places
  <1> SUFFICES ASSUME Init PROVE TypeOK /\ Places
    OBVIOUS
  <1>1. IsFiniteSet({}) /\ Cardinality({}) = 0
    BY FS_EmptySet
  <1>2. /\ known \subseteq Calls /\ stations \subseteq Calls
        /\ control \in [Calls -> MaybeAddr] /\ audio \in [Calls -> MaybeAddr]
        /\ age \in [Calls -> 0 .. PeerTimeout] /\ byIp \in [Ips -> MaybeCall]
    BY ServiceAssumption DEF Init, MaybeCall, MaybeAddr
  <1>3. IsFiniteSet(stations) /\ Cardinality(stations) <= MaxStations
    BY <1>1, ServiceAssumption DEF Init
  <1>4. speakerAge \in 0 .. SpeakerTimeout /\ banned \subseteq Calls
    BY ServiceAssumption DEF Init
  <1>5. job \in Jobs /\ leaving \in [Threads -> Removals]
    BY NoneFacts DEF Init
  <1>6. TypeOK
    BY <1>2, <1>3, <1>4, <1>5 DEF Init, TypeOK, MaybeCall
  <1>7. Places
    BY NoneFacts DEF Init, Places, JobInv, LeaveInv, TargetInv
  <1>8. QED BY <1>6, <1>7

(* Every variable keeps its type and the conference its limit, whatever    *)
(* the clients send and the main thread does.                              *)
THEOREM TypeCorrect == Spec => []TypeOK
  <1>1. TypeOK /\ Places /\ [Next]_vars => TypeOK' /\ Places'
    BY TypeStep
  <1>2. QED BY <1>1, InitType, PTL DEF Spec
-----------------------------------------------------------------------------
(* What is not raced after a step was not before it, and no command is     *)
(* about the station in hand.                                              *)
LEMMA NotRaced ==
  ASSUME Watch
  PROVE  RacedInv' /\ (~raced' => ~raced /\ ~Collide')
  BY DEF Watch, RacedInv

(* Each step of a removal keeps the tables, the floor and the key in step. *)
LEMMA LeaveSafe ==
  ASSUME TypeOK, Places, Safe, NEW t \in Threads, Leave(t), Watch,
         t = "service" => job.step \in {"none", "tail"} /\ alive
  PROVE  Safe'
  <1> USE NoneFacts, NotRaced DEF Safe, tableVars, speakerVars, mainVars
  <1>1. ~raced' => ~raced
    OBVIOUS
  <1>2. CASE ~raced
    <2> DEFINE c == leaving[t].call
    <2>1. \A u \in Threads : u # t /\ leaving[u].step # "none" /\ leaving[t].step # "none" => leaving[u].call # c
      BY <1>2 DEF RacedInv, Collide, Threads
    <2>2. job.step \notin {"none", "tail"} /\ leaving[t].step # "none" => job.call # c
      BY <1>2 DEF RacedInv, Collide, Threads
    <2>3. CASE RemoveStation(t)
      <3>1. /\ leaving[t].step = "station" /\ c \in Calls
            /\ stations' = stations \ {c}
            /\ IF active = c THEN active' = NoCall ELSE active' = active
            /\ UNCHANGED <<known, byIp, keyRequested, target, job, alive, banned>>
        BY <2>3 DEF RemoveStation, LeaveConference, FreeFloor, Places, LeaveInv
      <3>2. \A u \in Threads : leaving'[u] = IF u = t THEN [leaving[t] EXCEPT !.step = "peer"] ELSE leaving[u]
        BY <2>3 DEF RemoveStation, TypeOK
      <3>3. leaving'[t].step = "peer" /\ leaving'[t].call = c /\ leaving'[t].wasActive = leaving[t].wasActive
        BY <3>2 DEF TypeOK, Removals
      <3>4. \A u \in Threads : u # t => leaving'[u] = leaving[u]
        BY <3>2
      <3> HIDE DEF c
      <3>5. TablesInv'
        BY <1>2, <2>2, <3>1 DEF TablesInv
      <3>6. RemovalInv'
        <4>1. \A u \in Threads : leaving[u].step = "station" => leaving[u].call # NoCall
          BY ServiceAssumption DEF Places, LeaveInv
        <4>2. QED BY <1>2, <2>1, <3>1, <3>3, <3>4, <4>1 DEF RemovalInv
      <3>7. PeersMatchStations'
        BY <1>2, <2>1, <3>1, <3>3, <3>4 DEF PeersMatchStations, LeavingAt, c
      <3>8. IpEntriesLive'
        BY <1>2, <3>1, <3>3, <3>4 DEF IpEntriesLive, LeavingAt, c
      <3>9. KeyFollowsSpeaker'
        BY <1>2, <3>1, <3>3, <3>4 DEF KeyFollowsSpeaker, RemovalInv, c
      <3>10. BlockedStaysOut'
        BY <1>2, <3>1, <3>3, <3>4 DEF BlockedStaysOut, c
      <3>11. QED BY <3>5, <3>6, <3>7, <3>8, <3>9, <3>10
    <2>4. CASE ForgetPeer(t)
      <3>1. /\ leaving[t].step = "peer" /\ c \in Calls
            /\ known' = known \ {c}
            /\ UNCHANGED <<byIp, stations, active, keyRequested, target, job, alive, banned>>
        BY <2>4 DEF ForgetPeer, Places, LeaveInv
      <3>2. /\ leaving'[t].step = "ips" /\ leaving'[t].call = c
            /\ leaving'[t].wasActive = leaving[t].wasActive
            /\ leaving'[t].ips = {ip \in Ips : byIp[ip] = c}
        BY <2>4 DEF ForgetPeer, TypeOK, Removals
      <3>3. \A u \in Threads : u # t => leaving'[u] = leaving[u]
        BY <2>4 DEF ForgetPeer, TypeOK
      <3>4. c \notin stations
        BY <1>2, <3>1 DEF RemovalInv
      <3> HIDE DEF c
      <3>5. TablesInv'
        BY <1>2, <2>2, <3>1, <3>4 DEF TablesInv, c
      <3>6. RemovalInv'
        BY <1>2, <3>1, <3>2, <3>3, <3>4 DEF RemovalInv
      <3>7. PeersMatchStations'
        BY <1>2, <2>1, <2>2, <3>1, <3>2, <3>3, <3>4 DEF PeersMatchStations, LeavingAt, c
      <3>8. IpEntriesLive'
        BY <1>2, <3>1, <3>2, <3>3 DEF IpEntriesLive, LeavingAt, c
      <3>9. KeyFollowsSpeaker'
        BY <1>2, <3>1, <3>2, <3>3 DEF KeyFollowsSpeaker, c
      <3>10. BlockedStaysOut'
        BY <1>2, <3>1, <3>2, <3>3 DEF BlockedStaysOut, c
      <3>11. QED BY <3>5, <3>6, <3>7, <3>8, <3>9, <3>10
    <2>5. CASE ForgetIps(t)
      <3>1. /\ leaving[t].step = "ips" /\ c \in Calls
            /\ byIp' = [ip \in Ips |-> IF ip \in leaving[t].ips THEN NoCall ELSE byIp[ip]]
            /\ UNCHANGED <<known, stations, active, keyRequested, target, job, alive, banned>>
        BY <2>5 DEF ForgetIps, PopIps, Places, LeaveInv
      <3>2. /\ leaving'[t].step \in {"none", "key"}
            /\ leaving'[t].step = "key" => leaving'[t].call = c
            /\ leaving'[t].wasActive = leaving[t].wasActive
        <4>1. CASE leaving[t].wasActive
          BY <2>5, <4>1 DEF ForgetIps, TypeOK, Removals
        <4>2. CASE ~leaving[t].wasActive
          <5>1. leaving'[t] = NotLeaving
            BY <2>5, <4>2 DEF ForgetIps, TypeOK
          <5>2. leaving[t].wasActive = FALSE
            BY <4>2 DEF TypeOK, Removals
          <5>3. QED BY <5>1, <5>2
        <4>3. QED BY <4>1, <4>2
      <3>3. \A u \in Threads : u # t => leaving'[u] = leaving[u]
        BY <2>5 DEF ForgetIps, TypeOK
      <3>4. /\ c \notin stations /\ c \notin known
            /\ \A ip \in Ips : byIp[ip] = c => ip \in leaving[t].ips
        BY <1>2, <3>1 DEF RemovalInv
      <3>5. \A u \in Threads : leaving[u].step = "ips" => leaving[u].call # NoCall
        BY ServiceAssumption DEF Places, LeaveInv
      <3> HIDE DEF c
      <3>6. TablesInv'
        BY <1>2, <3>1 DEF TablesInv
      <3>7. RemovalInv'
        BY <1>2, <3>1, <3>2, <3>3, <3>4, <3>5 DEF RemovalInv
      <3>8. PeersMatchStations'
        BY <1>2, <3>1, <3>2, <3>3 DEF PeersMatchStations, LeavingAt
      <3>9. IpEntriesLive'
        BY <1>2, <3>1, <3>2, <3>3, <3>4 DEF IpEntriesLive, LeavingAt, c
      <3>10. KeyFollowsSpeaker'
        BY <1>2, <3>1, <3>2, <3>3 DEF KeyFollowsSpeaker
      <3>11. BlockedStaysOut'
        BY <1>2, <3>1, <3>2, <3>3, <3>4 DEF BlockedStaysOut, c
      <3>12. QED BY <3>6, <3>7, <3>8, <3>9, <3>10, <3>11
    <2>6. CASE Unkey(t)
      <3>1. /\ leaving[t].step = "key" /\ keyRequested' = FALSE
            /\ UNCHANGED <<known, byIp, stations, active, target, job, alive, banned>>
        BY <2>6 DEF Unkey
      <3>2. /\ leaving'[t] = NotLeaving
            /\ \A u \in Threads : u # t => leaving'[u] = leaving[u]
        BY <2>6 DEF Unkey, TypeOK
      <3>3. c \notin stations /\ c \notin known
        BY <1>2, <3>1 DEF RemovalInv
      <3>4. TablesInv'
        BY <1>2, <3>1 DEF TablesInv
      <3>5. RemovalInv'
        BY <1>2, <3>1, <3>2 DEF RemovalInv
      <3>6. PeersMatchStations'
        BY <1>2, <3>1, <3>2 DEF PeersMatchStations, LeavingAt
      <3>7. IpEntriesLive'
        BY <1>2, <3>1, <3>2 DEF IpEntriesLive, LeavingAt
      <3>8. KeyFollowsSpeaker'
        BY <1>2, <3>1 DEF KeyFollowsSpeaker
      <3>9. BlockedStaysOut'
        BY <1>2, <3>1, <3>2, <3>3 DEF BlockedStaysOut, Threads
      <3>10. QED BY <3>4, <3>5, <3>6, <3>7, <3>8, <3>9
    <2>7. QED BY <2>3, <2>4, <2>5, <2>6 DEF Leave
  <1>3. CASE raced
    <2>1. raced' /\ RacedInv'
      BY <1>1, <1>3
    <2>2. (keyRequested' => keyRequested) /\ UNCHANGED alive
      BY DEF Leave, RemoveStation, ForgetPeer, ForgetIps, Unkey
    <2>3. QED
      BY <2>1, <2>2 DEF TablesInv, RemovalInv, PeersMatchStations, IpEntriesLive, KeyFollowsSpeaker,
                        BlockedStaysOut
  <1>4. QED BY <1>2, <1>3

(* Entering a removal disturbs nothing: the removal has yet to happen.     *)
LEMMA DisconnectSafe ==
  ASSUME TypeOK, Places, Safe, NEW t \in Threads, NEW c \in Calls, Disconnect(t, c), Watch,
         leaving[t] = NotLeaving, UNCHANGED <<known, byIp, stations, active, keyRequested, job, alive, banned>>,
         target' = target \/ (t = "main" /\ target' = target \ {c})
  PROVE  Safe'
  <1> USE NoneFacts, NotRaced DEF Safe
  <1>1. /\ \/ leaving' = leaving /\ c \notin known
           \/ /\ leaving'[t].step = "station" /\ leaving'[t].call = c
              /\ leaving'[t].wasActive = (active = c)
        /\ \A u \in Threads : u # t => leaving'[u] = leaving[u]
    BY DEF Disconnect, WasActive, TypeOK
  <1>2. TablesInv'
    BY DEF TablesInv
  <1>3. RemovalInv'
    BY <1>1 DEF RemovalInv
  <1>4. PeersMatchStations'
    BY <1>1 DEF PeersMatchStations, LeavingAt
  <1>5. IpEntriesLive'
    BY <1>1 DEF IpEntriesLive, LeavingAt
  <1>6. KeyFollowsSpeaker'
    BY <1>1 DEF KeyFollowsSpeaker
  <1>7. BlockedStaysOut'
    <2> SUFFICES ASSUME ~raced', NEW d \in banned, d \notin target', d # leaving'["main"].call
                 PROVE  d \notin known \cup stations
      BY DEF BlockedStaysOut
    <2>1. CASE d \in target
      BY <1>1, <2>1 DEF TablesInv
    <2>2. CASE d \notin target
      <3>1. t # "main" \/ leaving["main"].call = NoCall
        OBVIOUS
      <3>2. d \in Calls /\ d # NoCall
        BY ServiceAssumption DEF TypeOK
      <3>3. d # leaving["main"].call
        BY <1>1, <3>1, <3>2
      <3>4. QED BY <2>2, <3>3 DEF BlockedStaysOut
    <2>3. QED BY <2>1, <2>2
  <1>8. QED BY <1>2, <1>3, <1>4, <1>5, <1>6, <1>7

(* The end of the service thread leaves nothing keyed, and no property of  *)
(* the tables is asked of it.                                              *)
LEMMA DieSafe ==
  ASSUME TypeOK, Places, Safe, Die, Watch, UNCHANGED <<known, byIp, stations, banned, target>>,
         ~raced => UNCHANGED active
  PROVE  Safe'
  <1> USE NoneFacts, NotRaced DEF Safe
  <1>1. /\ ~alive' /\ ~keyRequested' /\ job' = NoJob
        /\ leaving'["service"] = NotLeaving /\ leaving'["main"] = leaving["main"]
    BY DEF Die, TypeOK
  <1>2. TablesInv' /\ PeersMatchStations' /\ IpEntriesLive'
    BY <1>1 DEF TablesInv, PeersMatchStations, IpEntriesLive
  <1>3. RemovalInv'
    BY <1>1 DEF RemovalInv, Threads
  <1>4. KeyFollowsSpeaker'
    BY <1>1 DEF KeyFollowsSpeaker
  <1>5. BlockedStaysOut'
    BY <1>1 DEF BlockedStaysOut
  <1>6. QED BY <1>2, <1>3, <1>4, <1>5

(* Once a command about the station in hand is on record, only the unkey   *)
(* at the end of the service is still asked for.                           *)
LEMMA RacedSafe ==
  ASSUME Watch, raced', keyRequested' => alive'
  PROVE  Safe'
  BY NotRaced DEF Safe, TablesInv, RemovalInv, PeersMatchStations, IpEntriesLive, KeyFollowsSpeaker, BlockedStaysOut

(* A step that only moves the job on, and not to or from the registration. *)
LEMMA JobSafe ==
  ASSUME Safe, Watch, UNCHANGED <<known, byIp, stations, active, keyRequested, leaving, target, alive, banned>>,
         job.step # "add", job'.step # "add", TablesInv'
  PROVE  Safe'
  <1> USE NotRaced DEF Safe
  <1>1. RemovalInv' /\ KeyFollowsSpeaker' /\ BlockedStaysOut'
    BY DEF RemovalInv, KeyFollowsSpeaker, BlockedStaysOut
  <1>2. PeersMatchStations' /\ IpEntriesLive'
    BY DEF PeersMatchStations, IpEntriesLive, LeavingAt
  <1>3. QED BY <1>1, <1>2
-----------------------------------------------------------------------------
(* A packet, from its arrival to its first table.                          *)
LEMMA PacketSafe ==
  ASSUME TypeOK, Places, Safe, NEW addr \in Addrs, Packet(addr)
  PROVE  Safe'
  <1> USE NoneFacts, ServiceAssumption DEF speakerVars, mainVars
  <1>1. /\ UNCHANGED <<active, keyRequested, target, alive, banned>> /\ Watch
        /\ alive /\ ~raced /\ job = NoJob /\ leaving["service"] = NotLeaving
    BY DEF Packet, Ready
  <1>2. CASE Goodbye(addr)
    <2>1. PICK c \in Lookup(addr) : Disconnect("service", c)
      BY <1>2 DEF Goodbye
    <2>2. c \in Calls
      BY LookupFinds
    <2>3. QED BY <1>1, <1>2, <2>1, <2>2, DisconnectSafe DEF Goodbye
  <1>3. CASE TouchOnly(addr)
    <2>1. UNCHANGED <<known, byIp, stations, job, leaving>>
      BY <1>3 DEF TouchOnly
    <2>2. TablesInv'
      BY <1>1, <2>1, NotRaced DEF Safe, TablesInv
    <2>3. QED BY <1>1, <2>1, <2>2, JobSafe
  <1>4. ASSUME NEW c \in Calls, ~raced', job'.call = c, UNCHANGED leaving
        PROVE  \A t \in Threads : leaving[t].step # "none" => leaving[t].call # c
    BY <1>1, <1>4, NotRaced DEF Collide, Threads
  <1>5. ASSUME NEW sock \in Sockets, NEW c \in Calls, NEW voice \in -1 .. MaxFrames,
               Connect(addr, sock, c, voice)
        PROVE  Safe'
    <2>1. UNCHANGED <<known, byIp, stations, leaving>>
      BY <1>5 DEF Connect
    <2>2. PICK step \in {"bind", "admit"} :
            /\ job' = Job(step, c, addr, sock, voice)
            /\ IF step = "bind" THEN c \in known ELSE c \notin known \cup banned
      BY <1>5 DEF Connect
    <2>3. step \in JobSteps /\ addr \in MaybeAddr
      BY DEF JobSteps, MaybeAddr
    <2>4. job'.step = step /\ job'.call = c
      BY <2>2, <2>3, JobType
    <2>5. ASSUME ~raced', step = "bind" PROVE c \in stations
      BY <1>1, <1>4, <2>1, <2>2, <2>4, <2>5 DEF Safe, PeersMatchStations, LeavingAt
    <2>6. TablesInv'
      BY <1>1, <2>1, <2>2, <2>4, <2>5, NotRaced DEF Safe, TablesInv
    <2>7. QED BY <1>1, <2>1, <2>4, <2>6, JobSafe
  <1>6. ASSUME NEW voice \in -1 .. MaxFrames, KnownAudio(addr, voice) PROVE Safe'
    <2> DEFINE c == byIp[IpOf[addr]]
    <2>1. /\ UNCHANGED <<known, byIp, stations, leaving>> /\ c \in Calls
          /\ job' = NoJob \/ job' = Job("heard", c, NoAddr, "audio", voice)
      BY <1>6 DEF KnownAudio, HeardFrom, TypeOK, MaybeCall
    <2>2. "heard" \in JobSteps /\ NoAddr \in MaybeAddr /\ "audio" \in Sockets
      BY DEF JobSteps, MaybeAddr, Sockets
    <2>3. job' = NoJob \/ (job'.step = "heard" /\ job'.call = c)
      BY <2>1, <2>2, JobType
    <2>4. ASSUME ~raced', job'.step = "heard" PROVE c \in stations
      <3>1. c \in stations \cup {NoCall} \cup LeavingAt({"peer", "ips"})
        BY <1>1 DEF Safe, IpEntriesLive
      <3>2. c \notin LeavingAt({"peer", "ips"})
        BY <1>4, <2>1, <2>3, <2>4 DEF LeavingAt
      <3>3. QED BY <2>1, <3>1, <3>2
    <2>5. TablesInv'
      BY <1>1, <2>1, <2>3, <2>4, NotRaced DEF Safe, TablesInv
    <2>6. QED BY <1>1, <2>1, <2>3, <2>5, JobSafe
  <1>7. -1 \in -1 .. MaxFrames /\ "audio" \in Sockets /\ UnknownCall(IpOf[addr]) \in Calls
    BY DEF Sockets, Calls
  <1>8. QED
    BY <1>2, <1>3, <1>5, <1>6, <1>7 DEF Packet, Identify, UnknownAudio, TypeOK

(* A packet, from there to its last frame.                                 *)
LEMMA HandleSafe ==
  ASSUME TypeOK, Places, Safe, HandlePacket, ~raced'
  PROVE  Safe'
  <1> USE NoneFacts, NotRaced DEF mainVars, tableVars, speakerVars
  <1> DEFINE c == job.call
  <1>1. /\ UNCHANGED <<target, banned>> /\ Watch /\ alive /\ ~raced
    BY DEF HandlePacket
  <1>2. /\ TablesInv /\ RemovalInv /\ PeersMatchStations /\ IpEntriesLive
        /\ KeyFollowsSpeaker /\ BlockedStaysOut
    BY DEF Safe
  <1>3. ASSUME job.step \notin {"none", "tail"}
        PROVE  /\ c \in Calls /\ c # NoCall /\ leaving["service"] = NotLeaving
               /\ \A t \in Threads : leaving[t].step # "none" => leaving[t].call # c
    <2>1. c \in Calls /\ leaving["service"] = NotLeaving
      BY <1>3 DEF Places, JobInv
    <2>2. ~Collide
      BY <1>1 DEF Safe, RacedInv
    <2>3. QED BY <2>1, <2>2, ServiceAssumption DEF Collide, Threads
  <1>4. CASE RecordPeer
    <2>1. /\ job.step = "admit" /\ known' = known \cup {c} /\ job'.step = "add" /\ job'.call = c
          /\ UNCHANGED <<byIp, stations, active, keyRequested, leaving, alive>>
      BY <1>4 DEF RecordPeer, TypeOK, Jobs
    <2>2. c \notin known \cup banned
      BY <1>1, <1>2, <2>1 DEF TablesInv
    <2> HIDE DEF c
    <2>3. TablesInv'
      BY <1>1, <1>2, <2>1 DEF TablesInv
    <2>4. RemovalInv'
      BY <1>1, <1>2, <1>3, <2>1 DEF RemovalInv
    <2>5. PeersMatchStations'
      BY <1>1, <1>2, <1>3, <2>1, <2>2 DEF PeersMatchStations, LeavingAt
    <2>6. IpEntriesLive' /\ KeyFollowsSpeaker'
      BY <1>1, <1>2, <2>1 DEF IpEntriesLive, LeavingAt, KeyFollowsSpeaker
    <2>7. BlockedStaysOut'
      BY <1>1, <1>2, <2>1, <2>2 DEF BlockedStaysOut
    <2>8. QED BY <1>1, <2>3, <2>4, <2>5, <2>6, <2>7 DEF Safe
  <1>5. CASE AddStation /\ Refused
    BY <1>1, <1>5, DieSafe DEF AddStation
  <1>6. CASE AddStation /\ ~Refused
    <2>1. /\ job.step = "add" /\ stations' = stations \cup {c} /\ job'.step = "bind" /\ job'.call = c
          /\ UNCHANGED <<known, byIp, active, keyRequested, leaving, alive>>
      BY <1>6 DEF AddStation, TypeOK, Jobs
    <2>2. c \in known
      BY <1>1, <1>2, <2>1 DEF TablesInv
    <2>3. stations' = known \ LeavingAt({"peer"})
      BY <1>1, <1>2, <1>3, <2>1, <2>2 DEF PeersMatchStations, LeavingAt
    <2> HIDE DEF c
    <2>4. TablesInv'
      BY <1>1, <1>2, <2>1, <2>2 DEF TablesInv
    <2>5. RemovalInv'
      BY <1>1, <1>2, <1>3, <2>1 DEF RemovalInv
    <2>6. PeersMatchStations'
      BY <2>1, <2>3 DEF PeersMatchStations, LeavingAt
    <2>7. IpEntriesLive' /\ KeyFollowsSpeaker'
      BY <1>1, <1>2, <2>1 DEF IpEntriesLive, LeavingAt, KeyFollowsSpeaker
    <2>8. BlockedStaysOut'
      BY <1>1, <1>2, <2>1, <2>2 DEF BlockedStaysOut
    <2>9. QED BY <1>1, <2>4, <2>5, <2>6, <2>7, <2>8 DEF Safe
  <1>7. CASE Bind
    <2>1. /\ job.step = "bind" /\ byIp' = [byIp EXCEPT ![IpOf[job.addr]] = c]
          /\ UNCHANGED <<known, stations, active, keyRequested, leaving, alive>>
          /\ job' = NoJob \/ job' = Job("heard", c, NoAddr, "audio", job.voice)
      BY <1>7 DEF Bind, HeardFrom
    <2>2. c \in stations /\ c \in Calls
      BY <1>1, <1>2, <1>3, <2>1 DEF TablesInv
    <2>3. /\ "heard" \in JobSteps /\ "audio" \in Sockets /\ NoAddr \in MaybeAddr
          /\ job.voice \in -1 .. MaxFrames
      BY DEF JobSteps, Sockets, MaybeAddr, TypeOK, Jobs
    <2>4. job' = NoJob \/ (job'.step = "heard" /\ job'.call = c)
      BY <2>1, <2>2, <2>3, JobType
    <2>5. \A ip \in Ips : byIp'[ip] = byIp[ip] \/ byIp'[ip] = c
      BY <2>1 DEF TypeOK
    <2> HIDE DEF c
    <2>6. TablesInv'
      BY <1>1, <1>2, <2>1, <2>2, <2>4 DEF TablesInv
    <2>7. RemovalInv'
      BY <1>1, <1>2, <1>3, <2>1, <2>5 DEF RemovalInv
    <2>8. PeersMatchStations'
      BY <1>1, <1>2, <2>1, <2>4 DEF PeersMatchStations, LeavingAt
    <2>9. IpEntriesLive'
      BY <1>1, <1>2, <2>1, <2>2, <2>5 DEF IpEntriesLive, LeavingAt
    <2>10. KeyFollowsSpeaker' /\ BlockedStaysOut'
      BY <1>1, <1>2, <2>1 DEF KeyFollowsSpeaker, BlockedStaysOut
    <2>11. QED BY <1>1, <2>6, <2>7, <2>8, <2>9, <2>10 DEF Safe
  <1>8. ASSUME NextFrame, job.step \in {"heard", "voice", "key"} PROVE job'.step # "add" /\
               (UNCHANGED <<known, stations, banned>> /\ (job'.step = "none" => job' = NoJob) => TablesInv')
    <2>1. job' = NoJob \/ (job'.step = "voice" /\ job'.call = c)
      BY <1>8, NextFrameType DEF TypeOK
    <2>2. c \in stations
      BY <1>1, <1>2, <1>8 DEF TablesInv
    <2>3. QED BY <1>1, <1>2, <2>1, <2>2 DEF TablesInv
  <1>9. ASSUME NextFrame, job.step \in {"heard", "voice", "key"} PROVE job'.step = "none" => job' = NoJob
    BY <1>9, NextFrameType DEF TypeOK
  <1>10. CASE Hear \/ HoldBack
    <2>1. /\ NextFrame /\ job.step \in {"heard", "voice"}
          /\ UNCHANGED <<known, byIp, stations, active, keyRequested, leaving, alive>>
      BY <1>10 DEF Hear, HoldBack
    <2>2. QED BY <1>1, <1>8, <1>9, <2>1, JobSafe
  <1>11. CASE TakeFloor
    <2>1. /\ job.step = "voice" /\ c \in stations /\ active' = c /\ job'.step = "key" /\ job'.call = c
          /\ UNCHANGED <<known, byIp, stations, keyRequested, leaving, alive>>
      BY <1>11 DEF TakeFloor, TypeOK, Jobs
    <2> HIDE DEF c
    <2>2. TablesInv'
      BY <1>1, <1>2, <2>1 DEF TablesInv
    <2>3. RemovalInv'
      BY <1>1, <1>2, <1>3, <2>1 DEF RemovalInv
    <2>4. PeersMatchStations' /\ IpEntriesLive'
      BY <1>1, <1>2, <2>1 DEF PeersMatchStations, IpEntriesLive, LeavingAt
    <2>5. KeyFollowsSpeaker' /\ BlockedStaysOut'
      BY <1>1, <1>2, <1>3, <2>1 DEF KeyFollowsSpeaker, BlockedStaysOut
    <2>6. QED BY <1>1, <2>2, <2>3, <2>4, <2>5 DEF Safe
  <1>12. CASE SpeakerGone
    BY <1>1, <1>2, <1>12 DEF SpeakerGone, TablesInv
  <1>13. CASE RequestKey
    <2>1. /\ NextFrame /\ job.step = "key" /\ keyRequested' = TRUE
          /\ UNCHANGED <<known, byIp, stations, active, leaving, alive>>
      BY <1>13 DEF RequestKey
    <2>2. active = c /\ c # NoCall
      BY <1>1, <1>2, <1>3, <2>1 DEF TablesInv
    <2>3. job'.step # "add" /\ TablesInv'
      BY <1>1, <1>8, <1>9, <2>1
    <2>4. RemovalInv' /\ BlockedStaysOut' /\ KeyFollowsSpeaker'
      BY <1>1, <1>2, <2>1, <2>2 DEF RemovalInv, BlockedStaysOut, KeyFollowsSpeaker
    <2>5. PeersMatchStations' /\ IpEntriesLive'
      BY <1>1, <1>2, <2>1, <2>3 DEF PeersMatchStations, IpEntriesLive, LeavingAt
    <2>6. QED BY <1>1, <2>3, <2>4, <2>5 DEF Safe
  <1>14. QED
    BY <1>4, <1>5, <1>6, <1>7, <1>10, <1>11, <1>12, <1>13 DEF HandlePacket
-----------------------------------------------------------------------------
(* Every step keeps the tables, the floor, the key and the ban list right. *)
LEMMA SafeStep ==
  ASSUME TypeOK, Places, Safe, [Next]_vars
  PROVE  Safe'
  <1> USE NoneFacts, NotRaced DEF tableVars, speakerVars, mainVars
  <1>1. CASE UNCHANGED vars
    BY <1>1 DEF vars, Safe, RacedInv, Collide, TablesInv, RemovalInv, PeersMatchStations, IpEntriesLive,
                KeyFollowsSpeaker, BlockedStaysOut, LeavingAt
  <1>2. CASE \E addr \in Addrs : Packet(addr)
    BY <1>2, PacketSafe
  <1>3. CASE HandlePacket
    <2>1. Watch /\ (keyRequested' => alive')
      BY <1>3 DEF HandlePacket, RecordPeer, AddStation, Bind, Hear, TakeFloor, HoldBack, SpeakerGone,
                  RequestKey, Die, Safe, KeyFollowsSpeaker
    <2>2. QED BY <1>3, <2>1, RacedSafe, HandleSafe DEF Watch, TypeOK
  <1>4. CASE ServiceLeaves
    <2>1. leaving["service"].step # "none"
      BY <1>4 DEF ServiceLeaves, Leave, RemoveStation, ForgetPeer, ForgetIps, Unkey
    <2>2. job.step \in {"none", "tail"}
      BY <2>1 DEF Places, JobInv
    <2>3. QED BY <1>4, <2>2, LeaveSafe DEF ServiceLeaves
  <1>5. CASE ExpirePeer
    <2>1. PICK c \in Stale : Disconnect("service", c)
      BY <1>5 DEF ExpirePeer
    <2>2. c \in Calls
      BY DEF Stale, TypeOK
    <2>3. QED BY <1>5, <2>1, <2>2, DisconnectSafe DEF ExpirePeer, InTail
  <1>6. CASE EndTail
    <2>1. /\ UNCHANGED <<known, byIp, stations, active, keyRequested, leaving, target, alive, banned>>
          /\ Watch /\ job = Tail /\ job' = NoJob
      BY <1>6 DEF EndTail, InTail
    <2>2. TablesInv'
      BY <2>1 DEF Safe, TablesInv
    <2>3. QED BY <2>1, <2>2, JobSafe
  <1>7. CASE BeginTail
    <2>1. /\ UNCHANGED <<known, byIp, stations, keyRequested, target, alive, banned>> /\ Watch
          /\ job = NoJob /\ job' = Tail /\ ~raced /\ leaving["service"] = NotLeaving
      BY <1>7 DEF BeginTail, Ready
    <2>2. CASE SpeakerIdle
      <3>1. active' = NoCall /\ leaving'["main"] = leaving["main"]
        BY <1>7, <2>2 DEF BeginTail, FreeFloor, TypeOK
      <3>2. /\ leaving'["service"].step = "key" /\ leaving'["service"].wasActive
            /\ leaving'["service"].call = NoCall
        BY <1>7, <2>1, <2>2 DEF BeginTail, TypeOK, Removals
      <3>3. NoCall \notin known \cup stations
        BY ServiceAssumption DEF TypeOK
      <3>4. leaving["main"].step = "station" => leaving["main"].call # NoCall
        BY ServiceAssumption DEF Places, LeaveInv
      <3>5. TablesInv' /\ BlockedStaysOut'
        BY <2>1, <3>1 DEF Safe, TablesInv, BlockedStaysOut
      <3>6. RemovalInv'
        BY <2>1, <3>1, <3>2, <3>3, <3>4 DEF Safe, RemovalInv, Threads
      <3>7. PeersMatchStations' /\ IpEntriesLive'
        BY <2>1, <3>1, <3>2 DEF Safe, PeersMatchStations, IpEntriesLive, LeavingAt, Threads
      <3>8. KeyFollowsSpeaker'
        BY <2>1, <3>1, <3>2 DEF Safe, KeyFollowsSpeaker
      <3>9. QED BY <2>1, <3>5, <3>6, <3>7, <3>8 DEF Safe
    <2>3. CASE ~SpeakerIdle
      <3>1. UNCHANGED <<active, leaving>>
        BY <1>7, <2>3 DEF BeginTail
      <3>2. TablesInv'
        BY <2>1, <3>1 DEF Safe, TablesInv
      <3>3. QED BY <2>1, <3>1, <3>2, JobSafe
    <2>4. QED BY <2>2, <2>3
  <1>8. CASE Tick
    <2>1. /\ UNCHANGED <<known, byIp, stations, active, keyRequested, job, leaving, target, alive, banned>>
          /\ Watch /\ job = NoJob
      BY <1>8 DEF Tick, Ready
    <2>2. TablesInv'
      BY <2>1 DEF Safe, TablesInv
    <2>3. QED BY <2>1, <2>2, JobSafe
  <1>9. CASE LoopEnds \/ Raise
    BY <1>9, DieSafe DEF LoopEnds, Raise
  <1>10. CASE Command
    <2>1. UNCHANGED <<known, byIp, stations, active, keyRequested, job, alive>> /\ Watch
      BY <1>10 DEF Command
    <2>2. ASSUME NEW c \in Calls, AdminDisconnect(c) PROVE Safe'
      BY <2>1, <2>2, DisconnectSafe DEF AdminDisconnect, Idle
    <2>3. CASE DisconnectNext
      <3>1. PICK c \in target : Disconnect("main", c) /\ target' = target \ {c}
        BY <2>3 DEF DisconnectNext
      <3>2. c \in Calls
        BY DEF TypeOK
      <3>3. QED BY <2>1, <2>3, <3>1, <3>2, DisconnectSafe DEF DisconnectNext
    <2>4. ASSUME UNCHANGED leaving, TablesInv', BlockedStaysOut' PROVE Safe'
      <3>1. RemovalInv' /\ KeyFollowsSpeaker'
        BY <2>1, <2>4 DEF Safe, RemovalInv, KeyFollowsSpeaker
      <3>2. PeersMatchStations' /\ IpEntriesLive'
        BY <2>1, <2>4 DEF Safe, PeersMatchStations, IpEntriesLive, LeavingAt
      <3>3. QED BY <2>1, <2>4, <3>1, <3>2 DEF Safe
    <2>5. ASSUME NEW c \in Bannable, Block(c) PROVE Safe'
      <3>1. /\ UNCHANGED leaving /\ banned' = banned \cup {c} /\ main' = "blocking" /\ target' = {c}
            /\ target = {} /\ ~raced
        BY <2>5 DEF Block, Idle, Places, TargetInv
      <3>2. ~raced' => job.call # c
        BY <2>1, <3>1 DEF Collide
      <3>3. TablesInv'
        BY <2>1, <3>1, <3>2 DEF Safe, TablesInv
      <3>4. BlockedStaysOut'
        BY <2>1, <3>1 DEF Safe, BlockedStaysOut
      <3>5. QED BY <2>4, <3>1, <3>3, <3>4
    <2>6. CASE DisconnectAll \/ CommandDone
      <3>1. /\ UNCHANGED <<leaving, banned>> /\ target \subseteq target'
        BY <2>6 DEF DisconnectAll, CommandDone, Idle, Places, TargetInv
      <3>2. TablesInv' /\ BlockedStaysOut'
        BY <2>1, <3>1 DEF Safe, TablesInv, BlockedStaysOut
      <3>3. QED BY <2>4, <3>1, <3>2
    <2>7. QED BY <1>10, <2>2, <2>3, <2>5, <2>6 DEF Command
  <1>11. CASE Leave("main") /\ Watch
    BY <1>11, LeaveSafe
  <1>12. QED
    BY <1>1, <1>2, <1>3, <1>4, <1>5, <1>6, <1>7, <1>8, <1>9, <1>10, <1>11 DEF Next, GoOn, MainThread, Ended

(* Nothing is wrong at the start.                                          *)
LEMMA InitSafe == Init => Safe
  <1> SUFFICES ASSUME Init PROVE Safe
    OBVIOUS
  <1>1. /\ known = {} /\ stations = {} /\ active = NoCall /\ keyRequested = FALSE
        /\ job.step = "none" /\ main = "idle"
        /\ \A t \in Threads : leaving[t].step = "none" /\ leaving[t].call = NoCall
        /\ \A ip \in Ips : byIp[ip] = NoCall
    BY NoneFacts DEF Init
  <1>2. RacedInv /\ TablesInv /\ RemovalInv
    BY <1>1, NoneFacts DEF RacedInv, Collide, TablesInv, RemovalInv
  <1>3. PeersMatchStations /\ IpEntriesLive /\ KeyFollowsSpeaker /\ BlockedStaysOut
    BY <1>1 DEF PeersMatchStations, IpEntriesLive, KeyFollowsSpeaker, BlockedStaysOut
  <1>4. QED BY <1>2, <1>3 DEF Safe

(* The strengthening: beside the properties themselves, what each step of  *)
(* a packet and of a removal has established for its station, and that a   *)
(* command about the station in hand is on record.                         *)
THEOREM Inductive == Spec => []IInv
  <1>1. Init => IInv
    BY InitType, InitSafe DEF IInv
  <1>2. IInv /\ [Next]_vars => IInv'
    BY TypeStep, SafeStep DEF IInv
  <1>3. QED BY <1>1, <1>2, PTL DEF Spec

(* The peer table and the conference name the same stations, but for those *)
(* that a thread is just adding or removing.                               *)
THEOREM TablesAgree == Spec => []PeersMatchStations
  <1>1. IInv => PeersMatchStations
    BY DEF IInv, Safe
  <1>2. QED BY <1>1, Inductive, PTL

(* No IP address leads to a station that is gone.                          *)
THEOREM NoStaleIp == Spec => []IpEntriesLive
  <1>1. IInv => IpEntriesLive
    BY DEF IInv, Safe
  <1>2. QED BY <1>1, Inductive, PTL

(* The gateway is asked to key only while a connected station has the      *)
(* floor or the unkey is under way.                                        *)
THEOREM KeyedForSpeaker == Spec => []KeyFollowsSpeaker
  <1>1. IInv => KeyFollowsSpeaker
    BY DEF IInv, Safe
  <1>2. QED BY <1>1, Inductive, PTL

(* A blocked station is out and stays out.                                 *)
THEOREM BlockHolds == Spec => []BlockedStaysOut
  <1>1. IInv => BlockedStaysOut
    BY DEF IInv, Safe
  <1>2. QED BY <1>1, Inductive, PTL
=============================================================================
