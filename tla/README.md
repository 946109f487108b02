# EchoLink OB Gateway: TLA+ verification project

The gateway joins an EchoLink conference to a DMR talkgroup: it takes GSM voice
from EchoLink clients, sends PCM over USRP to Analog_Bridge, receives AMBE from
Analog_Bridge as TLV datagrams, sends it as DMRD packets to an OpenBridge peer,
and does the same backwards. This directory holds TLA+ models of the parts that
decide who is heard, when the transmitters are keyed and what survives a failure,
the TLC runs that check them, and TLAPS proofs for every value of their
parameters. Paths below are relative to `src/app/echolink_ob/` unless they start
with `src/`.

## Inventory

| Component | State | Operations | Hard part |
|---|---|---|---|
| EchoLink service, `echolink/service.py` with `conference.py`, `audio_router.py`, `access.py` | `peers_by_call`, `peers_by_ip`, `stations`, `active_speaker`, RTP state of each peer, DMR audio flag, roster timer | control, audio and USRP handlers, tail of the run loop; disconnect, block and stop called by the main thread | two threads on unlocked dictionaries; peers found by endpoint, by IP or because they are alone; timeouts |
| EchoLink datagrams, `echolink/rtp.py` | none | tell RTCP, RTP and text apart | lengths taken from the datagram, several views of one text |
| USRP transmit side, `service.py` | bounded queue, `_usrp_key_requested`, `_usrp_keyed`, sequence number | `_queue_usrp_keyup`, `_queue_usrp_unkey`, `_send_pcm_to_usrp`, `close`, pacer thread | a full queue, three threads, shutdown order |
| TLV to OpenBridge, `bridge/runtime.py` `_tlv_to_openbridge_loop` | stream builder, prebuffer, `last_audio_time`, `tlv_format` | receive, hang timeout, stop | paced sends during which everything else moves on |
| OpenBridge to TLV, `_openbridge_to_tlv_loop`, `openbridge/client.py` | active stream, pacer deadline, `tlv_format` (shared) | receive voice, terminator | streams that alternate, terminators of other streams, format replaced by the other thread |
| Full runtime, `full_runtime.py`, with `vocoder/md380emu_process.py`, the directory client and the systemd unit | children, threads, stop event, exit code, directory listing | start, run, stop, main | failure at every point of start and stop, restart |
| Dashboard commands, `dashboard/control.py` | the command file, processed ids | append (web thread), read, remove (main thread) | read-modify-write of a file another thread appends to; crashes |
| Last heard, `dashboard/lastheard.py` | one JSON file, two recording stores | record, read, write | each store has its own lock; write empties first |
| Captures, `openbridge/recorder.py`, `analyzer.py`, `replay.py`, `analog/tone_openbridge.py`, `openbridge/dmrd.py`, `dmr/ambe.py` | four files per stream | record, replay, split, build | sessions cut short, gaps, wrap, flag bits |
| Port plan, `analog/ports.py` | the state file | `build_port_plan` | reuse, conflicts, ports in use |
| Identity, vocoder clients, arbiter, jitter buffer, configuration, tools | - | - | not modelled, see below |

Interaction: the service thread calls the conference and the router, which call
back into the service (`_send_pcm_to_usrp`, `_send_pcm_to_station`); the pacer
thread takes what that puts into the queue; Analog_Bridge answers with TLV
datagrams that the uplink thread reads, which for each stream asks the service,
across threads, who is speaking. The downlink thread shares `tlv_format` with the
uplink thread. The main thread starts and stops all of them, polls the children
and the dashboard's command file and calls into the service without a lock. What
makes each component correct:

* service: the tables name the same stations, a lookup never yields a station
  that is gone, the floor and the key-up agree, a block lasts, a silent speaker is
  released, each frame a client is given leaves once, the thread goes on until it
  is told to stop;
* USRP side: the wire is a push-to-talk line, no key-up is lost, nothing stays
  keyed when nobody speaks or after `close()`;
* uplink: the wire is a sequence of DMR streams cut after the template, in order
  and without loss, closed when audio stops and when the runtime stops;
* downlink: audio follows the start of its own stream, at the pace of DMR;
* runtime: it ends when told or when a child is dead, and leaves no child and no
  listing behind; commands act once; records are kept;
* captures: what is replayed or built is a gapless stream of what was recorded;
* ports: programs that plan one after the other meet.

## Modules

| Module | Models |
|---|---|
| `PttLine` | abstract: what Analog_Bridge may see on the USRP socket |
| `UsrpTx` | the transmit queue, its producers and the pacer, one step per queue or lock operation; implements `PttLine` |
| `EchoLinkService` | stations, addresses, floor, key request, ban list; the service thread and the main thread |
| `EchoLinkDownlink` | voice and roster to the clients: dictionary walks one key at a time, frame buffers, idle release |
| `EchoLinkPackets`, `EchoLinkTexts` | operators: what kind of datagram a client has sent, from its 32-bit words and its text |
| `TlvFormat` | operators: which datagrams carry audio, and the passive learning of the TLV framing |
| `DmrStream` | abstract: what the OpenBridge peer may see |
| `OpenBridgeUplink` | the uplink thread and the stream builder, one step per packet sent; implements `DmrStream` |
| `OpenBridgeDownlink` | the downlink thread, its pacer, and the framing it shares (`TlvFormat`) |
| `DashboardCommands` | the command file between the web server's threads and the main thread, with crashes and restarts |
| `Lifecycle` | start, run and stop of the process, its children and threads, the directory, systemd |
| `LastHeardRecords`, `LastHeard` | the last-heard file between two stores, with failed writes and restarts |
| `DmrPackets` | operators: flag byte, gaps and superframes, replay, template split and builder |
| `DmrCapture` | the recorder's four files over sessions cut short, and what is made of them (`DmrPackets`) |
| `PortPlan` | operators: `build_port_plan` |
| `Decisions` | `EchoLinkPackets`, `EchoLinkTexts` and `PortPlan` each put to one input, the result kept beside it; the input is any datagram, text or plan of the kind |
| `*Proofs` | the theorems: eight modules. `RuntimeProofs` is about `LastHeard` and `Lifecycle`, `DataProofs` about `DmrCapture` and `Decisions`, the others about the module they are named after |
| `MC*` | TLC instances; `MCAlgorithms` gives `Decisions` every one of a bounded set of inputs |

**UsrpTx.** `queue`, `keyRequested`, `keyed`, `seq`, `stop` are the attributes of
the same names; `pc[t]` is the place of a producer thread in its call and `hand`
the item the pacer holds. The service thread runs `SpeakerFrame` (then
`RequestKeyup`, `PutKeyup`, `PutVoice`), `ReleaseSpeaker` (then `ClearKeyRequest`,
`DrainQueue`, `PutUnkey`) and `Close` (the same, then `SetStop`, `JoinPacer`); an
administrative thread runs `AdminDisconnect`. `overlapped` remembers that two
calls have overlapped, which the code does not prevent.

**EchoLinkService.** No lock orders the service thread and the main thread, so what
either does is cut where it comes back to shared state. `job` is the packet in hand:
`admit`, `add`, `bind` are the parts of `_connect_or_update_peer`, `heard` the
update of `last_heard_at`, then for each frame `voice` (`TakeFloor`, `HoldBack` or
`SpeakerGone`) and `key` (`RequestKey`); `tail` is the tail of the run loop.
`leaving[t]` is the `_disconnect_peer` that thread `t` is in: `RemoveStation`,
`ForgetPeer`, `ForgetIps` and, for the speaker, `Unkey`. A packet has a number of
frames, none at all if it is an RTP header only. Commands are `AdminDisconnect`,
`Block` and `DisconnectAll`, the last two of which disconnect `target` one by one
(`DisconnectNext`, `CommandDone`). With `CallsFail`, `Raise` lets the service end at
any of its steps, by a `sendto`, a file or a walk that fails. `raced` remembers that
a command hit the station whose packet or removal the service thread has in hand.
The model stops there, since the code may from there on hold two peer objects for
one callsign; the properties say `~raced` where they stop holding. In particular a
block that hits a station between its access check and its admission does not keep
it out.

**EchoLinkDownlink.** The two tables are one set here, which is what
`PeersMatchStations` of `EchoLinkService` says of them. `walk` is the loop the
service thread is in and `left` the keys it has not come to; `Remove`, by the main
thread, comes between any two of them and sets `shrunk`, after which `WalkRaises`
is the only step. `mark` and `collect` are walks over dictionaries, `send` over a
list made from one. `heard` and `unsent` are history; the buffer holds `pending`
frames.

**OpenBridgeUplink.** `template` is what a capture has around its voice: any number
of packets before, of which some may be old terminators, and after it a terminator,
another packet or none (`split_template_packets`). One iteration of the receive loop
computes the packets it will send into `out` (only this thread touches the builder),
and `Send` puts them on the wire one at a time, because `_pace_interval` sleeps
between them. `idle` is the age of `last_audio_time`; `heard` numbers the blocks a
stream has received, so that loss and reordering show on the wire. The mute, the
hang timeout, the stop and the change of speaker happen between any two steps.

**OpenBridgeDownlink.** The network delivers any packet at any time, so losses,
repetitions, reordering and streams that alternate need no state. A voice packet
is `Activate` then `Start` then `Audio`, or `Continue` then `Audio`; `Terminate` is
any terminator. `wait` is what is left until the pacer's deadline, `since` the
time since the last audio of any stream, which opening a stream leaves alone;
`owed` remembers whether a start datagram was known when the active stream was
opened, `opening` that its first burst is yet to come. `LearnFrom` is a step of the
uplink thread: headers, ends and begins come in `Variants`, so another header may
be learnt after the first.

**DashboardCommands.** `Post` makes a command and opens the file, `Write` writes
its line; `orphans` are the threads whose open file has been replaced since. The
main thread goes through `Poll` (read), one of `IgnoreStale`, `Reload`, `Obey` per
line, `AckRead` and `AckReplace` (the two halves of `remove_commands`), and back.
`Raise`, `AckFail` and `Crash` are its failures, `End` the exit, `Start` what
systemd does after any exit code but 0. The file is the set of its lines, since no
property depends on their order; `fresh` stands for `created_at` not before
`started_at_wall`. Both halves of the file's fate are on record: `excused` are
commands whose removal did not happen, `overlapped` those written during a removal.

**Lifecycle.** `pc` is the line of `start()`, `run()` or `stop()` that the main
thread is at; every call of `start()` may fail, and `disconnect_all` and the last
status file may raise inside `stop()` (`broken`). `ChildDies`, `ThreadEnds`,
`Terminate` and `Kill` come at any time. `listed` outlives the process and
`SystemdRestart` starts another one. `portBusy` is an md380-emu that somebody else runs.

**LastHeard.** `Read`, `Open` and `Write` are the three things `record()` does to
the file; `text` is what a reader finds in between. Two stores overlap in every
way; `alone` remembers whether they have, or a write was cut.

**DmrCapture.** One action per file that a packet is appended to; `Leave` in the
middle is an interrupt or a full disk, after which the file being written has
nothing of the record or a part of it (`torn`), and `Restart` the next session on
the same files. `files` has the whole records; a `.dmrd` file with a torn one is
refused by those who read captures (`Captures`). `DmrPackets` has what is computed
from the files; the properties are about both together, so that its inputs are
recordings that can really exist.

## Runs

| Run | Question | Result |
|---|---|---|
| `usrp_tx` | transmit side with a queue of three that is full all the time, one service and one admin thread | passes, 84 734 states |
| `echolink_service` | two endpoints with two IPs, one callsign on one socket each and the two UNKNOWN ones, limit 2, packets of up to one frame, timeouts of one tick, one bannable callsign, calls that fail | passes, 1 698 474 states |
| `conference_full` | does the service survive one station too many? | no: `RuntimeError` ends its thread |
| `echolink_downlink` | two stations, two frames to a packet, sequence modulus 2, idle timeout 1, roster every 2 ticks | passes, 151 360 states |
| `openbridge_uplink` | one station and the fallback id, three templates, prebuffer 3, superframe 2, sequence modulus 4, hang 2 | passes, 239 280 states |
| `openbridge_downlink` | three streams, interval of two ticks, two variants of every TLV datagram | passes, 74 976 states |
| `dashboard_commands` | two request threads, two reloads and a block, two failures | passes, 79 301 states |
| `lifecycle` | every configuration of the runtime; no parameters | passes, 177 742 states |
| `last_heard` | two stores, three callsigns of which the file keeps two, four records in two seconds | passes, 562 670 states |
| `dmr_capture` | two streams, superframe 2, sequence modulus 3, four packets of five flag bytes, one cut | passes, 64 686 states |
| `algorithms` | RTCP datagrams of up to two packets and GSM voice, with and without a text in them, texts of up to three words, port plans of five ports | passes, 232 800 states |
| `voice_bye` | is GSM voice ever taken for a goodbye? | yes: its sequence number is read as an RTCP length |

Properties, each with the hazard it is about in `PROJECT.json`:

* `usrp_tx`: `SerialNoStuckKey`, `ClosedUnkeyed`, `KeyupNotLost`; refinement
  `LineSpec`; liveness `SilenceUnkeys`.
* `echolink_service`: `PeersMatchStations`, `IpEntriesLive`, `KeyFollowsSpeaker`,
  `BlockedStaysOut`; liveness `SpeakerReleased`.
* `echolink_downlink`: `FramesAccounted`; liveness `DmrReleased`.
* `openbridge_uplink`: `TerminatedAtExit`; refinement `StreamSpec`; liveness
  `StreamsEnd`.
* `openbridge_downlink`: `StartDatagramKept`; action properties `OwnStart`, `Paced`.
* `dashboard_commands`: `ReloadOnce`, `RepeatedIfUnacked`, `KeptUntilHandled`;
  liveness `CommandsAct`.
* `lifecycle`: `NoOrphans`, `OfflineAtEnd`; liveness `GatewayEnds`.
* `last_heard`: `RecordKept`, `NewestKept`.
* `dmr_capture`: `FilesAgree`, `RecordedAsReceived`, `CaptureReplays`,
  `TemplateBuilds`.
* `algorithms`: `ByeSeen`, `LateVoiceStays`, `TextsKnown`, `PortsAgree`.
* Violated, each a finding in `PROJECT.json`: `ServiceSurvives` (`conference_full`)
  and `VoiceStays` (`voice_bye`). They state what a test or a comment says where the
  code does otherwise.

`usrp_tx` and `echolink_service` also check `TypeOK`, for the queue's capacity and
the station limit; for the other modules the types are proved. The operators
marked "Mutant" are the same definitions with a plausible bug; each breaks the
property it is paired with in `PROJECT.json`.

**Bounds.** `QMax = 3` is full after a key-up and two frames, so every `queue.Full`
path and both its retries happen. `MaxStations = 2` with three callsigns reaches the
full conference, a roaming station and an endpoint or address that stands for two
stations; one frame to a packet is enough for the floor to change hands between any
two steps, and none is the header without audio. The timeouts of one tick expire
apart all the same, since any packet restarts the one of the peer and only voice the
one of the speaker. Identities come on the audio socket there, on both sockets in
`conference_full`: the socket decides only which address of the peer is set. In the
downlink a second station leaves, is removed or is the speaker while the first is
visited, and counters modulo 2 wrap within two packets. `Prebuffer = 3` is the
default of the code (180 ms of 60 ms packets); `Superframe = 2` and `SeqMod = 4`
make the positions and the sequence number wrap inside one flush; the three
templates are a clean one, one that begins with an old terminator and closes with a
packet that is none, and one of voice only; `TlvMax = 1` suffices because a datagram
waits only while packets are being sent; `StreamMod = 2` tells a stream from the one
before it, all that is ever compared (random ids are taken not to collide with the
last one). Three remote streams let a foreign terminator come from a stream that is
neither the active nor the next one, and two variants of a TLV datagram let one
replace another. Two reloads let one be stale while the other is fresh, two request
threads one hold an orphaned file while the other writes, and two failures a second
one hit the start after the first. Three callsigns for two records make the cut
choose, and four records let a callsign that was cut come back. Four packets with
`SeqWrap = 3` make a recording with a header, a whole superframe and a terminator,
another stream in between, and numbers that wrap; the built streams have up to five
blocks. Texts have the word classes that the code tells apart, a token inside a word
or across two among them, in each place of up to three words, with lengths on both
sides of 64, 96 and 256 bytes. `SeqMax = 7` has sequence numbers on both sides of
the length of every voice packet.

**Fairness.** The pacer, the uplink thread, a thread inside a call, a walk and the
tail of the run loop go on (weak fairness; the tail and the clock of the service,
which packets disable again and again but which the code reaches after every round
of at most one packet per socket, have strong fairness), and time passes.
`StreamsEnd` assumes besides that datagrams without audio leave, now and then, the
0.1 s without one that the hang timeout of the code needs. In
`Lifecycle` the main thread and the web server's loop go on, because every other
wait of `stop()` has a timeout. In `DashboardCommands` the main thread goes on and
the service starts again after a failure (`Restart=on-failure`). Nobody is obliged
to speak, to stop speaking, to disconnect anyone or to stop the gateway; nothing
is asked of children, other threads or the directory.

## Proofs

The eight `*Proofs` modules prove, for all constants that satisfy the `ASSUME` of
their module, type correctness, an inductive invariant, and from it every safety
invariant and action property of the passing runs; that `UsrpTx` implements
`PttLine`, and that `OpenBridgeUplink` implements `DmrStream`. `Lifecycle` has no
constants. The assumptions bound nothing the code leaves open: counts and moduli are
naturals (positive where the code divides by them), a port is not the mark for an
automatic port nor for no plan, and inputs are of the kind a definition is for.

* `UsrpTx`: the invariants are not inductive as they stand, because between two
  steps of a call the queue disagrees with the request. `PlaceInv` says which
  place a thread may be at and what it knows there; `SerialInv` says, as long as
  no calls overlapped, that at most one thread is inside a call, that a requested
  key-up is keyed, pending or about to be put (`EndsKeyed`), and that without a
  request the last thing pending unkeys (`EndsInUnkey`). The queue lemmas
  (`QueueOps`) give head, tail and last of a bounded sequence. `ImplementsLine`
  needs types only: the pacer checks `keyed` before each packet.
* `EchoLinkService`: `JobInv`, `LeaveInv` and `TargetInv` type what each thread is in;
  `TablesInv` is what each step of a packet has established for its station and
  `RemovalInv` what each step of a removal has. Neither survives what the other thread
  does to the same station, which is where `RacedInv` sets `raced`; for another
  station each step of one thread keeps what the other has established. The four
  invariants need both: for `KeyFollowsSpeaker`, that a removal that finds its station
  speaking has `wasActive` set, and that a frame about to key has the floor.
* `EchoLinkDownlink`: `FramesAccounted` is inductive once the types are known; the
  work is the arithmetic of three counters that wrap at different moduli, from
  `Quotient` and `Remainder` up to `ModSucc`.
* `OpenBridgeUplink`: a packet follows from the one sent before it, but was computed
  earlier, from the builder, so the wire property is not inductive. `ChainInv` says
  that the packets still in `out` follow one another, from the last one sent;
  `TailInv` that the builder, the held-back blocks and the count of blocks heard
  agree with the last packet computed (`Carries` in a started stream, `Fresh`
  before), and is closed as the template is when no builder is open. `FlushChain`
  and `VoiceChain` show that one call computes such a chain.
* `OpenBridgeDownlink`: `HeadInv` says that where the loop may send audio next the
  last start datagram was for the active stream, unless none was known when that was
  opened, and that what is known stays known (`LearnKeeps`, which also makes
  `StartDatagramKept` inductive); `ClockInv` that but for the first burst of a stream
  what is left to wait and what has passed add up to the interval.
* `DashboardCommands`: what a poll may do with a line depends on earlier polls, of
  this process or of one that died. `UniqueInv` says that a line not yet written is
  nobody's, `PollInv` how far the main thread is, `HistoryInv` that a line still in
  the file has been handled only if its removal is under way or did not happen and
  that a fresh reload has been handled only by this process.
* `Lifecycle`: both properties speak of the end only. `Reaped` says which children
  are gone at each place of `stop()`, `Told` what became of the directory's thread.
* `DmrCapture`: `FlagsKept` shows for every byte but a group call that is not one
  (VCSBK) that decoding and encoding are inverse, from the digits of the byte;
  `HandCarried` that the packet in hand passed the filter, `Ahead` by how much each
  file may be ahead of the next at each place of the recorder, `InOrder` that each
  holds the records of the one before it in order, where that one may have the record
  in hand besides, `OwnStream` that a file holds packets of its own stream only.
* `LastHeard`: a file that counts less than what happened is what two stores that
  overlap, or a write cut short, leave behind, so `RecordKept` rests on `InOrder`:
  until then either the file counts every event or the one store that is in a call
  does, in what it has read or made. `Sound` bounds each count from above by the
  events; `MemoryInv` says that a store in its call holds the callsign it records, and
  that a table too long in memory has become so by that callsign, which makes
  `NewestKept` inductive.
* Computations over data of any length (`DataProofs`): the library's induction
  theorems take an operator as a parameter, which no installed prover can
  instantiate, so induction is done with sets, from the least element of a set of
  naturals (`Least`, `Climb`). A fold or a walk is a function chosen by its equation;
  `FoldExists` and `WalkExists` show that there is one, and a lemma named `...Trace`
  for each computation turns it into the sequence of its intermediate results, along
  which `Climb` proves the rest.
* `Decisions`: `HeadOnly` and `EveryType` say how far the walk over a compound
  datagram comes, and with it which types it sees; `QuietText`, `LoneText` and
  `StationText`, together `TextsRead`, what the scan of a text finds; `PlanKept`
  that a saved plan is taken as it is; `Room`, `OneMore` and `PlanMade` that four
  free ports are enough, by counting those taken.
* `CaptureReplays` follows from `Replayed`: selecting a recording's own stream from
  it leaves it unchanged (`SelectAll`), and `Renumbered` says for any packets what
  the peer decodes of them once they are numbered and sent.
* `TemplateBuilds` from `TemplateServes`: `TemplateSplit` cuts the template around its
  voice, `Built` says where each burst comes out. Since those bursts are one piece
  (`VoiceFrom`), `VoicesOfPiece` and `FramesNumbered` give voice and AMBE indexes. For
  superframes, `WholePlaced` walks the analyzer over the template and shows that if
  all its cycles are complete and hold as many bursts as there are, each burst was
  at its place (`Walking`: the cycles count no more than the voice so far, and only
  with an equal count is nothing passed over); `ModMod` carries the place over the
  repetitions, and `CyclesOfPiece` walks the analyzer over the result (`Growing`).

Only model-checked: the liveness properties `SilenceUnkeys`, `SpeakerReleased`,
`DmrReleased`, `StreamsEnd`, `CommandsAct` and `GatewayEnds`, since the prover has
neither ENABLED nor fairness.

## What the models show beside the properties

Behaviour of the code that the models have and that a reader should know of. The
first two are the runs that end in a violation.

* One station too many ends the service thread (`conference.py:31`).
* Voice with a sequence number smaller than its length in words is walked as RTCP;
  a payload word that looks like a BYE disconnects its station (`service.py:497`).
* A datagram of at most 256 bytes with GOODBYE, DISCONNECT, LOG OFF or LOGOFF
  anywhere in it disconnects its station (`rtp.py:200`), although `rtp.py:263-264`
  says that ordinary chat containing the word does not. On the audio port that
  includes the voice of programs that send the first byte 0xC0 (`service.py:503`).
* RTP/GSM packets of a header only decode to no audio and hold the floor all the
  same, since `last_heard_at` is set before anything is routed (`service.py:539`).
* A start datagram that is learnt while a DMR stream is open is not sent for it
  (`runtime.py:671`).
* Streams that alternate reopen each other on the downlink, and each opening resets
  the pacer (`runtime.py:673`), so that bursts go out together.
* An administrative disconnect in the middle of the speaker's frame leaves the
  line keyed with no speaker (`raced`, `overlapped`). One that frees the floor just
  before another station takes it unkeys that one, until its next frame keys again
  (`service.py:291`, `:297`).
* `_disconnect_peer` pops the IP entries it has found whatever they have become by
  then (`service.py:293-295`), which leaves a station found by endpoint only.
* A repeated goodbye disconnects whoever is alone in the conference
  (`service.py:317`).
* A dictionary that shrinks under a walk, a roster, a reply or a pacer packet that
  cannot be sent or a file that cannot be written ends the thread it happens in; no
  property says that the service goes on then (`shrunk`, `SendRoster`, `Raise`).
* DMR and EchoLink voice share the frame buffers of the clients: frames of both
  may go out in one RTP packet, and up to three frames of one stream in the first
  packet of the next. No half-duplex arbitration takes place in the live path.
* A transmission shorter than the prebuffer goes out as a lone closing packet, and a
  station that speaks within `tx_hang` of another under that one's source id.
* A terminator of another stream ends Analog_Bridge's decode in the middle of the
  active one; an audio header learnt between a start datagram and its audio makes
  the two of different framings; voice after its own terminator opens the stream
  again, and nothing closes it, since the downlink has no idle timeout and sends
  no end datagram when it stops.
* `stop()` may take longer than `TimeoutStopSec`, and is then killed; a dead
  service or bridge thread is never noticed; a web server that is not up yet is
  never stopped; an exception in `disconnect_all` leaves the children running.
* A command written during a removal is lost; so are records made at once by the
  two last-heard stores, and all of them when a write is cut short.
* A template without a packet after its voice builds streams that just stop, one
  whose packet there is no terminator builds streams that end in that packet, and
  one that begins with an old terminator puts it at the start of every stream, on
  the live uplink as in the tone tool; a VCSBK has its data type overwritten when it
  is encoded again.
* A write that fails in the middle of a record leaves a `.dmrd` file that analyzer
  and replay refuse for good.
* A saved port plan stands against explicit ports that were changed since, as long
  as one port is automatic, and is an error when it conflicts with ports that were
  reserved since.

## Not modelled, and why

`PROJECT.json` lists every component with its status.

* Identity (RadioID table, callsign suffixes), configuration, logging, tools and
  scripts: lookup and I/O without state that the gateway changes; the models take
  the resolved source id and the options as given.
* The half-duplex arbiter, the simulated controller, the jitter buffer and the
  vocoder clients: reached from tests and self-tests only.
* Codecs, the interleaving of AMBE bits inside a burst, the HMAC, SDES items,
  statistics, pages of the dashboard, wording: no property depends on them.
* The pacer's unguarded `sendto` (`service.py:586`) is a hazard without a property:
  `UsrpTx` takes the local socket to accept what is sent.
* `--repeat` of the replay tool above one; torn records of two cuts that add up to a
  whole one; the TLV calibration, off by default (`tlv_calibration_ms`), and a DMR
  packet whose AMBE cannot be extracted, which a 33-byte payload never is.
* `close()` waits one second
  for the pacer and the bridge's `run()` two for its threads; both are taken to be
  enough. The wall clock is taken not to be set back.
* Two processes of the gateway at once: systemd runs one.
