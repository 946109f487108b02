------------------------------ MODULE Lifecycle ------------------------------
(***************************************************************************)
(* The life of the gateway process: FullRuntime starts md380-emu and       *)
(* Analog_Bridge as children, then its threads, polls the children, and    *)
(* stops everything in a fixed order from a finally clause; systemd sends  *)
(* SIGTERM, kills what does not end in TimeoutStopSec and starts the       *)
(* gateway again after a failure.  The EchoLink directory is told that the *)
(* gateway is online and, by the same thread, that it is not.              *)
(*                                                                         *)
(* Every wait of stop() has a timeout but one: httpd.shutdown() waits for  *)
(* the loop of the dashboard's server.  A join is one step, which finds    *)
(* its thread ended or times out.  Setup that can fail fails or does not;  *)
(* what the threads do meanwhile is the matter of the other modules.       *)
(***************************************************************************)
VARIABLES
  config,     \* the options the gateway is started with
  portBusy,   \* another process has the UDP port of md380-emu
  pc,         \* where the main thread is
  emulator,   \* the md380-emu this process started
  analog,     \* the Analog_Bridge this process started
  service,    \* the thread of the EchoLink service
  bridge,     \* the thread of the bridge runtime
  dashboard,  \* the thread of the web server
  directory,  \* the thread of the directory client
  quitting,   \* directory.stop_event
  listed,     \* the directory has the gateway as online
  stopEvent,  \* stop_event of FullRuntime
  reload,     \* exit_code is 75
  raised,     \* an exception is on its way to main()
  code,       \* the exit code, once there is one
  late,       \* history: stop() did not wait for the directory's thread
  refused,    \* history: the directory could not be told to go offline
  broken      \* history: stop() itself raised

children == <<emulator, analog>>
workers == <<service, bridge>>
listing == <<directory, listed, refused>>
history == <<late, broken>>
lifecycleVars == <<config, portBusy, pc, children, workers, dashboard, listing, quitting,
          stopEvent, reload, raised, code, history>>

Configs == [startAnalog : BOOLEAN, emulate : BOOLEAN, reuse : BOOLEAN,
            dashboard : BOOLEAN, directory : BOOLEAN]
Process == {"none", "up", "down"}
StartPlaces == {"gsm", "emulator", "emulatorWait", "plan", "launch", "analogWait", "threads"}
StopPlaces == {"stop", "joinDirectory", "stopDashboard", "disconnect", "joinThreads",
               "stopAnalog", "stopEmulator", "status", "exit"}
Codes == {"none", "0", "2", "75", "killed"}

(* A new process: nothing of the last one is left but what others keep.    *)
Fresh ==
  /\ pc' = "gsm"
  /\ emulator' = "none" /\ analog' = "none"
  /\ service' = "none" /\ bridge' = "none"
  /\ dashboard' = "none" /\ directory' = "none"
  /\ quitting' = FALSE /\ stopEvent' = FALSE /\ reload' = FALSE /\ raised' = FALSE
  /\ code' = "none"
  /\ late' = FALSE /\ refused' = FALSE /\ broken' = FALSE

LifecycleInit ==
  /\ config \in Configs
  /\ portBusy \in BOOLEAN
  /\ pc = "gsm"
  /\ emulator = "none" /\ analog = "none"
  /\ service = "none" /\ bridge = "none"
  /\ dashboard = "none" /\ directory = "none"
  /\ quitting = FALSE /\ listed = FALSE
  /\ stopEvent = FALSE /\ reload = FALSE /\ raised = FALSE
  /\ code = "none"
  /\ late = FALSE /\ refused = FALSE /\ broken = FALSE
-----------------------------------------------------------------------------
(* From one place to another, with no more than pc and these changed.      *)
Goto(from, to) == pc = from /\ pc' = to

(* An exception of start() or of the loop; the finally clause is next.     *)
Raise == pc' = "stop" /\ raised' = TRUE

(* require_gsm, port planning and the writing of its files, Analog_Bridge  *)
(* not found, calibration, construction of the components.                 *)
SetupFails ==
  /\ pc \in {"gsm", "plan", "launch", "analogWait", "threads"}
  /\ pc = "launch" => config.startAnalog
  /\ Raise
  /\ UNCHANGED <<config, portBusy, children, workers, dashboard, listing, quitting,
                 stopEvent, reload, code, history>>

RequireGsm ==
  /\ Goto("gsm", IF config.startAnalog /\ config.emulate THEN "emulator" ELSE "plan")
  /\ UNCHANGED <<config, portBusy, children, workers, dashboard, listing, quitting,
                 stopEvent, reload, raised, code, history>>

(* ManagedMd380Emu.start: an emulator that is there already is used, or is *)
(* an error; a missing binary is one too.                                  *)
StartEmulator ==
  /\ pc = "emulator"
  /\ \/ /\ portBusy /\ config.reuse
        /\ pc' = "plan" /\ UNCHANGED <<emulator, raised>>
     \/ /\ ~portBusy
        /\ emulator' = "up" /\ pc' = "emulatorWait" /\ UNCHANGED raised
     \/ /\ ~(portBusy /\ config.reuse)
        /\ Raise /\ UNCHANGED emulator
  /\ UNCHANGED <<config, portBusy, analog, workers, dashboard, listing, quitting,
                 stopEvent, reload, code, history>>

(* The wait for its UDP port; nothing but its death is an error.           *)
AwaitEmulator ==
  /\ pc = "emulatorWait"
  /\ IF emulator = "down" THEN Raise ELSE pc' = "plan" /\ UNCHANGED raised
  /\ UNCHANGED <<config, portBusy, children, workers, dashboard, listing, quitting,
                 stopEvent, reload, code, history>>

BuildPlan ==
  /\ Goto("plan", "launch")
  /\ UNCHANGED <<config, portBusy, children, workers, dashboard, listing, quitting,
                 stopEvent, reload, raised, code, history>>

(* maybe_launch_analog_bridge, then a second to see whether it lives.      *)
LaunchAnalog ==
  /\ Goto("launch", IF config.startAnalog THEN "analogWait" ELSE "threads")
  /\ analog' = IF config.startAnalog THEN "up" ELSE analog
  /\ UNCHANGED <<config, portBusy, emulator, workers, dashboard, listing, quitting,
                 stopEvent, reload, raised, code, history>>

AwaitAnalog ==
  /\ pc = "analogWait"
  /\ IF analog = "down" THEN Raise ELSE pc' = "threads" /\ UNCHANGED raised
  /\ UNCHANGED <<config, portBusy, children, workers, dashboard, listing, quitting,
                 stopEvent, reload, code, history>>

StartThreads ==
  /\ Goto("threads", "running")
  /\ service' = "up" /\ bridge' = "up"
  /\ dashboard' = IF config.dashboard THEN "starting" ELSE "none"
  /\ directory' = IF config.directory THEN "online" ELSE "none"
  /\ UNCHANGED <<config, portBusy, children, listed, refused, quitting,
                 stopEvent, reload, raised, code, history>>
-----------------------------------------------------------------------------
(* Mutant: only Analog_Bridge is polled.                                   *)
AnalogDied == analog = "down"

ChildDied == analog = "down" \/ emulator = "down"

(* A round of the loop that finds a child dead.  The signal that ends the  *)
(* loop may come in the middle of any round.                               *)
FindDeath ==
  /\ pc = "running" /\ ChildDied
  /\ Raise
  /\ UNCHANGED <<config, portBusy, children, workers, dashboard, listing, quitting,
                 stopEvent, reload, code, history>>

(* One in which a command or the status file raises.                       *)
RoundRaises ==
  /\ pc = "running" /\ ~ChildDied
  /\ Raise
  /\ UNCHANGED <<config, portBusy, children, workers, dashboard, listing, quitting,
                 stopEvent, reload, code, history>>

(* One with a reload command, or in which the time given is up.            *)
RoundStops ==
  /\ pc = "running" /\ ~ChildDied
  /\ stopEvent' = TRUE /\ reload' \in {reload, TRUE}
  /\ UNCHANGED <<config, portBusy, pc, children, workers, dashboard, listing, quitting,
                 raised, code, history>>

LoopEnds ==
  /\ stopEvent /\ Goto("running", "stop")
  /\ UNCHANGED <<config, portBusy, children, workers, dashboard, listing, quitting,
                 stopEvent, reload, raised, code, history>>
-----------------------------------------------------------------------------
(* Mutant: nobody waits for the directory's thread.                        *)
LeaveDirectory ==
  /\ Goto("stop", "stopDashboard")
  /\ stopEvent' = TRUE /\ quitting' = TRUE
  /\ UNCHANGED <<config, portBusy, children, workers, dashboard, listing,
                 reload, raised, code, history>>

(* stop(): the event, and directory.stop() as far as its join.             *)
BeginStop ==
  /\ Goto("stop", "joinDirectory")
  /\ stopEvent' = TRUE /\ quitting' = TRUE
  /\ UNCHANGED <<config, portBusy, children, workers, dashboard, listing,
                 reload, raised, code, history>>

JoinDirectory ==
  /\ Goto("joinDirectory", "stopDashboard")
  /\ late' = (directory \notin {"none", "ended"})
  /\ UNCHANGED <<config, portBusy, children, workers, dashboard, listing, quitting,
                 stopEvent, reload, raised, code, broken>>

(* httpd.shutdown() for a server that serves; then the join, at most 3 s.  *)
(* A server that is not made yet stays out of reach and is never stopped.  *)
StopDashboard ==
  /\ dashboard # "serving"
  /\ Goto("stopDashboard", "disconnect")
  /\ UNCHANGED <<config, portBusy, children, workers, dashboard, listing, quitting,
                 stopEvent, reload, raised, code, history>>

(* disconnect_all and request_stop, where there is a service; what raises  *)
(* here leaves stop().                                                     *)
Disconnect ==
  /\ pc = "disconnect"
  /\ \/ pc' = "joinThreads" /\ UNCHANGED <<raised, broken>>
     \/ service # "none" /\ pc' = "exit" /\ raised' = TRUE /\ broken' = TRUE
  /\ UNCHANGED <<config, portBusy, children, workers, dashboard, listing, quitting,
                 stopEvent, reload, code, late>>

(* The joins of service and bridge, at most 5 s each, and service.close(). *)
JoinThreads ==
  /\ Goto("joinThreads", "stopAnalog")
  /\ UNCHANGED <<config, portBusy, children, workers, dashboard, listing, quitting,
                 stopEvent, reload, raised, code, history>>

(* Mutant: terminate without the kill after five seconds.                  *)
TerminateAnalog ==
  /\ Goto("stopAnalog", "stopEmulator")
  /\ analog' \in IF analog = "up" THEN {"up", "down"} ELSE {analog}
  /\ UNCHANGED <<config, portBusy, emulator, workers, dashboard, listing, quitting,
                 stopEvent, reload, raised, code, history>>

(* terminate, and kill after five seconds.                                 *)
StopAnalog ==
  /\ Goto("stopAnalog", "stopEmulator")
  /\ analog' = IF analog = "up" THEN "down" ELSE analog
  /\ UNCHANGED <<config, portBusy, emulator, workers, dashboard, listing, quitting,
                 stopEvent, reload, raised, code, history>>

(* ManagedMd380Emu.stop: only a process it has started.                    *)
StopEmulator ==
  /\ Goto("stopEmulator", "status")
  /\ emulator' = IF emulator = "up" THEN "down" ELSE emulator
  /\ UNCHANGED <<config, portBusy, analog, workers, dashboard, listing, quitting,
                 stopEvent, reload, raised, code, history>>

(* The last status file.                                                   *)
FinalStatus ==
  /\ Goto("status", "exit")
  /\ \/ UNCHANGED <<raised, broken>>
     \/ raised' = TRUE /\ broken' = TRUE
  /\ UNCHANGED <<config, portBusy, children, workers, dashboard, listing, quitting,
                 stopEvent, reload, code, late>>

Ended(thread) == IF thread = "none" THEN "none" ELSE "ended"

(* main() returns; the threads are daemons and end with the process.       *)
Exit ==
  /\ Goto("exit", "done")
  /\ code' = IF raised THEN "2" ELSE IF reload THEN "75" ELSE "0"
  /\ service' = IF service = "up" THEN "down" ELSE service
  /\ bridge' = IF bridge = "up" THEN "down" ELSE bridge
  /\ dashboard' = Ended(dashboard) /\ directory' = Ended(directory)
  /\ UNCHANGED <<config, portBusy, children, listed, refused, quitting,
                 stopEvent, reload, raised, history>>
-----------------------------------------------------------------------------
(* The directory's thread: send_status never raises.                       *)
TellOnline ==
  /\ directory = "online" /\ pc # "done"
  /\ directory' = "wait"
  /\ listed' \in {listed, TRUE}
  /\ UNCHANGED <<config, portBusy, pc, children, workers, dashboard, refused, quitting,
                 stopEvent, reload, raised, code, history>>

Refresh ==
  /\ directory = "wait" /\ pc # "done"
  /\ directory' = IF quitting THEN "offline" ELSE "online"
  /\ UNCHANGED <<config, portBusy, pc, children, workers, dashboard, listed, refused,
                 quitting, stopEvent, reload, raised, code, history>>

TellOffline ==
  /\ directory = "offline" /\ pc # "done"
  /\ directory' = "ended"
  /\ \/ listed' = FALSE /\ UNCHANGED refused
     \/ refused' = TRUE /\ UNCHANGED listed
  /\ UNCHANGED <<config, portBusy, pc, children, workers, dashboard, quitting,
                 stopEvent, reload, raised, code, history>>

(* The web server binds its port or fails to, and serves until shutdown(). *)
DashboardThread ==
  /\ pc # "done"
  /\ \/ dashboard = "starting" /\ dashboard' \in {"serving", "ended"}
     \/ dashboard = "serving" /\ pc = "stopDashboard" /\ dashboard' = "ended"
  /\ UNCHANGED <<config, portBusy, pc, children, workers, listing, quitting,
                 stopEvent, reload, raised, code, history>>

(* A thread ends, by request or by an exception: nobody looks.             *)
ThreadEnds ==
  /\ \/ service = "up" /\ service' = "down" /\ UNCHANGED bridge
     \/ bridge = "up" /\ bridge' = "down" /\ UNCHANGED service
  /\ UNCHANGED <<config, portBusy, pc, children, dashboard, listing, quitting,
                 stopEvent, reload, raised, code, history>>

(* A child dies, by itself.                                                *)
ChildDies ==
  /\ \/ emulator = "up" /\ emulator' = "down" /\ UNCHANGED analog
     \/ analog = "up" /\ analog' = "down" /\ UNCHANGED emulator
  /\ UNCHANGED <<config, portBusy, pc, workers, dashboard, listing, quitting,
                 stopEvent, reload, raised, code, history>>

(* SIGTERM or SIGINT, whose handler sets stop_event.                       *)
Terminate ==
  /\ pc # "done" /\ ~stopEvent
  /\ stopEvent' = TRUE
  /\ UNCHANGED <<config, portBusy, pc, children, workers, dashboard, listing, quitting,
                 reload, raised, code, history>>

(* TimeoutStopSec has passed: systemd kills the process and its children.  *)
Kill ==
  /\ pc # "done" /\ stopEvent
  /\ pc' = "done" /\ code' = "killed"
  /\ emulator' = IF emulator = "up" THEN "down" ELSE emulator
  /\ analog' = IF analog = "up" THEN "down" ELSE analog
  /\ service' = IF service = "up" THEN "down" ELSE service
  /\ bridge' = IF bridge = "up" THEN "down" ELSE bridge
  /\ dashboard' = Ended(dashboard) /\ directory' = Ended(directory)
  /\ UNCHANGED <<config, portBusy, listed, refused, quitting, stopEvent, reload, raised, history>>

(* Restart=on-failure; what is left of the old process is killed first.    *)
SystemdRestart ==
  /\ pc = "done" /\ code \in {"2", "75"}
  /\ Fresh
  /\ UNCHANGED <<config, portBusy, listed>>

Stopped == pc = "done" /\ code \in {"0", "killed"} /\ UNCHANGED lifecycleVars
-----------------------------------------------------------------------------
Starting ==
  \/ SetupFails \/ RequireGsm \/ StartEmulator \/ AwaitEmulator \/ BuildPlan
  \/ LaunchAnalog \/ AwaitAnalog \/ StartThreads

Stopping ==
  \/ BeginStop \/ JoinDirectory \/ StopDashboard \/ Disconnect \/ JoinThreads
  \/ StopAnalog \/ StopEmulator \/ FinalStatus \/ Exit

Main == Starting \/ FindDeath \/ LoopEnds \/ Stopping

Others ==
  \/ TellOnline \/ Refresh \/ TellOffline
  \/ DashboardThread \/ ThreadEnds \/ ChildDies

LifecycleNext == Main \/ RoundRaises \/ RoundStops \/ Others \/ Terminate \/ Kill \/ SystemdRestart \/ Stopped

(* The main thread and the web server's loop go on.  Nothing is asked of   *)
(* the other threads, of the children, of the directory or of a user.      *)
Fairness == WF_lifecycleVars(Main) /\ WF_lifecycleVars(DashboardThread)

LifecycleSpec == LifecycleInit /\ [][LifecycleNext]_lifecycleVars /\ Fairness
-----------------------------------------------------------------------------
LifecycleTypeOK ==
  /\ config \in Configs /\ portBusy \in BOOLEAN
  /\ pc \in StartPlaces \cup {"running", "done"} \cup StopPlaces
  /\ emulator \in Process /\ analog \in Process
  /\ service \in Process /\ bridge \in Process
  /\ dashboard \in {"none", "starting", "serving", "ended"}
  /\ directory \in {"none", "online", "wait", "offline", "ended"}
  /\ quitting \in BOOLEAN /\ listed \in BOOLEAN
  /\ stopEvent \in BOOLEAN /\ reload \in BOOLEAN /\ raised \in BOOLEAN
  /\ code \in Codes
  /\ late \in BOOLEAN /\ refused \in BOOLEAN /\ broken \in BOOLEAN

(* However far start() got and whatever failed, a process that has ended   *)
(* leaves none of the children it started running, unless stop() itself    *)
(* raised on the way (full_runtime.py:359-388): the next start would find  *)
(* their ports taken.                                                      *)
NoOrphans ==
  pc = "done" /\ ~broken => analog # "up" /\ emulator # "up"

(* A gateway that came as far as registering and has ended by itself is    *)
(* not left in the EchoLink directory as online, unless the directory      *)
(* could not be told or stop() gave up waiting for the thread that tells   *)
(* it, which may be in the middle of registering (full_runtime.py:54-69).  *)
OfflineAtEnd ==
  (pc = "done" /\ code # "killed" /\ directory = "ended") => ~listed \/ late \/ refused

(* A gateway that is told to stop, or one of whose children dies while it  *)
(* runs, comes to its end, whatever its threads and children are stuck in: *)
(* systemd sees it (full_runtime.py:338-341) and can start it again.       *)
GatewayEnds ==
  /\ stopEvent ~> pc = "done"
  /\ (pc = "running" /\ (analog = "down" \/ emulator = "down")) ~> pc = "done"
=============================================================================
