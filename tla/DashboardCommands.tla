-------------------------- MODULE DashboardCommands --------------------------
(***************************************************************************)
(* The file through which the dashboard hands commands to the runtime      *)
(* (dashboard/control.py).  Request threads of the web server append a     *)
(* line; the main thread polls: it reads the file, handles what it has not *)
(* handled yet and then removes it by writing the rest to a new file that  *)
(* replaces the old one.  Nothing locks the file.  The process may crash,  *)
(* a handler may raise, the removal may fail, and systemd starts the       *)
(* service again after any exit code but 0.                                *)
(*                                                                         *)
(* A line is its command_id, which is unique.  The file is the set of its  *)
(* lines: no property depends on their order, so any order is allowed.     *)
(* Whether created_at is before started_at_wall is kept as "not fresh"     *)
(* (the wall clock is taken to move forward).                              *)
(***************************************************************************)
EXTENDS Naturals

CONSTANTS
  Commands,     \* command ids; bound on the number of requests
  Reloads,      \* those whose action is "reload"
  Web,          \* request threads of the dashboard
  NoCommand,    \* a request thread that is not appending
  MaxFailures   \* bound: crashes, raised handlers and failed removals

ASSUME DashboardAssumption ==
  /\ Reloads \subseteq Commands
  /\ NoCommand \notin Commands
  /\ MaxFailures \in Nat

VARIABLES
  file,        \* lines of the control file
  web,         \* the command a request thread is about to write
  orphans,     \* request threads that opened a file since replaced
  posted,      \* ids in use
  fresh,       \* posted since started_at_wall
  accepted,    \* written, and so answered with "queued"
  up,          \* the process: "up", "stopping" (loop left), "down"
  pc,          \* main thread: "poll", "handle", "ack", "replace"
  todo,        \* what this poll read and has not come to
  processedNow,
  processed,   \* _processed_dashboard_commands
  kept,        \* what remove_commands read and will write back
  stop,        \* stop_event
  exitCode,
  handled,     \* history: commands handled
  repeated,    \* history: handled more than once
  ignored,     \* history: stale reloads ignored
  excused,     \* history: processed, but their removal did not happen
  overlapped,  \* history: written while a removal was under way
  failures

vars == <<file, web, orphans, posted, fresh, accepted, up, pc, todo, processedNow,
          processed, kept, stop, exitCode, handled, repeated, ignored, excused,
          overlapped, failures>>
requests == <<web, orphans, posted, fresh, accepted, overlapped>>
polling == <<pc, todo, processedNow, processed, kept>>
outcome == <<handled, repeated, ignored, excused>>
process == <<up, stop, exitCode>>

Init ==
  /\ file = {} /\ kept = {}
  /\ web = [w \in Web |-> NoCommand] /\ orphans = {}
  /\ posted = {} /\ fresh = {} /\ accepted = {} /\ overlapped = {}
  /\ up = "up" /\ stop = FALSE /\ exitCode = 0
  /\ pc = "poll" /\ todo = {} /\ processedNow = {} /\ processed = {}
  /\ handled = {} /\ repeated = {} /\ ignored = {} /\ excused = {}
  /\ failures = 0
-----------------------------------------------------------------------------
(* append_command: a request thread makes the command and opens the file.  *)
Post(w, c) ==
  /\ up # "down" /\ web[w] = NoCommand /\ c \notin posted
  /\ web' = [web EXCEPT ![w] = c]
  /\ orphans' = orphans \ {w}
  /\ posted' = posted \cup {c}
  /\ fresh' = fresh \cup {c}
  /\ UNCHANGED <<file, accepted, overlapped, polling, outcome, process, failures>>

(* The line is written, to whatever file was opened.                       *)
Write(w) ==
  /\ web[w] # NoCommand
  /\ file' = IF w \in orphans THEN file ELSE file \cup {web[w]}
  /\ accepted' = accepted \cup {web[w]}
  /\ overlapped' = IF w \in orphans \/ pc = "replace"
                   THEN overlapped \cup {web[w]} ELSE overlapped
  /\ web' = [web EXCEPT ![w] = NoCommand]
  /\ UNCHANGED <<orphans, posted, fresh, polling, outcome, process, failures>>
-----------------------------------------------------------------------------
(* Mutant: lines an earlier process left behind are not looked at.         *)
UnprocessedFresh == (file \cap fresh) \ processed

Unprocessed == file \ processed

(* poll_dashboard_commands: read_commands                                  *)
Poll ==
  /\ up = "up" /\ ~stop /\ pc = "poll" /\ Unprocessed # {}
  /\ todo' = Unprocessed
  /\ processedNow' = {}
  /\ pc' = "handle"
  /\ UNCHANGED <<file, requests, processed, kept, outcome, process, failures>>

Take(c) ==
  /\ up = "up" /\ pc = "handle" /\ c \in todo
  /\ todo' = todo \ {c}
  /\ processed' = processed \cup {c}
  /\ processedNow' = processedNow \cup {c}

(* The main thread's next step once c is dealt with.                       *)
Advance(c) == pc' = IF todo = {c} THEN "ack" ELSE "handle"

(* Mutant: a reload is obeyed whenever it was made.                        *)
NeverStale(c) == FALSE

Stale(c) == c \in Reloads /\ c \notin fresh

IgnoreStale(c) ==
  /\ Take(c) /\ Advance(c) /\ Stale(c)
  /\ ignored' = ignored \cup {c}
  /\ UNCHANGED <<file, requests, kept, handled, repeated, excused, process, failures>>

Count(c) ==
  /\ handled' = handled \cup {c}
  /\ repeated' = repeated \cup ({c} \cap handled)

(* _handle_dashboard_command, action "reload": ask the loop to end.        *)
Reload(c) ==
  /\ Take(c) /\ Advance(c) /\ Count(c) /\ c \in Reloads /\ ~Stale(c)
  /\ stop' = TRUE
  /\ exitCode' = 75
  /\ UNCHANGED <<file, requests, kept, ignored, excused, up, failures>>

(* The other actions; what they do to the service is in EchoLinkService.   *)
Obey(c) ==
  /\ Take(c) /\ Advance(c) /\ Count(c) /\ c \notin Reloads
  /\ UNCHANGED <<file, requests, kept, ignored, excused, process, failures>>

(* Their handler raises (append_unique_line, the sockets): the exception   *)
(* leaves run() through its finally clause, and nothing is removed.        *)
Raise(c) ==
  /\ failures < MaxFailures
  /\ up = "up" /\ pc = "handle" /\ c \in todo \ Reloads
  /\ Count(c)
  /\ excused' = excused \cup processedNow \cup {c}
  /\ processed' = processed \cup {c}
  /\ pc' = "poll" /\ todo' = {} /\ processedNow' = {}
  /\ up' = "stopping"
  /\ exitCode' = 2
  /\ failures' = failures + 1
  /\ UNCHANGED <<file, requests, kept, ignored, stop>>

(* Mutants: nothing is removed; what was not read is removed too.          *)
KeepAll == file
KeepNone == {}

Kept == file \ processedNow

(* remove_commands: read the file again and write what is kept aside...    *)
AckRead ==
  /\ up = "up" /\ pc = "ack"
  /\ kept' = Kept
  /\ pc' = "replace"
  /\ UNCHANGED <<file, requests, todo, processedNow, processed, outcome, process, failures>>

(* ... and replace the control file by it.                                 *)
AckReplace ==
  /\ up = "up" /\ pc = "replace"
  /\ file' = kept
  /\ orphans' = {w \in Web : web[w] # NoCommand}
  /\ processedNow' = {}
  /\ kept' = {}
  /\ pc' = "poll"
  /\ UNCHANGED <<web, posted, fresh, accepted, overlapped, todo, processed, outcome,
                 process, failures>>

(* An error of remove_commands is logged and nothing else.                 *)
AckFail ==
  /\ failures < MaxFailures
  /\ up = "up" /\ pc \in {"ack", "replace"}
  /\ excused' = excused \cup processedNow
  /\ processedNow' = {}
  /\ kept' = {}
  /\ pc' = "poll"
  /\ failures' = failures + 1
  /\ UNCHANGED <<file, requests, todo, processed, handled, repeated, ignored, process>>
-----------------------------------------------------------------------------
(* A signal or the --seconds deadline.                                     *)
RequestStop ==
  /\ up = "up" /\ ~stop
  /\ stop' = TRUE
  /\ UNCHANGED <<file, requests, polling, outcome, up, exitCode, failures>>

LeaveLoop ==
  /\ up = "up" /\ stop /\ pc = "poll"
  /\ up' = "stopping"
  /\ UNCHANGED <<file, requests, polling, outcome, stop, exitCode, failures>>

(* The process is gone, and with it its request threads and its memory.    *)
Gone ==
  /\ up' = "down"
  /\ web' = [w \in Web |-> NoCommand]
  /\ orphans' = {} /\ fresh' = {}
  /\ pc' = "poll" /\ todo' = {} /\ processedNow' = {} /\ processed' = {} /\ kept' = {}

(* stop() is through and main returns the exit code.                       *)
End ==
  /\ up = "stopping" /\ Gone
  /\ UNCHANGED <<file, posted, accepted, overlapped, outcome, stop, exitCode, failures>>

Crash ==
  /\ failures < MaxFailures
  /\ up # "down" /\ Gone
  /\ exitCode' = 2
  /\ excused' = excused \cup processedNow
  /\ failures' = failures + 1
  /\ UNCHANGED <<file, posted, accepted, overlapped, handled, repeated, ignored, stop>>

(* systemd (Restart=on-failure) or the operator starts the service.        *)
Start ==
  /\ up = "down"
  /\ up' = "up" /\ stop' = FALSE /\ exitCode' = 0
  /\ UNCHANGED <<file, requests, polling, outcome, failures>>

Main == Poll \/ (\E c \in Commands : IgnoreStale(c) \/ Reload(c) \/ Obey(c))
             \/ AckRead \/ AckReplace \/ LeaveLoop \/ End

Next ==
  \/ \E w \in Web : Write(w) \/ (\E c \in Commands : Post(w, c))
  \/ Main
  \/ \E c \in Commands : Raise(c)
  \/ AckFail \/ RequestStop \/ Crash \/ Start

(* The main thread goes on, and the service comes back after a failure.    *)
Fairness ==
  /\ WF_vars(Main)
  /\ WF_vars(Start /\ exitCode # 0)

Spec == Init /\ [][Next]_vars /\ Fairness
-----------------------------------------------------------------------------
TypeOK ==
  /\ {file, posted, fresh, accepted, todo, processedNow, processed, kept, handled,
      repeated, ignored, excused, overlapped} \subseteq SUBSET Commands
  /\ web \in [Web -> Commands \cup {NoCommand}]
  /\ orphans \subseteq Web
  /\ up \in {"up", "stopping", "down"}
  /\ pc \in {"poll", "handle", "ack", "replace"}
  /\ pc = "handle" <=> todo # {}
  /\ stop \in BOOLEAN
  /\ exitCode \in {0, 2, 75}
  /\ failures \in 0 .. MaxFailures

(* A reload restarts the service once at most: not again when the removal  *)
(* failed or the process died before it (control.py:82-85).                *)
ReloadOnce == repeated \cap Reloads = {}

(* Any other command is repeated only if its removal did not happen: the   *)
(* process died, a handler raised or the removal failed (control.py:80).   *)
RepeatedIfUnacked == repeated \subseteq excused

(* A command answered with "queued" is in the file until it is handled, or *)
(* ignored as stale, unless it was written while a removal was under way.  *)
KeptUntilHandled ==
  accepted \subseteq file \cup handled \cup ignored \cup overlapped

(* Every command written outside a removal is handled or ignored, as long  *)
(* as the service is not stopped for good, across failures and restarts.   *)
CommandsAct ==
  \A c \in Commands :
    c \in accepted \ overlapped ~>
      (c \in handled \cup ignored \/ (up = "down" /\ exitCode = 0))
=============================================================================
