------------------------ MODULE DashboardCommandsProofs ------------------------
(***************************************************************************)
(* Theorems about DashboardCommands, for any number of commands, request   *)
(* threads and failures: its types, that a reload acts once, that a        *)
(* command is repeated only if its removal did not happen, and that none   *)
(* is lost that was not written during a removal.                          *)
(*                                                                         *)
(* What a poll may do with a line depends on what earlier polls, of this   *)
(* process or of one that died, have done with it.  UniqueInv says that a  *)
(* line not yet written is nobody's; PollInv how far the main thread is;   *)
(* HistoryInv that a line still in the file has been handled only if its   *)
(* removal is under way or did not happen, and that a fresh reload has     *)
(* been handled only by this process.                                      *)
(***************************************************************************)
EXTENDS DashboardCommands, TLAPS

UniqueInv ==
  /\ file \cup fresh \cup handled \cup accepted \subseteq posted
  /\ file \cup handled \cup ignored \subseteq accepted
  /\ \A w \in Web : web[w] \in posted \cup {NoCommand} /\ web[w] \notin accepted
  /\ \A v, w \in Web : web[v] = web[w] => v = w \/ web[v] = NoCommand

PollInv ==
  /\ up # "up" => pc = "poll" /\ (up = "down" => fresh = {} /\ processed = {})
  /\ todo \subseteq file \ processed
  /\ processedNow \subseteq processed \cap (handled \cup ignored)
  /\ pc = "poll" => processedNow = {}
  /\ pc = "replace" => /\ kept \subseteq file \ processedNow
                       /\ file \subseteq kept \cup processedNow \cup overlapped

HistoryInv ==
  /\ file \cap handled \subseteq excused \cup processedNow
  /\ handled \cap Reloads \cap fresh \subseteq processed

IInv == /\ TypeOK /\ UniqueInv /\ PollInv /\ HistoryInv
        /\ ReloadOnce /\ RepeatedIfUnacked /\ KeptUntilHandled
-----------------------------------------------------------------------------
LEMMA InitInv == Init => IInv
  <1> SUFFICES ASSUME Init PROVE IInv
    OBVIOUS
  <1>1. TypeOK
    <2>1. web \in [Web -> Commands \cup {NoCommand}]
      BY DEF Init
    <2>2. /\ orphans \subseteq Web /\ up \in {"up", "stopping", "down"}
          /\ pc \in {"poll", "handle", "ack", "replace"} /\ (pc = "handle" <=> todo # {})
          /\ stop \in BOOLEAN /\ exitCode \in {0, 2, 75}
      BY DEF Init
    <2>3. failures \in 0 .. MaxFailures
      BY DashboardAssumption DEF Init
    <2>4. {file, posted, fresh, accepted, todo, processedNow, processed, kept, handled,
           repeated, ignored, excused, overlapped} \subseteq SUBSET Commands
      BY DEF Init
    <2>5. QED BY <2>1, <2>2, <2>3, <2>4 DEF TypeOK
  <1>2. UniqueInv
    <2>1. \A w \in Web : web[w] = NoCommand
      BY DEF Init
    <2>2. QED BY <2>1 DEF Init, UniqueInv
  <1>3. PollInv /\ HistoryInv
    BY DEF Init, PollInv, HistoryInv
  <1>4. ReloadOnce /\ RepeatedIfUnacked /\ KeptUntilHandled
    BY DEF Init, ReloadOnce, RepeatedIfUnacked, KeptUntilHandled
  <1>5. QED BY <1>1, <1>2, <1>3, <1>4 DEF IInv

LEMMA TypeStep == IInv /\ [Next]_vars => TypeOK'
  <1> SUFFICES ASSUME IInv, [Next]_vars PROVE TypeOK'
    OBVIOUS
  <1> USE DashboardAssumption
      DEF IInv, requests, polling, outcome, process, TypeOK, PollInv
  <1>1. ASSUME NEW w \in Web, Write(w) PROVE TypeOK'
    BY <1>1 DEF Write
  <1>2. ASSUME NEW w \in Web, NEW c \in Commands, Post(w, c) PROVE TypeOK'
    BY <1>2 DEF Post
  <1>3. CASE Poll
    BY <1>3 DEF Poll, Unprocessed
  <1>4. ASSUME NEW c \in Commands, IgnoreStale(c) PROVE TypeOK'
    BY <1>4 DEF IgnoreStale, Take, Advance
  <1>5. ASSUME NEW c \in Commands, Reload(c) PROVE TypeOK'
    BY <1>5 DEF Reload, Take, Advance, Count
  <1>6. ASSUME NEW c \in Commands, Obey(c) PROVE TypeOK'
    BY <1>6 DEF Obey, Take, Advance, Count
  <1>7. ASSUME NEW c \in Commands, Raise(c) PROVE TypeOK'
    BY <1>7 DEF Raise, Count
  <1>8. CASE AckRead
    BY <1>8 DEF AckRead, Kept
  <1>9. CASE AckReplace
    BY <1>9 DEF AckReplace
  <1>10. CASE AckFail
    BY <1>10 DEF AckFail
  <1>11. CASE RequestStop
    BY <1>11 DEF RequestStop
  <1>12. CASE LeaveLoop
    BY <1>12 DEF LeaveLoop
  <1>13. CASE End
    BY <1>13 DEF End, Gone
  <1>14. CASE Crash
    BY <1>14 DEF Crash, Gone
  <1>15. CASE Start
    BY <1>15 DEF Start
  <1>16. CASE UNCHANGED vars
    BY <1>16 DEF vars
  <1>17. QED BY <1>1, <1>2, <1>3, <1>4, <1>5, <1>6, <1>7, <1>8, <1>9,
              <1>10, <1>11, <1>12, <1>13, <1>14, <1>15, <1>16
     DEF Next, Main

LEMMA UniqueStep == IInv /\ [Next]_vars => UniqueInv'
  <1> SUFFICES ASSUME IInv, [Next]_vars PROVE UniqueInv'
    OBVIOUS
  <1> USE DashboardAssumption
      DEF IInv, requests, polling, outcome, process, TypeOK, UniqueInv, PollInv
  <1>1. ASSUME NEW w \in Web, Write(w) PROVE UniqueInv'
    BY <1>1 DEF Write
  <1>2. ASSUME NEW w \in Web, NEW c \in Commands, Post(w, c) PROVE UniqueInv'
    BY <1>2 DEF Post
  <1>3. CASE Poll
    BY <1>3 DEF Poll, Unprocessed
  <1>4. ASSUME NEW c \in Commands, IgnoreStale(c) PROVE UniqueInv'
    BY <1>4 DEF IgnoreStale, Take, Advance
  <1>5. ASSUME NEW c \in Commands, Reload(c) PROVE UniqueInv'
    BY <1>5 DEF Reload, Take, Advance, Count
  <1>6. ASSUME NEW c \in Commands, Obey(c) PROVE UniqueInv'
    BY <1>6 DEF Obey, Take, Advance, Count
  <1>7. ASSUME NEW c \in Commands, Raise(c) PROVE UniqueInv'
    BY <1>7 DEF Raise, Count
  <1>8. CASE AckRead
    BY <1>8 DEF AckRead, Kept
  <1>9. CASE AckReplace
    BY <1>9 DEF AckReplace
  <1>10. CASE AckFail
    BY <1>10 DEF AckFail
  <1>11. CASE RequestStop
    BY <1>11 DEF RequestStop
  <1>12. CASE LeaveLoop
    BY <1>12 DEF LeaveLoop
  <1>13. CASE End
    BY <1>13 DEF End, Gone
  <1>14. CASE Crash
    BY <1>14 DEF Crash, Gone
  <1>15. CASE Start
    BY <1>15 DEF Start
  <1>16. CASE UNCHANGED vars
    BY <1>16 DEF vars
  <1>17. QED BY <1>1, <1>2, <1>3, <1>4, <1>5, <1>6, <1>7, <1>8, <1>9,
              <1>10, <1>11, <1>12, <1>13, <1>14, <1>15, <1>16
     DEF Next, Main

LEMMA PollStep == IInv /\ [Next]_vars => PollInv'
  <1> SUFFICES ASSUME IInv, [Next]_vars PROVE PollInv'
    OBVIOUS
  <1> USE DashboardAssumption
      DEF IInv, requests, polling, outcome, process, TypeOK, UniqueInv, PollInv
  <1>1. ASSUME NEW w \in Web, Write(w) PROVE PollInv'
    BY <1>1 DEF Write
  <1>2. ASSUME NEW w \in Web, NEW c \in Commands, Post(w, c) PROVE PollInv'
    BY <1>2 DEF Post
  <1>3. CASE Poll
    BY <1>3 DEF Poll, Unprocessed
  <1>4. ASSUME NEW c \in Commands, IgnoreStale(c) PROVE PollInv'
    BY <1>4 DEF IgnoreStale, Take, Advance
  <1>5. ASSUME NEW c \in Commands, Reload(c) PROVE PollInv'
    BY <1>5 DEF Reload, Take, Advance, Count
  <1>6. ASSUME NEW c \in Commands, Obey(c) PROVE PollInv'
    BY <1>6 DEF Obey, Take, Advance, Count
  <1>7. ASSUME NEW c \in Commands, Raise(c) PROVE PollInv'
    BY <1>7 DEF Raise, Count
  <1>8. CASE AckRead
    BY <1>8 DEF AckRead, Kept
  <1>9. CASE AckReplace
    BY <1>9 DEF AckReplace
  <1>10. CASE AckFail
    BY <1>10 DEF AckFail
  <1>11. CASE RequestStop
    BY <1>11 DEF RequestStop
  <1>12. CASE LeaveLoop
    BY <1>12 DEF LeaveLoop
  <1>13. CASE End
    BY <1>13 DEF End, Gone
  <1>14. CASE Crash
    BY <1>14 DEF Crash, Gone
  <1>15. CASE Start
    BY <1>15 DEF Start
  <1>16. CASE UNCHANGED vars
    BY <1>16 DEF vars
  <1>17. QED BY <1>1, <1>2, <1>3, <1>4, <1>5, <1>6, <1>7, <1>8, <1>9,
              <1>10, <1>11, <1>12, <1>13, <1>14, <1>15, <1>16
     DEF Next, Main

LEMMA HistoryStep == IInv /\ [Next]_vars => HistoryInv'
  <1> SUFFICES ASSUME IInv, [Next]_vars PROVE HistoryInv'
    OBVIOUS
  <1> USE DashboardAssumption
      DEF IInv, requests, polling, outcome, process, TypeOK, UniqueInv, PollInv, HistoryInv, Stale
  <1>1. ASSUME NEW w \in Web, Write(w) PROVE HistoryInv'
    BY <1>1 DEF Write
  <1>2. ASSUME NEW w \in Web, NEW c \in Commands, Post(w, c) PROVE HistoryInv'
    BY <1>2 DEF Post
  <1>3. CASE Poll
    BY <1>3 DEF Poll, Unprocessed
  <1>4. ASSUME NEW c \in Commands, IgnoreStale(c) PROVE HistoryInv'
    BY <1>4 DEF IgnoreStale, Take, Advance
  <1>5. ASSUME NEW c \in Commands, Reload(c) PROVE HistoryInv'
    BY <1>5 DEF Reload, Take, Advance, Count
  <1>6. ASSUME NEW c \in Commands, Obey(c) PROVE HistoryInv'
    BY <1>6 DEF Obey, Take, Advance, Count
  <1>7. ASSUME NEW c \in Commands, Raise(c) PROVE HistoryInv'
    BY <1>7 DEF Raise, Count
  <1>8. CASE AckRead
    BY <1>8 DEF AckRead, Kept
  <1>9. CASE AckReplace
    BY <1>9 DEF AckReplace
  <1>10. CASE AckFail
    BY <1>10 DEF AckFail
  <1>11. CASE RequestStop
    BY <1>11 DEF RequestStop
  <1>12. CASE LeaveLoop
    BY <1>12 DEF LeaveLoop
  <1>13. CASE End
    BY <1>13 DEF End, Gone
  <1>14. CASE Crash
    BY <1>14 DEF Crash, Gone
  <1>15. CASE Start
    BY <1>15 DEF Start
  <1>16. CASE UNCHANGED vars
    BY <1>16 DEF vars
  <1>17. QED BY <1>1, <1>2, <1>3, <1>4, <1>5, <1>6, <1>7, <1>8, <1>9,
              <1>10, <1>11, <1>12, <1>13, <1>14, <1>15, <1>16
     DEF Next, Main

LEMMA OnceStep == IInv /\ [Next]_vars => ReloadOnce'
  <1> SUFFICES ASSUME IInv, [Next]_vars PROVE ReloadOnce'
    OBVIOUS
  <1> USE DashboardAssumption
      DEF IInv, requests, polling, outcome, process, TypeOK, PollInv, HistoryInv, ReloadOnce, Stale
  <1>1. ASSUME NEW w \in Web, Write(w) PROVE ReloadOnce'
    BY <1>1 DEF Write
  <1>2. ASSUME NEW w \in Web, NEW c \in Commands, Post(w, c) PROVE ReloadOnce'
    BY <1>2 DEF Post
  <1>3. CASE Poll
    BY <1>3 DEF Poll, Unprocessed
  <1>4. ASSUME NEW c \in Commands, IgnoreStale(c) PROVE ReloadOnce'
    BY <1>4 DEF IgnoreStale, Take, Advance
  <1>5. ASSUME NEW c \in Commands, Reload(c) PROVE ReloadOnce'
    BY <1>5 DEF Reload, Take, Advance, Count
  <1>6. ASSUME NEW c \in Commands, Obey(c) PROVE ReloadOnce'
    BY <1>6 DEF Obey, Take, Advance, Count
  <1>7. ASSUME NEW c \in Commands, Raise(c) PROVE ReloadOnce'
    BY <1>7 DEF Raise, Count
  <1>8. CASE AckRead
    BY <1>8 DEF AckRead, Kept
  <1>9. CASE AckReplace
    BY <1>9 DEF AckReplace
  <1>10. CASE AckFail
    BY <1>10 DEF AckFail
  <1>11. CASE RequestStop
    BY <1>11 DEF RequestStop
  <1>12. CASE LeaveLoop
    BY <1>12 DEF LeaveLoop
  <1>13. CASE End
    BY <1>13 DEF End, Gone
  <1>14. CASE Crash
    BY <1>14 DEF Crash, Gone
  <1>15. CASE Start
    BY <1>15 DEF Start
  <1>16. CASE UNCHANGED vars
    BY <1>16 DEF vars
  <1>17. QED BY <1>1, <1>2, <1>3, <1>4, <1>5, <1>6, <1>7, <1>8, <1>9,
              <1>10, <1>11, <1>12, <1>13, <1>14, <1>15, <1>16
     DEF Next, Main

LEMMA UnackedStep == IInv /\ [Next]_vars => RepeatedIfUnacked'
  <1> SUFFICES ASSUME IInv, [Next]_vars PROVE RepeatedIfUnacked'
    OBVIOUS
  <1> USE DashboardAssumption
      DEF IInv, requests, polling, outcome, process, TypeOK, PollInv, HistoryInv, RepeatedIfUnacked
  <1>1. ASSUME NEW w \in Web, Write(w) PROVE RepeatedIfUnacked'
    BY <1>1 DEF Write
  <1>2. ASSUME NEW w \in Web, NEW c \in Commands, Post(w, c) PROVE RepeatedIfUnacked'
    BY <1>2 DEF Post
  <1>3. CASE Poll
    BY <1>3 DEF Poll, Unprocessed
  <1>4. ASSUME NEW c \in Commands, IgnoreStale(c) PROVE RepeatedIfUnacked'
    BY <1>4 DEF IgnoreStale, Take, Advance
  <1>5. ASSUME NEW c \in Commands, Reload(c) PROVE RepeatedIfUnacked'
    BY <1>5 DEF Reload, Take, Advance, Count
  <1>6. ASSUME NEW c \in Commands, Obey(c) PROVE RepeatedIfUnacked'
    BY <1>6 DEF Obey, Take, Advance, Count
  <1>7. ASSUME NEW c \in Commands, Raise(c) PROVE RepeatedIfUnacked'
    BY <1>7 DEF Raise, Count
  <1>8. CASE AckRead
    BY <1>8 DEF AckRead, Kept
  <1>9. CASE AckReplace
    BY <1>9 DEF AckReplace
  <1>10. CASE AckFail
    BY <1>10 DEF AckFail
  <1>11. CASE RequestStop
    BY <1>11 DEF RequestStop
  <1>12. CASE LeaveLoop
    BY <1>12 DEF LeaveLoop
  <1>13. CASE End
    BY <1>13 DEF End, Gone
  <1>14. CASE Crash
    BY <1>14 DEF Crash, Gone
  <1>15. CASE Start
    BY <1>15 DEF Start
  <1>16. CASE UNCHANGED vars
    BY <1>16 DEF vars
  <1>17. QED BY <1>1, <1>2, <1>3, <1>4, <1>5, <1>6, <1>7, <1>8, <1>9,
              <1>10, <1>11, <1>12, <1>13, <1>14, <1>15, <1>16
     DEF Next, Main

LEMMA KeptStep == IInv /\ [Next]_vars => KeptUntilHandled'
  <1> SUFFICES ASSUME IInv, [Next]_vars PROVE KeptUntilHandled'
    OBVIOUS
  <1> USE DashboardAssumption
      DEF IInv, requests, polling, outcome, process, TypeOK, UniqueInv, PollInv, KeptUntilHandled
  <1>1. ASSUME NEW w \in Web, Write(w) PROVE KeptUntilHandled'
    BY <1>1 DEF Write
  <1>2. ASSUME NEW w \in Web, NEW c \in Commands, Post(w, c) PROVE KeptUntilHandled'
    BY <1>2 DEF Post
  <1>3. CASE Poll
    BY <1>3 DEF Poll, Unprocessed
  <1>4. ASSUME NEW c \in Commands, IgnoreStale(c) PROVE KeptUntilHandled'
    BY <1>4 DEF IgnoreStale, Take, Advance
  <1>5. ASSUME NEW c \in Commands, Reload(c) PROVE KeptUntilHandled'
    BY <1>5 DEF Reload, Take, Advance, Count
  <1>6. ASSUME NEW c \in Commands, Obey(c) PROVE KeptUntilHandled'
    BY <1>6 DEF Obey, Take, Advance, Count
  <1>7. ASSUME NEW c \in Commands, Raise(c) PROVE KeptUntilHandled'
    BY <1>7 DEF Raise, Count
  <1>8. CASE AckRead
    BY <1>8 DEF AckRead, Kept
  <1>9. CASE AckReplace
    BY <1>9 DEF AckReplace
  <1>10. CASE AckFail
    BY <1>10 DEF AckFail
  <1>11. CASE RequestStop
    BY <1>11 DEF RequestStop
  <1>12. CASE LeaveLoop
    BY <1>12 DEF LeaveLoop
  <1>13. CASE End
    BY <1>13 DEF End, Gone
  <1>14. CASE Crash
    BY <1>14 DEF Crash, Gone
  <1>15. CASE Start
    BY <1>15 DEF Start
  <1>16. CASE UNCHANGED vars
    BY <1>16 DEF vars
  <1>17. QED BY <1>1, <1>2, <1>3, <1>4, <1>5, <1>6, <1>7, <1>8, <1>9,
              <1>10, <1>11, <1>12, <1>13, <1>14, <1>15, <1>16
     DEF Next, Main

-----------------------------------------------------------------------------
LEMMA InvStep == IInv /\ [Next]_vars => IInv'
  BY TypeStep, UniqueStep, PollStep, HistoryStep, OnceStep, UnackedStep, KeptStep DEF IInv

(* The invariant that carries the three properties below.                  *)
THEOREM Inductive == Spec => []IInv
  <1>1. QED BY InitInv, InvStep, PTL DEF Spec

(* The types hold, and the list of a poll is empty unless it is handled.   *)
THEOREM TypeCorrect == Spec => []TypeOK
  <1>1. IInv => TypeOK
    BY DEF IInv
  <1>2. QED BY <1>1, Inductive, PTL

(* A reload restarts the service once at most, whatever dies or fails      *)
(* between its handling and its removal.                                   *)
THEOREM RestartsOnce == Spec => []ReloadOnce
  <1>1. IInv => ReloadOnce
    BY DEF IInv
  <1>2. QED BY <1>1, Inductive, PTL

(* Another command is repeated only if its removal did not happen.         *)
THEOREM RepeatsAreExcused == Spec => []RepeatedIfUnacked
  <1>1. IInv => RepeatedIfUnacked
    BY DEF IInv
  <1>2. QED BY <1>1, Inductive, PTL

(* No command is lost unless it was written during a removal.              *)
THEOREM NothingLost == Spec => []KeptUntilHandled
  <1>1. IInv => KeptUntilHandled
    BY DEF IInv
  <1>2. QED BY <1>1, Inductive, PTL
=============================================================================
