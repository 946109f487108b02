------------------------------ MODULE LastHeard ------------------------------
(***************************************************************************)
(* The last-heard file and the stores that record into it: one of the      *)
(* EchoLink service, one of the full runtime.  record() reads the file,    *)
(* changes one record and writes the file back under a lock, but each      *)
(* store has a lock of its own.  Writing first empties the file, and a     *)
(* file that is read in that state counts as no records at all.            *)
(*                                                                         *)
(* The dashboard's store only reads, which changes nothing.  Times are the *)
(* seconds of a clock that is not set back.                                *)
(***************************************************************************)
EXTENDS LastHeardRecords

CONSTANTS
  Calls,       \* callsigns
  NoCall,      \* no callsign
  Stores,      \* the LastHeardStore instances that record
  MaxRecords,  \* dashboard.last_heard_limit
  MaxTime,     \* bound: seconds
  MaxEvents    \* bound: calls of record()

ASSUME LastHeardAssumption ==
  /\ NoCall \notin Calls
  /\ MaxRecords \in Nat \ {0}
  /\ MaxTime \in Nat \ {0}
  /\ MaxEvents \in Nat

NoRecord == [first |-> 0, connect |-> 0, tx |-> 0, disconnect |-> 0, seen |-> 0,
             event |-> "heard", connects |-> 0, txs |-> 0]

VARIABLES
  rows,      \* the records last written to the file
  text,      \* what the file is: "whole" JSON, "empty" or "garbled"
  step,      \* where each store is in record(): its lock keeps others out
  call,      \* the callsign each store is recording
  memory,    \* the records it has read and changed
  now,       \* the clock
  events,    \* history: calls of record() so far
  told,      \* history: connects and transmissions recorded for each callsign
  latest,    \* history: the last record() to return, its callsign and time
  alone      \* history: no two record() overlapped, none was cut short

vars == <<rows, text, step, call, memory, now, events, told, latest, alone>>
file == <<rows, text>>
store == <<step, call, memory>>

(* A table holds a record for some of the callsigns.                       *)
Table(calls, record) == [calls |-> calls, record |-> record]
Empty == Table({}, [c \in Calls |-> NoRecord])

Init ==
  /\ rows = Empty
  /\ text = "whole"
  /\ step = [s \in Stores |-> "idle"]
  /\ call = [s \in Stores |-> NoCall]
  /\ memory = [s \in Stores |-> Empty]
  /\ now = 1
  /\ events = 0
  /\ told = [c \in Calls |-> 0]
  /\ latest = [call |-> NoCall, at |-> 0]
  /\ alone = TRUE

AllIdle == \A s \in Stores : step[s] = "idle"
-----------------------------------------------------------------------------
(* read(): no file, or one that is not JSON, has no records.               *)
Contents == IF text = "whole" THEN rows ELSE Empty

(* Mutant: the record of the callsign is replaced by a new one.            *)
Replaced(table, c, event) ==
  Table(table.calls \cup {c}, [table.record EXCEPT ![c] = FirstEvent(event, now)])

Updated(table, c, event) ==
  Table(table.calls \cup {c},
        [table.record EXCEPT ![c] = IF c \in table.calls THEN NextEvent(@, event, now)
                                    ELSE FirstEvent(event, now)])

(* record() up to its write(); its lock is free.                           *)
Read(s, c, event) ==
  /\ step[s] = "idle" /\ events < MaxEvents
  /\ memory' = [memory EXCEPT ![s] = Updated(Contents, c, event)]
  /\ call' = [call EXCEPT ![s] = c]
  /\ step' = [step EXCEPT ![s] = "read"]
  /\ events' = events + 1
  /\ told' = [told EXCEPT ![c] = @ + (IF event = "disconnected" THEN 0 ELSE 1)]
  /\ alone' = (alone /\ AllIdle)
  /\ UNCHANGED <<file, now, latest>>

(* write_text opens the file and so empties it.                            *)
Open(s) ==
  /\ step[s] = "read"
  /\ text' = "empty"
  /\ step' = [step EXCEPT ![s] = "open"]
  /\ UNCHANGED <<rows, call, memory, now, events, told, latest, alone>>

Without(table, c) == Table(table.calls \ {c}, [table.record EXCEPT ![c] = NoRecord])

(* Mutant: sorted the other way, so that the newest is cut off.            *)
CutNewest(table) ==
  IF Cardinality(table.calls) <= MaxRecords THEN {table}
  ELSE {Without(table, c) : c \in
          {c \in table.calls : \A d \in table.calls : Rank(table.record[c]) >= Rank(table.record[d])}}

(* Sorted and cut off after MaxRecords; a table is at most one too long.   *)
(* Of records of the same second the sort keeps the order of the file,     *)
(* which is not followed here: any of them may go.                         *)
Cut(table) ==
  IF Cardinality(table.calls) <= MaxRecords THEN {table}
  ELSE {Without(table, c) : c \in
          {c \in table.calls : \A d \in table.calls : Rank(table.record[c]) <= Rank(table.record[d])}}

(* The records go into the file.  If another store wrote them since this   *)
(* one opened it, a shorter text leaves the end of a longer one behind it. *)
Write(s) ==
  /\ step[s] = "open"
  /\ rows' \in Cut(memory[s])
  /\ told' = [c \in Calls |-> IF c \in memory[s].calls \ rows'.calls THEN 0 ELSE told[c]]
  /\ IF text = "empty" THEN text' = "whole" ELSE text' \in {"whole", "garbled"}
  /\ latest' = [call |-> call[s], at |-> memory[s].record[call[s]].seen]
  /\ step' = [step EXCEPT ![s] = "idle"]
  /\ memory' = [memory EXCEPT ![s] = Empty]
  /\ UNCHANGED <<call, now, events, alone>>

(* An OSError in write_text, once the file is open.                        *)
WriteFails(s) ==
  /\ step[s] = "open"
  /\ step' = [step EXCEPT ![s] = "idle"]
  /\ memory' = [memory EXCEPT ![s] = Empty]
  /\ alone' = FALSE
  /\ UNCHANGED <<file, call, now, events, told, latest>>

Tick ==
  /\ now < MaxTime
  /\ now' = now + 1
  /\ UNCHANGED <<file, store, events, told, latest, alone>>

(* The gateway is killed and started again: locks and memory are gone.     *)
Restart ==
  /\ step' = [s \in Stores |-> "idle"]
  /\ memory' = [s \in Stores |-> Empty]
  /\ alone' = (alone /\ AllIdle)
  /\ UNCHANGED <<file, call, now, events, told, latest>>

Next ==
  \/ \E s \in Stores, c \in Calls, event \in Events : Read(s, c, event)
  \/ \E s \in Stores : Open(s) \/ Write(s) \/ WriteFails(s)
  \/ Tick \/ Restart

Spec == Init /\ [][Next]_vars
-----------------------------------------------------------------------------
Times == 0 .. MaxTime
Tables == [calls : SUBSET Calls, record : [Calls -> Records(Times, 0 .. MaxEvents)]]

(* The file never holds more than last_heard_limit records.                *)
TypeOK ==
  /\ rows \in Tables
  /\ IsFiniteSet(rows.calls) /\ Cardinality(rows.calls) <= MaxRecords
  /\ text \in {"whole", "empty", "garbled"}
  /\ step \in [Stores -> {"idle", "read", "open"}]
  /\ call \in [Stores -> Calls \cup {NoCall}]
  /\ memory \in [Stores -> Tables]
  /\ now \in 1 .. MaxTime
  /\ events \in 0 .. MaxEvents
  /\ told \in [Calls -> 0 .. MaxEvents]
  /\ latest \in [call : Calls \cup {NoCall}, at : Times]
  /\ alone \in BOOLEAN

(* Across restarts, the file has every connect and transmission that was   *)
(* recorded since its callsign was last cut off, as long as the two stores *)
(* never record at the same time, which no lock prevents                   *)
(* (lastheard.py:170), and none is cut short.                              *)
RecordKept ==
  alone /\ AllIdle =>
    /\ text = "whole"
    /\ \A c \in Calls : rows.record[c].connects + rows.record[c].txs = told[c]

(* The callsign just recorded is not the one that is cut off, unless all   *)
(* that are kept count as at least as new (lastheard.py:150-156): a        *)
(* station that speaks is not pushed out by itself, whatever the other     *)
(* store has written in between.                                           *)
NewestKept ==
  latest.call # NoCall =>
    \/ latest.call \in rows.calls
    \/ \A c \in rows.calls : Rank(rows.record[c]) >= latest.at
=============================================================================
