--------------------------- MODULE LastHeardRecords ---------------------------
(***************************************************************************)
(* The records of the last-heard file: what an event does to the record of *)
(* its callsign, and the order of the file.  Times are whole seconds, 0    *)
(* where the code has an empty string; names, ids and sources follow the   *)
(* last row that has one and are left out.                                 *)
(***************************************************************************)
EXTENDS Naturals, FiniteSets

Events == {"connected", "heard", "disconnected"}

Records(times, counts) ==
  [first : times, connect : times, tx : times, disconnect : times, seen : times,
   event : Events, connects : counts, txs : counts]

One(event, name) == IF event = name THEN 1 ELSE 0

(* record(), for a callsign without a record and for one with one.         *)
FirstEvent(event, now) ==
  [first |-> now,
   connect |-> IF event = "connected" THEN now ELSE 0,
   tx |-> IF event = "heard" THEN now ELSE 0,
   disconnect |-> IF event = "disconnected" THEN now ELSE 0,
   seen |-> now, event |-> event,
   connects |-> One(event, "connected"), txs |-> One(event, "heard")]

NextEvent(prev, event, now) ==
  [prev EXCEPT !.connect = IF event = "connected" THEN now ELSE @,
               !.tx = IF event = "heard" THEN now ELSE @,
               !.disconnect = IF event = "disconnected" THEN now ELSE @,
               !.seen = now, !.event = event,
               !.connects = @ + One(event, "connected"), !.txs = @ + One(event, "heard")]

(* The key by which read() and write() sort, newest first.                 *)
Rank(r) == IF r.connect # 0 THEN r.connect ELSE IF r.seen # 0 THEN r.seen ELSE r.first
=============================================================================
