----------------------------- MODULE RuntimeProofs -----------------------------
(***************************************************************************)
(* Theorems about what the full runtime leaves behind when it ends, is     *)
(* killed or starts again: the last-heard file (LastHeard), for any        *)
(* stores, callsigns and limit, and its children and the directory's       *)
(* listing (Lifecycle), for every configuration and every point at which   *)
(* start(), a thread or stop() may fail.  The two specifications share no  *)
(* variable, and no theorem is about both.                                 *)
(*                                                                         *)
(* LastHeard: both properties are about the file between two calls of      *)
(* record(), and what is written was computed when the call began.         *)
(* MemoryInv says that a table that has grown too long in memory has done  *)
(* so by the callsign being recorded, which is then new and so ranks by    *)
(* the time it was seen.  AloneInv says that, as long as nothing           *)
(* overlapped, the one store in record() has in memory what the file will  *)
(* have to hold.                                                           *)
(*                                                                         *)
(* Lifecycle: both properties speak of the end only.  What makes them      *)
(* inductive is what stop() has already done at each of its places: Reaped *)
(* says which children are gone, Told what became of the directory's       *)
(* thread.                                                                 *)
(***************************************************************************)
EXTENDS LastHeard, Lifecycle, Integers, FiniteSetTheorems, TLAPS

Total(r) == r.connects + r.txs

(* No count exceeds the number of events; no callsign without a record has *)
(* anything in its place.                                                  *)
Sound(table, bound) ==
  /\ table \in Tables
  /\ IsFiniteSet(table.calls)
  /\ \A c \in Calls : Total(table.record[c]) <= bound
  /\ \A c \in Calls \ table.calls : table.record[c] = NoRecord

TableInv ==
  /\ Sound(rows, events)
  /\ \A s \in Stores : Sound(memory[s], events)
  /\ \A c \in Calls : told[c] <= events

MemoryInv ==
  \A s \in Stores : step[s] # "idle" =>
    /\ call[s] \in memory[s].calls
    /\ Cardinality(memory[s].calls) <= MaxRecords + 1
    /\ Cardinality(memory[s].calls) > MaxRecords =>
         Rank(memory[s].record[call[s]]) = memory[s].record[call[s]].seen

InOrder ==
  /\ \A s, t \in Stores : step[s] # "idle" /\ step[t] # "idle" => s = t
  /\ (\A s \in Stores : step[s] # "open") => text = "whole"
  /\ (\E s \in Stores : step[s] = "open") => text = "empty"
  /\ AllIdle => \A c \in Calls : Total(rows.record[c]) = told[c]
  /\ \A s \in Stores : step[s] # "idle" => \A c \in Calls : Total(memory[s].record[c]) = told[c]

AloneInv == alone => InOrder

IInv == TypeOK /\ TableInv /\ MemoryInv /\ AloneInv /\ NewestKept
-----------------------------------------------------------------------------
LEMMA EmptySound ==
  ASSUME NEW n \in Nat
  PROVE  Sound(Empty, n) /\ Total(NoRecord) = 0
  <1>1. NoRecord \in Records(Times, 0 .. MaxEvents)
    BY LastHeardAssumption DEF NoRecord, Records, Times, Events
  <1>2. Total(NoRecord) = 0
    BY DEF Total, NoRecord
  <1>3. Empty.calls = {} /\ \A c \in Calls : Empty.record[c] = NoRecord
    BY DEF Empty, Table
  <1>4. Empty \in Tables
    BY <1>1 DEF Empty, Table, Tables
  <1>5. QED BY <1>2, <1>3, <1>4, FS_EmptySet DEF Sound

(* What an event does to one record.                                       *)
LEMMA EventKept ==
  ASSUME NEW n \in 0 .. MaxEvents, n < MaxEvents, NEW t \in 1 .. MaxTime, NEW event \in Events,
         NEW r \in Records(Times, 0 .. MaxEvents), Total(r) <= n,
         NEW told0 \in Nat, NEW told1,
         told1 = told0 + (IF event = "disconnected" THEN 0 ELSE 1)
  PROVE  /\ FirstEvent(event, t) \in Records(Times, 0 .. MaxEvents)
         /\ NextEvent(r, event, t) \in Records(Times, 0 .. MaxEvents)
         /\ Total(FirstEvent(event, t)) <= n + 1 /\ Total(NextEvent(r, event, t)) <= n + 1
         /\ told0 = 0 => Total(FirstEvent(event, t)) = told1
         /\ told0 = Total(r) => Total(NextEvent(r, event, t)) = told1
         /\ Rank(FirstEvent(event, t)) = FirstEvent(event, t).seen
  <1>1. t \in Times /\ 0 \in Times /\ t # 0
    BY LastHeardAssumption DEF Times
  <1>2. /\ One(event, "connected") \in {0, 1} /\ One(event, "heard") \in {0, 1}
        /\ One(event, "connected") + One(event, "heard") = IF event = "disconnected" THEN 0 ELSE 1
    BY DEF One, Events
  <1> DEFINE first == FirstEvent(event, t)
             next == NextEvent(r, event, t)
  <1>3. /\ first \in Records(Times, 0 .. MaxEvents)
        /\ Total(first) = IF event = "disconnected" THEN 0 ELSE 1
        /\ Rank(first) = first.seen
    BY <1>1, <1>2, LastHeardAssumption DEF FirstEvent, Records, Total, Rank
  <1>4. /\ r.connects \in 0 .. MaxEvents /\ r.txs \in 0 .. MaxEvents
        /\ r.connects + r.txs <= n
    BY DEF Records, Total
  <1>5. /\ next.connects = r.connects + One(event, "connected")
        /\ next.txs = r.txs + One(event, "heard")
    BY DEF NextEvent, Records
  <1>6. next.connects \in 0 .. MaxEvents /\ next.txs \in 0 .. MaxEvents
    BY <1>2, <1>4, <1>5, LastHeardAssumption
  <1>7. next \in Records(Times, 0 .. MaxEvents)
    <2> DEFINE connect == IF event = "connected" THEN t ELSE r.connect
               tx == IF event = "heard" THEN t ELSE r.tx
               disconnect == IF event = "disconnected" THEN t ELSE r.disconnect
               connects == r.connects + One(event, "connected")
               txs == r.txs + One(event, "heard")
    <2>1. /\ r.first \in Times /\ connect \in Times /\ tx \in Times /\ disconnect \in Times
          /\ connects \in 0 .. MaxEvents /\ txs \in 0 .. MaxEvents
      BY <1>1, <1>5, <1>6 DEF Records
    <2>2. next = [r EXCEPT !.connect = connect, !.tx = tx, !.disconnect = disconnect, !.seen = t,
                           !.event = event, !.connects = connects, !.txs = txs]
      BY DEF NextEvent
    <2> HIDE DEF next, connect, tx, disconnect, connects, txs
    <2>3. QED BY <1>1, <2>1, <2>2 DEF Records
  <1>8. Total(next) = Total(r) + (IF event = "disconnected" THEN 0 ELSE 1)
    <2>1. Total(next) = next.connects + next.txs /\ Total(r) = r.connects + r.txs
      BY DEF Total
    <2> HIDE DEF next
    <2>2. QED BY <1>2, <1>4, <1>5, <2>1
  <1>9. Total(r) \in Nat
    BY <1>4 DEF Total
  <1> HIDE DEF first, next
  <1>10. Total(first) <= n + 1 /\ Total(next) <= n + 1
    BY <1>3, <1>8, <1>9, LastHeardAssumption
  <1>11. (told0 = 0 => Total(first) = told1) /\ (told0 = Total(r) => Total(next) = told1)
    BY <1>3, <1>8, <1>9
  <1>12. QED BY <1>3, <1>7, <1>10, <1>11 DEF first, next

(* What an event does to a table.                                          *)
LEMMA UpdatedKept ==
  ASSUME NEW table, Sound(table, events), events < MaxEvents, TypeOK,
         NEW c \in Calls, NEW event \in Events,
         NEW told1 \in [Calls -> Nat],
         told1 = [told EXCEPT ![c] = @ + (IF event = "disconnected" THEN 0 ELSE 1)]
  PROVE  LET new == Updated(table, c, event)
         IN /\ Sound(new, events + 1)
            /\ new.calls = table.calls \cup {c}
            /\ c \notin table.calls => Rank(new.record[c]) = new.record[c].seen
            /\ (\A d \in Calls : Total(table.record[d]) = told[d])
                 => (\A d \in Calls : Total(new.record[d]) = told1[d])
  <1> DEFINE new == Updated(table, c, event)
             r == table.record[c]
  <1>1. /\ events \in 0 .. MaxEvents /\ now \in 1 .. MaxTime
        /\ told[c] \in Nat /\ told1[c] = told[c] + (IF event = "disconnected" THEN 0 ELSE 1)
        /\ \A d \in Calls \ {c} : told1[d] = told[d]
        /\ table.calls \subseteq Calls
        /\ \A d \in Calls : /\ table.record[d] \in Records(Times, 0 .. MaxEvents)
                            /\ Total(table.record[d]) <= events
                            /\ Total(table.record[d]) \in Nat
    BY LastHeardAssumption DEF TypeOK, Sound, Tables, Records, Total
  <1>2. /\ FirstEvent(event, now) \in Records(Times, 0 .. MaxEvents)
        /\ NextEvent(r, event, now) \in Records(Times, 0 .. MaxEvents)
        /\ Total(FirstEvent(event, now)) <= events + 1
        /\ Total(NextEvent(r, event, now)) <= events + 1
        /\ told[c] = 0 => Total(FirstEvent(event, now)) = told1[c]
        /\ told[c] = Total(r) => Total(NextEvent(r, event, now)) = told1[c]
        /\ Rank(FirstEvent(event, now)) = FirstEvent(event, now).seen
    BY <1>1, EventKept
  <1>3. /\ new.calls = table.calls \cup {c}
        /\ DOMAIN new = {"calls", "record"}
        /\ new = [calls |-> new.calls, record |-> new.record]
        /\ new.record = [table.record EXCEPT ![c] = IF c \in table.calls THEN NextEvent(@, event, now)
                                                     ELSE FirstEvent(event, now)]
    BY DEF Updated, Table
  <1>4. /\ new.record[c] = IF c \in table.calls THEN NextEvent(r, event, now) ELSE FirstEvent(event, now)
        /\ \A d \in Calls \ {c} : new.record[d] = table.record[d]
    BY <1>3 DEF Sound, Tables
  <1>5. new.record \in [Calls -> Records(Times, 0 .. MaxEvents)]
    BY <1>1, <1>2, <1>3 DEF Sound, Tables
  <1>6. c \notin table.calls => Total(r) = 0
    BY EmptySound DEF Sound
  <1> HIDE DEF new
  <1>7. new \in Tables
    BY <1>1, <1>3, <1>5 DEF Tables
  <1>8. IsFiniteSet(new.calls)
    BY <1>3, FS_AddElement DEF Sound
  <1>9. \A d \in Calls : Total(new.record[d]) <= events + 1
    BY <1>1, <1>2, <1>4
  <1>10. \A d \in Calls \ new.calls : new.record[d] = NoRecord
    BY <1>3, <1>4 DEF Sound
  <1>11. Sound(new, events + 1)
    BY <1>7, <1>8, <1>9, <1>10 DEF Sound
  <1>12. ASSUME \A d \in Calls : Total(table.record[d]) = told[d], NEW d \in Calls
         PROVE  Total(new.record[d]) = told1[d]
    BY <1>1, <1>2, <1>4, <1>6, <1>12
  <1>13. c \notin table.calls => Rank(new.record[c]) = new.record[c].seen
    BY <1>2, <1>4
  <1>14. QED BY <1>3, <1>11, <1>12, <1>13 DEF new

(* What is left of a table when it is cut.                                 *)
LEMMA CutKept ==
  ASSUME NEW n \in Nat, NEW table, Sound(table, n), Cardinality(table.calls) <= MaxRecords + 1,
         NEW t \in Cut(table)
  PROVE  /\ Sound(t, n) /\ Cardinality(t.calls) <= MaxRecords
         /\ t.calls \subseteq table.calls
         /\ \A c \in Calls : t.record[c] = IF c \in table.calls \ t.calls THEN NoRecord ELSE table.record[c]
         /\ \A c \in table.calls \ t.calls :
              /\ Cardinality(table.calls) > MaxRecords
              /\ \A d \in t.calls : Rank(table.record[d]) >= Rank(table.record[c])
  <1>1. Cardinality(table.calls) \in Nat
    BY FS_CardinalityType DEF Sound
  <1>2. CASE Cardinality(table.calls) <= MaxRecords
    BY <1>2 DEF Cut
  <1>3. CASE ~(Cardinality(table.calls) <= MaxRecords)
    <2>1. PICK c \in table.calls :
            /\ \A d \in table.calls : Rank(table.record[c]) <= Rank(table.record[d])
            /\ t = Without(table, c)
      BY <1>3 DEF Cut
    <2>2. /\ t.calls = table.calls \ {c}
          /\ t.record = [table.record EXCEPT ![c] = NoRecord]
          /\ t = [calls |-> table.calls \ {c}, record |-> t.record]
      BY <2>1 DEF Without, Table
    <2>3. /\ c \in Calls
          /\ table.calls \subseteq Calls
          /\ table.record \in [Calls -> Records(Times, 0 .. MaxEvents)]
          /\ NoRecord \in Records(Times, 0 .. MaxEvents)
          /\ Total(NoRecord) = 0
      BY EmptySound, LastHeardAssumption DEF Sound, Tables, NoRecord, Records, Times, Events
    <2>4. \A d \in Calls : t.record[d] = IF d = c THEN NoRecord ELSE table.record[d]
      BY <2>2, <2>3
    <2>5. IsFiniteSet(t.calls) /\ Cardinality(t.calls) = Cardinality(table.calls) - 1
      BY <2>2, FS_RemoveElement DEF Sound
    <2>6. t \in Tables
      BY <2>2, <2>3 DEF Tables
    <2>7. Sound(t, n)
      BY <2>2, <2>3, <2>4, <2>5, <2>6 DEF Sound
    <2>8. Cardinality(t.calls) <= MaxRecords
      BY <1>1, <2>5, LastHeardAssumption
    <2>9. \A d \in t.calls : Rank(table.record[c]) <= Rank(table.record[d])
      BY <2>1, <2>2
    <2>10. \A d \in Calls : Rank(table.record[d]) \in Nat
      BY <2>3 DEF Rank, Records, Times
    <2>11. \A d \in t.calls : Rank(table.record[d]) >= Rank(table.record[c])
      BY <2>2, <2>3, <2>9, <2>10
    <2>12. QED BY <1>1, <1>3, <2>2, <2>3, <2>4, <2>7, <2>8, <2>11, LastHeardAssumption
  <1>4. QED BY <1>2, <1>3
-----------------------------------------------------------------------------
LEMMA InitInv == Init => IInv
  <1> SUFFICES ASSUME Init PROVE IInv
    OBVIOUS
  <1>1. Sound(Empty, 0) /\ Total(NoRecord) = 0 /\ Empty.calls = {}
        /\ \A c \in Calls : Empty.record[c] = NoRecord
    BY EmptySound DEF Empty, Table
  <1>2. TypeOK
    BY <1>1, FS_EmptySet, LastHeardAssumption DEF Init, TypeOK, Sound, Times
  <1>3. TableInv /\ MemoryInv /\ NewestKept
    BY <1>1 DEF Init, TableInv, MemoryInv, NewestKept
  <1>4. AloneInv
    BY <1>1 DEF Init, AloneInv, InOrder
  <1>5. QED BY <1>2, <1>3, <1>4 DEF IInv

(* The counts of a table stay within a bound that grows.                   *)
LEMMA SoundLater ==
  ASSUME NEW table, NEW n \in Nat, Sound(table, n)
  PROVE  Sound(table, n + 1)
  <1>1. \A c \in Calls : Total(table.record[c]) \in Nat /\ Total(table.record[c]) <= n
    BY LastHeardAssumption DEF Sound, Tables, Records, Total
  <1>2. \A c \in Calls : Total(table.record[c]) <= n + 1
    BY <1>1
  <1>3. QED BY <1>2 DEF Sound

LEMMA ReadKeeps ==
  ASSUME IInv, NEW s \in Stores, NEW c \in Calls, NEW event \in Events, Read(s, c, event)
  PROVE  IInv'
  <1> DEFINE new == Updated(Contents, c, event)
  <1>1. /\ events \in Nat /\ events < MaxEvents /\ events \in 0 .. MaxEvents
        /\ told' = [told EXCEPT ![c] = @ + (IF event = "disconnected" THEN 0 ELSE 1)]
        /\ memory' = [memory EXCEPT ![s] = new] /\ memory \in [Stores -> Tables]
        /\ step' = [step EXCEPT ![s] = "read"] /\ step \in [Stores -> {"idle", "read", "open"}]
        /\ call' = [call EXCEPT ![s] = c] /\ call \in [Stores -> Calls \cup {NoCall}]
        /\ events' = events + 1 /\ told \in [Calls -> 0 .. MaxEvents]
        /\ alone' = (alone /\ AllIdle) /\ step[s] = "idle"
        /\ UNCHANGED <<rows, text, now, latest>>
    BY LastHeardAssumption DEF Read, IInv, TypeOK, file
  <1>2. Sound(Contents, events) /\ Cardinality(Contents.calls) <= MaxRecords
    <2>1. Sound(rows, events) /\ Cardinality(rows.calls) <= MaxRecords
      BY DEF IInv, TableInv, TypeOK
    <2>2. Empty.calls = {} /\ Cardinality({}) = 0
      BY FS_EmptySet DEF Empty, Table
    <2>3. Sound(Empty, events) /\ Cardinality(Empty.calls) <= MaxRecords
      BY <1>1, <2>2, EmptySound, LastHeardAssumption
    <2>4. QED BY <2>1, <2>3 DEF Contents
  <1> DEFINE later == [told EXCEPT ![c] = @ + (IF event = "disconnected" THEN 0 ELSE 1)]
  <1>3. later \in [Calls -> Nat] /\ told' = later
    BY <1>1
  <1>4. /\ Sound(new, events + 1)
        /\ new.calls = Contents.calls \cup {c}
        /\ c \notin Contents.calls => Rank(new.record[c]) = new.record[c].seen
        /\ (\A d \in Calls : Total(Contents.record[d]) = told[d])
             => (\A d \in Calls : Total(new.record[d]) = later[d])
    <2> HIDE DEF later
    <2>1. later = [told EXCEPT ![c] = @ + (IF event = "disconnected" THEN 0 ELSE 1)]
      BY DEF later
    <2>2. QED BY <1>1, <1>2, <1>3, <2>1, UpdatedKept DEF IInv
  <1>5. /\ Cardinality(new.calls) <= MaxRecords + 1
        /\ Cardinality(new.calls) > MaxRecords => c \notin Contents.calls
    <2>1. IsFiniteSet(Contents.calls) /\ Cardinality(Contents.calls) \in Nat
      BY <1>2, FS_CardinalityType DEF Sound
    <2>2. Cardinality(new.calls) =
            IF c \in Contents.calls THEN Cardinality(Contents.calls) ELSE Cardinality(Contents.calls) + 1
      BY <1>4, <2>1, FS_AddElement
    <2>3. QED BY <1>2, <2>1, <2>2, LastHeardAssumption
  <1> HIDE DEF new, later
  <1>6. /\ \A t \in Stores \ {s} : /\ memory'[t] = memory[t] /\ step'[t] = step[t] /\ call'[t] = call[t]
        /\ memory'[s] = new /\ step'[s] = "read" /\ call'[s] = c
    BY <1>1
  <1>7. TableInv'
    <2>1. Sound(rows, events + 1) /\ \A t \in Stores : Sound(memory[t], events + 1)
      BY <1>1, SoundLater DEF IInv, TableInv
    <2>2. Sound(rows', events') /\ \A t \in Stores : Sound(memory'[t], events')
      BY <1>1, <1>4, <1>6, <2>1
    <2>3. \A d \in Calls : told[d] \in Nat /\ told[d] <= events
      BY <1>1 DEF IInv, TableInv
    <2>4. \A d \in Calls : told'[d] <= events'
      BY <1>1, <2>3
    <2>5. QED BY <2>2, <2>4 DEF TableInv, Sound, Tables
  <1>8. TypeOK'
    <2>1. told' \in [Calls -> 0 .. MaxEvents]
      <3>1. \A d \in Calls : told'[d] <= events'
        BY <1>7 DEF TableInv
      <3>2. QED BY <1>1, <1>3, <3>1, LastHeardAssumption
    <2>2. new \in Tables
      BY <1>4 DEF Sound
    <2>3. QED BY <1>1, <2>1, <2>2, LastHeardAssumption DEF IInv, TypeOK, Tables
  <1>9. MemoryInv'
    BY <1>4, <1>5, <1>6 DEF IInv, MemoryInv
  <1>10. AloneInv'
    <2> SUFFICES ASSUME alone' PROVE InOrder'
      BY DEF AloneInv
    <2>1. alone /\ \A t \in Stores : step[t] = "idle"
      BY <1>1 DEF AllIdle
    <2>2. text = "whole" /\ \A d \in Calls : Total(rows.record[d]) = told[d]
      BY <2>1 DEF IInv, AloneInv, InOrder, AllIdle
    <2>3. \A d \in Calls : Total(new.record[d]) = told'[d]
      BY <1>3, <1>4, <2>2 DEF Contents
    <2>4. QED BY <1>1, <1>6, <2>1, <2>2, <2>3 DEF InOrder, AllIdle
  <1>11. NewestKept'
    BY <1>1 DEF IInv, NewestKept
  <1>12. QED BY <1>7, <1>8, <1>9, <1>10, <1>11 DEF IInv

LEMMA OpenKeeps ==
  ASSUME IInv, NEW s \in Stores, Open(s)
  PROVE  IInv'
  <1>1. /\ step' = [step EXCEPT ![s] = "open"] /\ step \in [Stores -> {"idle", "read", "open"}]
        /\ step[s] = "read" /\ text' = "empty"
        /\ UNCHANGED <<rows, call, memory, now, events, told, latest, alone>>
    BY DEF Open, IInv, TypeOK
  <1>2. /\ \A t \in Stores \ {s} : step'[t] = step[t]
        /\ step'[s] = "open"
    BY <1>1
  <1>3. TypeOK'
    BY <1>1 DEF IInv, TypeOK, Tables
  <1>4. TableInv' /\ NewestKept'
    BY <1>1 DEF IInv, TableInv, NewestKept, Sound, Tables
  <1>5. MemoryInv'
    BY <1>1, <1>2 DEF IInv, MemoryInv
  <1>6. AloneInv'
    BY <1>1, <1>2 DEF IInv, AloneInv, InOrder, AllIdle
  <1>7. QED BY <1>3, <1>4, <1>5, <1>6 DEF IInv

LEMMA WriteKeeps ==
  ASSUME IInv, NEW s \in Stores, Write(s)
  PROVE  IInv'
  <1> DEFINE table == memory[s]
             c == call[s]
  <1>1. /\ step[s] = "open" /\ events \in Nat
        /\ step' = [step EXCEPT ![s] = "idle"] /\ step \in [Stores -> {"idle", "read", "open"}]
        /\ memory' = [memory EXCEPT ![s] = Empty] /\ memory \in [Stores -> Tables]
        /\ told' = [d \in Calls |-> IF d \in table.calls \ rows'.calls THEN 0 ELSE told[d]]
        /\ told \in [Calls -> 0 .. MaxEvents]
        /\ latest' = [call |-> c, at |-> table.record[c].seen]
        /\ text' \in {"whole", "garbled"} /\ (text = "empty" => text' = "whole")
        /\ UNCHANGED <<call, now, events, alone>>
    BY LastHeardAssumption DEF Write, IInv, TypeOK
  <1>2. /\ \A t \in Stores \ {s} : memory'[t] = memory[t] /\ step'[t] = step[t]
        /\ memory'[s] = Empty /\ step'[s] = "idle"
    BY <1>1
  <1>3. /\ Sound(table, events) /\ c \in table.calls /\ c \in Calls
        /\ Cardinality(table.calls) <= MaxRecords + 1
        /\ Cardinality(table.calls) > MaxRecords => Rank(table.record[c]) = table.record[c].seen
    BY <1>1 DEF IInv, TableInv, MemoryInv, Sound, Tables
  <1>4. /\ Sound(rows', events) /\ Cardinality(rows'.calls) <= MaxRecords
        /\ rows'.calls \subseteq table.calls
        /\ \A d \in Calls : rows'.record[d] = IF d \in table.calls \ rows'.calls THEN NoRecord ELSE table.record[d]
        /\ \A d \in table.calls \ rows'.calls :
             /\ Cardinality(table.calls) > MaxRecords
             /\ \A e \in rows'.calls : Rank(table.record[e]) >= Rank(table.record[d])
    <2>1. rows' \in Cut(table)
      BY DEF Write
    <2>2. QED BY <1>1, <1>3, <2>1, CutKept
  <1>5. Sound(Empty, events) /\ Total(NoRecord) = 0
    BY <1>1, EmptySound
  <1>6. table.record[c].seen \in Times /\ rows' \in Tables /\ IsFiniteSet(rows'.calls) /\ Empty \in Tables
    BY <1>3, <1>4, <1>5 DEF Sound, Tables, Records
  <1> HIDE DEF table, c
  <1>7. TypeOK'
    <2>1. latest' \in [call : Calls \cup {NoCall}, at : Times]
      BY <1>1, <1>3, <1>6
    <2>2. told' \in [Calls -> 0 .. MaxEvents]
      BY <1>1, LastHeardAssumption
    <2>3. QED BY <1>1, <1>4, <1>6, <2>1, <2>2 DEF IInv, TypeOK, Tables
  <1>8. TableInv'
    <2>1. \A t \in Stores : Sound(memory'[t], events)
      BY <1>2, <1>5 DEF IInv, TableInv
    <2>2. \A d \in Calls : told'[d] <= events
      BY <1>1 DEF IInv, TableInv
    <2>3. QED BY <1>1, <1>4, <2>1, <2>2 DEF TableInv, Sound, Tables
  <1>9. MemoryInv'
    BY <1>1, <1>2 DEF IInv, MemoryInv
  <1>10. AloneInv'
    <2> SUFFICES ASSUME alone' PROVE InOrder'
      BY DEF AloneInv
    <2>1. /\ \A t \in Stores \ {s} : step[t] = "idle"
          /\ text = "empty"
          /\ \A d \in Calls : Total(table.record[d]) = told[d]
      BY <1>1 DEF IInv, AloneInv, InOrder, table
    <2>2. \A t \in Stores : step'[t] = "idle"
      BY <1>2, <2>1
    <2>3. \A d \in Calls : Total(rows'.record[d]) = told'[d]
      BY <1>1, <1>4, <1>5, <2>1
    <2>4. QED BY <1>1, <2>1, <2>2, <2>3 DEF InOrder, AllIdle
  <1>11. NewestKept'
    <2> SUFFICES ASSUME c \notin rows'.calls, NEW d \in rows'.calls
                 PROVE  Rank(rows'.record[d]) >= table.record[c].seen
      BY <1>1 DEF NewestKept
    <2>1. /\ Rank(table.record[c]) = table.record[c].seen
          /\ Rank(table.record[d]) >= Rank(table.record[c])
      BY <1>3, <1>4
    <2>2. d \in Calls /\ rows'.record[d] = table.record[d]
      BY <1>3, <1>4 DEF Sound, Tables
    <2>3. QED BY <2>1, <2>2
  <1>12. QED BY <1>7, <1>8, <1>9, <1>10, <1>11 DEF IInv

LEMMA EndsKeep ==
  ASSUME IInv, (\E s \in Stores : WriteFails(s)) \/ Restart
  PROVE  IInv'
  <1>1. /\ UNCHANGED <<rows, text, call, now, events, told, latest>>
        /\ alone' \in BOOLEAN /\ (alone' => alone /\ AllIdle)
        /\ step' \in [Stores -> {"idle", "read", "open"}] /\ memory' \in [Stores -> Tables]
        /\ \A t \in Stores : \/ step'[t] = "idle" /\ memory'[t] = Empty
                             \/ step'[t] = step[t] /\ memory'[t] = memory[t]
    <2>1. Empty \in Tables
      BY EmptySound DEF Sound
    <2>2. CASE Restart
      BY <2>1, <2>2 DEF Restart, file, IInv, TypeOK
    <2>3. ASSUME NEW s \in Stores, WriteFails(s) PROVE <1>1
      BY <2>1, <2>3 DEF WriteFails, file, IInv, TypeOK
    <2>4. QED BY <2>2, <2>3
  <1>2. TypeOK'
    BY <1>1 DEF IInv, TypeOK, Tables
  <1>3. TableInv' /\ NewestKept'
    <2>1. events \in Nat
      BY LastHeardAssumption DEF IInv, TypeOK
    <2>2. Sound(Empty, events)
      BY <2>1, EmptySound
    <2>3. \A t \in Stores : Sound(memory'[t], events)
      BY <1>1, <2>2 DEF IInv, TableInv
    <2>4. QED BY <1>1, <2>3 DEF IInv, TableInv, NewestKept, Sound, Tables
  <1>4. MemoryInv'
    BY <1>1 DEF IInv, MemoryInv
  <1>5. AloneInv'
    BY <1>1 DEF IInv, AloneInv, InOrder, AllIdle
  <1>6. QED BY <1>2, <1>3, <1>4, <1>5 DEF IInv

LEMMA Preserved == IInv /\ [Next]_vars => IInv'
  <1> SUFFICES ASSUME IInv, [Next]_vars PROVE IInv'
    OBVIOUS
  <1>1. CASE Tick
    <2>1. /\ now' \in 1 .. MaxTime
          /\ UNCHANGED <<rows, text, step, call, memory, events, told, latest, alone>>
      BY <1>1, LastHeardAssumption DEF Tick, file, store, IInv, TypeOK
    <2>2. QED BY <2>1 DEF IInv, TypeOK, TableInv, MemoryInv, AloneInv, InOrder, NewestKept,
                     AllIdle, Sound, Tables
  <1>2. CASE UNCHANGED vars
    BY <1>2 DEF vars, IInv, TypeOK, TableInv, MemoryInv, AloneInv, InOrder, NewestKept,
       AllIdle, Sound, Tables
  <1>3. QED
    BY <1>1, <1>2, ReadKeeps, OpenKeeps, WriteKeeps, EndsKeep DEF Next

(* The inductive invariant.                                                *)
THEOREM Inductive == Spec => []IInv
  BY InitInv, Preserved, PTL DEF Spec

(* Every variable keeps its type, and the file its limit.                  *)
THEOREM TypeCorrect == Spec => []TypeOK
  <1>1. IInv => TypeOK
    BY DEF IInv
  <1>2. QED BY <1>1, Inductive, PTL

(* As long as no two stores record at once and no write is cut short, the  *)
(* file has every connect and transmission since a callsign was cut off.   *)
THEOREM KeepsRecords == Spec => []RecordKept
  <1>1. IInv => RecordKept
    BY DEF IInv, AloneInv, InOrder, RecordKept, AllIdle, Total
  <1>2. QED BY <1>1, Inductive, PTL

(* A station is not pushed out of the file by its own record, whatever the *)
(* other store does meanwhile.                                             *)
THEOREM KeepsNewest == Spec => []NewestKept
  <1>1. IInv => NewestKept
    BY DEF IInv
  <1>2. QED BY <1>1, Inductive, PTL
-----------------------------------------------------------------------------
Reaped ==
  /\ pc \in {"stopEmulator", "status"} => analog # "up"
  /\ pc = "status" => emulator # "up"
  /\ pc \in {"exit", "done"} /\ ~broken => analog # "up" /\ emulator # "up"

AfterJoin == {"stopDashboard", "disconnect", "joinThreads", "stopAnalog", "stopEmulator",
              "status", "exit"}

Told ==
  /\ pc \in AfterJoin => directory \in {"none", "ended"} \/ late
  /\ pc # "done" /\ directory = "ended" => ~listed \/ refused
  /\ OfflineAtEnd

LEMMA LifecycleStarts == LifecycleInit => LifecycleTypeOK /\ Reaped /\ Told
  BY DEF LifecycleInit, LifecycleTypeOK, Process, StartPlaces, StopPlaces, Codes, Reaped, Told, AfterJoin, OfflineAtEnd

LEMMA LifecycleTypesKept == LifecycleTypeOK /\ [LifecycleNext]_lifecycleVars => LifecycleTypeOK'
  <1> SUFFICES ASSUME LifecycleTypeOK, [LifecycleNext]_lifecycleVars PROVE LifecycleTypeOK'
    OBVIOUS
  <1> USE DEF LifecycleTypeOK, Process, StartPlaces, StopPlaces, Codes, Goto, Raise, lifecycleVars, children,
          workers, listing, history
  <1>1. CASE Starting
    <2>1. CASE SetupFails \/ RequireGsm
      <3>1. raised' \in BOOLEAN
        BY <2>1, Zenon DEF SetupFails, RequireGsm
      <3>2. QED BY <2>1, <3>1 DEF SetupFails, RequireGsm
    <2>2. CASE StartEmulator
      <3>1. raised' \in BOOLEAN
        BY <2>2, Zenon DEF StartEmulator
      <3>2. QED BY <2>2, <3>1 DEF StartEmulator
    <2>3. CASE AwaitEmulator \/ BuildPlan
      <3>1. raised' \in BOOLEAN
        BY <2>3, Zenon DEF AwaitEmulator, BuildPlan
      <3>2. QED BY <2>3, <3>1 DEF AwaitEmulator, BuildPlan
    <2>4. CASE LaunchAnalog \/ AwaitAnalog
      <3>1. raised' \in BOOLEAN
        BY <2>4, Zenon DEF LaunchAnalog, AwaitAnalog
      <3>2. QED BY <2>4, <3>1 DEF LaunchAnalog, AwaitAnalog
    <2>5. CASE StartThreads
      BY <2>5 DEF StartThreads
    <2>6. QED BY <1>1, <2>1, <2>2, <2>3, <2>4, <2>5 DEF Starting
  <1>2. CASE FindDeath \/ RoundRaises \/ LoopEnds
    BY <1>2 DEF FindDeath, RoundRaises, LoopEnds
  <1>3. CASE RoundStops
    <2>1. reload' \in BOOLEAN
      BY <1>3, Zenon DEF RoundStops
    <2>2. QED BY <1>3, <2>1 DEF RoundStops
  <1>4. CASE Stopping
    <2>1. CASE BeginStop \/ JoinDirectory \/ StopDashboard
      BY <2>1 DEF BeginStop, JoinDirectory, StopDashboard
    <2>2. CASE Disconnect
      <3>1. raised' \in BOOLEAN /\ broken' \in BOOLEAN
        BY <2>2, Zenon DEF Disconnect
      <3>2. QED BY <2>2, <3>1 DEF Disconnect
    <2>3. CASE JoinThreads \/ StopAnalog \/ StopEmulator
      BY <2>3 DEF JoinThreads, StopAnalog, StopEmulator
    <2>4. CASE FinalStatus
      <3>1. raised' \in BOOLEAN /\ broken' \in BOOLEAN
        BY <2>4, Zenon DEF FinalStatus
      <3>2. QED BY <2>4, <3>1 DEF FinalStatus
    <2>5. CASE Exit
      BY <2>5 DEF Exit, Ended
    <2>6. QED BY <1>4, <2>1, <2>2, <2>3, <2>4, <2>5 DEF Stopping
  <1>5. CASE Others
    <2>1. CASE TellOnline
      <3>1. listed' \in BOOLEAN
        BY <2>1, Zenon DEF TellOnline
      <3>2. QED BY <2>1, <3>1 DEF TellOnline
    <2>2. CASE Refresh
      BY <2>2 DEF Refresh
    <2>3. CASE TellOffline
      <3>1. listed' \in BOOLEAN /\ refused' \in BOOLEAN
        BY <2>3, Zenon DEF TellOffline
      <3>2. QED BY <2>3, <3>1 DEF TellOffline
    <2>4. CASE DashboardThread
      BY <2>4 DEF DashboardThread
    <2>5. CASE ThreadEnds \/ ChildDies
      BY <2>5 DEF ThreadEnds, ChildDies
    <2>6. QED BY <1>5, <2>1, <2>2, <2>3, <2>4, <2>5 DEF Others
  <1>6. CASE Terminate
    BY <1>6 DEF Terminate
  <1>7. CASE Kill
    BY <1>7 DEF Kill, Ended
  <1>8. CASE SystemdRestart
    BY <1>8 DEF SystemdRestart, Fresh
  <1>9. CASE UNCHANGED lifecycleVars
    BY <1>9
  <1>10. QED BY <1>1, <1>2, <1>3, <1>4, <1>5, <1>6, <1>7, <1>8, <1>9 DEF LifecycleNext, Main, Stopped

LEMMA ReapedKept == Reaped /\ [LifecycleNext]_lifecycleVars => Reaped'
  <1> SUFFICES ASSUME Reaped, [LifecycleNext]_lifecycleVars PROVE Reaped'
    OBVIOUS
  <1> USE DEF Reaped, Goto, Raise, lifecycleVars, children, workers, listing, history
  <1>1. CASE Starting
    BY <1>1 DEF Starting, SetupFails, RequireGsm, StartEmulator, AwaitEmulator, BuildPlan,
       LaunchAnalog, AwaitAnalog, StartThreads
  <1>2. CASE FindDeath \/ RoundRaises \/ RoundStops \/ LoopEnds
    <2>1. CASE FindDeath \/ RoundRaises
      BY <2>1 DEF FindDeath, RoundRaises
    <2>2. CASE RoundStops
      BY <2>2 DEF RoundStops
    <2>3. CASE LoopEnds
      BY <2>3 DEF LoopEnds
    <2>4. QED BY <1>2, <2>1, <2>2, <2>3
  <1>3. CASE Stopping
    BY <1>3 DEF Stopping, BeginStop, JoinDirectory, StopDashboard, Disconnect, JoinThreads,
       StopAnalog, StopEmulator, FinalStatus, Exit
  <1>4. CASE Others
    BY <1>4 DEF Others, TellOnline, Refresh, TellOffline, DashboardThread, ThreadEnds, ChildDies
  <1>5. CASE Terminate \/ Kill
    BY <1>5 DEF Terminate, Kill
  <1>6. CASE SystemdRestart
    BY <1>6 DEF SystemdRestart, Fresh
  <1>7. CASE UNCHANGED lifecycleVars
    BY <1>7
  <1>8. QED BY <1>1, <1>2, <1>3, <1>4, <1>5, <1>6, <1>7 DEF LifecycleNext, Main, Stopped

LEMMA ToldKept == Told /\ [LifecycleNext]_lifecycleVars => Told'
  <1> SUFFICES ASSUME Told, [LifecycleNext]_lifecycleVars PROVE Told'
    OBVIOUS
  <1> USE DEF Told, AfterJoin, OfflineAtEnd, Goto, Raise, lifecycleVars, children, workers, listing, history
  <1>1. CASE Starting
    BY <1>1 DEF Starting, SetupFails, RequireGsm, StartEmulator, AwaitEmulator, BuildPlan,
       LaunchAnalog, AwaitAnalog, StartThreads
  <1>2. CASE FindDeath \/ RoundRaises \/ RoundStops \/ LoopEnds
    <2>1. CASE FindDeath \/ RoundRaises
      BY <2>1 DEF FindDeath, RoundRaises
    <2>2. CASE RoundStops
      BY <2>2 DEF RoundStops
    <2>3. CASE LoopEnds
      BY <2>3 DEF LoopEnds
    <2>4. QED BY <1>2, <2>1, <2>2, <2>3
  <1>3. CASE BeginStop \/ StopDashboard \/ Disconnect \/ JoinThreads \/ StopAnalog
               \/ StopEmulator \/ FinalStatus
    BY <1>3 DEF BeginStop, StopDashboard, Disconnect, JoinThreads, StopAnalog, StopEmulator,
       FinalStatus
  <1>4. CASE JoinDirectory
    BY <1>4 DEF JoinDirectory
  <1>5. CASE Exit
    (* What stop() found of the directory's thread still holds.            *)
    <2>1. directory \in {"none", "ended"} \/ late
      BY <1>5 DEF Exit
    <2>2. directory = "ended" => ~listed \/ refused
      BY <1>5 DEF Exit
    <2>3. QED BY <1>5, <2>1, <2>2 DEF Exit, Ended
  <1>6. CASE TellOnline \/ Refresh \/ TellOffline
    BY <1>6 DEF TellOnline, Refresh, TellOffline
  <1>7. CASE DashboardThread \/ ThreadEnds \/ ChildDies \/ Terminate
    BY <1>7 DEF DashboardThread, ThreadEnds, ChildDies, Terminate
  <1>8. CASE Kill
    BY <1>8 DEF Kill
  <1>9. CASE SystemdRestart
    BY <1>9 DEF SystemdRestart, Fresh
  <1>10. CASE UNCHANGED lifecycleVars
    BY <1>10
  <1>11. QED
    BY <1>1, <1>2, <1>3, <1>4, <1>5, <1>6, <1>7, <1>8, <1>9, <1>10
       DEF LifecycleNext, Main, Stopping, Others, Stopped

(* The inductive invariant, of which the safety properties are parts.      *)
THEOREM LifecycleInductive == LifecycleSpec => [](LifecycleTypeOK /\ Reaped /\ Told)
  BY LifecycleStarts, LifecycleTypesKept, ReapedKept, ToldKept, PTL DEF LifecycleSpec

(* Every variable keeps to its type.                                       *)
THEOREM LifecycleTypeCorrect == LifecycleSpec => []LifecycleTypeOK
  BY LifecycleInductive, PTL

(* A gateway that has ended leaves no child running, unless stop() itself  *)
(* raised, wherever start() or a thread failed.                            *)
THEOREM ReapsChildren == LifecycleSpec => []NoOrphans
  <1>1. Reaped => NoOrphans
    BY DEF Reaped, NoOrphans
  <1>2. QED BY <1>1, LifecycleInductive, PTL

(* A gateway that came as far as registering and has ended by itself is    *)
(* not left listed, unless the directory could not be told or stop() gave  *)
(* up waiting.                                                             *)
THEOREM LeavesDirectory == LifecycleSpec => []OfflineAtEnd
  <1>1. Told => OfflineAtEnd
    BY DEF Told
  <1>2. QED BY <1>1, LifecycleInductive, PTL
=============================================================================
