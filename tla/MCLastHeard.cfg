SPECIFICATION Spec
CONSTANTS
  Calls = {c1, c2, c3}
  NoCall = nocall
  Stores = {service, runtime}
  MaxRecords = 2
  MaxTime = 2
  MaxEvents = 4
SYMMETRY Symmetric
INVARIANTS RecordKept NewestKept
