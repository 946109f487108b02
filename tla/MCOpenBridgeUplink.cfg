SPECIFICATION Spec
CONSTANTS
  Variants = {v1}
  NotSeen = notSeen
  Speakers = {a}
  a = a
  Fallback = fallback
  Prebuffer = 3
  Templates <- MCTemplates
  Superframe = 2
  SeqMod = 4
  StreamMod = 2
  TlvMax = 1
  TxHang = 2
INVARIANTS TerminatedAtExit
PROPERTIES StreamSpec StreamsEnd
