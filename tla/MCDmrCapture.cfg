SPECIFICATION Spec
CONSTANTS
  SeqWrap = 3
  Superframe = 2
  Streams = {s1, s2}
  NewStream = fresh
  Flags <- TheFlags
  CallType = "group"
  Slot = 1
  BothSlots = TRUE
  MaxPackets = 4
  MaxCuts = 1
SYMMETRY StreamSymmetry
INVARIANTS FilesAgree RecordedAsReceived CaptureReplays TemplateBuilds
