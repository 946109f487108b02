SPECIFICATION Spec
CONSTANTS
  Variants = {v1, v2}
  NotSeen = notSeen
  Streams = {s1, s2, s3}
  None = none
  CallType = "group"
  BothSlots = FALSE
  Interval = 2
INVARIANT StartDatagramKept
PROPERTIES OwnStart Paced
