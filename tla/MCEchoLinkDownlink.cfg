SPECIFICATION Spec
CONSTANTS
  Calls = {a, b}
  NoCall = nocall
  PacketFrames = 2
  RtpMod = 2
  IdleTimeout = 1
  RosterPeriod = 2
INVARIANT FramesAccounted
PROPERTY DmrReleased
