SPECIFICATION Spec
CONSTANTS
  Named = {A}
  Ips = {i1, i2}
  Addrs = {x, y}
  IpOf <- MCTwoIps
  Claims <- MCBothSockets
  Bannable = {}
  NoCall = NoCall
  NoAddr = NoAddr
  MaxStations = 2
  MaxFrames = 0
  PeerTimeout = 1
  SpeakerTimeout = 1
  CallsFail = FALSE
  x = x
  y = y
  i1 = i1
  i2 = i2
  A = A
INVARIANT ServiceSurvives
