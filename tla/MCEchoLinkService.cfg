SPECIFICATION Spec
CONSTANTS
  Named = {A}
  Ips = {i1, i2}
  Addrs = {x, y}
  IpOf <- MCTwoIps
  Claims <- MCOneSocket
  Bannable = {A}
  NoCall = NoCall
  NoAddr = NoAddr
  MaxStations = 2
  MaxFrames = 1
  PeerTimeout = 1
  SpeakerTimeout = 1
  CallsFail = TRUE
  x = x
  y = y
  i1 = i1
  i2 = i2
  A = A
INVARIANTS TypeOK PeersMatchStations IpEntriesLive KeyFollowsSpeaker BlockedStaysOut
PROPERTY SpeakerReleased
