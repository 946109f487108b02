SPECIFICATION DecisionSpec
CONSTANTS
  SeqMax = 7
  AutoPort = auto
  None = none
  RtcpInputs <- TheRtcpInputs
  VoiceInputs <- TheVoiceInputs
  TextInputs <- TheTextInputs
  PortInputs <- ThePortInputs
CHECK_DEADLOCK FALSE
INVARIANTS ByeSeen LateVoiceStays TextsKnown PortsAgree
