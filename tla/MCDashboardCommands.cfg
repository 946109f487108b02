SPECIFICATION Spec
CONSTANTS
  Commands = {reload1, reload2, block}
  reload1 = reload1
  reload2 = reload2
  block = block
  Reloads = {reload1, reload2}
  Web = {w1, w2}
  w2 = w2
  w1 = w1
  NoCommand = none
  MaxFailures = 2
INVARIANTS ReloadOnce RepeatedIfUnacked KeptUntilHandled
PROPERTIES CommandsAct
