\* The service thread and the main thread.  A queue of three items is full
\* after a key-up and two frames, so every overflow branch is taken.
SPECIFICATION Spec
CONSTANTS
  Svc = svc
  Admins = {main}
  QMax = 3
  SeqMod = 4
INVARIANTS TypeOK SerialNoStuckKey ClosedUnkeyed KeyupNotLost
PROPERTIES LineSpec SilenceUnkeys
