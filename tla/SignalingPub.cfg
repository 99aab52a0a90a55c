CONSTANTS
  Thread = {t1, t2, t3}
  Shutdown = shutdown
  NumMsgs = 3
  Transports = {"pub"}
  Hwm = 3
  Patient = {}
SYMMETRY Symmetric
SPECIFICATION Spec
INVARIANTS OnlyInitialLost FlagUnshared
CHECK_DEADLOCK FALSE
