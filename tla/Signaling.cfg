CONSTANTS
  Thread = {t1, t2, t3}
  Shutdown = shutdown
  NumMsgs = 4
  Transports = {"push", "client"}
  Hwm = 2
  Patient = {"push"}
SPECIFICATION FairSpec
INVARIANTS TypeOK InOrder FlagUnshared SendsAsAsked
PROPERTIES KeepsPinging Terminates
