CONSTANTS
  Thread = {t1, t2}
  Shutdown = shutdown
  Loop = loop
  NumMsgs = 2
  None = None
  Flags = {{"poll"}, {"mutex"}, {"mutex", "poll", "nowait"}}
SPECIFICATION FairSpec
INVARIANTS TypeOK FailsOnlyRefused ExitIsLast DisconnectFinds
PROPERTIES RefusedByOthers StuckForEver EndsUnlessStuck
CHECK_DEADLOCK FALSE
