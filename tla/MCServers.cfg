SPECIFICATION MCSpec
CONSTANTS
  Connections = {c1, c2, c3, c4}
  MaxSessions = 2
  SlotWait = 2
  Clients = {t1, t2}
  MaxBytes = 3
  RxLimit = 1
  IdleTimeout = 2
  MaxBlock = 1
  NoClient = NoClient
INVARIANTS CountersMatchTasks SocketsHaveOwners LinesAreWhole
PROPERTIES BacklogDrains WaitingIsServed
