SPECIFICATION MCSpec
CONSTANTS
  BufLen = 3
  Depth = 1
  Low = 0
  Timeout = 2
  MaxCount = 2
  M = 6
  Alarm = {a1, a2}
  W = 5
  Entry = {e1, e2, e3}
  ListHead = list
  Nil = nil
  MaxFd = 5
  Jtag = jtag
  Null = null
  Strange = strange
  Access = {"O_RDWR"}
  MaxBytes = 3
  NakLimit = 2
  RetryLimit = 2
  MaxPackets = 2
  Numbers = 3
  Configurations <- MCConfigurations
  Waits = {0, 1, 2, 3}   \* every wait but the longest, W - 1
INVARIANTS
  ServicesTypeOK
  InterruptsArmed
  ListIsRing
  StdStreams
  SpiInStep
  AnswerIsWhole
  ProbeIsRight
PROPERTIES
  JtagStreams
  AlarmsOnTime
  LockKeepsOut
  ReportsOnce
  CallsComeNearer
  SpiComesNearer
  LaunchesAreCounted
  ProbeIsOneStep
  CallsEnd
CHECK_DEADLOCK FALSE
