SPECIFICATION Spec
CONSTANTS
  NumDevices = 3
  Keys <- MCKeys
  Reports <- MCReports
  WrapMs = 4
  SettleMs = 1
INVARIANTS
  TypeOK
  PollSafe
  LossIsPending
PROPERTIES
  OnlyKeysAreTyped
  EnumerationAdvances
  EnumerationEnds
