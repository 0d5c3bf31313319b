SPECIFICATION TransferSpec
CHECK_DEADLOCK FALSE
CONSTANTS
  Names = {d, g}
  Raft = {g}
  Default = d
  Graph = g
  MaxId = 3
  MaxIndex = 2
  Compacted = 1
  MaxSnapshots = 1
  ReportAttempts = 2
  MaxFaults = 2
  MaxTorn = 1
  TearOrphans = FALSE
INVARIANTS
  GraphsSound
  SlotReleased
PROPERTIES
  InstallAtomic
  WaitEnds
