SPECIFICATION Spec
CONSTANTS
  MaxSaves = 2
  MaxFileFaults = 1
  HandHooks <- MCHandHooks
  MaxHookFaults = 1
  MaxRecords = 3
  MaxTrendFaults = 1
INVARIANTS
  UserFileKept
  OverwriteReplaces
  OnlyBlockChanges
  GuardedCommitsPass
  HistoryHasNoHoles
