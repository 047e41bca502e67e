SPECIFICATION FairSpec
CONSTANTS
  MaxRetries = 1
  NotifyRetries = 1
  LastDay = 1
INVARIANT BackupRunInv
INVARIANT OnlyChosenFormLeaves
INVARIANT RecordedIsStored
INVARIANT TempFilesRemoved
INVARIANT LocalUploadAllOrNothing
INVARIANT PostHookOnce
INVARIANT NoticesAreTrue
PROPERTY RunEnds
