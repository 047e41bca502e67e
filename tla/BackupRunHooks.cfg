SPECIFICATION Spec
CONSTANTS
  MaxRetries = 1
  NotifyRetries = 1
  LastDay = 0
INVARIANT PostHooksRun
