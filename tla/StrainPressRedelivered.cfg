\* One press, handled twice because the process restarted before Telegram had forgotten it.
SPECIFICATION Spec
CONSTANTS
  Users = {1}
  Strains = {1}
  Legacy <- NoneLeft
  Buffer = 1
  MaxUpdates = 2
  MaxCrashes = 1
  MaxTokens = 3
  MaxFaults = 0
PROPERTIES RemovedBySecondPress
