\* /subscribe commands of two chats through a channel of one, with two restarts anywhere.
SPECIFICATION FairSpec
CONSTANTS
  Chats = {1, 2}
  Buffer = 1
  MaxUpdates = 3
  MaxCrashes = 2
  MaxFaults = 1
INVARIANTS TypeOK RepeatsNeedRestarts LossIsBounded SubscriptionFollowsCommands
PROPERTIES EveryUpdateLeaves
