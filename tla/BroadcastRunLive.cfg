\* Liveness of the scheduler beside a row that can never be sent.
SPECIFICATION FairSpec
CONSTANTS
  strain = strain
  campaign = campaign
  quiz = quiz
  ann = ann
  bob = bob
  NoRow = NoRow
  Broadcasts = {strain, campaign, quiz}
  StrainBroadcasts = {strain}
  Chats = {ann}
  Rows <- OneChat
  Poison <- Malformed
  Window = 0
  Limit = 2
  MaxClock = 2
  MaxPuts = 1
  MaxFaults = 1
PROPERTIES EveryRowSettles
