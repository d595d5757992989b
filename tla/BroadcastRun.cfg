\* Safety of the scheduler under crashes, failing statements and lost answers.
SPECIFICATION Spec
CONSTANTS
  strain = strain
  campaign = campaign
  quiz = quiz
  ann = ann
  bob = bob
  NoRow = NoRow
  Broadcasts = {strain, campaign}
  StrainBroadcasts = {strain}
  Chats = {ann, bob}
  Rows <- TwoChats
  Poison = {}
  Window = 1
  Limit = 2
  MaxClock = 1
  MaxPuts = 2
  MaxFaults = 1
INVARIANTS TypeOK IInv PostsBounded MsgIdMeansPosted ClosedForCause PageStillPending
PROPERTIES CardsWanted ImplementsOutbox
