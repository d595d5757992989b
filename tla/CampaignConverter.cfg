\* Five campaign files, converted in runs that fail, beside the scheduler.
SPECIFICATION FairConverterSpec
CONSTANTS
  ann = ann
  bob = bob
  april = april
  again = again
  may = may
  draft = draft
  hello = hello
  news = news
  NoRow = NoRow
  NoOrder = NoOrder
  NoFile = NoFile
  Broadcasts = {april, again, may, draft}
  StrainBroadcasts = {}
  Chats = {ann, bob}
  Rows <- Audiences
  Poison = {}
  Window = 1
  Limit = 1
  MaxClock = 1
  MaxPuts = 2
  MaxFaults = 0
  Files = {1, 2, 3, 4, 5}
  IdOf <- IdOfFile
  PayloadOf <- PayloadOfCampaign
  OrderOf <- OrderOfFile
  StartAt <- Immediately
  Templates = {5}
  SkipSeeded = {2}
  Exempt = {}
  Broken = {1}
  MaxDrops = 2
  MaxStops = 1
INVARIANTS ConverterTypeOK OnePayloadOneCampaign MovedMeansSeeded
PROPERTIES ConverterImplementsRun EveryFileCompletes
