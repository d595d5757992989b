\* A second search queues the card while its first post is being recorded.
SPECIFICATION PipelineSpec
CONSTANTS
  s1 = s1
  s2 = s2
  promo = promo
  ann = ann
  bob = bob
  NoRow = NoRow
  None = None
  Other = Other
  kush = kush
  Broadcasts = {s1, promo}
  StrainBroadcasts = {s1}
  Chats = {ann}
  Rows <- OneChatAndPromo
  Poison = {}
  Bodies = {kush}
  Window = 1
  Limit = 2
  QueueSize = 2
  MaxClock = 1
  MaxPuts = 2
  MaxSearches = 2
  MaxFaults = 0
  MaxFailures = 1
INVARIANTS RequeueIsResent
