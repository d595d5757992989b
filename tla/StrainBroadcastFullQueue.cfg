\* The deferred queue is full: the worker and the router fan out the same strain.
SPECIFICATION PipelineSpec
CONSTANTS
  s1 = s1
  s2 = s2
  promo = promo
  ann = ann
  bob = bob
  NoRow = NoRow
  None = None
  Other = Other
  kush = kush
  Broadcasts = {s1, s2}
  StrainBroadcasts = {s1, s2}
  Chats = {ann}
  Rows <- OneChat
  Poison = {}
  Bodies = {kush}
  Window = 1
  Limit = 2
  QueueSize = 1
  MaxClock = 1
  MaxPuts = 3
  MaxSearches = 3
  MaxFaults = 0
  MaxFailures = 0
INVARIANTS OneBroadcastPerBody
