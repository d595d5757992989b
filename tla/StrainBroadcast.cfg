\* The whole pipeline: two searches of a strain and user upserts in a queue of one, fan-outs of
\* the worker and the router, a campaign beside them, a scheduler fault or crash, a failing
\* statement, time.
SPECIFICATION PipelineSpec
CONSTANTS
  s1 = s1
  s2 = s2
  promo = promo
  ann = ann
  bob = bob
  NoRow = NoRow
  None = None
  Other = Other
  kush = kush
  Broadcasts = {s1, s2, promo}
  StrainBroadcasts = {s1, s2}
  Chats = {ann}
  Rows <- OneChatTwiceAndPromo
  Poison = {}
  Bodies = {kush}
  Window = 1
  Limit = 2
  QueueSize = 1
  MaxClock = 2
  MaxPuts = 2
  MaxSearches = 2
  MaxFaults = 1
  MaxFailures = 1
INVARIANTS PipelineTypeOK OneBroadcastUnlessOverlapped
PROPERTIES ImplementsBroadcastRun NoCardAfterSweep
SYMMETRY Ids
CONSTRAINT FewEvents
