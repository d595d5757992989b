\* One process of the bot: the router, its workers and the read cache.
SPECIFICATION FairSpec
CONSTANTS
  u1 = u1
  u2 = u2
  n1 = n1
  n2 = n2
  dm = dm
  group = group
  hello = hello
  Whitelist = Whitelist
  Default = Default
  NoKey = NoKey
  Keys = {Whitelist, Default, hello}
  RowKeys = {Default, hello}
  Lifetime = 0
  NoEntry = NoEntry
  NoRead = NoRead
  MaxChanges = 2
  Users = {u1, u2}
  Names = {n1, n2}
  Chats = {dm, group}
  Groups = {group}
  NoName = NoName
  NoWork = NoWork
  NoChat = NoChat
  FanoutWork = FanoutWork
  QueueSize = 1
  Nobody = Nobody
  MaxItems = 1
  EventSize = 1
  LineSize = 1
  NoUpdate = NoUpdate
  Updates <- MCUpdates
  Days <- MCDays
INVARIANTS ProcessTypeOK EveryRequestCounts LastNameWins GroupsAreKnown ShutdownForgetsAQueueful OnlyLateFillsAreStale EarlyIsDrained FallbackIsLastResort
PROPERTIES ReadsMoveForward OldResultsGo
