SPECIFICATION RecoverySpec
CONSTANTS
  a = a
  k = k
  u = u
  declared = declared
  w = w
  Videos = {}
  Chats = {a}
  Children = {}
  ParentOf <- Nothing
  Keys = {k}
  KeyOf <- MCKeyOf
  Users = {u}
  OwnerOf <- MCOwnerOf
  CappedUsers = {}
  Granted <- MCGranted
  MaxConcurrency <- MCMaxConcurrency
  IdRank <- MCIdRank
  HoldChoices = {1}
  Lifetimes = {1}
  Tasks = {}
  NoTask = NoTask
  ReceiptsFor <- MCReceiptsFor
  NoReceipt = NoReceipt
  NoActual = NoActual
  OpaqueHashes = {declared}
  MaxTick = 1
  MaxRevision = 1
  Workers = {w}
  Serves <- MCServes
  Feed = Feed
  TaskOf <- Nothing
  MaxCrashes = 2
PROPERTIES
  FeedCatchesUp
CHECK_DEADLOCK FALSE
