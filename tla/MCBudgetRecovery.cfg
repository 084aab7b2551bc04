SPECIFICATION RecoverySpec
CONSTANTS
  v = v
  c = c
  k = k
  u = u
  t = t
  wv = wv
  wc = wc
  Videos = {v}
  Chats = {}
  Children = {c}
  ParentOf <- MCParentOf
  Keys = {k}
  KeyOf <- MCKeyOf
  Users = {u}
  OwnerOf <- MCOwnerOf
  CappedUsers = {}
  Granted <- MCGranted
  MaxConcurrency <- MCMaxConcurrency
  IdRank <- MCIdRank
  HoldChoices = {1}
  Lifetimes = {1}
  Tasks = {t}
  NoTask = NoTask
  ReceiptsFor <- MCReceiptsFor
  NoReceipt = NoReceipt
  NoActual = NoActual
  OpaqueHashes = {}
  MaxTick = 0
  MaxRevision = 1
  Workers = {wv, wc}
  Serves <- MCServes
  Feed = Feed
  TaskOf <- MCTaskOf
  MaxCrashes = 1
INVARIANTS
  RecoveryTypeOK
  SentWasPromised
  ReturnedWasWithdrawn
  ClosedMeansQuiet
  CursorNeverSkipsBills
PROPERTIES
  BillsLand
  SlotFreed
CHECK_DEADLOCK FALSE
