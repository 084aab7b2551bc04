SPECIFICATION Spec
CONSTANTS
  a = a
  b = b
  k = k
  u = u
  Videos = {}
  Chats = {a, b}
  Children = {}
  ParentOf <- MCParentOf
  Keys = {k}
  KeyOf <- MCKeyOf
  Users = {u}
  OwnerOf <- MCOwnerOf
  CappedUsers = {u}
  Granted <- MCGranted
  MaxConcurrency <- MCMaxConcurrency
  IdRank <- MCIdRank
  HoldChoices = {1, 2}
  Lifetimes = {1}
  Tasks = {}
  NoTask = NoTask
  ReceiptsFor <- MCReceiptsFor
  NoReceipt = NoReceipt
  NoActual = NoActual
  OpaqueHashes = {}
  MaxTick = 1
  MaxRevision = 2
INVARIANTS
  PromisesCovered
  ConcurrencyBound
  HeadOfLineAdmitted
CHECK_DEADLOCK FALSE
