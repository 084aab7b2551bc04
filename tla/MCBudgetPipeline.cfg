SPECIFICATION Spec
CONSTANTS
  v = v
  c = c
  k = k
  u = u
  t1 = t1
  t2 = t2
  declared = declared
  Videos = {v}
  Chats = {}
  Children = {c}
  ParentOf <- MCParentOf
  Keys = {k}
  KeyOf <- MCKeyOf
  Users = {u}
  OwnerOf <- MCOwnerOf
  CappedUsers = {u}
  Granted <- MCGranted
  MaxConcurrency <- MCMaxConcurrency
  IdRank <- MCIdRank
  HoldChoices = {2}
  Lifetimes = {1}
  Tasks = {t1, t2}
  NoTask = NoTask
  ReceiptsFor <- MCReceiptsFor
  NoReceipt = NoReceipt
  NoActual = NoActual
  OpaqueHashes = {declared}
  MaxTick = 1
  MaxRevision = 1
INVARIANTS
  TypeOK
  Conservation
  LedgerAccepted
  EndsTogether
  PreparationSettledOnce
PROPERTIES
  ConflictFreezes
  HoldKept
CHECK_DEADLOCK FALSE
