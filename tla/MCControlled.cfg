SPECIFICATION Spec
CONSTANTS
  chat = chat
  seedance = seedance
  helper = helper
  client = client
  key = key
  owner = owner
  Chats = {chat}
  Seedances = {seedance}
  Natives = {}
  Children = {helper}
  ParentOf <- MCParentOf
  Clients = {client}
  Keys = {key}
  KeyOf <- MCKeyOf
  Users = {owner}
  OwnerOf <- MCOwnerOf
  CappedUsers = {owner}
  Granted <- MCGranted
  GrantAmounts = {2}
  MaxGranted = 5
  MaxConcurrency <- MCMaxConcurrency
  ReceiptsFor <- MCReceiptsFor
  NoReceipt = NoReceipt
  MaxContradictions = 1
  NoActual = NoActual
  MaxRestarts = 1
INVARIANTS
  TypeOK
  Books
  ClosedCoversSent
  OneOpenPerKey
  LiveChainOpen
PROPERTIES
  FrozenKeysStartNothing
CHECK_DEADLOCK FALSE
