SPECIFICATION FairSpec
CONSTANTS
  chat = chat
  seedance = seedance
  helper = helper
  client = client
  key = key
  owner = owner
  Chats = {chat}
  Seedances = {seedance}
  Natives = {}
  Children = {helper}
  ParentOf <- MCParentOf
  Clients = {}
  Keys = {key}
  KeyOf <- MCKeyOf
  Users = {owner}
  OwnerOf <- MCOwnerOf
  CappedUsers = {owner}
  Granted <- MCGranted
  GrantAmounts = {}
  MaxGranted = 5
  MaxConcurrency <- MCMaxConcurrency
  ReceiptsFor <- MCAllReceipts
  NoReceipt = NoReceipt
  MaxContradictions = 1
  NoActual = NoActual
  MaxRestarts = 1
PROPERTIES
  CostsSettle
CHECK_DEADLOCK FALSE
