SPECIFICATION FairSpec
CONSTANTS
  chat = chat
  seedance = seedance
  helper = helper
  client = client
  key = key
  owner = owner
  Chats = {}
  Seedances = {seedance}
  Natives = {}
  Children = {helper}
  ParentOf <- MCParentOf
  Clients = {}
  Keys = {key}
  KeyOf <- MCKeyOf
  Users = {owner}
  OwnerOf <- MCOwnerOf
  CappedUsers = {owner}
  Granted <- MCGranted
  GrantAmounts = {}
  MaxGranted = 5
  MaxConcurrency <- MCMaxConcurrency
  ReceiptsFor <- MCReceiptsFor
  NoReceipt = NoReceipt
  MaxContradictions = 1
  NoActual = NoActual
  MaxRestarts = 1
PROPERTIES
  LostVideoSettles
CHECK_DEADLOCK FALSE
