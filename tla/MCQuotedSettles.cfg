SPECIFICATION FairSpec
CONSTANTS
  chat = chat
  client = client
  seedance = seedance
  helper = helper
  key = key
  Chats = {chat}
  Seedances = {seedance}
  Natives = {}
  Children = {helper}
  ParentOf <- MCParentOf
  Clients = {}
  Keys = {key}
  KeyOf <- MCKeyOf
  Granted <- MCGranted
  MaxConcurrency <- MCMaxConcurrency
  QuoteOf <- MCQuoteOf
  ReceiptsFor <- MCOneReceipt
  MaxContradictions = 0
  NoActual = NoActual
  RecoveryLimit = 3
  MaxArmings = 1
  MaxRestarts = 1
PROPERTIES
  QuotedSettles
CHECK_DEADLOCK FALSE
