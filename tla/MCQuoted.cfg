SPECIFICATION Spec
CONSTANTS
  chat = chat
  client = client
  seedance = seedance
  helper = helper
  key = key
  Chats = {chat}
  Seedances = {seedance}
  Natives = {}
  Children = {helper}
  ParentOf <- MCParentOf
  Clients = {client}
  Keys = {key}
  KeyOf <- MCKeyOf
  Granted <- MCGranted
  MaxConcurrency <- MCMaxConcurrency
  QuoteOf <- MCQuoteOf
  ReceiptsFor <- MCReceiptsFor
  MaxContradictions = 1
  NoActual = NoActual
  RecoveryLimit = 3
  MaxArmings = 0
  MaxRestarts = 0
INVARIANTS
  TypeOK
  QuotedBooks
  ArrivedIsCovered
  ClosedTogether
CHECK_DEADLOCK FALSE
