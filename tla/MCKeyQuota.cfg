SPECIFICATION Spec
CONSTANTS
  user = user
  key = key
  other = other
  old = old
  first = first
  Users = {user}
  Keys = {key, other}
  OwnerOf <- MCOwnerOf
  UserHolds = {old}
  HolderOf <- MCHolderOf
  KeyHolds = {first}
  KeyOf <- MCKeyOf
  Amounts = {1}
  Migrations = {1}
  UpstreamTotals = {2}
  BatchLimit = 1
  MaxGiven = 1
  MaxVersions = 3
  Costs = {0, 2}
  NoActual = NoActual
INVARIANTS
  TypeOK
  QuotaBooks
  PoolBacksKeys
PROPERTIES
  SweepComplete
CHECK_DEADLOCK FALSE
