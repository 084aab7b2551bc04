SPECIFICATION Spec
CONSTANTS
  a = a
  Requests = {1, 2}
  Videos = {1}
  Users = {1, 2}
  OwnerOf <- MCOwnerOf
  Suspendable = {1}
  Workers = {w1, w2}
  NoWorker = NoWorker
  Accounts = {a}
  NoAccount = NoAccount
  Unsteady = {a}
  Fits <- MCFits
  MaxConcurrency <- MCMaxConcurrency
  GrantTtls = {1, 2}
  JobTtls = {1, 2}
  LeaseTtls = {1, 2}
  ReconcileTtl = 2
  RecoveryTtl = 1
  MaxTime = 3
INVARIANTS
  SlotsBounded
  RowsAgree
  CreditsFollowOutcome
PROPERTIES
  OutcomeIsFinal
  OnlyLeaseHeartbeatUncovers
  StartedOnce
CHECK_DEADLOCK FALSE
