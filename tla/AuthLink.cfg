SPECIFICATION FairSpec
CONSTANTS
  NumVC = 1
  HmacSeqCount = 5
  MaximumJump = 2
  AuthenticateTx = {0}
  RequireAuthentication = {0}
  RequireSequence = {0}
  End = {"gs", "sat"}
  ResetLead = 3
  Lifetime <- MCLifetime
  Payloads <- MCPayloads
  MaxRestarts = 2
INVARIANTS TypeOK InStep OnlyNewer
PROPERTY Recovers
