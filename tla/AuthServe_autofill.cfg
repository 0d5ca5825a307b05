SPECIFICATION SafetySpec
CONSTANTS
  r1 = r1
  r2 = r2
  NoReq = NoReq
  Requests = {r1, r2}
  Startable = {r1, r2}
  WithPassword = {r1, r2}
  WithOtp = {r2}
  MaxLoads = 2
  MaxOtpAttempts = 1
  MaxRenderRetries = 1
INVARIANTS
  CodeOfServed
PROPERTIES
  SecretsInTurn
CHECK_DEADLOCK FALSE
