SPECIFICATION Spec
CONSTANTS
  r1 = r1
  r2 = r2
  r3 = r3
  NoReq = NoReq
  Requests = {r1, r2, r3}
  Startable = {r1, r2}
  WithPassword = {}
  WithOtp = {}
  MaxLoads = 1
  MaxOtpAttempts = 0
  MaxRenderRetries = 0
INVARIANTS
  ServiceInStep
PROPERTIES
  EveryCallAnswered
  ImplementsService
CHECK_DEADLOCK FALSE
