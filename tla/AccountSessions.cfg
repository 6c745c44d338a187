SPECIFICATION Spec
CONSTANTS
  Requests = {r1, r2}
  AuthTokens = {a1, a2, a3}
  LoginStates = {s1}
  Refresh = {t1, t2}
  None = None
  RateLimit = 1
  MaxPasswords = 2
  MaxCalls = 4
  MaxFaults = 1
SYMMETRY AccountSymmetry
CHECK_DEADLOCK FALSE
INVARIANTS SignInIsSound SessionsEndWithPassword 
