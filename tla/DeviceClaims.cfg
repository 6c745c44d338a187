SPECIFICATION Spec
CONSTANTS
  Tokens = {t1, t2}
  Orgs = {"maker", "rival", "shop"}
  BrandClouds = {"maker", "rival"}
  Maker = "maker"
  Evaluation = {"shop"}
  Quota = 1
  Operators = {o1, o2}
  NoOrg = NoOrg
  NoOperator = NoOperator
  None = None
  MaxFaults = 1
  MaxCalls = 2
SYMMETRY ClaimSymmetry
CHECK_DEADLOCK FALSE
INVARIANTS ActivatedWhereOwned FenceIsSound
PROPERTY DevicesStay
