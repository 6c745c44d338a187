SPECIFICATION Spec
CONSTANTS
  Users = {"ann", "bob", "cat", "dan"}
  NoUser = NoUser
  Recoveries = {r1}
  Groups = {g1}
  Starts <- MCStarts
  Clouds = {c1, c2}
  Keys = {k1}
  Limit = 1
  Transfers = {0, 1, 2}
  FirstTransfers = 1
  QuotaRequests = {q1, q2}
  Amounts = {0, 2, 3, 9}
  BaseQuota = 1
  MaxQuota = 5
CHECK_DEADLOCK FALSE
INVARIANTS MembershipIsConsistent LimitsHold
PROPERTIES LastOwnerStays TwoPersonRule AdminStays
