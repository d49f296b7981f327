SPECIFICATION DecisionSpec
CONSTANTS
  Checks = {c1, c2}
  Tenants = {t1, t2}
  Tenant = t1
  Ops = {o1, o2}
  Op = o1
  Hashes = {h1, h2}
  Hash = h1
  Horizon = 2
  MaxChanges = 3
INVARIANTS
  AllowedExactly
  OnlyApprovalMissing
CHECK_DEADLOCK FALSE
