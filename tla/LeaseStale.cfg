CONSTANTS
  l1 = l1
  l2 = l2
  l3 = l3
  a = a
  b = b
  Lease = {l1, l2, l3}
  Target = {a}
  Device = {}
  Key = {"any"}
  Matches <- AOnly
  Asked = {"none", "erase"}
  Listings <- JustA
  Grace = TRUE
  Clearable = {a}
  Poolable = {}
  MaxFinish = 2
SPECIFICATION Spec
SYMMETRY LeaseSymmetry
INVARIANTS
  MidResetHeldAlways
