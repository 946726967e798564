CONSTANTS
  l1 = l1
  l2 = l2
  l3 = l3
  a = a
  b = b
  Lease = {l1, l2}
  Target = {a, b}
  Device = {b}
  Key = {"any"}
  Matches <- AnyOnly
  Asked = {"none", "erase"}
  Listings <- Both
  Grace = TRUE
  Clearable = {a}
  Poolable = {a}
  MaxFinish = 2
SPECIFICATION Spec
SYMMETRY LeaseSymmetry
INVARIANTS
  NoResetOnDevice
PROPERTIES
  ImplementsService
  NoQueueJumping
