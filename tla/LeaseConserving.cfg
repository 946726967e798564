CONSTANTS
  l1 = l1
  l2 = l2
  l3 = l3
  a = a
  b = b
  Lease = {l1, l2, l3}
  Target = {a, b}
  Device = {}
  Key = {"any", "pin"}
  Matches <- AnyOrPinned
  Asked = {"none", "snapshot"}
  Listings <- AMayVanish
  Grace = FALSE
  Clearable = {}
  Poolable = {}
  MaxFinish = 1
SPECIFICATION Spec
SYMMETRY LeaseSymmetry
INVARIANTS
  WorkConserving
