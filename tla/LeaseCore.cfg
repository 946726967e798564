CONSTANTS
  l1 = l1
  l2 = l2
  l3 = l3
  a = a
  b = b
  Lease = {l1, l2, l3}
  Target = {a, b}
  Device = {}
  Key = {"any"}
  Matches <- AnyOnly
  Asked = {"none", "erase"}
  Listings <- AMayVanish
  Grace = TRUE
  Clearable = {}
  Poolable = {}
  MaxFinish = 1
SPECIFICATION Spec
SYMMETRY LeaseSymmetry
INVARIANTS
  TypeOK
  Ownership
  QueueExact
  OneErasePerLease
  MidResetHeld
PROPERTIES
  EraseGrantIsClean
  FIFOPerKey
  NoGrantToTheSilent
  ExpiryIsWarned
