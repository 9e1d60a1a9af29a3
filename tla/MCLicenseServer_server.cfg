CONSTANTS
  License = {l1}
  Device = {d1, d2}
  Request = {r1, r2}
  Mail = {e1, e2}
  Conn = {}
  Secret = {s1, s2}
  RecordState = {"active", "deleted"}
  Grants = {{"basic"}}
  None = None
  Refused = Refused
  Window = 1
  Ttl = 1
  MaxTime = 1
  MaxChanges = 2
SYMMETRY Symmetry
SPECIFICATION Spec
INVARIANTS
  TypeOK
  SingleUnapproved
  OneOpenRequest
  ReadMailSettled
  ShownOnce
  DeliveredReachedOwner
