CONSTANTS
  p1 = p1
  p2 = p2
  d1 = d1
  d2 = d2
  License = {l1, l2, l3}
  Issued = {l1}
  Device = {d1, d2}
  Request = {r1}
  Mail = {e1}
  Conn = {p1}
  DeviceOf <- RequesterOnly
  Endpoints = 2
  MaxLosses = 1
  Secret = {1}
  RecordState = {"active", "deleted"}
  Grants = {{"basic", "editor_workspace"}}
  None = None
  Refused = Refused
  Window = 1
  Ttl = 1
  MaxTime = 1
  MaxChanges = 0
SPECIFICATION FairClientSpec
INVARIANTS
  ClientTypeOK
  ReplacementWorks
PROPERTIES
  KeyKept
  ConfirmedInTimeIsTrusted
  AskedIsSettled
