SPECIFICATION Spec
CONSTANTS
  p1 = p1
  p2 = p2
  People = {p1, p2}
  Requests = {q1, q2}
  Logins = {l1}
  Sessions = {s1, s2}
  Devices = {d1}
  Invitations = {i1}
  GrantedRoles = {"owner"}
  None = none
CONSTRAINT TwoAtATime
SYMMETRY SlotSymmetry
INVARIANTS
  AlwaysAnOwner
  SignedOutStaysOut
PROPERTIES
  RolesAreExplained
  ActsWithPresentRights
