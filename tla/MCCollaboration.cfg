SPECIFICATION Spec
CONSTANTS
  p1 = p1
  p2 = p2
  w1 = w1
  a1 = a1
  a2 = a2
  a3 = a3
  s1 = s1
  s2 = s2
  u1 = u1
  u2 = u2
  k1 = k1
  k2 = k2
  q1 = q1
  q2 = q2
  q3 = q3
  None = None
  Requests = {q1, q2, q3}
  Keys = {k1, k2, "k3"}
  People = {u1, u2}
  Projects = {p1, p2}
  Shared = {w1}
  RoomNames = {"r"}
  Records = {a1, a2, a3}
  Resources = {"doc"}
  Sessions = {s1, s2}
  Scenarios <- TheScenarios
INVARIANTS
  OneEffectPerKey
  NeverMutuallySuperseded
  TrailTellsTheRecord
  DefaultFollowsItsProjects
PROPERTIES
  EveryRequestEnds
CHECK_DEADLOCK FALSE
