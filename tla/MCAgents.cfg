SPECIFICATION FairSpec
CONSTANTS
  Segments = {"internal", "api.go"}
  MaxScopes = 50
  a1 = a1
  a2 = a2
  p1 = p1
  p2 = p2
  Principals = {p1, p2}
  Actors = {a1, a2}
  Sponsor <- OwnSponsors
  Nodes = {n1}
  Sessions = {s1, s2}
  Intents = {i1}
  Repositories = {r1}
  NoRepository = none
  Requests <- OneDirectory
  SessionTTL = 2
  ScopeLease = 2
  MaxDelay = 1
INVARIANTS
  OneSessionPerSeat
PROPERTIES
  LostClaimsOnlyDrain
  FrozenStaysFrozen
  LostAgentsUnblock
