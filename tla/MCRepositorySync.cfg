SPECIFICATION Spec
CONSTANTS
  r1 = r1
  r2 = r2
  i1 = i1
  q1 = q1
  q2 = q2
  d1 = d1
  d2 = d2
  a1 = a1
  k1 = k1
  None = None
  Runner = Runner
  Installations = {i1}
  Repositories = {r1, r2}
  InstallationOf <- OneInstallation
  Deliveries = {d1, d2}
  Attempts = {a1}
  Stories <- TheStories
  Requests = {q1, q2}
  Keys = {k1}
  Branches = {"main", "next"}
INVARIANTS
  OneTruth
  AuthorizationIsKept
PROPERTIES
  ConvergesToTheRemote
CHECK_DEADLOCK FALSE
