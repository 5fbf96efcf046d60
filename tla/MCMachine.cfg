SPECIFICATION MachineSpec
CONSTANTS
  Works = {w1}
  Calls = {c1, c2, c3}
  NoWork = nowork
  Servers = {s1, s2}
  Principals = {u1, u2}
  Credentials = {d1, d2}
  Processes = {p1, p2}
  None = none
  Root = root
  Tree = tree
  Hosts = {h1, h2}
  Keys = {k1, k2}
  Connectors = {m1}
  Runtimes = {m2}
  Absent = absent
  Commanders = {q1, q2}
  Images = {i1, i2}
  Passwords = {x1, x2}
  Nothing = nothing
SYMMETRY CheckoutSymmetry
CHECK_DEADLOCK FALSE
INVARIANTS
  ObserversFollowTheWork
  WhoIsLoggedIn
  OneServerPerKey
  TheRecordIsTrue
PROPERTIES
  ServesWhileAllIsWell
