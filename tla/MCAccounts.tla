----------------------------- MODULE MCAccounts -----------------------------
EXTENDS Accounts, TLC

CONSTANTS p1, p2

SlotSymmetry == Permutations(Requests) \cup Permutations(Sessions)

\* At most two of requests, logins and devices are under way at a time.
TwoAtATime ==
    Cardinality({q \in Requests : request[q] # Free})
  + Cardinality({l \in Logins : login[l] # Free})
  + Cardinality({d \in Devices : device[d] # Free}) <= 2
=============================================================================
