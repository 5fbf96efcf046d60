-------------------------- MODULE MCRepositorySync --------------------------
(***************************************************************************)
(* One installation that can grant two repositories, two requests beside   *)
(* the runner, and the stories in which they meet what is outside.         *)
(***************************************************************************)
EXTENDS RepositorySync

CONSTANTS r1, r2, i1, q1, q2, d1, d2, a1, k1

OneInstallation == [r \in {r1, r2} |-> i1]

Quiet == [push |-> 0, outage |-> 0, app |-> 0, crash |-> 0, request |-> 0, connect |-> 0, attach |-> 0]

TheStories ==
  { \* a push while two requests with one key and the runner are under way
    [left |-> [Quiet EXCEPT !.push = 1, !.request = 2], status |-> "active", root |-> r1, scheduled |-> TRUE],
    \* another repository is attached and becomes the primary
    [left |-> [Quiet EXCEPT !.attach = 2], status |-> "active", root |-> r1, scheduled |-> TRUE],
    \* a request that races another primary repository
    [left |-> [Quiet EXCEPT !.request = 1, !.attach = 1], status |-> "active", root |-> r1, scheduled |-> TRUE],
    \* an outage and a crash
    [left |-> [Quiet EXCEPT !.outage = 1, !.crash = 1, !.request = 1], status |-> "active", root |-> r1, scheduled |-> TRUE],
    \* the installation changes twice while the runner goes round
    [left |-> [Quiet EXCEPT !.app = 2], status |-> "active", root |-> r1, scheduled |-> TRUE],
    \* the App is installed, connected, and deleted again
    [left |-> [Quiet EXCEPT !.app = 2, !.connect = 1], status |-> "absent", root |-> None, scheduled |-> TRUE],
    \* the App is installed and a first repository attached
    [left |-> [Quiet EXCEPT !.app = 1, !.connect = 1, !.attach = 1], status |-> "absent", root |-> None, scheduled |-> TRUE],
    \* the same without the runner: pushes, an outage and a crash, and what people ask for
    [left |-> [Quiet EXCEPT !.push = 1, !.request = 2], status |-> "active", root |-> r1, scheduled |-> FALSE],
    [left |-> [Quiet EXCEPT !.outage = 1, !.crash = 1, !.request = 2, !.attach = 1], status |-> "active",
     root |-> r1, scheduled |-> FALSE] }
=============================================================================
