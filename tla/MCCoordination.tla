-------------------------- MODULE MCCoordination --------------------------
(***************************************************************************)
(* Two agents of two sponsors on one machine, two work items over a        *)
(* directory, a file inside it and a second directory.                     *)
(***************************************************************************)
EXTENDS Coordination, TLC

CONSTANTS a1, a2, p1, p2

OwnSponsors == a1 :> p1 @@ a2 :> p2
SharedSponsor == a1 :> p1 @@ a2 :> p1

Directory == [kind |-> "path", locator |-> <<"internal">>, mode |-> "exclusive"]
SharedDirectory == [Directory EXCEPT !.mode = "shared"]
SharedFile == [kind |-> "file", locator |-> <<"internal", "api.go">>, mode |-> "shared"]
Other == [kind |-> "file", locator |-> <<"api.go">>, mode |-> "exclusive"]

OneDirectory == {{Directory}}
DirectoryOrFile == {{Directory}, {SharedFile}}
MixedRequests == {{Directory}, {SharedFile, Other}, {Directory, SharedDirectory}}

\* Rows are interchangeable names, and so are agents of one sponsor
\* and repositories.
RowSymmetry == Permutations(Sessions) \cup Permutations(Intents)
AgentSymmetry == RowSymmetry \cup Permutations(Actors)
FullSymmetry == AgentSymmetry \cup Permutations(Repositories)
=============================================================================
