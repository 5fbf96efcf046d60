----------------------------- MODULE Workspaces -----------------------------
(***************************************************************************)
(* Projects, the workspaces they live in, and rooms.  A project always has *)
(* one workspace: one it was created into, or its managed default, which   *)
(* bears its slug.  Moving the last project out of a managed default       *)
(* archives it, moving a project in makes it active.  The statement that   *)
(* archives looks for projects in the snapshot it starts with and may then *)
(* wait for the row: Look and Leave are two steps for that reason.         *)
(* Names, slugs, colours and the versions of workspaces are left out.      *)
(***************************************************************************)
EXTENDS Transactions

VARIABLES home,      \* identity.workspace_projects: the workspace of a project
          space,     \* identity.workspaces: status
          rooms,     \* collaboration.rooms
          owners,    \* identity.project_memberships with role owner
          sequence,  \* platform.project_event_counters
          move,      \* what a transaction that moves projects has read and written
          mixed      \* history: workspaces that overlapping transactions have moved projects of

wsVars == <<home, space, rooms, owners, sequence, move, mixed>>
wsRows == <<home, space, rooms, owners, sequence, mixed>>

Existing == {p \in Projects : home[p] # None}
Inside(w) == {p \in Projects : home[p] = w}
Managed(w) == w \in Projects

NoMove(c) == [todo |-> c.projects, now |-> None, from |-> None, moved |-> {},
              saw |-> {}, archives |-> {}, spaces |-> {}]

MoveType == [todo: SUBSET Projects, now: Projects \cup {None}, from: Workspaces \cup {None},
             moved: SUBSET Projects, saw: SUBSET Projects, archives: SUBSET Workspaces,
             spaces: SUBSET Workspaces]

Kind(r) == cmd[r].kind
Target(r) == cmd[r].workspace
Mover(r) == Kind(r) \in {"workspace.attach", "workspace.create"}

\* The workspace of p as r's own statements see it.
View(r, p) == IF p \in move[r].moved THEN Target(r) ELSE home[p]

\* The locks r's next statement waits for.
WorkspaceWant(r) ==
  CASE at[r] = "insert" /\ Kind(r) = "workspace.create" -> {<<<<"workspace", Target(r)>>, "update">>}
    [] at[r] = "insert" /\ Kind(r) = "project.create" -> {<<<<"project", cmd[r].project>>, "update">>}
    [] at[r] = "insert" /\ Kind(r) = "room.create" -> {<<<<"room", Target(r), cmd[r].room>>, "update">>}
    [] at[r] = "place" -> {<<<<"workspace", cmd[r].project>>, "update">>}
    [] at[r] \in {"enter", "touch"} -> {<<<<"workspace", Target(r)>>, "noKey">>}
    [] at[r] = "relate" -> {<<<<"relation", move[r].now>>, "update">>}
    [] at[r] = "leave" -> {<<<<"workspace", move[r].from>>, "noKey">>}
    [] OTHER -> {}

-----------------------------------------------------------------------------
(* Moving projects: attachProject, for one project or for each of a new workspace. *)

\* AttachProject begins by loading the workspace.
LoadWorkspace(r) ==
  /\ at[r] = "load"
  /\ IF space[Target(r)] = "absent" THEN Fail(r) ELSE Go(r, "read")
  /\ UNCHANGED wsVars

InsertWorkspace(r) ==
  /\ at[r] = "insert" /\ Kind(r) = "workspace.create"
  /\ IF space[Target(r)] = "absent"
     THEN Take(r, WorkspaceWant(r), "read")
     ELSE Blockers(r, WorkspaceWant(r)) = {} /\ Fail(r)
  /\ UNCHANGED wsVars

\* The project's present workspace is read without a lock.
ReadHome(r, p) ==
  /\ at[r] = "read"
  /\ p \in move[r].todo
  /\ IF View(r, p) = Target(r)
     THEN /\ Go(r, "read")
          /\ move' = [move EXCEPT ![r].todo = @ \ {p}]
     ELSE /\ Go(r, "relate")
          /\ move' = [move EXCEPT ![r].now = p, ![r].from = View(r, p),
                                  ![r].spaces = @ \cup ({Target(r), View(r, p)} \ {None})]
  /\ UNCHANGED wsRows

\* INSERT ... ON CONFLICT DO UPDATE of the relation.
Relate(r) ==
  /\ at[r] = "relate"
  /\ IF move[r].now \in Existing
     THEN /\ Take(r, WorkspaceWant(r), "touch")
          /\ move' = [move EXCEPT ![r].moved = @ \cup {move[r].now}]
     ELSE Fail(r) /\ UNCHANGED move
  /\ UNCHANGED wsRows

Touch(r) ==
  /\ at[r] = "touch"
  /\ IF move[r].from = None
     THEN /\ Take(r, WorkspaceWant(r), "read")
          /\ move' = [move EXCEPT ![r].todo = @ \ {move[r].now}]
     ELSE Take(r, WorkspaceWant(r), "look") /\ UNCHANGED move
  /\ UNCHANGED wsRows

\* The update of the previous workspace starts: the snapshot of its NOT EXISTS.
Look(r) ==
  /\ at[r] = "look"
  /\ Go(r, "leave")
  /\ move' = [move EXCEPT ![r].saw = {p \in Projects : View(r, p) = move[r].from}]
  /\ UNCHANGED wsRows

\* Mutant: nobody looks whether other projects stay.
AlwaysEmpties(r) == Managed(move[r].from)

Empties(r) == Managed(move[r].from) /\ move[r].saw = {}

Leave(r) ==
  /\ at[r] = "leave"
  /\ Take(r, WorkspaceWant(r), "read")
  /\ move' = [move EXCEPT ![r].todo = @ \ {move[r].now},
                          ![r].archives = IF Empties(r) THEN @ \cup {move[r].from} ELSE @]
  /\ UNCHANGED wsRows

\* History only: workspaces other transactions are at work on too, or that a
\* project has been moved to since its workspace was read.
Overlap(r) == mixed
  \cup {w \in move[r].spaces : \E s \in Requests \ {r} : Running(s) /\ w \in move[s].spaces}
  \cup ({home[p] : p \in move[r].moved} \ (move[r].spaces \cup {None}))

CommitMove(r) ==
  /\ at[r] = "read" /\ Mover(r) /\ move[r].todo = {}
  /\ IF Kind(r) = "workspace.create" THEN Complete(r) ELSE Finish(r, r) /\ UNCHANGED done
  /\ home' = [p \in Projects |-> View(r, p)]
  /\ space' = [w \in Workspaces |->
                 IF w \in move[r].archives THEN "archived"
                 ELSE IF w = Target(r) /\ (Kind(r) = "workspace.create" \/ move[r].moved # {})
                      THEN "active" ELSE space[w]]
  /\ rooms' = IF Kind(r) = "workspace.create" THEN rooms \cup {<<Target(r), "general">>} ELSE rooms
  /\ mixed' = Overlap(r)
  /\ UNCHANGED <<owners, sequence, move>>

-----------------------------------------------------------------------------
(* Creating a project, in a workspace the caller names or in its own default. *)

InsertProject(r) ==
  /\ at[r] = "insert" /\ Kind(r) = "project.create"
  /\ IF cmd[r].project \in Existing
     THEN Blockers(r, WorkspaceWant(r)) = {} /\ Fail(r)
     ELSE Take(r, WorkspaceWant(r), IF Target(r) = None THEN "place" ELSE "find")
  /\ UNCHANGED wsVars

\* The insertion of the managed default also fails when another workspace has the
\* project's slug; slugs are left out, so nothing else has it here.
PlaceInDefault(r) ==
  /\ at[r] = "place"
  /\ Take(r, WorkspaceWant(r), "commit")
  /\ UNCHANGED wsVars

FindWorkspace(r) ==
  /\ at[r] = "find" /\ Target(r) # None
  /\ IF space[Target(r)] = "active"
     THEN /\ Go(r, "enter")
          /\ move' = [move EXCEPT ![r].spaces = {Target(r)}]
     ELSE Fail(r) /\ UNCHANGED move
  /\ UNCHANGED wsRows

Enter(r) == at[r] = "enter" /\ Take(r, WorkspaceWant(r), "commit") /\ UNCHANGED wsVars

\* The project is committed; the handler goes on to grant its ownership.
CommitProject(r) ==
  /\ at[r] = "commit" /\ Kind(r) = "project.create"
  /\ at' = [at EXCEPT ![r] = "grant"]
  /\ answer' = [answer EXCEPT ![r] = r]
  /\ holds' = [holds EXCEPT ![r] = {}]
  /\ done' = done \cup {r}
  /\ LET p == cmd[r].project
         w == IF Target(r) = None THEN p ELSE Target(r)
     IN /\ home' = [home EXCEPT ![p] = w]
        /\ space' = IF Target(r) = None THEN [space EXCEPT ![w] = "active"] ELSE space
        /\ rooms' = rooms \cup {<<w, "general">>}
        /\ sequence' = [sequence EXCEPT ![p] = 1]
  /\ mixed' = Overlap(r)
  /\ UNCHANGED <<cmd, owners, move>>

ReplayProject(r) ==
  /\ at[r] = "reserve" /\ Kind(r) = "project.create"
  /\ Blockers(r, KeyWant(r)) = {}
  /\ \E s \in Stored(r) :
        IF Payload(cmd[s]) = Payload(cmd[r])
        THEN /\ at' = [at EXCEPT ![r] = "grant"]
             /\ answer' = [answer EXCEPT ![r] = s]
             /\ UNCHANGED <<cmd, holds, done>>
        ELSE Fail(r)
  /\ UNCHANGED wsVars

\* A transaction of its own, also after a replay.
GrantProjectOwner(r) ==
  /\ at[r] = "grant"
  /\ Finish(r, answer[r])
  /\ owners' = [owners EXCEPT ![cmd[r].project] = @ \cup {cmd[r].by}]
  /\ UNCHANGED <<done, home, space, rooms, sequence, move, mixed>>

-----------------------------------------------------------------------------
(* Creating a room. *)

CheckWorkspace(r) ==
  /\ at[r] = "check" /\ Kind(r) = "room.create"
  /\ IF space[Target(r)] = "active" THEN Go(r, "insert") ELSE Fail(r)
  /\ UNCHANGED wsVars

InsertRoom(r) ==
  /\ at[r] = "insert" /\ Kind(r) = "room.create"
  /\ IF <<Target(r), cmd[r].room>> \in rooms
     THEN Blockers(r, WorkspaceWant(r)) = {} /\ Fail(r)
     ELSE Take(r, WorkspaceWant(r), "commit")
  /\ UNCHANGED wsVars

CommitRoom(r) ==
  /\ at[r] = "commit" /\ Kind(r) = "room.create"
  /\ Complete(r)
  /\ rooms' = rooms \cup {<<Target(r), cmd[r].room>>}
  /\ UNCHANGED <<home, space, owners, sequence, move, mixed>>

WorkspaceStep(r) ==
  \/ LoadWorkspace(r) \/ InsertWorkspace(r) \/ (\E p \in Projects : ReadHome(r, p))
  \/ Relate(r) \/ Touch(r) \/ Look(r) \/ Leave(r) \/ CommitMove(r)
  \/ InsertProject(r) \/ PlaceInDefault(r) \/ FindWorkspace(r) \/ Enter(r) \/ CommitProject(r)
  \/ ReplayProject(r) \/ GrantProjectOwner(r)
  \/ CheckWorkspace(r) \/ InsertRoom(r) \/ CommitRoom(r)
=============================================================================
