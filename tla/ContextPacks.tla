---------------------------- MODULE ContextPacks ----------------------------
(***************************************************************************)
(* Context packs.  The service reads the project, its workspace, the work  *)
(* and the knowledge in transactions of their own and only then stores the *)
(* pack, with the project's event cursor read under FOR SHARE; appending   *)
(* its own event then updates that same row.  Coordinated work does the    *)
(* same, under its session's row and then an advisory lock; of work.start  *)
(* only its locks and its event are here (the rest is in Coordination).    *)
(***************************************************************************)
EXTENDS Workspaces

VARIABLES draft, \* what a compilation has read: workspace, events covered, cursor
          packs  \* knowledge.context_packs, by the request that stored them

cpVars == <<draft, packs>>

NoDraft == [home |-> None, read |-> 0, cursor |-> 0]
DraftType == [home: Workspaces \cup {None}, read: Nat, cursor: Nat]

Pr(r) == cmd[r].project

PackWant(r) ==
  CASE at[r] = "actor" -> IF cmd[r].session = None THEN {}
                          ELSE {<<<<"session", cmd[r].session>>, "update">>}
    [] at[r] = "advisory" -> {<<<<"advisory", Pr(r)>>, "update">>}
    [] at[r] = "cursor" -> {<<<<"row of project", Pr(r)>>, "share">>}
    [] at[r] = "count" -> {<<<<"counter", Pr(r)>>, "noKey">>}
    [] at[r] = "bump" -> {<<<<"row of project", Pr(r)>>, "noKey">>}
    [] OTHER -> {}

\* Compile: the sources, before the transaction.
Gather(r) ==
  /\ at[r] = "gather"
  /\ IF Pr(r) \in Existing
     THEN /\ Go(r, "actor")
          /\ draft' = [draft EXCEPT ![r].home = home[Pr(r)], ![r].read = sequence[Pr(r)]]
     ELSE Fail(r) /\ UNCHANGED draft
  /\ UNCHANGED packs

\* contextPackActor, or authorizeSession of coordinated work: both lock the session's
\* row.  The session or the person may be gone.
PackActor(r, known) ==
  /\ at[r] = "actor"
  /\ IF known THEN Take(r, PackWant(r), IF Kind(r) = "work.start" THEN "advisory" ELSE "scope")
     ELSE Fail(r)
  /\ UNCHANGED cpVars

\* The project may have moved to another workspace since the sources were read.
CheckScope(r) ==
  /\ at[r] = "scope"
  /\ IF home[Pr(r)] = draft[r].home THEN Go(r, "reserve") ELSE Fail(r)
  /\ UNCHANGED cpVars

\* SELECT event_sequence ... FOR SHARE
ReadCursor(r) ==
  /\ at[r] = "cursor" /\ Kind(r) \in Scoped
  /\ Take(r, PackWant(r), "count")
  /\ draft' = [draft EXCEPT ![r].cursor = sequence[Pr(r)]]
  /\ UNCHANGED packs

\* appendContextEvent: the counter's row, then the project's.
Count(r) == at[r] = "count" /\ Take(r, PackWant(r), "bump") /\ UNCHANGED cpVars
Bump(r) == at[r] = "bump" /\ Take(r, PackWant(r), "commit") /\ UNCHANGED cpVars

CommitPack(r) ==
  /\ at[r] = "commit" /\ Kind(r) = "context.compile"
  /\ Complete(r)
  /\ packs' = packs \cup {r}
  /\ UNCHANGED draft

\* lockProjectCoordination
LockProject(r) == at[r] = "advisory" /\ Take(r, PackWant(r), "reserve") /\ UNCHANGED cpVars

CommitWork(r) ==
  /\ at[r] = "commit" /\ Kind(r) = "work.start"
  /\ Complete(r)
  /\ UNCHANGED cpVars

PackStep(r) ==
  \/ Gather(r) \/ (\E known \in BOOLEAN : PackActor(r, known)) \/ CheckScope(r)
  \/ ReadCursor(r) \/ Count(r) \/ Bump(r) \/ LockProject(r)

\* Both append one event to the project.
PackCommit(r) ==
  /\ CommitPack(r) \/ CommitWork(r)
  /\ sequence' = [sequence EXCEPT ![Pr(r)] = @ + 1]
  /\ UNCHANGED <<home, space, rooms, owners, move, mixed>>
=============================================================================
