---------------------------- MODULE Transactions ----------------------------
(***************************************************************************)
(* What the commands of the workspaces share: a request runs one command   *)
(* as one PostgreSQL transaction (READ COMMITTED), statement by statement. *)
(* A statement that needs a row lock waits for the transactions that hold  *)
(* a conflicting one; locks are kept until the transaction ends.  Most     *)
(* commands first reserve their idempotency key: the unique index on       *)
(* (organization, project, command type, key) makes a second holder wait   *)
(* for the first and then answer with what the first stored.               *)
(*                                                                         *)
(* A request is used once; a client that tries again is another request    *)
(* with the same command.  Rows a transaction writes are buffered in the   *)
(* component's own variables and appear when it commits.                   *)
(***************************************************************************)
EXTENDS Integers, Sequences, FiniteSets

CONSTANTS Requests,   \* transactions, one per call of the API
          Keys,       \* values of the Idempotency-Key header
          People,     \* principals that call the API
          Projects,   \* projects; the slug of a project names its default workspace
          Shared,     \* workspaces people create
          RoomNames,  \* slugs of rooms other than 'general'
          Records,    \* knowledge records
          Resources,  \* knowledge resources, by their locator
          Sessions,   \* agent sessions that ask for context packs
          Scenarios,  \* databases to start from and the commands that arrive
          None

VARIABLES cmd,     \* the command a request carries
          at,      \* the statement it runs next
          holds,   \* row locks of its transaction
          answer,  \* how it ended
          done     \* requests whose idempotency record is committed with a response

txVars == <<cmd, at, holds, answer, done>>

Workspaces == Projects \cup Shared
Rooms == Workspaces \X (RoomNames \cup {"general"})
Statuses == {"proposed", "accepted", "disputed", "superseded", "revoked", "expired", "rejected"}

\* Commands that carry an idempotency key; the last two reserve it per project.
Keyed == {"project.create", "workspace.create", "room.create", "room.message.create",
          "knowledge.resource.create", "knowledge.record.create", "knowledge.record.status",
          "context.compile", "work.start"}
Scoped == {"context.compile", "work.start"}
Kinds == Keyed \cup {"workspace.attach"}

Command == [kind: Kinds, key: Keys, by: People,
            project: Projects \cup {None}, workspace: Workspaces \cup {None},
            projects: SUBSET Projects, room: RoomNames \cup {None, "general"},
            reply: BOOLEAN, mention: People \cup {None},
            record: Records \cup {None}, status: Statuses, version: 0..3,
            other: Records \cup {None}, resource: Resources \cup {None},
            session: Sessions \cup {None}]

\* What a scenario says: the command of each request; where the projects are,
\* the default workspace of one that exists being there too; the workspaces
\* people have made; the records proposed and accepted so far.
Scenario == [cmd: [Requests -> Command], home: [Projects -> Workspaces \cup {None}],
             shared: SUBSET Shared, proposed: SUBSET Records, accepted: SUBSET Records]

\* A project lives in a workspace that exists, people make workspaces of their own,
\* and a new record has a name of its own.
Consistent(s) ==
  /\ \A p \in Projects : /\ s.home[p] \in Shared => s.home[p] \in s.shared
                        /\ s.home[p] \in Projects => s.home[s.home[p]] # None
  /\ \A r \in Requests : s.cmd[r].kind = "workspace.create" => s.cmd[r].workspace \in Shared
  /\ s.proposed \cap s.accepted = {}
  /\ \A q, r \in Requests :
       s.cmd[q].kind = "knowledge.record.create" =>
         /\ s.cmd[q].record \in Records \ (s.proposed \cup s.accepted)
         /\ (s.cmd[r].kind = "knowledge.record.create" /\ s.cmd[r].record = s.cmd[q].record)
              => s.cmd[r].key = s.cmd[q].key

ASSUME TransactionsAssumption ==
  /\ Scenarios \subseteq Scenario
  /\ \A s \in Scenarios : Consistent(s)
  /\ None \notin Requests \cup Projects \cup Shared \cup RoomNames \cup Records
                 \cup Resources \cup Sessions \cup People
  /\ Projects \cap Shared = {}
  /\ {"error", "lost"} \cap Requests = {}
  /\ "general" \notin RoomNames

-----------------------------------------------------------------------------
(***************************************************************************)
(* Locks.  A lock is <<row, mode>>; the modes and their conflicts are      *)
(* PostgreSQL's.  "key" is FOR KEY SHARE, taken on the referenced row by   *)
(* the check of a foreign key; "share" FOR SHARE; "noKey" an UPDATE that   *)
(* leaves the key alone; "update" FOR UPDATE, and also a unique value that *)
(* is being inserted and an advisory lock.                                 *)
(***************************************************************************)
Modes == {"key", "share", "noKey", "update"}

Conflicts == {<<"key", "update">>, <<"share", "noKey">>, <<"share", "update">>,
              <<"noKey", "noKey">>, <<"noKey", "update">>, <<"update", "update">>}

Conflict(m, n) == <<m, n>> \in Conflicts \/ <<n, m>> \in Conflicts

\* The transactions a request that wants these locks waits for.
Blockers(r, want) ==
  {s \in Requests \ {r} : \E h \in holds[s], w \in want :
                              h[1] = w[1] /\ Conflict(h[2], w[2])}

Running(r) == at[r] \notin {"idle", "ended"}

\* A statement takes its locks and the transaction goes on.
Take(r, want, next) ==
  /\ Blockers(r, want) = {}
  /\ holds' = [holds EXCEPT ![r] = @ \cup want]
  /\ at' = [at EXCEPT ![r] = next]
  /\ UNCHANGED <<cmd, answer, done>>

\* A statement that waits for nobody.
Go(r, next) == Take(r, {}, next)

\* Mutant: an error does not roll back, and the locks stay.
FinishWithoutRollback(r, a) ==
  /\ at' = [at EXCEPT ![r] = "ended"]
  /\ answer' = [answer EXCEPT ![r] = a]
  /\ holds' = IF a = "error" THEN holds ELSE [holds EXCEPT ![r] = {}]
  /\ UNCHANGED cmd

\* The transaction ends, by a commit or by the deferred rollback, and its locks go.
Finish(r, a) ==
  /\ at' = [at EXCEPT ![r] = "ended"]
  /\ answer' = [answer EXCEPT ![r] = a]
  /\ holds' = [holds EXCEPT ![r] = {}]
  /\ UNCHANGED cmd

Fail(r) == Finish(r, "error") /\ UNCHANGED done

-----------------------------------------------------------------------------
(* Idempotency records. *)

Slot(c) == <<c.kind, IF c.kind \in Scoped THEN c.project ELSE None, c.key>>

\* What request_hash covers: everything but the caller.
Payload(c) == [c EXCEPT !.by = CHOOSE p \in People : TRUE, !.key = CHOOSE k \in Keys : TRUE]

Stored(r) == {s \in done : Slot(cmd[s]) = Slot(cmd[r])}

KeyWant(r) == {<<<<"key", Slot(cmd[r])>>, "update">>}

\* Mutant: the key is looked up, and nobody waits for a command still under way.
LookUpKey(r, next) ==
  /\ at[r] = "reserve"
  /\ Stored(r) = {}
  /\ Go(r, next)

\* INSERT ... ON CONFLICT DO NOTHING returned a row: the key is this transaction's.
Reserve(r, next) ==
  /\ at[r] = "reserve"
  /\ Stored(r) = {}
  /\ Take(r, KeyWant(r), next)

\* It returned none: the holder has committed, and its response is the answer
\* unless the key was used for something else.
Replay(r) ==
  /\ at[r] = "reserve"
  /\ cmd[r].kind # "project.create"
  /\ Blockers(r, KeyWant(r)) = {}
  /\ \E s \in Stored(r) :
        IF Payload(cmd[s]) = Payload(cmd[r]) THEN Finish(r, s) ELSE Finish(r, "error")
  /\ UNCHANGED done

\* The response is stored with the reservation and everything commits together.
Complete(r) == Finish(r, r) /\ done' = done \cup {r}

\* The process or the connection of a request is gone: PostgreSQL rolls back
\* what is open, and nobody is answered.
Crash(r) ==
  /\ Running(r)
  /\ Finish(r, "lost")
  /\ UNCHANGED done
=============================================================================
