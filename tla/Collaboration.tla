---------------------------- MODULE Collaboration ----------------------------
(***************************************************************************)
(* The commands of the workspaces together: any requests, with any of the  *)
(* commands of Workspaces, Rooms, Knowledge and ContextPacks, run side by  *)
(* side on one database.  PostgreSQL ends one transaction of a deadlock.   *)
(***************************************************************************)
EXTENDS Rooms, Knowledge, ContextPacks

vars == <<txVars, wsVars, rmVars, knVars, cpVars>>

\* Where the transaction of a command starts, and where it goes once its key is reserved.
First(c) == CASE c.kind = "workspace.attach" -> "load"
              [] c.kind = "context.compile" -> "gather"
              [] c.kind = "work.start" -> "actor"
              [] OTHER -> "reserve"

AfterReserve(c) == CASE c.kind = "room.create" -> "check"
                     [] c.kind = "room.message.create" -> "author"
                     [] c.kind = "knowledge.record.status" -> "lock"
                     [] c.kind \in Scoped -> "cursor"
                     [] OTHER -> "insert"

\* What the services refuse before a transaction begins, names that are missing included.
Valid(c) ==
  /\ c.kind = "knowledge.record.status" => Reviewable(c)
  /\ c.kind \in {"knowledge.record.status", "knowledge.record.create"} => c.record \in Records
  /\ c.kind = "knowledge.resource.create" => c.resource \in Resources
  /\ c.kind \in {"workspace.attach", "workspace.create"} => c.workspace \in Workspaces
  /\ c.kind \in {"room.create", "room.message.create"} =>
       c.workspace \in Workspaces /\ c.room \in RoomNames \cup {"general"}
  /\ c.kind \in Scoped \cup {"project.create"} => c.project \in Projects
  /\ c.kind = "work.start" => c.session \in Sessions

Begin(r) ==
  /\ at[r] = "idle"
  /\ Valid(cmd[r])
  /\ at' = [at EXCEPT ![r] = First(cmd[r])]
  /\ UNCHANGED <<cmd, holds, answer, done, wsVars, rmVars, knVars, cpVars>>

ReserveKey(r) ==
  /\ Reserve(r, AfterReserve(cmd[r])) \/ Replay(r)
  /\ UNCHANGED <<wsVars, rmVars, knVars, cpVars>>

Step(r) ==
  \/ ReserveKey(r)
  \/ WorkspaceStep(r) /\ UNCHANGED <<rmVars, knVars, cpVars>>
  \/ RoomStep(r) /\ UNCHANGED <<wsVars, knVars, cpVars>>
  \/ KnowledgeStep(r) /\ UNCHANGED <<wsVars, rmVars, cpVars>>
  \/ PackStep(r) /\ UNCHANGED <<wsVars, rmVars, knVars>>
  \/ PackCommit(r) /\ UNCHANGED <<rmVars, knVars>>

\* The locks the next statement of r waits for.
Want(r) == IF at[r] = "reserve" THEN KeyWant(r)
           ELSE WorkspaceWant(r) \cup RoomWant(r) \cup KnowledgeWant(r) \cup PackWant(r)

\* A set of transactions each of which waits for one of the set: the detector
\* aborts one of them, and its request is answered with an error.
Deadlocked(r) ==
  \E D \in SUBSET {s \in Requests : Running(s)} :
     r \in D /\ \A d \in D : Blockers(d, Want(d)) \cap D # {}

Victim(r) ==
  /\ Deadlocked(r)
  /\ Fail(r)
  /\ UNCHANGED <<wsVars, rmVars, knVars, cpVars>>

Die(r) == Crash(r) /\ UNCHANGED <<wsVars, rmVars, knVars, cpVars>>

Acknowledge ==
  /\ \E m \in messages, status \in MentionStates \ {"pending"} : UpdateMention(m, status)
  /\ UNCHANGED <<txVars, wsVars, knVars, cpVars>>

Init ==
  \E s \in Scenarios :
    /\ cmd = s.cmd
    /\ at = [r \in Requests |-> "idle"]
    /\ holds = [r \in Requests |-> {}]
    /\ answer = [r \in Requests |-> None]
    /\ done = {}
    /\ home = s.home
    /\ space = [w \in Workspaces |->
                  IF w \in Shared THEN IF w \in s.shared THEN "active" ELSE "absent"
                  ELSE IF s.home[w] = None THEN "absent"
                       ELSE IF \E p \in Projects : s.home[p] = w THEN "active" ELSE "archived"]
    /\ rooms = {w \in Workspaces : space[w] # "absent"} \X {"general"}
    /\ owners = [p \in Projects |-> {}]
    /\ sequence = [p \in Projects |-> IF s.home[p] = None THEN 0 ELSE 1]
    /\ move = [r \in Requests |-> NoMove(s.cmd[r])]
    /\ mixed = {}
    /\ messages = {} /\ thread = [r \in Requests |-> None]
    /\ inbox = [r \in Requests |-> None] /\ reply = [r \in Requests |-> None]
    /\ resources = {}
    /\ record = [a \in Records |-> IF a \in s.accepted THEN Accepted
                                  ELSE IF a \in s.proposed THEN Proposed ELSE Absent]
    /\ trail = [a \in Records |-> IF a \in s.accepted THEN <<"proposed", "accepted">>
                                 ELSE IF a \in s.proposed THEN <<"proposed">> ELSE <<>>]
    /\ draft = [r \in Requests |-> NoDraft] /\ packs = {}

Next == (\E r \in Requests : Begin(r) \/ Step(r) \/ Victim(r) \/ Die(r)) \/ Acknowledge

\* PostgreSQL and the server's goroutines go on while a transaction can, and
\* the detector looks for deadlocks: no request is favoured over another.
Fairness == WF_vars(\E r \in Requests : Step(r)) /\ WF_vars(\E r \in Requests : Victim(r))

Spec == Init /\ [][Next]_vars /\ Fairness

-----------------------------------------------------------------------------
Steps == {"idle", "gather", "actor", "scope", "advisory", "load", "reserve", "insert", "read",
          "relate", "touch", "look", "leave", "place", "find", "enter", "check", "author",
          "thread", "post", "mention", "lock", "write", "cursor", "count", "bump", "commit",
          "grant", "ended"}

(* Every row is one the tables admit, and what a transaction has read is too. *)
TypeOK ==
  /\ cmd \in [Requests -> Command]
  /\ at \in [Requests -> Steps]
  /\ answer \in [Requests -> Requests \cup {None, "error", "lost"}]
  /\ done \subseteq Requests
  /\ home \in [Projects -> Workspaces \cup {None}]
  /\ space \in [Workspaces -> {"absent", "active", "archived"}]
  /\ rooms \subseteq Rooms
  /\ owners \in [Projects -> SUBSET People]
  /\ sequence \in [Projects -> Nat]
  /\ move \in [Requests -> MoveType]
  /\ messages \subseteq Requests
  /\ thread \in [Requests -> Requests \cup {None}]
  /\ inbox \in [Requests -> MentionStates \cup {None}]
  /\ resources \subseteq Resources
  /\ record \in [Records -> RecordType]
  /\ draft \in [Requests -> DraftType]
  /\ packs \subseteq Requests

(* A key has one effect: no two committed commands share one, whoever waited  *)
(* for whom, and an answer is the stored response of the command that had the *)
(* effect and asked for the same thing (ADR-0002, idempotency).               *)
OneEffectPerKey ==
  /\ \A q, r \in done : Slot(cmd[q]) = Slot(cmd[r]) => q = r
  /\ \A r \in Requests : answer[r] \in Requests /\ cmd[r].kind \in Keyed =>
       answer[r] \in done /\ Payload(cmd[answer[r]]) = Payload(cmd[r])
  /\ messages = {r \in done : cmd[r].kind = "room.message.create"}
  /\ packs = {r \in done : cmd[r].kind = "context.compile"}

(* Two records never supersede each other, although each review reads the other   *)
(* record without a lock: the foreign key waits for a review of the record it     *)
(* names, and two such reviews deadlock.                                          *)
NeverMutuallySuperseded ==
  \A a, b \in Records : ~(record[a].by = b /\ record[b].by = a)

(* The events of a record tell its whole history: as many as its version, each *)
(* a review the life cycle allows, the last one its status. No review is lost. *)
TrailTellsTheRecord ==
  \A a \in Records :
    /\ Len(trail[a]) = record[a].version
    /\ trail[a] # <<>> => trail[a][Len(trail[a])] = record[a].status
    /\ \A i \in 1..(Len(trail[a]) - 1) : <<trail[a][i], trail[a][i + 1]>> \in Transitions

(* A managed default workspace is archived exactly while no project lives in it, *)
(* unless transactions that moved projects of it have overlapped; a workspace    *)
(* people made is never archived.                                                *)
DefaultFollowsItsProjects ==
  /\ \A w \in Projects \ mixed : space[w] # "absent" => (space[w] = "archived" <=> Inside(w) = {})
  /\ \A w \in Shared : space[w] # "archived"

(* Whatever waits for whatever, a request that was taken up ends: with its       *)
(* answer, with an error, or as the victim of a deadlock.                        *)
EveryRequestEnds == \A r \in Requests : at[r] # "idle" ~> at[r] = "ended"
=============================================================================
