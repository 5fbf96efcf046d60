------------------------------ MODULE Knowledge ------------------------------
(***************************************************************************)
(* Resources, knowledge records and their review.  A review locks its      *)
(* record, checks the version the reviewer saw and the transition, reads   *)
(* the superseding record WITHOUT a lock, and then writes; the foreign key *)
(* of superseded_by takes FOR KEY SHARE on that record, which waits for    *)
(* whoever is reviewing it.                                                *)
(***************************************************************************)
EXTENDS Transactions

VARIABLES resources, \* knowledge.resources: locators in use
          record,    \* knowledge.records: status, version, superseded_by
          trail      \* knowledge.events about a record: its statuses, oldest first

knVars == <<resources, record, trail>>

Absent == [status |-> "absent", version |-> 0, by |-> None]
Proposed == [status |-> "proposed", version |-> 1, by |-> None]
Accepted == [status |-> "accepted", version |-> 2, by |-> None]

RecordType == [status: Statuses \cup {"absent"}, version: Nat, by: Records \cup {None}]

\* The reviews a record may go through, as <<from, to>>.
Transitions == {<<"proposed", "accepted">>, <<"proposed", "disputed">>, <<"proposed", "rejected">>,
                <<"disputed", "accepted">>, <<"disputed", "rejected">>, <<"disputed", "revoked">>,
                <<"accepted", "disputed">>, <<"accepted", "superseded">>, <<"accepted", "revoked">>,
                <<"accepted", "expired">>}

\* What the service lets through: only a supersession names another record.
Reviewable(c) ==
  /\ c.status # "proposed" /\ c.version >= 1
  /\ IF c.status = "superseded" THEN c.other \in Records \ {c.record} ELSE c.other = None

\* Mutant: the weaker row lock, which a foreign key does not wait for.
WeakerLock == "noKey"

ReviewLock == "update"

KnowledgeWant(r) ==
  CASE at[r] = "insert" /\ cmd[r].kind = "knowledge.resource.create" ->
         {<<<<"resource", cmd[r].resource>>, "update">>}
    [] at[r] = "lock" -> {<<<<"record", cmd[r].record>>, ReviewLock>>}
    [] at[r] = "write" -> {<<<<"record", cmd[r].record>>, "noKey">>}
                          \cup {<<<<"record", a>>, "key">> : a \in {cmd[r].other} \ {None}}
    [] OTHER -> {}

-----------------------------------------------------------------------------
InsertResource(r) ==
  /\ at[r] = "insert" /\ cmd[r].kind = "knowledge.resource.create"
  /\ IF cmd[r].resource \in resources
     THEN Blockers(r, KnowledgeWant(r)) = {} /\ Fail(r)
     ELSE Take(r, KnowledgeWant(r), "commit")
  /\ UNCHANGED knVars

CommitResource(r) ==
  /\ at[r] = "commit" /\ cmd[r].kind = "knowledge.resource.create"
  /\ Complete(r)
  /\ resources' = resources \cup {cmd[r].resource}
  /\ UNCHANGED <<record, trail>>

\* A proposal, with the resource its evidence cites.
AttachEvidence(r) ==
  /\ at[r] = "insert" /\ cmd[r].kind = "knowledge.record.create"
  /\ IF cmd[r].resource \in resources \cup {None} THEN Go(r, "commit") ELSE Fail(r)
  /\ UNCHANGED knVars

\* The row gets an id nobody else has: the command names it.
CommitRecord(r) ==
  /\ at[r] = "commit" /\ cmd[r].kind = "knowledge.record.create"
  /\ record[cmd[r].record] = Absent
  /\ Complete(r)
  /\ record' = [record EXCEPT ![cmd[r].record] = Proposed]
  /\ trail' = [trail EXCEPT ![cmd[r].record] = <<"proposed">>]
  /\ UNCHANGED resources

\* Mutant: the life cycle is not asked.
LockAnyStatus(r) ==
  /\ at[r] = "lock"
  /\ IF record[cmd[r].record].version = cmd[r].version
     THEN Take(r, KnowledgeWant(r), "check")
     ELSE Blockers(r, KnowledgeWant(r)) = {} /\ Fail(r)
  /\ UNCHANGED knVars

LockRecord(r) ==
  /\ at[r] = "lock"
  /\ LET now == record[cmd[r].record]
     IN IF /\ now.version = cmd[r].version
           /\ <<now.status, cmd[r].status>> \in Transitions
        THEN Take(r, KnowledgeWant(r), "check")
        ELSE Blockers(r, KnowledgeWant(r)) = {} /\ Fail(r)
  /\ UNCHANGED knVars

CheckSuperseding(r) ==
  /\ at[r] = "check" /\ cmd[r].kind = "knowledge.record.status"
  /\ IF cmd[r].other = None \/ (cmd[r].other \in Records /\ record[cmd[r].other].status = "accepted")
     THEN Go(r, "write") ELSE Fail(r)
  /\ UNCHANGED knVars

\* The update compares the version once more.
WriteStatus(r) ==
  /\ at[r] = "write"
  /\ IF record[cmd[r].record].version = cmd[r].version
     THEN Take(r, KnowledgeWant(r), "commit")
     ELSE Blockers(r, KnowledgeWant(r)) = {} /\ Fail(r)
  /\ UNCHANGED knVars

Reviewed(r) == [status |-> cmd[r].status, version |-> record[cmd[r].record].version + 1,
                by |-> cmd[r].other]

CommitReview(r) ==
  /\ at[r] = "commit" /\ cmd[r].kind = "knowledge.record.status"
  /\ Complete(r)
  /\ record' = [record EXCEPT ![cmd[r].record] = Reviewed(r)]
  /\ trail' = [trail EXCEPT ![cmd[r].record] = Append(@, cmd[r].status)]
  /\ UNCHANGED resources

KnowledgeStep(r) ==
  \/ InsertResource(r) \/ CommitResource(r) \/ AttachEvidence(r) \/ CommitRecord(r)
  \/ LockRecord(r) \/ CheckSuperseding(r) \/ WriteStatus(r) \/ CommitReview(r)
=============================================================================
