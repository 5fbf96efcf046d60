--------------------------- MODULE RepositorySync ---------------------------
(***************************************************************************)
(* What PACT knows of the repositories of one project: which are attached, *)
(* which is the primary, and the branch and revision GitHub was last seen  *)
(* at.  People ask for a synchronization, and on a server that sets        *)
(* PACT_GITHUB_SYNC_INTERVAL (its default, 0, starts no runner) the        *)
(* scheduled runner goes round by itself.  Both fetch first and write      *)
(* afterwards, under the project's lock: what is written may be older than *)
(* what another wrote.                                                     *)
(*                                                                         *)
(* Only the snapshot's branch and revision are kept of what GitHub says;   *)
(* an error is its code.  The server has a GitHub App and no static token. *)
(***************************************************************************)
EXTENDS GitHubApp

CONSTANTS Requests,   \* calls of SyncRepository and of Sync
          Keys,       \* their idempotency keys
          Runner,     \* the scheduled synchronization
          Branches

VARIABLES remote,     \* GitHub: the default branch of a repository and the tip of each branch
          attached,   \* coordination.repositories that are active: their default branch, or None
          root,       \* identity.projects.root_repository_id
          canonical,  \* identity.projects.canonical_revision
          state,      \* coordination.repository_provider_states
          told,       \* platform.events: the last one of a repository and how many there are
          stored,     \* platform.idempotency_records: the repository a key synchronized
          attaching,  \* the transaction of Attach that holds the project's row
          job,        \* where a synchronization is, and what it has fetched
          begun       \* pairs of transactions that wait to write: the first began before the second

syncVars == <<remote, attached, root, canonical, state, told, stored, attaching, job, begun>>
syncRows == <<attached, root, canonical, state, told, stored>>

\* What a failed synchronization is recorded with.  GitHub may also answer with
\* rate_limited, forbidden or not_found: they are recorded like "authentication_required",
\* which stands for every answer that refuses a fetch.
Codes == {"credentials_unavailable", "authentication_required", "upstream_unavailable"}

ASSUME RepositorySyncAssumption ==
  /\ Runner \notin Requests
  /\ None \notin Repositories \cup Branches \cup Keys \cup Codes
  /\ Branches # {}

Syncs == Requests \cup {Runner}
Revisions == Branches \X Nat

NoState == [status |-> "never", branch |-> None, revision |-> None, error |-> None, version |-> 0]
StateType == [status: {"never", "synced", "failed"}, branch: Branches \cup {None},
              revision: Revisions \cup {None}, error: Codes \cup {None}, version: Nat]
Silence == [type |-> "none", revision |-> None, error |-> None, number |-> 0]
ToldType == [type: {"none", "synced", "failed"}, revision: Revisions \cup {None},
             error: Codes \cup {None}, number: Nat]
Idle == [at |-> "idle", repo |-> None, key |-> None, todo |-> {}, token |-> None,
         branch |-> None, revision |-> None, error |-> None, refused |-> FALSE]
JobType == [at: {"idle", "off", "replay", "lookup", "cache", "request", "store", "branch", "revision",
                 "begin", "apply", "record", "next", "ended"},
            repo: Repositories \cup {None}, key: Keys \cup {None}, todo: SUBSET Repositories,
            token: Nat \cup {None}, branch: Branches \cup {None},
            revision: Revisions \cup {None}, error: Codes \cup {None}, refused: BOOLEAN]

Attached == {r \in Repositories : attached[r] # None}
Tip(r) == <<remote[r].branch, remote[r].tip[remote[r].branch]>>

\* The server's runner is started when its interval is not 0; else it stays off.
Unstarted == [Idle EXCEPT !.at = "off"]
Scheduled == job[Runner].at # "off"

Goto(q, step) == job' = [job EXCEPT ![q].at = step]
Quietly == UNCHANGED <<remote, attached, root, canonical, state, told, stored, attaching>>

-----------------------------------------------------------------------------
(* GitHub: commits, and a change of the default branch. *)

Push(r, b) ==
  /\ Spend("push")
  /\ \/ remote' = [remote EXCEPT ![r].tip[b] = @ + 1]
     \/ remote[r].branch # b /\ remote' = [remote EXCEPT ![r].branch = b]
  /\ UNCHANGED <<hubVars, rowVars, work, tokens, overtaken, late, syncRows, attaching, job, begun>>

-----------------------------------------------------------------------------
(* A synchronization: asked for, or the next one of the runner's round. *)

\* Sync takes the root, SyncRepository the repository it names.
Ask(q, r, k) ==
  /\ job[q].at = "idle"
  /\ r \in Attached
  /\ Spend("request")
  /\ job' = [job EXCEPT ![q] = [Idle EXCEPT !.at = "replay", !.repo = r, !.key = k]]
  /\ UNCHANGED <<hubVars, rowVars, work, tokens, overtaken, late, begun>> /\ Quietly

\* Service.sync: an answer that is stored is given again; the key of another repository is refused.
ReplayResult(q) ==
  /\ job[q].at = "replay"
  /\ Goto(q, IF stored[job[q].key] = None THEN "lookup" ELSE "ended")
  /\ UNCHANGED <<appVars, begun>> /\ Quietly

\* The runner with these repositories still to do.
Rounding(todo) == IF todo = {} THEN Idle ELSE [Idle EXCEPT !.at = "next", !.todo = todo]

\* The runner lists the project's repositories, when it has a root.
Tick ==
  /\ job[Runner].at = "idle" /\ root # None
  /\ job' = [job EXCEPT ![Runner].at = "next", ![Runner].todo = Attached]
  /\ UNCHANGED <<appVars, begun>> /\ Quietly

\* SyncScheduledProject: one repository after the other, whatever became of the one before.
NextRepository(r) ==
  /\ job[Runner].at = "next" /\ r \in job[Runner].todo
  /\ job' = [job EXCEPT ![Runner] = [Idle EXCEPT !.at = "lookup", !.repo = r, !.todo = job[Runner].todo \ {r}]]
  /\ UNCHANGED <<appVars, begun>> /\ Quietly

-----------------------------------------------------------------------------
(* TokenForRepository and Fetch. *)

Failing(q, code) == job' = [job EXCEPT ![q].at = "begin", ![q].error = code]

LookUpInstallation(q) ==
  /\ job[q].at = "lookup"
  /\ IF Authorized(job[q].repo) THEN Goto(q, "cache") ELSE Failing(q, "credentials_unavailable")
  /\ UNCHANGED <<appVars, begun>> /\ Quietly

ReadCache(q) ==
  /\ job[q].at = "cache"
  /\ IF tokens[job[q].repo] = None THEN Goto(q, "request")
     ELSE job' = [job EXCEPT ![q].at = "branch", ![q].token = tokens[job[q].repo]]
  /\ UNCHANGED <<appVars, begun>> /\ Quietly

\* InstallationToken
RequestToken(q) ==
  /\ job[q].at = "request"
  /\ LET i == InstallationOf[job[q].repo] IN
       IF up /\ account[i] = "active" /\ job[q].repo \in granted[i]
       THEN job' = [job EXCEPT ![q].at = "store", ![q].token = epoch[i]]
       ELSE Failing(q, "credentials_unavailable")
  /\ UNCHANGED <<appVars, begun>> /\ Quietly

\* The cache may have been cleared since the token was asked for.
StoreToken(q) ==
  /\ job[q].at = "store"
  /\ tokens' = [tokens EXCEPT ![job[q].repo] = job[q].token]
  /\ Goto(q, "branch")
  /\ UNCHANGED <<hubVars, rowVars, work, overtaken, late, left, begun>> /\ Quietly

\* GitHubClient.get
Reachable(q) == up /\ Accepted(InstallationOf[job[q].repo], job[q].token)
Code == IF up THEN "authentication_required" ELSE "upstream_unavailable"

FetchBranch(q) ==
  /\ job[q].at = "branch"
  /\ IF Reachable(q)
     THEN job' = [job EXCEPT ![q].at = "revision", ![q].branch = remote[job[q].repo].branch]
     ELSE Failing(q, Code)
  /\ UNCHANGED <<appVars, begun>> /\ Quietly

\* The tip of the branch that was the default one a moment ago.
FetchRevision(q) ==
  /\ job[q].at = "revision"
  /\ IF Reachable(q)
     THEN job' = [job EXCEPT ![q].at = "begin",
                             ![q].revision = <<job[q].branch, remote[job[q].repo].tip[job[q].branch]>>]
     ELSE Failing(q, Code)
  /\ UNCHANGED <<appVars, begun>> /\ Quietly

-----------------------------------------------------------------------------
(* Writing: one transaction under the project's advisory lock and row. *)

Begin(q) ==
  /\ job[q].at = "begin"
  /\ begun' = begun \cup {<<p, q>> : p \in {p \in Syncs : job[p].at \in {"apply", "record"}}}
  /\ Goto(q, IF job[q].error = None THEN "apply" ELSE "record")
  /\ UNCHANGED appVars /\ Quietly

\* The job ends.  After a success a failure of that repository is refused when it began
\* before it, its last_attempt_at being earlier than last_success_at; and no longer when
\* it began after it, for an older success may be written last and set the time back.
Leave(q, success) ==
  /\ begun' = {pair \in begun : q \notin {pair[1], pair[2]}}
  /\ job' = [p \in Syncs |->
               IF p = q THEN IF q = Runner THEN Rounding(job[q].todo) ELSE [Idle EXCEPT !.at = "ended"]
               ELSE IF success /\ job[p].repo = job[q].repo
                    THEN [job[p] EXCEPT !.refused = <<p, q>> \in begun]
               ELSE job[p]]

Tell(r, type, revision, error) ==
  told' = [told EXCEPT ![r] = [type |-> type, revision |-> revision, error |-> error, number |-> @.number + 1]]

\* What makes a snapshot worth an event.
Changed(r, b, v) ==
  \/ state[r].status # "synced" \/ state[r].branch # b \/ state[r].revision # v
  \/ r = root /\ canonical # v
  \/ attached[r] # b

Taken(q) == q # Runner /\ stored[job[q].key] # None

\* apply, when the key is already taken: the stored result, or a conflict.
Repeat(q) ==
  /\ job[q].at = "apply" /\ attaching = None
  /\ Taken(q)
  /\ Leave(q, FALSE)
  /\ UNCHANGED appVars /\ Quietly

\* apply: the state, the repository's branch, the project's revision and the event.
Apply(q) ==
  /\ job[q].at = "apply" /\ attaching = None
  /\ ~Taken(q)
  /\ LET r == job[q].repo
         b == job[q].branch
         v == job[q].revision
         c == Changed(r, b, v)
     IN  /\ state' = [state EXCEPT ![r] = [status |-> "synced", branch |-> b, revision |-> v, error |-> None,
                                           version |-> IF c THEN @.version + 1 ELSE @.version]]
         /\ attached' = [attached EXCEPT ![r] = b]
         /\ canonical' = IF r = root THEN v ELSE canonical
         /\ IF c THEN Tell(r, "synced", v, None) ELSE UNCHANGED told
         /\ stored' = IF q = Runner THEN stored ELSE [stored EXCEPT ![job[q].key] = r]
  /\ Leave(q, TRUE)
  /\ UNCHANGED <<appVars, remote, root, attaching>>

\* RecordFailure: the last revision stays; the same error again is not news.
RecordFailure(q) ==
  /\ job[q].at = "record" /\ attaching = None
  /\ LET r == job[q].repo
         e == job[q].error
         known == IF state[r].status # "never" THEN state[r].revision
                  ELSE IF r = root THEN canonical ELSE None
     IN  IF job[q].refused THEN UNCHANGED <<state, told>>
         ELSE IF state[r].status = "failed" /\ state[r].error = e THEN UNCHANGED <<state, told>>
         ELSE /\ state' = [state EXCEPT ![r] =
                    [status |-> "failed", error |-> e, revision |-> known, version |-> @.version + 1,
                     branch |-> IF @.status = "never" THEN attached[r] ELSE @.branch]]
              /\ Tell(r, "failed", known, e)
  /\ Leave(q, FALSE)
  /\ UNCHANGED <<appVars, remote, attached, root, canonical, stored, attaching>>

-----------------------------------------------------------------------------
(* Attach: under the project's row, in two statements that matter. *)

NotAttaching == UNCHANGED <<appVars, remote, job, begun>>

LockProject(r, primary) ==
  /\ attaching = None
  /\ Spend("attach")
  /\ attaching' = [repo |-> r, primary |-> primary, found |-> FALSE]
  /\ UNCHANGED <<hubVars, rowVars, work, tokens, overtaken, late, remote, syncRows, job, begun>>

\* The authorized repository is read without a lock.
ReadAuthorized ==
  /\ attaching # None /\ ~attaching.found
  /\ attaching' = IF available[attaching.repo] = "active" THEN [attaching EXCEPT !.found = TRUE] ELSE None
  /\ UNCHANGED syncRows /\ NotAttaching

\* Mutant: the project keeps the revision of the repository it had before.
KeepRevision(r) == canonical

\* The revision of a project whose root becomes r.
RevisionOf(r) ==
  IF r = root THEN canonical ELSE IF state[r].status = "synced" THEN state[r].revision ELSE None

\* The branch is the one GitHub reported when the installation was last written.
CommitAttach(b) ==
  /\ attaching # None /\ attaching.found
  /\ LET r == attaching.repo IN
       /\ attached' = [attached EXCEPT ![r] = b]
       /\ root' = IF attaching.primary \/ root = None THEN r ELSE root
       /\ canonical' = IF attaching.primary \/ root = None THEN RevisionOf(r) ELSE canonical
  /\ attaching' = None
  /\ UNCHANGED <<state, told, stored>> /\ NotAttaching

-----------------------------------------------------------------------------
(* The server's process ends and starts again, with the same settings: what *)
(* it had in hand is gone.                                                  *)

Crash ==
  /\ Spend("crash")
  /\ work' = [j \in Jobs |-> Rest]
  /\ tokens' = [r \in Repositories |-> None]
  /\ job' = [q \in Syncs |-> IF job[q].at \in {"idle", "off"} THEN job[q]
                             ELSE IF q = Runner THEN Idle ELSE [Idle EXCEPT !.at = "ended"]]
  /\ attaching' = None /\ begun' = {}
  /\ UNCHANGED <<hubVars, rowVars, overtaken, late, remote, syncRows>>

SyncStep(q) ==
  \/ ReplayResult(q) \/ LookUpInstallation(q) \/ ReadCache(q) \/ RequestToken(q) \/ StoreToken(q)
  \/ FetchBranch(q) \/ FetchRevision(q) \/ Begin(q) \/ Repeat(q) \/ Apply(q) \/ RecordFailure(q)

RunnerStep == SyncStep(Runner) \/ Tick \/ \E r \in Repositories : NextRepository(r)

AttachStep == ReadAuthorized \/ \E b \in Branches : CommitAttach(b)

vars == <<appVars, syncVars>>

InitFrom(story) ==
  /\ InitApp(story)
  /\ remote = [r \in Repositories |-> [branch |-> CHOOSE b \in Branches : TRUE, tip |-> [b \in Branches |-> 0]]]
  /\ root = story.root
  /\ attached = [r \in Repositories |-> IF r = story.root THEN CHOOSE b \in Branches : TRUE ELSE None]
  /\ canonical = None
  /\ state = [r \in Repositories |-> NoState]
  /\ told = [r \in Repositories |-> Silence]
  /\ stored = [k \in Keys |-> None]
  /\ attaching = None
  /\ job = [q \in Syncs |-> IF q = Runner /\ ~story.scheduled THEN Unstarted ELSE Idle]
  /\ begun = {}

Init == \E story \in Stories : InitFrom(story)

Next ==
  \/ AppStep /\ UNCHANGED syncVars
  \/ \E q \in Requests : SyncStep(q)
  \/ \E q \in Requests, r \in Repositories, k \in Keys : Ask(q, r, k)
  \/ RunnerStep
  \/ \E r \in Repositories, b \in Branches : Push(r, b)
  \/ \E r \in Repositories, primary \in BOOLEAN : LockProject(r, primary)
  \/ AttachStep
  \/ Crash

\* A runner that was started has a ticker of its own (one that was not never takes a
\* step, so the condition asks nothing of it), an attachment that has begun goes on, and
\* tokens expire.  What people ask for need not be fair.
Fairness ==
  /\ WF_vars(RunnerStep) /\ WF_vars(AttachStep)
  /\ \A r \in Repositories : WF_vars(TokenExpires(r) /\ UNCHANGED syncVars)

Spec == Init /\ [][Next]_vars /\ Fairness

-----------------------------------------------------------------------------
TypeOK ==
  /\ AppTypeOK
  /\ remote \in [Repositories -> [branch: Branches, tip: [Branches -> Nat]]]
  /\ attached \in [Repositories -> Branches \cup {None}]
  /\ root \in Repositories \cup {None}
  /\ canonical \in Revisions \cup {None}
  /\ state \in [Repositories -> StateType]
  /\ told \in [Repositories -> ToldType]
  /\ stored \in [Keys -> Repositories \cup {None}]
  /\ attaching \in [repo: Repositories, primary: BOOLEAN, found: BOOLEAN] \cup {None}
  /\ job \in [Syncs -> JobType]
  /\ begun \subseteq Syncs \X Syncs

(* What is known of a repository is told the same everywhere, whichever of the   *)
(* synchronizations that fetched at different times wrote last: the project has  *)
(* the revision of its primary repository, and the last event of a repository    *)
(* says what its state says (ADR-0014, what a synchronization updates at once).  *)
OneTruth ==
  /\ root # None /\ state[root].status = "synced" => canonical = state[root].revision
  /\ \A r \in Repositories :
       /\ told[r].number = state[r].version
       /\ state[r].status = "synced" => told[r].type = "synced" /\ told[r].revision = state[r].revision
       /\ state[r].status = "failed" => told[r].type = "failed" /\ told[r].error = state[r].error

(* A repository counts as authorized only while its installation does, and once   *)
(* the deletion of an installation is processed the installation is active again  *)
(* only if it was being fetched when the deletion was written.                    *)
AuthorizationIsKept ==
  /\ \A r \in Repositories : available[r] = "active" => installation[InstallationOf[r]] = "active"
  /\ \A d \in Deliveries : delivery[d].status = "processed" /\ delivery[d].event = "deleted" =>
       installation[delivery[d].inst] # "active" \/ delivery[d].inst \in late

\* The primary repository can be fetched.
Settled ==
  /\ up /\ root # None
  /\ Authorized(root)
  /\ account[InstallationOf[root]] = "active" /\ root \in granted[InstallationOf[root]]

UpToDate ==
  /\ state[root].status = "synced" /\ state[root].branch = remote[root].branch
  /\ state[root].revision = Tip(root) /\ canonical = Tip(root)

(* Late snapshots, tokens that were cached too late, crashes and outages pass: on  *)
(* a server that is set to synchronize by itself (PACT_GITHUB_SYNC_INTERVAL above  *)
(* 0, which is not the default), once the primary repository can be fetched for    *)
(* good, the project ends up at GitHub's revision and stays there.  Without the    *)
(* setting nothing is promised: the revision waits for somebody to ask.            *)
ConvergesToTheRemote == <>[](Scheduled /\ Settled) => <>[](root # None /\ UpToDate)
=============================================================================
