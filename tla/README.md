# Verification of The Pact

The Pact lets people and coding agents work on the same projects. A Go server
keeps organizations, projects, agent sessions, work items and their scopes in
PostgreSQL, publishes durable events per project, and synchronizes canonical
repositories from GitHub. A node (`cmd/pact`) runs beside a developer: it keeps
an agent's session alive, creates worktrees and serves MCP tools. A web and a
desktop application follow projects over server-sent events.

These modules model the parts of the program whose correctness depends on the
order in which several actors act. They are written from the Go and TypeScript
code; comments of an action name the constraint, lock or time that makes it
enabled. `PROJECT.json` lists the components, the runs, the lines each
definition stands for, the hazards and the theorems.

## 1. Inventory

Every state-changing operation of the server is one PostgreSQL transaction under
READ COMMITTED, with row locks (`FOR UPDATE`, `FOR SHARE`, `UPDATE`), advisory
locks and unique indexes where it matters. All times the code writes are
`transaction_timestamp()`, the time of BEGIN, however long the transaction then
waits for its locks.

| Component (source) | State | Operations | Hard parts | What makes it correct |
|---|---|---|---|---|
| Coordinated work (`internal/coordination`) | intents, scope claims with leases, worktrees | start, attach worktree, change status | lock waits with old times, leases running out, frozen worktrees | overlapping exclusive work is never granted unnoticed; finished work holds nothing |
| Scopes (`coordination/service.go`) | none | normalise, overlap | `..`, prefixes, kinds | overlap is "some file in both"; nothing escapes the repository |
| Handoffs (`coordination/handoff_postgres.go`) | offers | offer, accept, withdraw, lazy expiry | expiry racing an answer, one open offer per intent | one outcome per offer, never accepted after its end |
| Idempotent commands (six copies) | command records, versions | reserve, complete, replay | retries after lost answers, concurrent duplicates | a key acts once and its answer is true |
| Agent sessions (`internal/agentsession`) | nodes, agents, sessions, observations | enroll, start, heartbeat, close, observe | replacement by a later session, late calls, expiry | one session per agent and node; claims of a dead agent drain |
| Event log (`internal/platform/eventlog`, six appenders) | counter row, events | append in a command, page after a cursor | commit order, rollbacks | gapless, ordered by commit |
| Event streams (`httpapi`, `web/src/realtime`) | handler cursor and page; browser cursor; fingerprint of the directory | open, list, write, check access, reconnect | broken and blocked connections, revoked access, no cursor for the directory | nothing skipped or repeated; streams of revoked readers end; a settled directory is shown |
| Accounts (`internal/authn`) | accounts, credentials, web sessions, device codes | setup, login, password, exchange, accept invitation | disabling while signing in, codes approved earlier | a disabled account opens nothing |
| User administration (`internal/useradmin`), access (`internal/access`) | roles, memberships, invitations | update, revoke, invite, grant | last owner, concurrent administrators, roles read at the request's start | there is always an active owner; whoever changes a role may still do so |
| Workspaces and projects (`internal/workspaces`, `internal/projects`) | projects, their workspaces, managed defaults, owners | create, move, own | opposite moves, emptiness judged on an old snapshot, ownership in a second transaction | a default is active exactly while it has projects |
| Knowledge (`internal/knowledge`) | resources, records, reviews | propose, review, supersede | superseding record read without lock | no mutual supersession, no review lost |
| Context packs (`internal/contextpack`) | immutable packs | compile | sources read before the cursor; share-then-update on the project row | a compilation ends; a pack is stored once |
| Rooms (`internal/rooms`) | rooms, messages, mentions | create, post, acknowledge | retries, concurrent duplicates | a message is posted once |
| Repository sync (`internal/repositorysync`), project repositories (`internal/projectrepo`) | attached repositories, canonical state, errors | manual, scheduled, replay, attach | snapshot fetched before the lock, failures recorded late | row, project and event agree; the state settles on GitHub's |
| GitHub App (`internal/githubapp`) | attempts, installations, deliveries, token cache | connect, webhook, token | repeated and failed deliveries, stale snapshots and tokens | a deleted installation stays deleted unless a fetch it overtook comes back |
| Server profiles (`internal/serverprofile`) | registry file, credential store | log in, log out, choose | crash or failure between the two stores | the two tell one story |
| Local bindings (`internal/localproject`, `internal/worktree`) | `config.json`, `node.json` | connect, run, copy | two reads of the binding, copies, keys of the first version | a key is for one server |
| Local server (`internal/localserver`) | files, containers, volume | install, start, stop, upgrade, back up, remove | failures between steps | the record is of a server that can be started |
| Agent runtime (`cmd/pact/mcp.go`) | one session, observers per worktree | start work, update work, observe | observers stopped while starting, partial failures | observers follow their work; routine work does not end the runtime |
| Desktop (`desktop`) | streams by subscription | start, stop, relay | the id of a stream arrives late | no stream without a page |
| Back office, configuration, assembly, rendering, release tools | configuration | read-only views, wiring, I/O | none of the kinds above | - |

How they interact: the agent runtime calls the session and work handlers of the
HTTP API; a session's heartbeat renews the claims that work items took; linking
a repository decides which claims a new work item is compared with; user
administration ends sessions and takes away the access that an open stream
depends on; commands of six packages append to the one event log of the
project, in the transaction that makes the change; streams poll that log and
browsers resume from the last sequence they processed.

## 2. Modules

| Module | Models | State and actions |
|---|---|---|
| `ScopeOverlap` | normalising of scopes and the overlap test | operators only; `Cleaned(segments)[n]` is what `path.Clean` makes of the first `n` segments |
| `Coordination` | sessions, intents, claims, worktrees of one project | `root`, `session`, `intent`, `claims`, `worktree`; one action per transaction, and `Tick` |
| `Handoffs` | offers of work, their answers and expiry, and the command records that make retries safe | `handoff`, `commands`, `events`, `answer`; one action per transaction, `Replay`, and `Tick` |
| `EventLog` | counter, transactions that append, stream handlers, connections, browsers | the variables are named for the rows and locals they stand for |
| `EventFeed` | the abstract promise of the log (ADR-0002) | an ordered log and what each reader received |
| `DirectoryStream` | the stream of the workspace directory, from the server to the page of the desktop | `fingerprint` per served stream, what is on its way, and what the page knows |
| `Accounts` | people, roles, invitations, web sessions, device codes | rows, and the steps of a request, a login and an exchange |
| `Transactions` | what the commands of a workspace share: row locks, waiting, keys, rollback, deadlock | `at`, `holds`, `cmd`, `answer`, `done` per request |
| `Workspaces`, `Rooms`, `Knowledge`, `ContextPacks` | their commands, statement by statement | extend `Transactions` |
| `Collaboration` | any of these commands side by side | composes the four |
| `GitHubApp` | installations, deliveries, connection attempts, token cache, and GitHub itself | rows and memory; GitHub's truth in `account`, `granted`, `epoch` |
| `RepositorySync` | attached repositories and their canonical state; the runner | extends `GitHubApp` |
| `ServerProfiles` | registry and credential store under the file lock | the two stores and where each process is |
| `LocalBindings` | the binding of a checkout and the node key | the two files per checkout and where each process is |
| `LocalServer` | `pact server` | three files, the volume, what runs, where each command is |
| `AgentRuntime` | `pact mcp serve` | the session, the work, observers and loops of one process |
| `MC*` | instances for TLC | `MCScopeOverlap` enumerates requests; `MCCollaboration` and `MCRepositorySync` list what a behaviour starts from; `MCEventLog` and `MCMachine` compose parts that share no state |
| `*Proofs` | theorems | |

### Coordination

An action is one transaction of the code: `StartSession`, `Heartbeat`,
`CloseSession` (`agentsession`), `RevokeSponsor` (`useradmin.revokeUserAccess`),
`LinkPrimary` (`projectrepo.Attach`), `StartWork`, `AttachWorkspace` and
`UpdateStatus` (`coordination`). A transaction's reads and writes happen at one
moment because of its locks: `work.start` holds its session row and the
project's advisory lock when it looks for overlaps, status changes and
attachments hold the intent row and the session row, heartbeats and closes
update the session row first. What is *not* atomic is time: a transaction judges
expiry by its BEGIN and stamps the leases it writes with it. That is the
parameter `d` of the actions, "it began `d` ticks ago", from 0 to `MaxDelay`. A
caller learns a session's id only from the answer that created it, so `known`
bounds the `d` of transactions that name the session; a claim's `age` says which
heartbeats would violate `scope_claims_lease_order_ck`.

Times are relative: `left` is `expires_at` minus the clock, truncated at
`Lapsed`, where no running transaction can tell values apart. The clock itself
needs no bound.

Abstracted: ids, texts, versions and idempotency keys (see `Handoffs`), access to the project
(every caller is one the middleware let through; the sponsor check is
`Addressable` with the callers that fail it left out, they change nothing),
and columns no guard reads. Rows in states that no code writes (`starting` and
`stale` sessions, `draft` intents, `provisioning` worktrees, archived projects)
do not occur. A released claim is removed, for no query reads it again. `override`
and `revived` in a claim are history: they say why a claim may conflict.

### Handoffs

A handoff is an offer attached to an intent; it does not touch claims, sessions or
worktrees (ADR-0013), so it is a module of its own. `Offer`, `Respond` and the
commands' guards hold the project's advisory lock, which makes each transaction one
step; `DropIntent` (the part of `UpdateStatus` that matters here) locks the intent
row that `OfferHandoff` also locks. Time is as in `Coordination`: `d` is the age of a
transaction, `left` what an offer has left, `known` how long its id has been known.

Nobody writes an expiry when it happens. Readers see an offer as expired when its
time is over (`handoffSelectSQL`), answers are refused, and the row changes with the next
offer of the intent, which publishes both events.

A client repeats a command when it got no answer. The network and the client
are therefore not modelled: any command may arrive any number of times with any key
of its type, before or after others. `reserveCommand` sits between the checks of
the session and those of the state, so a replay needs a session and an intent but
not an open offer; `Reserved` and `Replayed` are its two outcomes, the refusals
change nothing. `answer` is the last successful answer, `events` the published
history, both ghosts of what leaves the server.

Left out: the expected version (a row has version 1 exactly while it is offered, so
the comparison adds nothing to the status check), contents and linked records, and
sessions that are refused.

### EventLog

`AppendEvent` takes the counter's row lock and keeps it to the end of the
transaction; `Commit` publishes all its events at once, `Rollback` (errors,
crashes and lost connections alike) restores the counter. The stream handler is
modelled at the grain at which other actors can act between its steps: a query
for a page, one write per event, an authorization check before each of them when
a tick is waiting. A write blocks while `WireLimit` messages are under way. A
connection may break anywhere (`Drop` loses what is on the wire), the handler may
return (`EndStream`), and the browser may be told to show other projects
(`Reload`), which aborts the fetch and clears cursor and events. The
browser reconnects with the last id it processed. Reconnect delays and the
25-second keep-alives are left out; the list of 50 events the page
shows is `seen` without its limit.

`EventFeed` states what this amounts to: an append-only order of events, those of
one command together, and readers that each receive it from the beginning, in
order. `ImplementsFeed` maps the committed events to the log and what a browser
processed to `received`.

### DirectoryStream

The handler takes a fingerprint of what the person may see before it sends its
headers, compares at each poll and sends a notice that says only "ask again".
The process of the desktop relays notices as events; the page asks for a stream
when its effect mounts, learns its id later, and stops it when it goes.
`directory` is a version: a change that is undone between two polls is seen by
nobody, and a page that asked in between shows what it saw until the next
change, so that the model leaves such changes out. A connection attempt that
fails changes nothing.

`refreshDirectory` runs one query at a time and answers a notice that comes
during it with the query under way. If that query was answered before the
change, the page stays behind until the next notice, connection or focus, although
`openapi.yaml:587-591` tells clients to query again when they receive one. The ghost
`missed` marks exactly this, and `DirectoryCatchesUp` excuses it.

Left out: `Desktop.Disconnect`, which stops all streams before it revokes the
device and leaves a page without them when that fails; a page that reloads
itself, whose streams go on in the process; a credential that disappears, which ends
a stream without a word; the refresh on focus, and refreshes that fail.

### Accounts

A request carries the role its caller had when it was authenticated; the service and
the transaction read again. A transaction is one action where its locks make it
one. `UpdateUser` counts owners without locking them, so its checks and its
writes are two steps under the advisory lock. With the checks made afresh under
that lock, the deferred constraint that keeps an owner is never what refuses.

What the code does and the properties allow: a device code that was approved
before its owner was signed out everywhere can still be exchanged (each request asks
for an active account again); a login whose password was verified before the
password changed opens its session afterwards; the right to set a role is
judged by the role the request came with; an invitation outlives the demotion of
the one who sent it. Left out: the count of failed logins and the lock it leads to
(parallel attempts may count as one, and a lock only refuses), edits of addresses,
and times of expiry.

### Transactions, Workspaces, Rooms, Knowledge, ContextPacks, Collaboration

A request is a transaction that goes from statement to statement (`at`), wants
row locks in the modes PostgreSQL has (`Want`), waits while another holds a
conflicting one, and keeps its locks until it commits, is rolled back, dies or is a
victim of the deadlock detector. Reserving a key locks the index entry: a
second request with the key waits and then answers what the first stored, or acts
if the first was rolled back.

`project.create` grants ownership in a second transaction; a crash between the two is an
action. A move judges whether a managed default is empty on the snapshot of its
statement and then waits for the row: `Look` and `Leave`. A review reads the superseding
record without a lock; the foreign key locks it later. A cycle of three
records that supersede each other can be reached, of two not. A compilation of a pack
takes the project's row `FOR SHARE` and then updates it, so that two of them
deadlock and one is ended. It locks its session's row first, as `work.start` does in
`authorizeSession`, and waits for another command of the session there. Texts, names, colours and
renaming are left out, and so are slugs: `Consistent` lets people create workspaces of their own
(`Shared`) only, never one in the place of a project's managed default, so that a project's
creation does not fail because a workspace has its slug.

### GitHubApp and RepositorySync

GitHub is part of the model: its installations change, deliveries arrive in any
order, again or never, tokens become void. A delivery is recorded first and one
that is recorded is not worked on again, also when it failed or was interrupted
(ADR-0015 wants it so). An installation is fetched in two calls and written afterwards;
a fetch overtaken by a deletion writes the installation back, and only that
(`overtaken`). A snapshot is fetched before the project's lock; a failure is
recorded by a transaction that began before it got the lock, and
`repository_provider_states_time_order_ck` refuses it when a success that began
later committed first: `refused` says for whom the last success is such a one. Of a snapshot
branch and revision are kept, of the errors the codes `credentials_unavailable`,
`authentication_required` and `upstream_unavailable`; `rate_limited`, `forbidden` and `not_found`
are recorded as `authentication_required` is. Left out: a server with a static token, purposes and
slugs of repositories, signatures and OAuth.

The runner exists only on a server whose `PACT_GITHUB_SYNC_INTERVAL` is positive
(`server/server.go:150-153`). The setting is 0 unless an operator changes it (`config.go:67`,
ADR-0014:47-48), and then only people synchronize. A story says which of the two servers it is
about (`scheduled`); on the other one the runner's job is "off" for ever.

### ServerProfiles, LocalBindings, LocalServer, AgentRuntime

What runs on one computer. The four share no state, so `MCMachine` lets a behaviour
exercise one of them. One unused key, password or credential stands for any
other.

* `ServerProfiles`: a login, a logout or a choice is a sequence of steps under the file
  lock: credential, registry, and on failure the way back. A process may die between
  any two (the operating system frees the lock), and a write that reports a failure may
  have replaced the file. `torn` holds the servers such an end may have
  split; the next login or logout joins them. A logout may delete a credential that a
  login of another process just stored, but never without its profile. A registry of an
  older format, which the first load migrates (`migrateV2`), is left out.
* `LocalBindings`: the main checkout starts empty, or bound to any server with an
  identity of the first version. `connect`, in it or in a worktree that was made from it,
  writes the binding under a lock and reconciles the node
  under another; a runtime reads the binding twice without either. The two files of a worktree are
  copied in place, one after the other. A copy that fails takes the worktree away again, and nobody
  connects in a worktree before its copy has ended: both are left out. `excused` holds the keys
  for which these two can miss each other: a rebinding between the two reads, and a key
  of version 1 adopted before an interrupted rotation. `README.md:431` of the
  repository says that a key rotates only when the server changes; in these two
  cases it does not rotate although it did.
* `LocalServer`: no lock orders two commands. Two that write the files at the same
  time, or a start during the removal of the data, may leave anything
  (`overlapped`), and an uninstall that is interrupted after it removed `.env`
  but not the record leaves an installation that can neither be forced nor
  uninstalled again. Everything else keeps the record true.
* `AgentRuntime`: tool calls run side by side; a request that fails may have been
  carried out. A lost answer of `start_work` leaves active work that nobody on the machine
  knows (`trouble.adrift`). Ending work cancels its observer; if a capture is in
  progress, its error ends the whole process, although ADR-0008:27-30 says that the
  process keeps heartbeat and observation while its client keeps it alive. This is the
  last case that `ServesWhileAllIsWell` excepts. Blocked work whose start failed can be
  resumed without a worktree or an observer; it is `adrift` too, unless its start is still
  under way.

### Operators named for a mistake

Next to some actions stands a variant with a plausible bug, such as
`AppendWithoutWaiting` or `AttachWorkspaceToFinished`. No specification uses
them. Put in the place of the action they belong to, each one makes the run
report the property it is paired with in `PROJECT.json`, so no property
passes because it says nothing.

## 3. Runs

| Run | Asks | Bounds | Distinct states |
|---|---|---|---|
| `scope` | Does normalising refuse exactly what leaves the repository, and is overlap "shares a file"? | locators of 0-3 raw segments over two names, `.` and `..`, absolute or not, all kinds and modes, pairs | 137,713 |
| `coordination` | Can two agents ever block each other unexplained, or a finished intent keep a claim or a worktree? | 2 agents of one sponsor, 2 sessions, 2 intents, an exclusive directory and a shared file in it, lease 2, delay 1 | about 710,000 |
| `repositories` | The same when the primary repository changes, with several scopes in a request; is an intent ever half covered? | 2 repositories, 3 requests, one naming a directory twice, no delay | 765,679 |
| `agents` | Replacement, loss and revocation of sessions: one per agent and node, lost claims drain, frozen worktrees stay frozen, a silent agent ends up blocking nobody | 2 agents of two sponsors, 1 node, 2 sessions, 1 intent, delay 1; liveness, no symmetry | 20,276 |
| `handoffs` | One outcome per offer, one open offer per intent, nothing answered after it was shown as expired; a key acts once and its answer is true, for ever | 2 agents, 2 intents of one of them, 2 offers, 2 keys per command, an offer lives 1 tick, delay 1 | 48,084 |
| `events` | A project's events: gapless log, nothing skipped, implements the feed, events arrive, revoked streams end. The directory: no stream without a page, a settled directory is shown | 3 transactions of up to 2 events, 1 reader, pages of 2, 2 messages on the wire; 2 subscriptions, 1 change, 1 message and 1 event on their way | 88,148 |
| `accounts` | Is there always an active owner, do disabled people stay out, is every role explained and changed by somebody who still may | 2 people, 2 requests, 1 login, 2 sessions, 1 device, 1 invitation; two under way at a time | 702,434 |
| `collaboration` | Do keys act once, are reviews kept and supersessions one-way, do defaults follow their projects, does every request end | three requests of groups of commands that touch the same rows, over 2 projects, a shared workspace, 3 records, 2 sessions | 49,209 |
| `provider` | Do row, project and event agree, is a deletion kept, does the state settle on GitHub's | 1 installation, 2 repositories, 2 branches, 2 deliveries, 2 requests with one key; seven stories with the runner and two without it, of pushes, outages, crashes, attachments | 432,540 |
| `machine` | Do observers follow their work, does the runtime serve, do registry and store agree, is a key for one server, is the local server's record true | 1 work item and 3 calls; 2 processes, servers, principals and credentials; a checkout and its worktree, 2 keys, 1 connecting process and 1 runtime; 2 commands, images and passwords | 1,319,470 |
| `exclusive` | ADR-0009: an exclusive claim blocks every overlapping scope. Violated, see below | 2 agents of two sponsors, no delay | stops at the counterexample |
| `closed` | ADR-0009: closing the session releases its claims. Violated, see below | as above | stops at the counterexample |

Why the bounds are enough to see the interesting cases: a conflict of claims
needs two intents and two sessions, one of which can be replaced, closed, revoked
or expire while the other starts; a lease of two ticks with delay one allows
the transaction that began before an expiry and acts after it. A sequence
is contested by two transactions, and the third lets one roll back between two
commits; pages of two with up to six events need several pages; a wire of two
messages blocks in the middle of a page. Readers do not influence each other
in the model or in the code, so one is enough; the theorem on skipped events is
for any number. Two offers and two
keys are the least with which an offer can be replaced after it ran out and a key be
used again for another request, another offer or another answer; two intents let an
offer of one be mistaken for one of the other. Two people are enough to take each other's role, a
third would be another of the two. Three requests
make every circle of two waits with a bystander, and a client that tries again beside a
competitor; the groups of `MCCollaboration` are the commands that want the same rows.
The budgets of a story in `MCRepositorySync` say how often GitHub, people and crashes may
act; each story is one of the ways the steps of a synchronization can meet something
else. A page of the desktop can leave one stream that is still starting and ask for
another, which takes two. On a computer two processes, and two of whatever they can
confuse, show every race of the two stores; three calls let work be started, ended and
resumed at once.
Symmetry is used only in runs without liveness, over row names, keys,
interchangeable agents of one sponsor, repositories, and in `machine` the servers and node keys of
`LocalBindings`.

### What the two violations show

`exclusive`: agent A starts work with an exclusive claim and stalls until the
lease runs out; agent B is granted the same directory; A's next heartbeat, whose
session row is merely `active` and already expired, renews A's claim. Both claims
are live and exclusive. `ConflictsAreExplained` says this and `allow_overlap` are
the only ways to get there, and it is proved.

`closed`: disabling a user or ending the user's sessions closes agent sessions
but leaves their claims to run out, while closing the session by its agent releases
them. `LostClaimsOnlyDrain` shows that such claims can no longer be renewed.

## 4. Fairness

* `Tick` is weakly fair in `Coordination!FairSpec`: the database clock runs.
  Nothing else is; agents may stop for ever, which is what `LostAgentsUnblock`
  is about. It does not ask for heartbeats to stop: sessions with infinitely
  many of them are exempt.
* In `EventLog!FairSpec`, `Serve(r)` (the handler's loop), `Browse(r)` (the
  browser's read loop and its reconnecting) and the ticker are weakly fair per
  reader. The handler's loop has no wait without a timeout, and the browser
  retries for ever. Appending, committing, losing access and interruptions are not
  fair. `EventsArrive` exempts readers that are interrupted for ever or do not
  keep their access.

* In `DirectoryStream!DirectoryFairness`, the handler's loop, the process's goroutine of each
  stream, and the page's event loop are weakly fair. Connections may break for
  ever, which `DirectoryCatchesUp` exempts, and so may pages come and go.
* In `Collaboration!Fairness`, some request that can take a step does, and when none can
  because they wait in a circle, the deadlock detector ends one. Which one is open; as
  requests are finite, `EveryRequestEnds` needs no more.
* In `RepositorySync!Spec`, the runner, where there is one, goes on (it is a loop with a timer),
  a transaction of `Attach` ends, and a token expires after its hour. People and deliveries
  are not fair, so `ConvergesToTheRemote` rests on the runner alone and is conditional on it: it
  promises convergence for a server with `PACT_GITHUB_SYNC_INTERVAL` above 0 (`Scheduled`). With
  the default, 0, nothing here is fair but the end of `Attach` and of tokens, and what PACT shows
  may stay behind GitHub until somebody asks for a synchronization.

`machine`, `accounts`, `handoffs` and `coordination` ask for no liveness: there nobody
has to act.

## 5. Proofs

Checked by TLAPS, for every value of the constants that satisfies the named assumptions
(`ScopeAssumption`, `DepthAssumption`, `CoordinationAssumption`, `HandoffAssumption`,
`EventLogAssumption`, `AccountsAssumption`, `TransactionsAssumption`, `GitHubAppAssumption`,
`RepositorySyncAssumption`, `ProfileAssumption`, `MachineAssumption`). Every safety invariant,
every action property and the refinement of the passing runs is a theorem; TLC checked the
inductive invariants with several actors on the instances of the runs before they were proved.

* `ScopeOverlapProofs`: `OverlapIsExact` (two scopes overlap exactly when some file lies in
  both, for locators of any depth) and `BlockingIsSymmetric`; then the three properties of the
  run for raw locators of any length. `ScopesAreClean` and `EscapesAreRefused` speak of every
  prefix of a locator: `LeftOfAll` says that what `Clean` has made of the first `n` segments is,
  as long as no prefix climbed above the root, exactly as long as the prefix is deep, and starts
  with `..` ever after otherwise. The induction over `n` goes through `LeastNatural`: a set of
  naturals that is not empty has a least one (`WFMin` and `NatLessThanWellFounded` of the
  library), taken here of the lengths where the statement fails. `OverlapIsOneFile` is
  `OverlapIsExact` for scopes that came out of a request.
* `CoordinationProofs`: types; `OneSessionPerSeat`; `ClaimsBelongToOpenWork` and
  `OneLeasePerIntent` from a joint inductive invariant, since a claim's session and age must be
  known to survive renewals; `ConflictsAreExplained`, whose induction needs that unexpired
  claims were unexpired for every transaction that looked (`left` only falls unless `revived` is
  set) and `BlockingIsSymmetric`; the action properties `LostClaimsOnlyDrain` and
  `FrozenStaysFrozen`; `FinishedWorkIsArchived`.
* `HandoffProofs`: types and all properties of the run. `HistoryInv` strengthens
  `OffersAlternate` with what relates events to rows: published offers exist, at most one row of
  an intent is offered, and an outcome is the state of its row. `Kept` says what no step undoes
  (intent, sender and outcome of a row, published events); with it `AnswerInv` follows, that
  every stored answer is true of the history, and from that what replays return. `KeyInv` ties
  each event to the record of its key.
* `EventLogProofs`: types, `GaplessLog`, `NothingSkipped`, `ImplementsFeed` and
  `StreamsHaveAnOwner`. A gapless log is not inductive alone: `LogInv` adds that the open
  transaction that holds the counter's lock owns exactly the sequences after the published ones
  and that no other has any. `StreamInOrder` says that cursor, wire, handler position and page
  of a reader are consecutive stretches of the log, which is what makes the browser's next event
  the next sequence. `LogImplementsFeed` maps each step: a commit appends the events of its
  command, a processed message is the next of the feed, and every other step stutters; beyond
  `LogInv` it needs only `FeedInv`, that no transaction appends more than a command may. For the directory, `CallsAgree` says that an
  answer under way belongs to a stream the page remembers having asked for, so that a stream
  whose page has gone is on its way to be stopped.
* `AccountsProofs`: types and the four properties of the run. `AccountsInv` adds
  `RequestsAgree`, what the step between the checks and the writes of `UpdateUser` may rely on
  (one such step at a time, its counts still true), and `Founded`, that an organization that was
  set up has an owner; `SignedOutStaysOut` is part of it because a login's second step must find
  the account as its row lock shows it.
* `CollaborationProofs`: types, `OneEffectPerKey`, `NeverMutuallySuperseded`,
  `TrailTellsTheRecord`, `DefaultFollowsItsProjects`. `LocksAgree` says that two requests never
  hold conflicting locks; from it `KeysHeld` and `ReviewsHold` (what a review has read of its
  own record is still true), and from those the effects. `StepShape` reduces all statements of
  all commands to a few shapes of moving on, so that a new command needs no new induction.
  `DInv` is the invariant of the defaults: a default that a project was ever in exists
  (`DefaultsExist`); only moves are at the statements of a move, and what they name exists
  (`MovesFit`); a move is going to archive exactly the defaults that it leaves empty, except
  those that another transaction moved projects of meanwhile (`MovesKnow`; `mixed` collects
  them, and `DefaultFollowsItsProjects` excepts them too); who creates a project has its name
  alone and found an active workspace (`CreatesHold`). `OthersAfter` says what one request's
  commit leaves of what the others know.
* `ProviderProofs`: types, `OneTruth` and `AuthorizationIsKept`. `AppInv` relates each piece of
  work under way to the rows it will write (`WorkFits`, `DeletionsHold`) and shows that active
  repositories belong to active installations; `SyncInv` adds what a synchronization has
  fetched.
* `MachineProofs`: `PartsKeepTheirSpecifications` (a machine behaves in each part as the part
  alone), and with it all five properties of the run. `ProfileInv` says for each step of the
  process that holds the lock what the other store looks like (`PreviousAgrees`, `NextAgrees`)
  and that all other servers agree (`OthersAgree`), whence `WhoIsLoggedIn`. `HostInv`: unless
  two commands overlapped, no two that write are under way (`CommandsKeepApart`), so what each
  step needs is as its command left it (`StepsAreSound`), and the files agree; whence
  `TheRecordIsTrue`. `RuntimeInv` gives each start of work to one call, lets an observer be
  missing only in the steps where some call is about to register it, and finds a cause for each
  error; whence `ObserversFollowTheWork` and `ServesWhileAllIsWell`. `CheckoutInv`: `Home(k, h)`
  collects the servers that know key `k`, and those to which a file or a step under way is going
  to show it; all of them are one (`KeysHaveOneHome`), which is stronger than `OneServerPerKey`
  and survives every step.

Type invariants are proved rather than listed in the runs, with the constants unbounded.

Only model-checked: liveness (`EventsArrive`, `RevokedStreamsEnd`, `LostAgentsUnblock`,
`EveryRequestEnds`, `ConvergesToTheRemote`, `DirectoryCatchesUp`), which needs fairness and
`ENABLED` and is out of the prover's reach. The two violations are counterexamples and have
nothing to prove. No module uses a `RECURSIVE` operator: recursion is written as functions,
which the prover can unfold.

## 6. Not modelled

* Enrolment of nodes and their lifecycle column, expected versions of coordinated work and of
  renamed workspaces: each is one conditional update of one row.
* The count of failed logins and the lock of an account; times of expiry of codes, sessions
  and invitations, beyond that an expired row is unused.
* Which items a context pack contains: a pure selection under a budget.
* Restore of a local server, its ports, setup code and logs; the updater and the release
  tools; configuration files of agents. They are sequences of I/O whose outcome is the
  operating system's.
* The relay of a project's events through the desktop, which repeats the browser's reader
  (cursor, reconnecting, end at 401), and what section 2 lists as left out of
  `DirectoryStream`.
* Captures and remotes of the Git executable; rendering, CLI output, read-only views,
  wiring and configuration of the server; the migration runner, a loop under one
  advisory lock. They keep no state that the properties above depend on.
