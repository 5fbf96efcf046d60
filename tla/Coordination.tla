--------------------------- MODULE Coordination ---------------------------
(***************************************************************************)
(* Coordinated work in one project: agent sessions, intents, scope claims  *)
(* and worktrees (internal/agentsession, internal/coordination).           *)
(*                                                                         *)
(* Every action is one database transaction.  The row and advisory locks   *)
(* the code takes make a transaction's reads and writes atomic at the      *)
(* moment it holds them, but its timestamps are transaction_timestamp(),   *)
(* the time of its BEGIN: a transaction that waited for a lock works with  *)
(* an older time.  Its parameter d is how many ticks ago it began.         *)
(*                                                                         *)
(* Times are kept relative to the database clock: left is expires_at minus *)
(* the clock, age is the clock minus created_at.  Both stop counting where *)
(* no running transaction can tell two values apart, so no bound on the    *)
(* clock is needed.                                                        *)
(***************************************************************************)
EXTENDS ScopeOverlap

CONSTANTS Principals,    \* people and services that sponsor agents
          Actors,        \* agent identities
          Sponsor,       \* the principal each agent acts for
          Nodes,         \* machines
          Sessions,      \* session rows that may be created
          Intents,       \* intent rows that may be created
          Repositories,  \* repositories linked to the project
          NoRepository,
          Requests,      \* the normalised scope sets clients ask for
          SessionTTL,    \* sessionTTL, in ticks
          ScopeLease,    \* scopeLease and scopeLeaseTTL, in ticks
          MaxDelay       \* the longest a transaction waits for its locks

ASSUME CoordinationAssumption ==
    /\ Sponsor \in [Actors -> Principals]
    /\ NoRepository \notin Repositories
    /\ Requests \subseteq SUBSET Scope
    /\ SessionTTL \in Nat \ {0}
    /\ ScopeLease \in Nat \ {0}
    /\ MaxDelay \in Nat

VARIABLES root,      \* projects.root_repository_id
          session,   \* identity.sessions
          intent,    \* coordination.intents
          claims,    \* the active rows of coordination.scope_claims
          worktree   \* status of the intent's row in coordination.worktrees

vars == <<root, session, intent, claims, worktree>>

Statuses == {"active", "blocked", "submitted", "completed", "cancelled", "abandoned"}

TerminalUnlessAbandoned == {"completed", "cancelled"}
Terminal == {"completed", "cancelled", "abandoned"}

Delays == 0..MaxDelay
Lapsed == -(MaxDelay + 1)

Absent == [status |-> "absent"]

SessionRow ==
    [status : {"active", "closed", "expired"}, actor : Actors, node : Nodes,
     left : Lapsed..SessionTTL, known : Delays]

IntentRow == [status : Statuses, actor : Actors]

\* A released claim is never read again, so release removes the row.  override
\* is the overlap_override of its pact.intent.started.v1 event; revived is set
\* once its lease was renewed after it had run out, and no action reads it.
ClaimRow ==
    [intent : Intents, session : Sessions, repository : Repositories, scope : Scope,
     left : Lapsed..ScopeLease, age : Delays, override : BOOLEAN, revived : BOOLEAN]

TypeOK ==
    /\ root \in Repositories \cup {NoRepository}
    /\ session \in [Sessions -> SessionRow \cup {Absent}]
    /\ intent \in [Intents -> IntentRow \cup {Absent}]
    /\ claims \subseteq ClaimRow
    /\ worktree \in [Intents -> {"absent", "ready", "frozen", "archived"}]

Init ==
    /\ root = NoRepository
    /\ session = [s \in Sessions |-> Absent]
    /\ intent = [i \in Intents |-> Absent]
    /\ claims = {}
    /\ worktree = [i \in Intents |-> "absent"]

----------------------------------------------------------------------------
\* The operators named for a mistake are what the code would be with it.  They
\* are here to show that the properties below can tell the difference.
UnexpiredForever(row, d) == TRUE

\* expires_at > transaction_timestamp() for a transaction that began d ticks ago.
Unexpired(row, d) == row.left > -d

ClaimsOf(s) == {c \in claims : c.session = s}

IsActive(s) == session[s].status = "active"

AddressableOnceEnded(s, d) == session[s] # Absent /\ d <= session[s].known

\* A caller learns a session's id when it is created, so the transactions that
\* name it begin after that.
Addressable(s, d) == IsActive(s) /\ d <= session[s].known

\* authorizeSession, for a caller who sponsors the session's agent or may act
\* for all; every other caller is refused and changes nothing.
Authorized(s, d) == Addressable(s, d) /\ Unexpired(session[s], d)

MayChange(i, s, allowAll) == session[s].actor = intent[i].actor \/ allowAll

IsOpen(i) == intent[i].status \in {"active", "blocked", "submitted"}

\* No query reads the times of a session once it has ended.
Ended(row, status) == [row EXCEPT !.status = status, !.left = 0, !.known = 0]

----------------------------------------------------------------------------
(* The project's primary repository. *)

LinkPrimaryMovingActiveWork(r) ==
    /\ root # r
    /\ root' = r
    /\ claims' = {IF intent[c.intent].status = "active"
                  THEN [c EXCEPT !.repository = r] ELSE c : c \in claims}
    /\ UNCHANGED <<session, intent, worktree>>

LinkPrimary(r) ==
    /\ root # r
    /\ root' = r
    /\ UNCHANGED <<session, intent, claims, worktree>>

----------------------------------------------------------------------------
(* Sessions. *)

StartSessionBesideOthers(s, a, n, d) ==
    /\ session[s] = Absent
    /\ session' = [session EXCEPT ![s] =
          [status |-> "active", actor |-> a, node |-> n,
           left |-> SessionTTL - d, known |-> 0]]
    /\ UNCHANGED <<root, intent, claims, worktree>>

\* A new session replaces the live sessions of its agent on its node.  Their
\* claims are left alone.
StartSession(s, a, n, d) ==
    /\ session[s] = Absent
    /\ session' = [t \in Sessions |->
          IF t = s
          THEN [status |-> "active", actor |-> a, node |-> n,
                left |-> SessionTTL - d, known |-> 0]
          ELSE IF IsActive(t) /\ session[t].actor = a /\ session[t].node = n
          THEN Ended(session[t], "expired")
          ELSE session[t]]
    /\ UNCHANGED <<root, intent, claims, worktree>>

RenewedIfExclusive(c, d) ==
    IF c.scope.mode = "exclusive" THEN [c EXCEPT !.left = ScopeLease - d] ELSE c

Renewed(c, d) ==
    [c EXCEPT !.left = ScopeLease - d, !.revived = @ \/ c.left <= 0]

\* The session need only be active, it may have run out.  The update of the
\* claims fails on scope_claims_lease_order_ck when the heartbeat began before
\* a claim it renews was created.
Heartbeat(s, d) ==
    /\ Addressable(s, d)
    /\ \A c \in ClaimsOf(s) : d <= c.age
    /\ session' = [session EXCEPT ![s].left = SessionTTL - d]
    /\ claims' = {IF c.session = s THEN Renewed(c, d) ELSE c : c \in claims}
    /\ UNCHANGED <<root, intent, worktree>>

\* sessions_time_order_ck (last_seen_at <= expires_at) fails the transaction
\* when the session ran out before it began.
CloseSession(s, d) ==
    /\ Addressable(s, d)
    /\ session[s].left >= -d
    /\ session' = [session EXCEPT ![s] = Ended(@, "closed")]
    /\ claims' = claims \ ClaimsOf(s)
    /\ UNCHANGED <<root, intent, worktree>>

\* revokeUserAccess: an administrator disables the sponsor or ends its sessions.
RevokeSponsor(p) ==
    /\ \E s \in Sessions : IsActive(s) /\ Sponsor[session[s].actor] = p
    /\ session' = [s \in Sessions |->
          IF IsActive(s) /\ Sponsor[session[s].actor] = p
          THEN Ended(session[s], "closed")
          ELSE session[s]]
    /\ UNCHANGED <<root, intent, claims, worktree>>

----------------------------------------------------------------------------
(* Work. *)

HasBlockingOverlapWithActive(request, d) ==
    \E scope \in request, c \in claims :
        /\ Unexpired(c, d)
        /\ c.repository = root
        /\ intent[c.intent].status = "active"
        /\ Blocking(scope, c.scope)

\* loadScopeOverlaps and hasBlockingOverlap.
HasBlockingOverlap(request, d) ==
    \E scope \in request, c \in claims :
        /\ Unexpired(c, d)
        /\ c.repository = root
        /\ IsOpen(c.intent)
        /\ Blocking(scope, c.scope)

\* Two scopes that differ only in mode are one resource, and the second claim
\* fails on scope_claims_one_active_origin_idx.
StartWork(i, s, request, allowOverlap, d) ==
    /\ intent[i] = Absent
    /\ Authorized(s, d)
    /\ root # NoRepository
    /\ HasBlockingOverlap(request, d) => allowOverlap
    /\ \A left, right \in request : SameResource(left, right) => left = right
    /\ intent' = [intent EXCEPT ![i] =
          [status |-> "active", actor |-> session[s].actor]]
    /\ claims' = claims \cup
          {[intent |-> i, session |-> s, repository |-> root, scope |-> scope,
            left |-> ScopeLease - d, age |-> d,
            override |-> allowOverlap /\ HasBlockingOverlap(request, d),
            revived |-> FALSE] : scope \in request}
    /\ UNCHANGED <<root, session, worktree>>

AttachWorkspaceToFinished(i, s, allowAll, d) ==
    /\ intent[i] # Absent
    /\ Authorized(s, d)
    /\ MayChange(i, s, allowAll)
    /\ worktree[i] \notin {"ready", "frozen"}
    /\ worktree' = [worktree EXCEPT ![i] = "ready"]
    /\ UNCHANGED <<root, session, intent, claims>>

AttachWorkspaceOverFrozen(i, s, allowAll, d) ==
    /\ IsOpen(i)
    /\ Authorized(s, d)
    /\ MayChange(i, s, allowAll)
    /\ worktree[i] # "ready"
    /\ worktree' = [worktree EXCEPT ![i] = "ready"]
    /\ UNCHANGED <<root, session, intent, claims>>

\* worktrees_one_live_intent_idx admits one unarchived worktree per intent.
AttachWorkspace(i, s, allowAll, d) ==
    /\ IsOpen(i)
    /\ Authorized(s, d)
    /\ MayChange(i, s, allowAll)
    /\ worktree[i] \notin {"ready", "frozen"}
    /\ worktree' = [worktree EXCEPT ![i] = "ready"]
    /\ UNCHANGED <<root, session, intent, claims>>

\* Nothing in the code leaves an intent in draft.
ValidTransition(from, to) ==
    \/ from = "active" /\ to \in {"blocked", "submitted", "cancelled", "abandoned"}
    \/ from = "blocked" /\ to \in {"active", "submitted", "cancelled", "abandoned"}
    \/ from = "submitted" /\ to \in {"completed", "blocked", "cancelled"}

UpdateStatus(i, s, to, allowAll, d) ==
    /\ intent[i] # Absent
    /\ Authorized(s, d)
    /\ MayChange(i, s, allowAll)
    /\ ValidTransition(intent[i].status, to)
    /\ intent' = [intent EXCEPT ![i].status = to]
    /\ worktree' = [worktree EXCEPT ![i] =
          CASE to = "submitted" /\ @ = "ready" -> "frozen"
            [] to \in Terminal /\ @ # "absent" -> "archived"
            [] OTHER -> @]
    /\ claims' = IF to \in Terminal THEN {c \in claims : c.intent # i} ELSE claims
    /\ UNCHANGED <<root, session>>

----------------------------------------------------------------------------
(* The clock. *)

Later(left) == IF left > Lapsed THEN left - 1 ELSE left
Older(age) == IF age < MaxDelay THEN age + 1 ELSE age
Aged(c) == [c EXCEPT !.left = Later(@), !.age = Older(@)]

Tick ==
    /\ session' = [s \in Sessions |->
          IF IsActive(s)
          THEN [session[s] EXCEPT !.left = Later(@), !.known = Older(@)]
          ELSE session[s]]
    /\ claims' = {Aged(c) : c \in claims}
    /\ UNCHANGED <<root, intent, worktree>>

Next ==
    \/ \E r \in Repositories : LinkPrimary(r)
    \/ \E s \in Sessions, a \in Actors, n \in Nodes, d \in Delays : StartSession(s, a, n, d)
    \/ \E s \in Sessions, d \in Delays : Heartbeat(s, d) \/ CloseSession(s, d)
    \/ \E p \in Principals : RevokeSponsor(p)
    \/ \E i \in Intents, s \in Sessions, request \in Requests,
          allowOverlap \in BOOLEAN, d \in Delays :
          StartWork(i, s, request, allowOverlap, d)
    \/ \E i \in Intents, s \in Sessions, allowAll \in BOOLEAN, d \in Delays :
          AttachWorkspace(i, s, allowAll, d)
    \/ \E i \in Intents, s \in Sessions, allowAll \in BOOLEAN, d \in Delays,
          to \in Statuses :
          UpdateStatus(i, s, to, allowAll, d)
    \/ Tick

Spec == Init /\ [][Next]_vars

\* The database clock keeps running; nobody else is obliged to act.
FairSpec == Spec /\ WF_vars(Tick)

----------------------------------------------------------------------------
Live(c) == Unexpired(c, 0)

\* An agent identity has at most one open session on a node: whoever opens a
\* second one has replaced the first, whatever order their calls arrive in.
OneSessionPerSeat ==
    \A s, t \in Sessions :
        /\ IsActive(s) /\ IsActive(t)
        /\ session[s].actor = session[t].actor
        /\ session[s].node = session[t].node
        => s = t

\* Every claim belongs to an intent that is still open: completing, cancelling
\* or abandoning released it, and no renewal or late start brings it back.
ClaimsBelongToOpenWork == \A c \in claims : IsOpen(c.intent)

\* A finished intent keeps no usable worktree, even when the attachment was
\* already under way as the intent finished.
FinishedWorkIsArchived ==
    \A i \in Intents :
        intent[i].status \in Terminal => worktree[i] \in {"absent", "archived"}

\* An intent is never half covered: the claims of one intent are held by one
\* session under one lease, and no scope is claimed twice.
OneLeasePerIntent ==
    \A c, e \in claims :
        c.intent = e.intent =>
            /\ c.session = e.session /\ c.left = e.left
            /\ c.scope = e.scope => c = e

Conflicting(c, e) ==
    /\ c.intent # e.intent
    /\ c.repository = e.repository
    /\ Live(c) /\ Live(e)
    /\ Blocking(c.scope, e.scope)

\* Two live claims of different intents block each other only when one of them
\* was granted with allow_overlap, or outlived its own lease and was renewed
\* after the other was granted.  Nothing else - lock waits, old transaction
\* times, switching the primary repository - lets work.start grant both.
ConflictsAreExplained ==
    \A c, e \in claims :
        Conflicting(c, e) => \E x \in {c, e} : x.override \/ x.revived

\* ADR-0009: "un claim exclusivo bloquea cualquier scope jerárquicamente
\* solapado", unless allow_overlap overrides it.
ExclusiveClaimsExclude ==
    \A c, e \in claims : Conflicting(c, e) => c.override \/ e.override

\* ADR-0009: "Cada heartbeat los renueva y cerrar la sesión los libera."
ClosedSessionsHoldNothing ==
    \A c \in claims : session[c.session].status # "closed"

\* A claim whose session was replaced or closed only drains: its lease never
\* gets longer and it does not become live again.
LostClaimsOnlyDrain ==
    [][\A c \in claims, e \in claims' :
          /\ c.intent = e.intent /\ c.scope = e.scope
          /\ ~IsActive(c.session)
          => e.left <= c.left]_vars

\* A frozen worktree is never handed out again: it is archived or stays frozen,
\* also when its intent goes back from submitted to blocked and active.
FrozenStaysFrozen ==
    [][\A i \in Intents :
          worktree[i] = "frozen" => worktree'[i] \in {"frozen", "archived"}]_vars

\* ADR-0009: "La pérdida abrupta de un agente no deja un bloqueo permanente."
\* A session that stops sending heartbeats ends up blocking nobody.
LostAgentsUnblock ==
    \A s \in Sessions :
        \/ []<><<\E d \in Delays : Heartbeat(s, d)>>_vars
        \/ <>[](\A c \in ClaimsOf(s) : ~Live(c))
=============================================================================
