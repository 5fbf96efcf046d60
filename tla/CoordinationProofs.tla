------------------------ MODULE CoordinationProofs ------------------------
(***************************************************************************)
(* Coordination holds its invariants for every number of sessions,         *)
(* intents and repositories, every lease length and every lock wait.       *)
(***************************************************************************)
EXTENDS Coordination, TLAPS

----------------------------------------------------------------------------
(* Lemmas about rows. *)

\* An open session is a row with an agent, a node and times.
LEMMA ActiveRow ==
    ASSUME TypeOK, NEW s \in Sessions, IsActive(s)
    PROVE  /\ session[s] \in SessionRow
           /\ session[s] # Absent
BY DEF TypeOK, IsActive, Absent

\* Ending a session leaves a row of the table.
LEMMA EndedRow ==
    ASSUME NEW row \in SessionRow, NEW status \in {"closed", "expired"}
    PROVE  /\ Ended(row, status) \in SessionRow
           /\ Ended(row, status).status = status
<1>1. 0 \in Lapsed..SessionTTL /\ 0 \in Delays
  BY CoordinationAssumption DEF Lapsed, Delays
<1>. QED
  BY <1>1 DEF Ended, SessionRow

\* A lease granted or renewed by a transaction that began d ticks ago is in range.
LEMMA LeaseRange ==
    ASSUME NEW d \in Delays
    PROVE  /\ ScopeLease - d \in Lapsed..ScopeLease
           /\ SessionTTL - d \in Lapsed..SessionTTL
           /\ 0 \in Delays
BY CoordinationAssumption DEF Delays, Lapsed

\* The clock keeps times in range and never lengthens what is left.
LEMMA ClockRange ==
    ASSUME NEW top \in Nat, NEW left \in Lapsed..top, NEW age \in Delays
    PROVE  /\ Later(left) \in Lapsed..top
           /\ Later(left) <= left
           /\ Older(age) \in Delays
BY CoordinationAssumption DEF Later, Older, Delays, Lapsed

\* A renewal moves the lease of a claim, marks it when the lease had run out
\* and leaves the rest of the row alone.
LEMMA RenewedRow ==
    ASSUME NEW c \in ClaimRow, NEW d \in Delays
    PROVE  /\ Renewed(c, d) \in ClaimRow
           /\ Renewed(c, d).intent = c.intent
           /\ Renewed(c, d).session = c.session
           /\ Renewed(c, d).repository = c.repository
           /\ Renewed(c, d).scope = c.scope
           /\ Renewed(c, d).override = c.override
           /\ Renewed(c, d).left = ScopeLease - d
           /\ c.revived => Renewed(c, d).revived
           /\ c.left <= 0 => Renewed(c, d).revived
BY LeaseRange DEF Renewed, ClaimRow

\* The clock moves the times of a claim and leaves the rest of the row alone.
LEMMA AgedRow ==
    ASSUME NEW c \in ClaimRow
    PROVE  /\ Aged(c) \in ClaimRow
           /\ Aged(c).intent = c.intent
           /\ Aged(c).session = c.session
           /\ Aged(c).repository = c.repository
           /\ Aged(c).scope = c.scope
           /\ Aged(c).override = c.override
           /\ Aged(c).revived = c.revived
           /\ Aged(c).left = Later(c.left)
           /\ Aged(c).left <= c.left
BY ClockRange, CoordinationAssumption DEF Aged, ClaimRow

----------------------------------------------------------------------------
(* Type correctness. *)

LEMMA InitTypeOK == Init => TypeOK
BY CoordinationAssumption DEF Init, TypeOK

LEMMA NextTypeOK == TypeOK /\ [Next]_vars => TypeOK'
<1>. SUFFICES ASSUME TypeOK, [Next]_vars PROVE TypeOK'
  OBVIOUS
<1>1. ASSUME NEW r \in Repositories, LinkPrimary(r) PROVE TypeOK'
  BY <1>1 DEF LinkPrimary, TypeOK
<1>2. ASSUME NEW s \in Sessions, NEW a \in Actors, NEW n \in Nodes, NEW d \in Delays,
             StartSession(s, a, n, d)
      PROVE TypeOK'
  <2>1. session' \in [Sessions -> SessionRow \cup {Absent}]
    <3>1. [status |-> "active", actor |-> a, node |-> n,
           left |-> SessionTTL - d, known |-> 0] \in SessionRow
      BY LeaseRange DEF SessionRow
    <3>2. \A t \in Sessions : IsActive(t) => Ended(session[t], "expired") \in SessionRow
      BY ActiveRow, EndedRow
    <3>. QED
      BY <1>2, <3>1, <3>2 DEF StartSession, TypeOK
  <2>. QED
    BY <1>2, <2>1 DEF StartSession, TypeOK
<1>3. ASSUME NEW s \in Sessions, NEW d \in Delays, Heartbeat(s, d) PROVE TypeOK'
  <2>1. session' \in [Sessions -> SessionRow \cup {Absent}]
    <3>1. [session[s] EXCEPT !.left = SessionTTL - d] \in SessionRow
      BY <1>3, ActiveRow, LeaseRange DEF Heartbeat, Addressable, SessionRow
    <3>. QED
      BY <1>3, <3>1 DEF Heartbeat, TypeOK
  <2>2. claims' \subseteq ClaimRow
    BY <1>3, RenewedRow DEF Heartbeat, TypeOK
  <2>. QED
    BY <1>3, <2>1, <2>2 DEF Heartbeat, TypeOK
<1>4. ASSUME NEW s \in Sessions, NEW d \in Delays, CloseSession(s, d) PROVE TypeOK'
  <2>1. Ended(session[s], "closed") \in SessionRow
    BY <1>4, ActiveRow, EndedRow DEF CloseSession, Addressable
  <2>. QED
    BY <1>4, <2>1 DEF CloseSession, TypeOK
<1>5. ASSUME NEW p \in Principals, RevokeSponsor(p) PROVE TypeOK'
  <2>1. \A s \in Sessions : IsActive(s) => Ended(session[s], "closed") \in SessionRow
    BY ActiveRow, EndedRow
  <2>. QED
    BY <1>5, <2>1 DEF RevokeSponsor, TypeOK
<1>6. ASSUME NEW i \in Intents, NEW s \in Sessions, NEW request \in Requests,
             NEW allowOverlap \in BOOLEAN, NEW d \in Delays,
             StartWork(i, s, request, allowOverlap, d)
      PROVE TypeOK'
  <2>1. session[s] \in SessionRow
    BY <1>6, ActiveRow DEF StartWork, Authorized, Addressable
  <2>2. intent' \in [Intents -> IntentRow \cup {Absent}]
    BY <1>6, <2>1 DEF StartWork, TypeOK, IntentRow, Statuses, SessionRow
  <2>3. root \in Repositories
    BY <1>6 DEF StartWork, TypeOK
  <2>4. claims' \subseteq ClaimRow
    <3>1. ASSUME NEW scope \in request
          PROVE  [intent |-> i, session |-> s, repository |-> root, scope |-> scope,
                  left |-> ScopeLease - d, age |-> d,
                  override |-> allowOverlap /\ HasBlockingOverlap(request, d),
                  revived |-> FALSE] \in ClaimRow
      <4>1. scope \in Scope
        BY CoordinationAssumption
      <4>2. (allowOverlap /\ HasBlockingOverlap(request, d)) \in BOOLEAN
        OBVIOUS
      <4>. QED
        BY <2>3, <4>1, <4>2, LeaseRange DEF ClaimRow
    <3>. QED
      BY <1>6, <3>1 DEF StartWork, TypeOK
  <2>. QED
    BY <1>6, <2>2, <2>4 DEF StartWork, TypeOK
<1>7. ASSUME NEW i \in Intents, NEW s \in Sessions, NEW allowAll \in BOOLEAN,
             NEW d \in Delays, AttachWorkspace(i, s, allowAll, d)
      PROVE TypeOK'
  BY <1>7 DEF AttachWorkspace, TypeOK
<1>8. ASSUME NEW i \in Intents, NEW s \in Sessions, NEW allowAll \in BOOLEAN,
             NEW d \in Delays,
             NEW to \in Statuses,
             UpdateStatus(i, s, to, allowAll, d)
      PROVE TypeOK'
  <2>1. intent' \in [Intents -> IntentRow \cup {Absent}]
    BY <1>8 DEF UpdateStatus, TypeOK, IntentRow
  <2>2. worktree' \in [Intents -> {"absent", "ready", "frozen", "archived"}]
    BY <1>8 DEF UpdateStatus, TypeOK
  <2>3. claims' \subseteq ClaimRow
    BY <1>8 DEF UpdateStatus, TypeOK
  <2>. QED
    BY <1>8, <2>1, <2>2, <2>3 DEF UpdateStatus, TypeOK
<1>9. CASE Tick
  <2>1. session' \in [Sessions -> SessionRow \cup {Absent}]
    <3>1. ASSUME NEW s \in Sessions, IsActive(s)
          PROVE  [session[s] EXCEPT !.left = Later(@), !.known = Older(@)] \in SessionRow
      BY <3>1, ActiveRow, ClockRange, CoordinationAssumption DEF SessionRow
    <3>. QED
      BY <1>9, <3>1 DEF Tick, TypeOK
  <2>2. claims' \subseteq ClaimRow
    BY <1>9, AgedRow DEF Tick, TypeOK
  <2>. QED
    BY <1>9, <2>1, <2>2 DEF Tick, TypeOK
<1>10. CASE UNCHANGED vars
  BY <1>10 DEF vars, TypeOK
<1>. QED
  BY <1>1, <1>2, <1>3, <1>4, <1>5, <1>6, <1>7, <1>8, <1>9, <1>10 DEF Next

\* Every row keeps its shape: the statuses the code writes, lease times that
\* the clock and the renewals leave in range, claims of rows that may exist.
THEOREM TypeCorrect == Spec => []TypeOK
BY InitTypeOK, NextTypeOK, PTL DEF Spec

----------------------------------------------------------------------------
(* The invariants that relate sessions, intents, claims and worktrees. *)

\* A step of the clock or of one action opens no second session on a seat.
LEMMA NextSeat == TypeOK /\ OneSessionPerSeat /\ [Next]_vars => OneSessionPerSeat'
<1>. SUFFICES ASSUME TypeOK, OneSessionPerSeat, [Next]_vars PROVE OneSessionPerSeat'
  OBVIOUS
<1>1. ASSUME NEW s \in Sessions, NEW a \in Actors, NEW n \in Nodes, NEW d \in Delays,
             StartSession(s, a, n, d)
      PROVE OneSessionPerSeat'
  <2>1. ASSUME NEW t \in Sessions, IsActive(t)', t # s
        PROVE  /\ IsActive(t)
               /\ session'[t] = session[t]
               /\ ~(session[t].actor = a /\ session[t].node = n)
    <3>1. IsActive(t) => Ended(session[t], "expired").status = "expired"
      BY ActiveRow, EndedRow
    <3>. QED
      BY <1>1, <2>1, <3>1 DEF StartSession, IsActive
  <2>2. session'[s].actor = a /\ session'[s].node = n
    BY <1>1 DEF StartSession
  <2>. QED
    BY <2>1, <2>2 DEF OneSessionPerSeat
<1>2. ASSUME \A s \in Sessions : IsActive(s)' =>
                 /\ IsActive(s)
                 /\ session'[s].actor = session[s].actor
                 /\ session'[s].node = session[s].node
      PROVE OneSessionPerSeat'
  BY <1>2 DEF OneSessionPerSeat
<1>3. ASSUME UNCHANGED session PROVE OneSessionPerSeat'
  BY <1>3 DEF OneSessionPerSeat, IsActive
<1>4. ASSUME NEW s \in Sessions, NEW d \in Delays, Heartbeat(s, d) PROVE OneSessionPerSeat'
  <2>1. session[s] \in SessionRow
    BY <1>4, ActiveRow DEF Heartbeat, Addressable
  <2>2. \A t \in Sessions : t # s => session'[t] = session[t]
    BY <1>4 DEF Heartbeat, TypeOK
  <2>3. /\ session'[s].status = session[s].status
        /\ session'[s].actor = session[s].actor
        /\ session'[s].node = session[s].node
    BY <1>4, <2>1 DEF Heartbeat, TypeOK, SessionRow
  <2>. QED
    BY <1>2, <2>2, <2>3 DEF IsActive
<1>5. ASSUME NEW s \in Sessions, NEW d \in Delays, CloseSession(s, d) PROVE OneSessionPerSeat'
  <2>1. Ended(session[s], "closed").status = "closed"
    BY <1>5, ActiveRow, EndedRow DEF CloseSession, Addressable
  <2>. QED
    BY <1>2, <1>5, <2>1 DEF CloseSession, IsActive, TypeOK
<1>6. ASSUME NEW p \in Principals, RevokeSponsor(p) PROVE OneSessionPerSeat'
  <2>1. \A s \in Sessions : IsActive(s) => Ended(session[s], "closed").status = "closed"
    BY ActiveRow, EndedRow
  <2>. QED
    BY <1>2, <1>6, <2>1 DEF RevokeSponsor, IsActive
<1>7. CASE Tick
  <2>1. ASSUME NEW s \in Sessions, IsActive(s)
        PROVE  /\ session'[s].actor = session[s].actor
               /\ session'[s].node = session[s].node
    BY <1>7, <2>1, ActiveRow DEF Tick, SessionRow
  <2>2. \A s \in Sessions : IsActive(s)' => IsActive(s)
    BY <1>7 DEF Tick, IsActive
  <2>. QED
    BY <1>2, <2>1, <2>2
<1>8. CASE UNCHANGED vars
  BY <1>3, <1>8 DEF vars
<1>. QED
  BY <1>1, <1>3, <1>4, <1>5, <1>6, <1>7, <1>8
  DEF Next, LinkPrimary, StartWork, AttachWorkspace, UpdateStatus

\* Whoever opens a session replaces the open session of the same agent on the
\* same node (StartSession), so a seat never has two.
THEOREM SeatsAreExclusive == Spec => []OneSessionPerSeat
<1>1. Init => OneSessionPerSeat
  BY DEF Init, OneSessionPerSeat, IsActive, Absent
<1>. QED
  BY <1>1, InitTypeOK, NextTypeOK, NextSeat, PTL DEF Spec

\* Claims are created with their intent and go when it finishes.
LEMMA NextOpenWork == TypeOK /\ ClaimsBelongToOpenWork /\ [Next]_vars => ClaimsBelongToOpenWork'
<1>. SUFFICES ASSUME TypeOK, ClaimsBelongToOpenWork, [Next]_vars
              PROVE ClaimsBelongToOpenWork'
  OBVIOUS
<1>1. ASSUME UNCHANGED intent, \A c \in claims' : \E e \in claims : c.intent = e.intent
      PROVE ClaimsBelongToOpenWork'
  BY <1>1 DEF ClaimsBelongToOpenWork, IsOpen
<1>2. ASSUME NEW s \in Sessions, NEW d \in Delays, Heartbeat(s, d)
      PROVE ClaimsBelongToOpenWork'
  <2>1. ASSUME NEW x \in claims' PROVE \E c \in claims : x.intent = c.intent
    <3>1. PICK c \in claims : x = IF c.session = s THEN Renewed(c, d) ELSE c
      BY <1>2 DEF Heartbeat
    <3>. QED
      BY <3>1, RenewedRow DEF TypeOK
  <2>. QED
    BY <1>1, <1>2, <2>1 DEF Heartbeat
<1>3. ASSUME NEW s \in Sessions, NEW d \in Delays, CloseSession(s, d)
      PROVE ClaimsBelongToOpenWork'
  BY <1>1, <1>3 DEF CloseSession
<1>4. ASSUME NEW i \in Intents, NEW s \in Sessions, NEW request \in Requests,
             NEW allowOverlap \in BOOLEAN, NEW d \in Delays,
             StartWork(i, s, request, allowOverlap, d)
      PROVE ClaimsBelongToOpenWork'
  <2>1. IsOpen(i)' /\ \A j \in Intents : IsOpen(j) => IsOpen(j)'
    BY <1>4 DEF StartWork, TypeOK, IsOpen
  <2>2. \A c \in claims' : c \in claims \/ c.intent = i
    BY <1>4 DEF StartWork
  <2>. QED
    BY <2>1, <2>2 DEF ClaimsBelongToOpenWork, TypeOK, ClaimRow
<1>5. ASSUME NEW i \in Intents, NEW s \in Sessions, NEW allowAll \in BOOLEAN,
             NEW d \in Delays,
             NEW to \in Statuses,
             UpdateStatus(i, s, to, allowAll, d)
      PROVE ClaimsBelongToOpenWork'
  <2>1. \A j \in Intents : j # i => intent'[j] = intent[j]
    BY <1>5 DEF UpdateStatus, TypeOK
  <2>2. intent'[i].status = to
    BY <1>5 DEF UpdateStatus, TypeOK, IntentRow
  <2>3. CASE to \in Terminal
    BY <1>5, <2>1, <2>3 DEF UpdateStatus, ClaimsBelongToOpenWork, IsOpen, TypeOK, ClaimRow
  <2>4. CASE to \notin Terminal
    BY <1>5, <2>1, <2>2, <2>4 DEF UpdateStatus, ClaimsBelongToOpenWork, IsOpen, Statuses, Terminal, TypeOK, ClaimRow
  <2>. QED
    BY <2>3, <2>4
<1>6. CASE Tick
  <2>1. ASSUME NEW x \in claims' PROVE \E c \in claims : x.intent = c.intent
    <3>1. PICK c \in claims : x = Aged(c)
      BY <1>6 DEF Tick
    <3>. QED
      BY <3>1, AgedRow DEF TypeOK
  <2>. QED
    BY <1>1, <1>6, <2>1 DEF Tick
<1>7. CASE UNCHANGED vars
  BY <1>1, <1>7 DEF vars
<1>. QED
  BY <1>1, <1>2, <1>3, <1>4, <1>5, <1>6, <1>7
  DEF Next, LinkPrimary, StartSession, RevokeSponsor, AttachWorkspace

\* work.start creates the claims of an intent together, and every update of
\* claims selects by session or by intent, so they stay together.
LEMMA NextOneLease ==
    TypeOK /\ ClaimsBelongToOpenWork /\ OneLeasePerIntent /\ [Next]_vars => OneLeasePerIntent'
<1>. SUFFICES ASSUME TypeOK, ClaimsBelongToOpenWork, OneLeasePerIntent, [Next]_vars
              PROVE OneLeasePerIntent'
  OBVIOUS
<1>1. ASSUME claims' \subseteq claims PROVE OneLeasePerIntent'
  BY <1>1 DEF OneLeasePerIntent
<1>2. ASSUME NEW s \in Sessions, NEW d \in Delays, Heartbeat(s, d)
      PROVE OneLeasePerIntent'
  <2>1. ASSUME NEW x \in claims', NEW y \in claims', x.intent = y.intent
        PROVE  /\ x.session = y.session /\ x.left = y.left
               /\ x.scope = y.scope => x = y
    <3>1. PICK c \in claims : x = IF c.session = s THEN Renewed(c, d) ELSE c
      BY <1>2 DEF Heartbeat
    <3>2. PICK e \in claims : y = IF e.session = s THEN Renewed(e, d) ELSE e
      BY <1>2 DEF Heartbeat
    <3>3. /\ x.intent = c.intent /\ x.session = c.session /\ x.scope = c.scope
          /\ y.intent = e.intent /\ y.session = e.session /\ y.scope = e.scope
      BY <3>1, <3>2, RenewedRow DEF TypeOK
    <3>4. /\ c.session = e.session /\ c.left = e.left
          /\ c.scope = e.scope => c = e
      BY <2>1, <3>3, ZenonT(40) DEF OneLeasePerIntent
    <3>. QED
      BY <3>1, <3>2, <3>3, <3>4, RenewedRow DEF TypeOK
  <2>. QED
    BY <2>1 DEF OneLeasePerIntent
<1>3. ASSUME NEW i \in Intents, NEW s \in Sessions, NEW request \in Requests,
             NEW allowOverlap \in BOOLEAN, NEW d \in Delays,
             StartWork(i, s, request, allowOverlap, d)
      PROVE OneLeasePerIntent'
  <2>1. \A c \in claims : c.intent # i
    BY <1>3 DEF StartWork, ClaimsBelongToOpenWork, IsOpen, Absent
  <2>2. \A c \in claims' : \/ c \in claims
                           \/ /\ c.intent = i /\ c.session = s /\ c.left = ScopeLease - d
                              /\ c = [intent |-> i, session |-> s, repository |-> root,
                                      scope |-> c.scope, left |-> ScopeLease - d, age |-> d,
                                      override |-> allowOverlap /\ HasBlockingOverlap(request, d),
                                      revived |-> FALSE]
    BY <1>3 DEF StartWork
  <2>. QED
    BY <2>1, <2>2 DEF OneLeasePerIntent
<1>4. CASE Tick
  <2>1. ASSUME NEW x \in claims', NEW y \in claims', x.intent = y.intent
        PROVE  /\ x.session = y.session /\ x.left = y.left
               /\ x.scope = y.scope => x = y
    <3>1. PICK c \in claims : x = Aged(c)
      BY <1>4 DEF Tick
    <3>2. PICK e \in claims : y = Aged(e)
      BY <1>4 DEF Tick
    <3>3. /\ x.intent = c.intent /\ x.session = c.session /\ x.scope = c.scope
          /\ y.intent = e.intent /\ y.session = e.session /\ y.scope = e.scope
      BY <3>1, <3>2, AgedRow DEF TypeOK
    <3>4. /\ c.session = e.session /\ c.left = e.left
          /\ c.scope = e.scope => c = e
      BY <2>1, <3>3, ZenonT(40) DEF OneLeasePerIntent
    <3>. QED
      BY <3>1, <3>2, <3>3, <3>4, AgedRow DEF TypeOK
  <2>. QED
    BY <2>1 DEF OneLeasePerIntent
<1>5. CASE UNCHANGED vars
  BY <1>1, <1>5 DEF vars
<1>. QED
  BY <1>1, <1>2, <1>3, <1>4, <1>5
  DEF Next, LinkPrimary, StartSession, CloseSession, RevokeSponsor, AttachWorkspace, UpdateStatus

\* The scope test does not depend on which of the two scopes is the new one.
LEMMA BlockingSymmetric ==
    ASSUME NEW left \in Scope, NEW right \in Scope
    PROVE  Blocking(left, right) <=> Blocking(right, left)
BY DEF Blocking, ScopesOverlap, Scope, Kinds

\* A grant is explained when it is made, and a claim that becomes live again
\* is marked by the renewal that did it.
LEMMA NextExplained ==
    /\ TypeOK /\ ClaimsBelongToOpenWork /\ ConflictsAreExplained
    /\ [Next]_vars
    => ConflictsAreExplained'
<1>. SUFFICES ASSUME TypeOK, ClaimsBelongToOpenWork, ConflictsAreExplained, [Next]_vars
              PROVE ConflictsAreExplained'
  OBVIOUS
<1>1. ASSUME claims' \subseteq claims PROVE ConflictsAreExplained'
  BY <1>1 DEF ConflictsAreExplained, Conflicting, Live, Unexpired
<1>2. ASSUME NEW s \in Sessions, NEW d \in Delays, Heartbeat(s, d)
      PROVE ConflictsAreExplained'
  <2>1. ASSUME NEW x \in claims'
        PROVE  \E c \in claims :
                  /\ x.intent = c.intent /\ x.scope = c.scope
                  /\ x.repository = c.repository /\ x.override = c.override
                  /\ c.revived => x.revived
                  /\ Live(x) => Live(c) \/ x.revived
    <3>1. PICK c \in claims : x = IF c.session = s THEN Renewed(c, d) ELSE c
      BY <1>2 DEF Heartbeat
    <3>2. c \in ClaimRow
      BY DEF TypeOK
    <3>3. c.left \in Int
      BY <3>2, CoordinationAssumption DEF ClaimRow, Lapsed
    <3>. QED
      BY <3>1, <3>2, <3>3, RenewedRow DEF Live, Unexpired
  <2>. QED
    BY <2>1 DEF ConflictsAreExplained, Conflicting
<1>3. ASSUME NEW i \in Intents, NEW s \in Sessions, NEW request \in Requests,
             NEW allowOverlap \in BOOLEAN, NEW d \in Delays,
             StartWork(i, s, request, allowOverlap, d)
      PROVE ConflictsAreExplained'
  <2>. DEFINE Granted(c) == /\ c.scope \in request
                            /\ c.intent = i /\ c.repository = root
                            /\ c.override <=> allowOverlap /\ HasBlockingOverlap(request, d)
  <2>1. \A c \in claims' : c \in claims \/ Granted(c)
    <3>1. \A scope \in request :
            Granted([intent |-> i, session |-> s, repository |-> root, scope |-> scope,
                     left |-> ScopeLease - d, age |-> d,
                     override |-> allowOverlap /\ HasBlockingOverlap(request, d),
                     revived |-> FALSE])
      OBVIOUS
    <3>. HIDE DEF Granted
    <3>. QED
      BY <1>3, <3>1 DEF StartWork
  <2>2. ASSUME NEW c \in claims', NEW e \in claims, Granted(c),
               c.repository = e.repository, Live(e),
               Blocking(c.scope, e.scope)
        PROVE c.override
    <3>1. Unexpired(e, d)
      BY <2>2 DEF Live, Unexpired, Delays, TypeOK, ClaimRow, Lapsed
    <3>2. HasBlockingOverlap(request, d)
      BY <2>2, <3>1 DEF HasBlockingOverlap, ClaimsBelongToOpenWork
    <3>. QED
      BY <1>3, <2>2, <3>2 DEF StartWork
  <2>3. \A c, e \in claims' : c.scope \in Scope /\ e.scope \in Scope
    BY NextTypeOK DEF TypeOK, ClaimRow
  <2>4. ASSUME NEW c \in claims', NEW e \in claims', Conflicting(c, e)
        PROVE \E x \in {c, e} : x.override \/ x.revived
    <3>1. CASE c \in claims /\ e \in claims
      BY <2>4, <3>1 DEF ConflictsAreExplained
    <3>2. CASE Granted(c) /\ e \in claims
      BY <2>2, <2>4, <3>2 DEF Conflicting
    <3>3. CASE c \in claims /\ Granted(e)
      BY <2>2, <2>3, <2>4, <3>3, BlockingSymmetric DEF Conflicting
    <3>4. CASE Granted(c) /\ Granted(e)
      BY <2>4, <3>4 DEF Conflicting
    <3>. QED
      BY <2>1, <3>1, <3>2, <3>3, <3>4
  <2>. QED
    BY <2>4 DEF ConflictsAreExplained, Conflicting, Live, Unexpired
<1>4. CASE Tick
  <2>1. ASSUME NEW x \in claims'
        PROVE  \E c \in claims :
                  /\ x.intent = c.intent /\ x.scope = c.scope
                  /\ x.repository = c.repository /\ x.override = c.override
                  /\ c.revived => x.revived
                  /\ Live(x) => Live(c) \/ x.revived
    <3>1. PICK c \in claims : x = Aged(c)
      BY <1>4 DEF Tick
    <3>2. c \in ClaimRow
      BY DEF TypeOK
    <3>3. c.left \in Int /\ x.left \in Int /\ x.left <= c.left
      BY <3>1, <3>2, AgedRow, CoordinationAssumption DEF ClaimRow, Lapsed
    <3>. QED
      BY <3>1, <3>2, <3>3, AgedRow DEF Live, Unexpired
  <2>. QED
    BY <2>1 DEF ConflictsAreExplained, Conflicting
<1>5. CASE UNCHANGED vars
  BY <1>1, <1>5 DEF vars
<1>. QED
  BY <1>1, <1>2, <1>3, <1>4, <1>5
  DEF Next, LinkPrimary, StartSession, CloseSession, RevokeSponsor, AttachWorkspace, UpdateStatus

\* The inductive invariant behind the theorems about claims.
LeaseInv == TypeOK /\ ClaimsBelongToOpenWork /\ OneLeasePerIntent /\ ConflictsAreExplained

LEMMA LeaseInvariant == Spec => []LeaseInv
<1>1. Init => LeaseInv
  BY InitTypeOK
  DEF Init, LeaseInv, ClaimsBelongToOpenWork, OneLeasePerIntent, ConflictsAreExplained
<1>2. LeaseInv /\ [Next]_vars => LeaseInv'
  BY NextTypeOK, NextOpenWork, NextOneLease, NextExplained DEF LeaseInv
<1>. QED
  BY <1>1, <1>2, PTL DEF Spec

\* UpdateStatus releases the claims of an intent in the transaction that ends
\* it, and no other transaction creates or keeps a claim of a finished intent.
THEOREM FinishedWorkHoldsNoClaim == Spec => []ClaimsBelongToOpenWork
BY LeaseInvariant, PTL DEF LeaseInv

\* The claims of one intent are always held by one session under one lease.
THEOREM IntentsAreNeverHalfCovered == Spec => []OneLeasePerIntent
BY LeaseInvariant, PTL DEF LeaseInv

\* Whatever the lock waits, two live claims of different intents block each
\* other only after an override or a renewal of a lease that had run out.
THEOREM EveryConflictIsExplained == Spec => []ConflictsAreExplained
BY LeaseInvariant, PTL DEF LeaseInv

----------------------------------------------------------------------------
(* What a step may not do to claims and worktrees. *)

\* Only a heartbeat of the holding session lengthens a lease.
LEMMA NextDrains ==
    ASSUME LeaseInv, [Next]_vars,
           NEW c \in claims, NEW e \in claims',
           c.intent = e.intent, c.scope = e.scope, ~IsActive(c.session)
    PROVE  e.left <= c.left
<1>. USE DEF LeaseInv
<1>1. c \in ClaimRow /\ c.left \in Int
  BY CoordinationAssumption DEF TypeOK, ClaimRow, Lapsed
<1>2. ASSUME e \in claims PROVE e.left <= c.left
  BY <1>1, <1>2 DEF OneLeasePerIntent
<1>3. ASSUME NEW s \in Sessions, NEW d \in Delays, Heartbeat(s, d) PROVE e.left <= c.left
  <2>1. PICK x \in claims : e = IF x.session = s THEN Renewed(x, d) ELSE x
    BY <1>3 DEF Heartbeat
  <2>2. x.intent = c.intent /\ x.scope = c.scope
    BY <2>1, RenewedRow DEF TypeOK
  <2>3. x = c
    BY <2>2 DEF OneLeasePerIntent
  <2>4. c.session # s
    BY <1>3 DEF Heartbeat, Addressable
  <2>. QED
    BY <1>1, <2>1, <2>3, <2>4
<1>4. CASE Tick
  <2>1. PICK x \in claims : e = Aged(x)
    BY <1>4 DEF Tick
  <2>2. x.intent = c.intent /\ x.scope = c.scope
    BY <2>1, AgedRow DEF TypeOK
  <2>3. x = c
    BY <2>2 DEF OneLeasePerIntent
  <2>. QED
    BY <1>1, <2>1, <2>3, AgedRow
<1>5. ASSUME NEW i \in Intents, NEW s \in Sessions, NEW request \in Requests,
             NEW allowOverlap \in BOOLEAN, NEW d \in Delays,
             StartWork(i, s, request, allowOverlap, d)
      PROVE e.left <= c.left
  <2>1. c.intent # i
    BY <1>5 DEF StartWork, ClaimsBelongToOpenWork, IsOpen, Absent
  <2>2. e \in claims \/ e.intent = i
    BY <1>5 DEF StartWork
  <2>. QED
    BY <1>2, <2>1, <2>2
<1>6. CASE UNCHANGED vars
  BY <1>2, <1>6 DEF vars
<1>. QED
  BY <1>2, <1>3, <1>4, <1>5, <1>6
  DEF Next, LinkPrimary, StartSession, CloseSession, RevokeSponsor, AttachWorkspace, UpdateStatus

\* Claims left behind by a replaced or revoked session run out: no transaction
\* of anybody lengthens their lease.
THEOREM OrphanedClaimsRunOut == Spec => LostClaimsOnlyDrain
<1>1. LeaseInv /\ [Next]_vars =>
        [\A c \in claims, e \in claims' :
            /\ c.intent = e.intent /\ c.scope = e.scope
            /\ ~IsActive(c.session)
            => e.left <= c.left]_vars
  BY NextDrains
<1>. QED
  BY <1>1, LeaseInvariant, PTL DEF Spec, LostClaimsOnlyDrain

\* Attaching refuses a frozen worktree and a status change freezes or archives.
LEMMA NextFrozen ==
    ASSUME TypeOK, [Next]_vars, NEW i \in Intents, worktree[i] = "frozen"
    PROVE  worktree'[i] \in {"frozen", "archived"}
<1>1. ASSUME NEW j \in Intents, NEW s \in Sessions, NEW allowAll \in BOOLEAN,
             NEW d \in Delays, AttachWorkspace(j, s, allowAll, d)
      PROVE worktree'[i] \in {"frozen", "archived"}
  BY <1>1 DEF AttachWorkspace, TypeOK
<1>2. ASSUME NEW j \in Intents, NEW s \in Sessions, NEW allowAll \in BOOLEAN,
             NEW d \in Delays,
             NEW to \in Statuses,
             UpdateStatus(j, s, to, allowAll, d)
      PROVE worktree'[i] \in {"frozen", "archived"}
  BY <1>2 DEF UpdateStatus, TypeOK
<1>. QED
  BY <1>1, <1>2
  DEF Next, vars, LinkPrimary, StartSession, Heartbeat, CloseSession, RevokeSponsor,
      StartWork, Tick

\* A worktree that was frozen for submission is never handed out again.
THEOREM FrozenIsFinal == Spec => FrozenStaysFrozen
<1>1. TypeOK /\ [Next]_vars =>
        [\A i \in Intents :
            worktree[i] = "frozen" => worktree'[i] \in {"frozen", "archived"}]_vars
  BY NextFrozen
<1>. QED
  BY <1>1, TypeCorrect, PTL DEF Spec, FrozenStaysFrozen

\* A step that finishes an intent archives its worktree, and a finished intent
\* gets no other.
LEMMA NextArchived ==
    TypeOK /\ FinishedWorkIsArchived /\ [Next]_vars => FinishedWorkIsArchived'
<1>. SUFFICES ASSUME TypeOK, FinishedWorkIsArchived, [Next]_vars
              PROVE FinishedWorkIsArchived'
  OBVIOUS
<1>1. ASSUME NEW i \in Intents, NEW s \in Sessions, NEW request \in Requests,
             NEW allowOverlap \in BOOLEAN, NEW d \in Delays,
             StartWork(i, s, request, allowOverlap, d)
      PROVE FinishedWorkIsArchived'
  <2>1. \A j \in Intents : j # i => intent'[j] = intent[j]
    BY <1>1 DEF StartWork, TypeOK
  <2>2. intent'[i].status = "active"
    BY <1>1 DEF StartWork, TypeOK
  <2>. QED
    BY <1>1, <2>1, <2>2 DEF StartWork, FinishedWorkIsArchived, Terminal
<1>2. ASSUME NEW i \in Intents, NEW s \in Sessions, NEW allowAll \in BOOLEAN,
             NEW d \in Delays, AttachWorkspace(i, s, allowAll, d)
      PROVE FinishedWorkIsArchived'
  BY <1>2 DEF AttachWorkspace, FinishedWorkIsArchived, IsOpen, Terminal, TypeOK
<1>3. ASSUME NEW i \in Intents, NEW s \in Sessions, NEW allowAll \in BOOLEAN,
             NEW d \in Delays,
             NEW to \in Statuses,
             UpdateStatus(i, s, to, allowAll, d)
      PROVE FinishedWorkIsArchived'
  <2>1. \A j \in Intents : j # i =>
            intent'[j] = intent[j] /\ worktree'[j] = worktree[j]
    BY <1>3 DEF UpdateStatus, TypeOK
  <2>2. intent'[i].status = to
    BY <1>3 DEF UpdateStatus, TypeOK, IntentRow
  <2>3. to \in Terminal => worktree'[i] \in {"absent", "archived"}
    BY <1>3 DEF UpdateStatus, TypeOK, Terminal
  <2>. QED
    BY <2>1, <2>2, <2>3 DEF FinishedWorkIsArchived
<1>. QED
  BY <1>1, <1>2, <1>3
  DEF Next, vars, FinishedWorkIsArchived, LinkPrimary, StartSession, Heartbeat,
      CloseSession, RevokeSponsor, Tick

\* A finished intent keeps no usable worktree.
THEOREM FinishedWorkKeepsNoWorktree == Spec => []FinishedWorkIsArchived
<1>1. Init => FinishedWorkIsArchived
  BY DEF Init, FinishedWorkIsArchived
<1>. QED
  BY <1>1, InitTypeOK, NextTypeOK, NextArchived, PTL DEF Spec
=============================================================================
