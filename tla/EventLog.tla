------------------------------ MODULE EventLog ------------------------------
(***************************************************************************)
(* The durable events of one project and the SSE streams that read them    *)
(* (appendEvent, internal/platform/eventlog, handleStreamEvents and        *)
(* web/src/realtime).                                                      *)
(*                                                                         *)
(* A transaction that appends an event updates the project's counter row   *)
(* and keeps the row lock until it ends.  The handler of a stream queries  *)
(* the committed events after its cursor and writes them to a connection   *)
(* that may break at any moment; the browser reconnects with the last id   *)
(* it processed.                                                           *)
(*                                                                         *)
(* Operators named for a mistake are what the code would be with it; they  *)
(* show that the properties can tell the difference.                       *)
(***************************************************************************)
EXTENDS Integers, Sequences, FiniteSets

CONSTANTS Commands,    \* transactions that append events
          Readers,     \* browsers that follow the project
          None,
          MaxAppends,  \* the most events one transaction appends (handoff.offer: 2)
          BatchLimit,  \* the rows one query returns (100)
          WireLimit    \* the messages a connection buffers before a write blocks

ASSUME EventLogAssumption ==
    /\ None \notin Commands
    /\ IsFiniteSet(Commands)
    /\ MaxAppends \in Nat \ {0}
    /\ BatchLimit \in Nat \ {0}
    /\ WireLimit \in Nat \ {0}

VARIABLES counter,    \* project_event_counters.last_sequence
          holder,     \* the transaction that holds the counter row lock
          pending,    \* sequences an open transaction has inserted
          finished,   \* transactions that have committed or rolled back
          events,     \* platform.events: the committed event of each sequence
          granted,    \* whether the reader may see the project
          conn,       \* the reader's connection
          due,        \* an authorization tick is waiting
          after,      \* sequence of the last event the handler wrote
          batch,      \* sequences it has read and not written
          wire,       \* ids on their way to the browser
          cursor,     \* the id the browser will resume from
          seen        \* the ids the browser has processed, in order

logVars == <<counter, holder, pending, finished, events>>
handlerVars == <<due, after, batch>>
clientVars == <<cursor, seen>>
vars == <<logVars, granted, conn, handlerVars, wire, clientVars>>

TypeOK ==
    /\ counter \in Nat
    /\ holder \in Commands \cup {None}
    /\ pending \in [Commands -> SUBSET (Nat \ {0})]
    /\ finished \subseteq Commands
    /\ DOMAIN events \subseteq Nat \ {0}
    /\ \A n \in DOMAIN events : events[n] \in Commands \X Nat
    /\ granted \in [Readers -> BOOLEAN]
    /\ conn \in [Readers -> {"none", "open", "ended"}]
    /\ due \in [Readers -> BOOLEAN]
    /\ after \in [Readers -> Nat]
    /\ batch \in [Readers -> SUBSET (Nat \ {0})]
    /\ wire \in [Readers -> Seq(Nat \ {0})] /\ \A r \in Readers : Len(wire[r]) <= WireLimit
    /\ cursor \in [Readers -> Nat]
    /\ seen \in [Readers -> Seq(Nat \ {0})]

Init ==
    /\ counter = 0
    /\ holder = None
    /\ pending = [c \in Commands |-> {}]
    /\ finished = {}
    /\ events = <<>>
    /\ granted = [r \in Readers |-> TRUE]
    /\ conn = [r \in Readers |-> "none"]
    /\ due = [r \in Readers |-> FALSE]
    /\ after = [r \in Readers |-> 0]
    /\ batch = [r \in Readers |-> {}]
    /\ wire = [r \in Readers |-> <<>>]
    /\ cursor = [r \in Readers |-> 0]
    /\ seen = [r \in Readers |-> <<>>]

----------------------------------------------------------------------------
(* Transactions. *)

AppendWithoutWaiting(c) ==
    /\ c \notin finished
    /\ Cardinality(pending[c]) < MaxAppends
    /\ counter' = counter + 1
    /\ holder' = c
    /\ pending' = [pending EXCEPT ![c] = @ \cup {counter + 1}]
    /\ UNCHANGED <<finished, events, granted, conn, handlerVars, wire, clientVars>>

\* appendEvent: the update of the counter row waits for the transaction that
\* updated it before to end.
AppendEvent(c) ==
    /\ c \notin finished
    /\ holder \in {None, c}
    /\ Cardinality(pending[c]) < MaxAppends
    /\ counter' = counter + 1
    /\ holder' = c
    /\ pending' = [pending EXCEPT ![c] = @ \cup {counter + 1}]
    /\ UNCHANGED <<finished, events, granted, conn, handlerVars, wire, clientVars>>

\* The place of sequence n among the events of its transaction.
Place(c, n) == Cardinality({m \in pending[c] : m <= n})

Commit(c) ==
    /\ pending[c] # {}
    /\ events' = [n \in DOMAIN events \cup pending[c] |->
                     IF n \in pending[c] THEN <<c, Place(c, n)>> ELSE events[n]]
    /\ finished' = finished \cup {c}
    /\ pending' = [pending EXCEPT ![c] = {}]
    /\ holder' = None
    /\ UNCHANGED <<counter, granted, conn, handlerVars, wire, clientVars>>

RollbackKeepingCounter(c) ==
    /\ c \notin finished
    /\ finished' = finished \cup {c}
    /\ pending' = [pending EXCEPT ![c] = {}]
    /\ holder' = IF holder = c THEN None ELSE holder
    /\ UNCHANGED <<counter, events, granted, conn, handlerVars, wire, clientVars>>

\* An error, a crash or a lost connection before the commit: the counter row
\* has the value it had before.
Rollback(c) ==
    /\ c \notin finished
    /\ counter' = counter - Cardinality(pending[c])
    /\ finished' = finished \cup {c}
    /\ pending' = [pending EXCEPT ![c] = {}]
    /\ holder' = IF holder = c THEN None ELSE holder
    /\ UNCHANGED <<events, granted, conn, handlerVars, wire, clientVars>>

----------------------------------------------------------------------------
(* Access to the project. *)

Revoke(r) ==
    /\ granted[r]
    /\ granted' = [granted EXCEPT ![r] = FALSE]
    /\ UNCHANGED <<logVars, conn, handlerVars, wire, clientVars>>

Grant(r) ==
    /\ ~granted[r]
    /\ granted' = [granted EXCEPT ![r] = TRUE]
    /\ UNCHANGED <<logVars, conn, handlerVars, wire, clientVars>>

----------------------------------------------------------------------------
(* handleStreamEvents. *)

\* A handler begins with no tick and no page, and leaves nothing behind.
Handler(r, start) ==
    /\ due' = [due EXCEPT ![r] = FALSE]
    /\ after' = [after EXCEPT ![r] = start]
    /\ batch' = [batch EXCEPT ![r] = {}]

OpenAtTheEnd(r) ==
    /\ conn[r] = "none"
    /\ granted[r]
    /\ conn' = [conn EXCEPT ![r] = "open"]
    /\ Handler(r, Cardinality(DOMAIN events))
    /\ UNCHANGED <<logVars, granted, wire, clientVars>>

\* The browser connects with its cursor as Last-Event-ID.  A reader without
\* access is refused before the stream starts.
Open(r) ==
    /\ conn[r] = "none"
    /\ granted[r]
    /\ conn' = [conn EXCEPT ![r] = "open"]
    /\ Handler(r, cursor[r])
    /\ UNCHANGED <<logVars, granted, wire, clientVars>>

AuthorizationTick(r) ==
    /\ conn[r] = "open"
    /\ ~due[r]
    /\ due' = [due EXCEPT ![r] = TRUE]
    /\ UNCHANGED <<logVars, granted, conn, after, batch, wire, clientVars>>

CheckedOnceAtOpen(r) == TRUE

\* checkAuthorization: a waiting tick is served by looking the access up again.
\* The check and the query or write that follows it are one step.
Checked(r) == due[r] => granted[r]

\* WHERE project_sequence > start ORDER BY project_sequence LIMIT BatchLimit
Page(sequences, start) ==
    LET later == {n \in sequences : n > start}
    IN  {n \in later : Cardinality({m \in later : m < n}) < BatchLimit}

\* The handler queries again only when it has written the whole page.
List(r) ==
    /\ conn[r] = "open"
    /\ Checked(r)
    /\ batch[r] = {}
    /\ due' = [due EXCEPT ![r] = FALSE]
    /\ batch' = [batch EXCEPT ![r] = Page(DOMAIN events, after[r])]
    /\ UNCHANGED <<logVars, granted, conn, after, wire, clientVars>>

\* A write blocks while the buffers of the connection are full.
Write(r) ==
    /\ conn[r] = "open"
    /\ Checked(r)
    /\ Len(wire[r]) < WireLimit
    /\ \E n \in batch[r] :
          /\ \A m \in batch[r] : n <= m
          /\ wire' = [wire EXCEPT ![r] = Append(@, n)]
          /\ after' = [after EXCEPT ![r] = n]
          /\ batch' = [batch EXCEPT ![r] = @ \ {n}]
    /\ due' = [due EXCEPT ![r] = FALSE]
    /\ UNCHANGED <<logVars, granted, conn, clientVars>>

\* The handler returns; what it has written may still arrive.
HandlerReturns(r) ==
    /\ conn[r] = "open"
    /\ conn' = [conn EXCEPT ![r] = "ended"]
    /\ Handler(r, 0)
    /\ UNCHANGED <<logVars, granted, wire, clientVars>>

Refuse(r) == ~Checked(r) /\ HandlerReturns(r)

\* Server shutdown, a failed query, a write that met its deadline.
EndStream(r) == HandlerReturns(r)

----------------------------------------------------------------------------
(* useWorkspaceEvents. *)

Receive(r) ==
    /\ wire[r] # <<>>
    /\ wire' = [wire EXCEPT ![r] = Tail(@)]
    /\ cursor' = [cursor EXCEPT ![r] = Head(wire[r])]
    /\ seen' = [seen EXCEPT ![r] = Append(@, Head(wire[r]))]
    /\ UNCHANGED <<logVars, granted, conn, handlerVars>>

\* The browser reads the end of a stream it has drained.
EndOfStream(r) ==
    /\ conn[r] = "ended"
    /\ wire[r] = <<>>
    /\ conn' = [conn EXCEPT ![r] = "none"]
    /\ UNCHANGED <<logVars, granted, handlerVars, wire, clientVars>>

DropKeepingBuffer(r) ==
    /\ conn[r] # "none"
    /\ conn' = [conn EXCEPT ![r] = "none"]
    /\ Handler(r, 0)
    /\ UNCHANGED <<logVars, granted, wire, clientVars>>

\* The connection breaks, and what was on its way is lost.
Drop(r) ==
    /\ conn[r] # "none"
    /\ conn' = [conn EXCEPT ![r] = "none"]
    /\ Handler(r, 0)
    /\ wire' = [wire EXCEPT ![r] = <<>>]
    /\ UNCHANGED <<logVars, granted, clientVars>>

\* Showing other projects aborts the connection and clears cursor and events.
Reload(r) ==
    /\ conn' = [conn EXCEPT ![r] = "none"]
    /\ Handler(r, 0)
    /\ wire' = [wire EXCEPT ![r] = <<>>]
    /\ cursor' = [cursor EXCEPT ![r] = 0]
    /\ seen' = [seen EXCEPT ![r] = <<>>]
    /\ UNCHANGED <<logVars, granted>>

Serve(r) == Open(r) \/ List(r) \/ Write(r) \/ Refuse(r)
Browse(r) == Receive(r) \/ EndOfStream(r)
Interrupt(r) == EndStream(r) \/ Drop(r) \/ Reload(r)

Next ==
    \/ \E c \in Commands : AppendEvent(c) \/ Commit(c) \/ Rollback(c)
    \/ \E r \in Readers : Revoke(r) \/ Grant(r) \/ AuthorizationTick(r)
    \/ \E r \in Readers : Serve(r) \/ Browse(r) \/ Interrupt(r)

Spec == Init /\ [][Next]_vars

\* The handler loops, the browser reads what arrives and reconnects, and the
\* ticker ticks.  Nobody has to append, and connections may break for ever.
FairSpec ==
    /\ Spec
    /\ \A r \in Readers : /\ WF_vars(Serve(r))
                          /\ WF_vars(Browse(r))
                          /\ WF_vars(AuthorizationTick(r))

----------------------------------------------------------------------------
\* The committed sequences have no gaps, also after rollbacks, so a reader
\* that has event n needs no later look at what comes before it.
GaplessLog == DOMAIN events = 1..(counter - Cardinality(UNION {pending[c] : c \in Commands}))

\* What a browser has processed is exactly the beginning of the log: no event
\* is skipped or repeated by paging, broken connections or the order in which
\* transactions committed.
NothingSkipped ==
    \A r \in Readers : /\ seen[r] = [n \in 1..cursor[r] |-> n]
                       /\ 1..cursor[r] \subseteq DOMAIN events

\* ADR-0002: the sequence "define el orden recuperable público".  The log and
\* its streams are an append-only feed that each reader receives in order.
Feed == INSTANCE EventFeed WITH
    log <- events,
    received <- [r \in Readers |-> [n \in 1..Len(seen[r]) |-> events[seen[r][n]]]]

ImplementsFeed == Feed!Spec

\* An event that was committed reaches every reader who keeps access and is
\* not interrupted for ever, without any notification.
EventsArrive ==
    \A r \in Readers :
        \/ []<><<Interrupt(r)>>_vars
        \/ []<>(~granted[r])
        \/ \A n \in 1..(MaxAppends * Cardinality(Commands)) :
               (n \in DOMAIN events) ~> (\E k \in DOMAIN seen[r] : seen[r][k] = n)

\* A reader who has lost access for good ends up with no stream: an open one
\* is cut at an authorization tick and no new one is accepted.
RevokedStreamsEnd ==
    \A r \in Readers : <>[](~granted[r]) => <>[](conn[r] = "none")
=============================================================================
