--------------------------- MODULE EventLogProofs ---------------------------
(***************************************************************************)
(* The log has no gaps and no reader skips or repeats an event, for every  *)
(* number of transactions and readers and every page and buffer size; the  *)
(* log and its streams implement EventFeed; and the streams of the project *)
(* directory that are being followed are those of a page that is there.    *)
(***************************************************************************)
EXTENDS MCEventLog, FiniteSetTheorems, TLAPS

\* The first k sequences are published, and the transaction that holds the
\* counter row has the ones after them.
Published(k) ==
    /\ k <= counter
    /\ DOMAIN events = 1..k
    /\ \A c \in Commands : pending[c] = IF c = holder THEN (k + 1)..counter ELSE {}
    /\ holder = None => counter = k

\* What the browser has, what is on its way and what the handler still holds
\* continue each other.
StreamInOrder(r, k) ==
    /\ seen[r] = [n \in 1..cursor[r] |-> n]
    /\ \A n \in 1..Len(wire[r]) : wire[r][n] = cursor[r] + n
    /\ cursor[r] + Len(wire[r]) <= k
    /\ conn[r] = "none" => wire[r] = <<>>
    /\ conn[r] = "open" => after[r] = cursor[r] + Len(wire[r])
    /\ conn[r] # "open" => batch[r] = {}
    /\ batch[r] \subseteq (after[r] + 1)..k
    /\ \A n \in batch[r], m \in Nat : after[r] < m /\ m < n => m \in batch[r]

LogInv ==
    \E k \in Nat : Published(k) /\ \A r \in Readers : StreamInOrder(r, k)

----------------------------------------------------------------------------
(* The types. *)

LEMMA PlaceIsNat ==
    ASSUME TypeOK, NEW c \in Commands, NEW n \in Nat
    PROVE  Place(c, n) \in Nat
<1>1. {m \in pending[c] : m <= n} \subseteq 1..n
  BY DEF TypeOK
<1>2. IsFiniteSet(1..n)
  <2>1. 1 \in Int /\ n \in Int
    OBVIOUS
  <2>. QED
    BY <2>1, FS_Interval
<1>3. IsFiniteSet({m \in pending[c] : m <= n})
  BY <1>1, <1>2, FS_Subset
<1>. QED
  BY <1>3, FS_CardinalityType DEF Place

\* The rollback takes back what the transaction added to the counter.
LEMMA RollbackRestores ==
    ASSUME TypeOK, NEW k \in Nat, Published(k), NEW c \in Commands
    PROVE  counter - Cardinality(pending[c]) = IF c = holder THEN k ELSE counter
<1>1. Cardinality({}) = 0 /\ counter \in Nat
  BY FS_EmptySet DEF TypeOK
<1>2. CASE c = holder
  <2>1. pending[c] = (k + 1)..counter
    BY <1>2 DEF Published
  <2>2. k + 1 \in Int /\ counter \in Int /\ k <= counter
    BY DEF Published, TypeOK
  <2>3. Cardinality((k + 1)..counter) = IF k + 1 > counter THEN 0 ELSE counter - (k + 1) + 1
    BY <2>2, FS_Interval
  <2>. QED
    BY <1>2, <2>1, <2>2, <2>3
<1>3. CASE c # holder
  <2>1. pending[c] = {}
    BY <1>3 DEF Published
  <2>. QED
    BY <1>1, <1>3, <2>1
<1>. QED
  BY <1>2, <1>3

LEMMA TypesOfTheLog ==
    ASSUME TypeOK, LogInv, NEW c \in Commands,
           AppendEvent(c) \/ Commit(c) \/ Rollback(c)
    PROVE  TypeOK'
<1>. USE DEF logVars, handlerVars, clientVars
<1>1. CASE AppendEvent(c)
  BY <1>1 DEF AppendEvent, TypeOK
<1>2. CASE Commit(c)
  <2>1. \A n \in DOMAIN events' : n \in Nat \ {0} /\ events'[n] \in Commands \X Nat
    BY <1>2, PlaceIsNat DEF Commit, TypeOK
  <2>2. pending' \in [Commands -> SUBSET (Nat \ {0})] /\ finished' \subseteq Commands
    BY <1>2 DEF Commit, TypeOK
  <2>. QED
    BY <1>2, <2>1, <2>2 DEF Commit, TypeOK
<1>3. CASE Rollback(c)
  <2>1. counter - Cardinality(pending[c]) \in Nat
    BY RollbackRestores DEF LogInv, TypeOK
  <2>. QED
    BY <1>3, <2>1 DEF Rollback, TypeOK
<1>. QED
  BY <1>1, <1>2, <1>3

LEMMA TypesOfTheStream ==
    ASSUME TypeOK, NEW r \in Readers,
           \/ Revoke(r) \/ Grant(r) \/ AuthorizationTick(r)
           \/ Open(r) \/ List(r) \/ HandlerReturns(r)
    PROVE  TypeOK'
<1>. USE DEF logVars, handlerVars, clientVars
<1>1. CASE Revoke(r)
  BY <1>1 DEF Revoke, TypeOK
<1>2. CASE Grant(r)
  BY <1>2 DEF Grant, TypeOK
<1>3. CASE AuthorizationTick(r)
  BY <1>3 DEF AuthorizationTick, TypeOK
<1>4. CASE Open(r)
  BY <1>4 DEF Open, Handler, TypeOK
<1>5. CASE List(r)
  BY <1>5 DEF List, Page, TypeOK
<1>6. CASE HandlerReturns(r)
  BY <1>6 DEF HandlerReturns, Handler, TypeOK
<1>. QED
  BY <1>1, <1>2, <1>3, <1>4, <1>5, <1>6

LEMMA TypesOfTheWire ==
    ASSUME TypeOK, NEW r \in Readers,
           Write(r) \/ Receive(r) \/ EndOfStream(r) \/ Drop(r) \/ Reload(r)
    PROVE  TypeOK'
<1>. USE DEF logVars, handlerVars, clientVars
<1>1. CASE Write(r)
  <2>1. PICK n \in batch[r] : /\ wire' = [wire EXCEPT ![r] = Append(@, n)]
                              /\ after' = [after EXCEPT ![r] = n]
                              /\ batch' = [batch EXCEPT ![r] = @ \ {n}]
                              /\ Len(wire[r]) < WireLimit
    BY <1>1 DEF Write
  <2>2. n \in Nat \ {0} /\ wire[r] \in Seq(Nat \ {0})
    BY DEF TypeOK
  <2>3. wire' \in [Readers -> Seq(Nat \ {0})]
    BY <2>1, <2>2 DEF TypeOK
  <2>4. \A q \in Readers : Len(wire'[q]) <= WireLimit
    BY <2>1, <2>2, EventLogAssumption DEF TypeOK
  <2>. QED
    BY <1>1, <2>1, <2>2, <2>3, <2>4 DEF Write, TypeOK
<1>2. CASE Receive(r)
  <2>1. /\ Head(wire[r]) \in Nat \ {0}
        /\ wire[r] \in Seq(Nat \ {0})
        /\ Tail(wire[r]) \in Seq(Nat \ {0})
        /\ Len(Tail(wire[r])) <= WireLimit
    BY <1>2, EventLogAssumption DEF TypeOK, Receive
  <2>2. /\ wire' \in [Readers -> Seq(Nat \ {0})]
        /\ \A q \in Readers : Len(wire'[q]) <= WireLimit
    BY <1>2, <2>1 DEF TypeOK, Receive
  <2>3. seen' \in [Readers -> Seq(Nat \ {0})]
    BY <1>2, <2>1 DEF TypeOK, Receive
  <2>4. cursor' \in [Readers -> Nat]
    BY <1>2, <2>1 DEF TypeOK, Receive
  <2>. QED
    BY <1>2, <2>2, <2>3, <2>4 DEF Receive, TypeOK
<1>3. CASE EndOfStream(r)
  BY <1>3 DEF EndOfStream, TypeOK
<1>4. CASE Drop(r)
  <2>1. /\ wire' \in [Readers -> Seq(Nat \ {0})]
        /\ \A q \in Readers : Len(wire'[q]) <= WireLimit
    BY <1>4, EventLogAssumption DEF TypeOK, Drop
  <2>. QED
    BY <1>4, <2>1 DEF Drop, Handler, TypeOK
<1>5. CASE Reload(r)
  <2>1. /\ wire' \in [Readers -> Seq(Nat \ {0})]
        /\ \A q \in Readers : Len(wire'[q]) <= WireLimit
    BY <1>5, EventLogAssumption DEF TypeOK, Reload
  <2>2. seen' \in [Readers -> Seq(Nat \ {0})] /\ cursor' \in [Readers -> Nat]
    BY <1>5 DEF TypeOK, Reload
  <2>. QED
    BY <1>5, <2>1, <2>2 DEF Reload, Handler, TypeOK
<1>. QED
  BY <1>1, <1>2, <1>3, <1>4, <1>5

----------------------------------------------------------------------------
(* The log. *)

streamVars == <<conn, handlerVars, wire, clientVars>>

\* What is in order stays in order as the log grows and nobody touches it.
LEMMA OrderSurvivesGrowth ==
    ASSUME NEW r \in Readers, NEW k \in Nat, NEW l \in Nat, k <= l, TypeOK,
           StreamInOrder(r, k), UNCHANGED streamVars
    PROVE  StreamInOrder(r, l)'
<1>. USE DEF streamVars, handlerVars, clientVars
<1>1. cursor[r] + Len(wire[r]) <= l
  BY DEF StreamInOrder, TypeOK
<1>2. batch[r] \subseteq (after[r] + 1)..l
  BY DEF StreamInOrder, TypeOK
<1>. QED
  BY <1>1, <1>2 DEF StreamInOrder

LEMMA AppendingKeepsTheLog ==
    ASSUME TypeOK, LogInv, NEW c \in Commands,
           AppendEvent(c) \/ Commit(c) \/ Rollback(c)
    PROVE  LogInv'
<1>. PICK k \in Nat : Published(k) /\ \A r \in Readers : StreamInOrder(r, k)
  BY DEF LogInv
<1>1. UNCHANGED streamVars
  BY DEF AppendEvent, Commit, Rollback, streamVars, handlerVars, clientVars
<1>2. c # None
  BY EventLogAssumption
<1>3. ASSUME Published(k)'
      PROVE  LogInv'
  BY <1>1, <1>3, OrderSurvivesGrowth DEF LogInv
<1>4. CASE AppendEvent(c)
  <2>1. counter' = counter + 1 /\ holder' = c /\ events' = events /\ k <= counter
    BY <1>4 DEF AppendEvent, Published
  <2>2. pending[c] = (k + 1)..counter
    <3>1. CASE holder = c
      BY <3>1 DEF Published
    <3>2. CASE holder = None
      <4>1. pending[c] = {} /\ counter = k
        BY <1>2, <3>2 DEF Published
      <4>. QED
        BY <4>1
    <3>. QED
      BY <1>4, <3>1, <3>2 DEF AppendEvent
  <2>3. ASSUME NEW d \in Commands, d # c
        PROVE  pending[d] = {}
    <3>1. d # holder
      BY <1>2, <1>4, <2>3, EventLogAssumption DEF AppendEvent
    <3>. QED
      BY <3>1 DEF Published
  <2>4. pending' = [pending EXCEPT ![c] = ((k + 1)..counter) \cup {counter + 1}]
    BY <1>4, <2>2 DEF AppendEvent
  <2>5. ((k + 1)..counter) \cup {counter + 1} = (k + 1)..(counter + 1)
    BY <2>1 DEF TypeOK
  <2>6. \A d \in Commands : pending'[d] = IF d = c THEN (k + 1)..(counter + 1) ELSE {}
    BY <2>3, <2>4, <2>5 DEF TypeOK
  <2>7. Published(k)'
    BY <1>2, <2>1, <2>6 DEF Published, TypeOK
  <2>. QED
    BY <1>3, <2>7
<1>5. CASE Commit(c)
  <2>1. c = holder /\ k <= counter /\ counter \in Nat /\ DOMAIN events = 1..k
    BY <1>5 DEF Commit, Published, TypeOK
  <2>2. pending[c] = (k + 1)..counter
    BY <2>1 DEF Published
  <2>3. DOMAIN events' = 1..counter
    <3>1. DOMAIN events' = (1..k) \cup ((k + 1)..counter)
      BY <1>5, <2>1, <2>2 DEF Commit
    <3>. QED
      BY <2>1, <3>1
  <2>4. \A d \in Commands : pending'[d] = {}
    BY <1>5, <2>1 DEF Commit, Published, TypeOK
  <2>5. holder' = None /\ counter' = counter
    BY <1>5 DEF Commit
  <2>6. PICK l \in Nat : l = counter
    BY <2>1
  <2>7. Published(l)'
    <3>1. \A d \in Commands : d # holder'
      BY <2>5, EventLogAssumption
    <3>2. \A d \in Commands : pending'[d] = IF d = holder' THEN (l + 1)..counter' ELSE {}
      BY <2>4, <3>1
    <3>. QED
      BY <2>1, <2>3, <2>5, <2>6, <3>1, <3>2 DEF Published
  <2>. QED
    BY <1>1, <2>1, <2>6, <2>7, OrderSurvivesGrowth DEF LogInv
<1>6. CASE Rollback(c)
  <2>1. /\ counter' = IF c = holder THEN k ELSE counter
        /\ holder' = IF holder = c THEN None ELSE holder
        /\ pending' = [pending EXCEPT ![c] = {}]
        /\ events' = events
    BY <1>6, RollbackRestores DEF Rollback
  <2>2. ASSUME c = holder
        PROVE  Published(k)'
    <3>1. \A d \in Commands : pending'[d] = {}
      BY <2>1, <2>2 DEF Published, TypeOK
    <3>. QED
      BY <1>2, <2>1, <2>2, <3>1, EventLogAssumption DEF Published
  <2>3. ASSUME c # holder
        PROVE  Published(k)'
    <3>1. pending' = pending
      BY <2>1, <2>3 DEF Published, TypeOK
    <3>. QED
      BY <2>1, <2>3, <3>1 DEF Published
  <2>. QED
    BY <1>3, <2>2, <2>3
<1>. QED
  BY <1>4, <1>5, <1>6

----------------------------------------------------------------------------
(* The streams. *)

\* A page of the log leaves nothing out before its last event.
LEMMA PagesHaveNoHoles ==
    ASSUME NEW k \in Nat, NEW start \in Nat, NEW n \in Page(1..k, start),
           NEW m \in Nat, start < m, m < n
    PROVE  m \in Page(1..k, start)
<1>. DEFINE later == {j \in 1..k : j > start}
<1>1. n \in later /\ Cardinality({j \in later : j < n}) < BatchLimit
  BY DEF Page
<1>2. m \in later
  BY <1>1
<1>3. {j \in later : j < m} \subseteq {j \in later : j < n}
  BY <1>1, <1>2
<1>4. IsFiniteSet({j \in later : j < n})
  <2>1. 1 \in Int /\ k \in Int
    OBVIOUS
  <2>2. IsFiniteSet(1..k)
    BY <2>1, FS_Interval
  <2>. QED
    BY <2>2, FS_Subset
<1>5. /\ Cardinality({j \in later : j < m}) <= Cardinality({j \in later : j < n})
      /\ Cardinality({j \in later : j < m}) \in Nat
      /\ Cardinality({j \in later : j < n}) \in Nat
  BY <1>3, <1>4, FS_Subset, FS_CardinalityType
<1>. QED
  BY <1>1, <1>2, <1>5, EventLogAssumption DEF Page

\* A step of one reader leaves the log and the other readers alone.
LEMMA OneReaderMoves ==
    ASSUME TypeOK, NEW r \in Readers, NEW k \in Nat,
           Published(k), \A q \in Readers : StreamInOrder(q, k),
           UNCHANGED logVars, StreamInOrder(r, k)',
           \A q \in Readers \ {r} :
               /\ conn'[q] = conn[q] /\ after'[q] = after[q] /\ batch'[q] = batch[q]
               /\ wire'[q] = wire[q] /\ cursor'[q] = cursor[q] /\ seen'[q] = seen[q]
    PROVE  LogInv'
<1>1. Published(k)'
  BY DEF Published, logVars
<1>2. ASSUME NEW q \in Readers \ {r}
      PROVE  StreamInOrder(q, k)'
  BY <1>2 DEF StreamInOrder
<1>. QED
  BY <1>1, <1>2 DEF LogInv

LEMMA StreamingKeepsTheLog ==
    ASSUME TypeOK, LogInv, NEW r \in Readers,
           \/ Revoke(r) \/ Grant(r) \/ AuthorizationTick(r)
           \/ Open(r) \/ List(r) \/ HandlerReturns(r)
    PROVE  LogInv'
<1>. PICK k \in Nat : Published(k) /\ \A q \in Readers : StreamInOrder(q, k)
  BY DEF LogInv
<1>. USE DEF logVars, handlerVars, clientVars
<1>1. CASE Revoke(r) \/ Grant(r) \/ AuthorizationTick(r)
  <2>1. UNCHANGED <<logVars, conn, after, batch, wire, cursor, seen>>
    BY <1>1 DEF Revoke, Grant, AuthorizationTick
  <2>2. Published(k)'
    BY <2>1 DEF Published
  <2>3. ASSUME NEW q \in Readers
        PROVE  StreamInOrder(q, k)'
    BY <2>1, <2>3 DEF StreamInOrder
  <2>. QED
    BY <2>2, <2>3 DEF LogInv
<1>2. CASE Open(r)
  <2>1. /\ wire[r] = <<>> /\ wire' = wire /\ cursor' = cursor /\ seen' = seen
        /\ conn'[r] = "open" /\ after'[r] = cursor[r] /\ batch'[r] = {}
    BY <1>2 DEF Open, Handler, StreamInOrder, TypeOK
  <2>2. StreamInOrder(r, k)'
    BY <2>1 DEF StreamInOrder, TypeOK
  <2>. QED
    BY <1>2, <2>2, OneReaderMoves DEF Open, Handler, TypeOK
<1>3. CASE List(r)
  <2>1. /\ conn[r] = "open" /\ batch'[r] = Page(1..k, after[r])
        /\ UNCHANGED <<conn, after, wire, cursor, seen>>
    BY <1>3 DEF List, Published, TypeOK
  <2>2. Page(1..k, after[r]) \subseteq (after[r] + 1)..k
    BY DEF Page, TypeOK
  <2>3. \A n \in batch'[r], m \in Nat : after[r] < m /\ m < n => m \in batch'[r]
    BY <2>1, PagesHaveNoHoles DEF TypeOK
  <2>4. StreamInOrder(r, k)'
    BY <2>1, <2>2, <2>3 DEF StreamInOrder
  <2>. QED
    BY <1>3, <2>4, OneReaderMoves DEF List, TypeOK
<1>4. CASE HandlerReturns(r)
  <2>1. /\ wire' = wire /\ cursor' = cursor /\ seen' = seen
        /\ conn'[r] = "ended" /\ batch'[r] = {}
    BY <1>4 DEF HandlerReturns, Handler, TypeOK
  <2>2. StreamInOrder(r, k)'
    BY <2>1 DEF StreamInOrder
  <2>. QED
    BY <1>4, <2>2, OneReaderMoves DEF HandlerReturns, Handler, TypeOK
<1>. QED
  BY <1>1, <1>2, <1>3, <1>4

LEMMA TheWireKeepsTheLog ==
    ASSUME TypeOK, LogInv, NEW r \in Readers,
           Write(r) \/ Receive(r) \/ EndOfStream(r) \/ Drop(r) \/ Reload(r)
    PROVE  LogInv'
<1>. PICK k \in Nat : Published(k) /\ \A q \in Readers : StreamInOrder(q, k)
  BY DEF LogInv
<1>. USE DEF logVars, handlerVars, clientVars
<1>0. /\ wire[r] \in Seq(Nat \ {0}) /\ cursor[r] \in Nat /\ after[r] \in Nat
      /\ seen[r] \in Seq(Nat \ {0}) /\ batch[r] \subseteq Nat /\ Len(wire[r]) \in Nat
  BY DEF TypeOK
<1>7. StreamInOrder(r, k)
  OBVIOUS
<1>8. /\ \A n \in 1..Len(wire[r]) : wire[r][n] = cursor[r] + n
      /\ cursor[r] + Len(wire[r]) <= k
      /\ batch[r] \subseteq (after[r] + 1)..k
  BY <1>7 DEF StreamInOrder
<1>9. \A n \in batch[r], m \in Nat : after[r] < m /\ m < n => m \in batch[r]
  BY <1>7 DEF StreamInOrder
<1>1. CASE Write(r)
  <2>1. PICK n \in batch[r] : /\ \A m \in batch[r] : n <= m
                              /\ wire' = [wire EXCEPT ![r] = Append(@, n)]
                              /\ after' = [after EXCEPT ![r] = n]
                              /\ batch' = [batch EXCEPT ![r] = @ \ {n}]
    BY <1>1 DEF Write
  <2>2. n \in (after[r] + 1)..k
    BY <2>1 DEF StreamInOrder
  <2>3. n = after[r] + 1
    <3>1. ASSUME after[r] + 1 < n
          PROVE  FALSE
      <4>1. after[r] + 1 \in batch[r]
        BY <1>0, <1>9, <2>1, <2>2, <3>1
      <4>. QED
        BY <1>0, <2>1, <2>2, <3>1, <4>1
    <3>. QED
      BY <1>0, <2>2, <3>1
  <2>4. /\ conn'[r] = "open" /\ after[r] = cursor[r] + Len(wire[r])
        /\ cursor' = cursor /\ seen' = seen
        /\ wire'[r] = Append(wire[r], n) /\ after'[r] = n /\ batch'[r] = batch[r] \ {n}
    BY <1>1, <2>1 DEF Write, StreamInOrder, TypeOK
  <2>5. \A j \in 1..Len(wire'[r]) : wire'[r][j] = cursor[r] + j
    <3>1. ASSUME NEW j \in 1..Len(wire[r])
          PROVE  wire'[r][j] = cursor[r] + j
      BY <1>0, <1>8, <2>2, <2>4, <3>1
    <3>2. wire'[r][Len(wire[r]) + 1] = n /\ Len(wire'[r]) = Len(wire[r]) + 1
      BY <1>0, <2>2, <2>4
    <3>3. \A j \in 1..Len(wire'[r]) : j \in 1..Len(wire[r]) \/ j = Len(wire[r]) + 1
      BY <1>0, <3>2
    <3>4. n = cursor[r] + (Len(wire[r]) + 1)
      BY <1>0, <2>3, <2>4
    <3>. QED
      BY <3>1, <3>2, <3>3, <3>4
  <2>6. Len(wire'[r]) = Len(wire[r]) + 1
    BY <1>0, <2>2, <2>4
  <2>7. batch'[r] \subseteq (after'[r] + 1)..k
    BY <1>0, <1>8, <2>1, <2>2, <2>3, <2>4
  <2>8. \A j \in batch'[r], m \in Nat : after'[r] < m /\ m < j => m \in batch'[r]
    <3>1. SUFFICES ASSUME NEW j \in batch[r], j # n, NEW m \in Nat, n < m, m < j
                   PROVE  m \in batch[r] /\ m # n
      BY <2>4
    <3>2. j \in Nat /\ n \in Nat /\ after[r] < m
      BY <1>0, <2>2, <2>3, <3>1
    <3>. QED
      BY <1>9, <3>1, <3>2
  <2>9. StreamInOrder(r, k)'
    <3>1. seen'[r] = [j \in 1..cursor'[r] |-> j] /\ cursor'[r] = cursor[r]
      BY <1>7, <2>4 DEF StreamInOrder
    <3>2. n = cursor'[r] + Len(wire'[r]) /\ n <= k
      BY <1>0, <2>2, <2>3, <2>4, <2>6
    <3>. QED
      BY <2>4, <2>5, <2>7, <2>8, <3>1, <3>2 DEF StreamInOrder
  <2>. QED
    BY <1>1, <2>1, <2>9, OneReaderMoves DEF Write, TypeOK
<1>2. CASE Receive(r)
  <2>1. /\ wire[r] # <<>> /\ wire'[r] = Tail(wire[r]) /\ cursor'[r] = Head(wire[r])
        /\ seen'[r] = Append(seen[r], Head(wire[r]))
        /\ UNCHANGED <<conn, after, batch>>
    BY <1>2 DEF Receive, TypeOK
  <2>2. Len(wire[r]) \in Nat /\ Len(wire[r]) >= 1
    BY <1>0, <2>1
  <2>3. Head(wire[r]) = cursor[r] + 1
    <3>1. Head(wire[r]) = wire[r][1]
      BY <1>0, <2>1
    <3>. QED
      BY <1>0, <1>8, <2>2, <3>1
  <2>4. /\ Len(wire'[r]) = Len(wire[r]) - 1
        /\ \A j \in 1..Len(wire'[r]) : wire'[r][j] = wire[r][j + 1]
    BY <1>0, <2>1, <2>2
  <2>5. \A j \in 1..Len(wire'[r]) : wire'[r][j] = cursor'[r] + j
    <3>1. \A j \in 1..Len(wire'[r]) : j \in Int /\ j + 1 \in 1..Len(wire[r])
      BY <1>0, <2>4, SMTT(40)
    <3>2. \A j \in 1..Len(wire'[r]) : wire'[r][j] = cursor[r] + (j + 1)
      BY <1>8, <2>4, <3>1
    <3>. SUFFICES ASSUME NEW j \in 1..Len(wire'[r])
                  PROVE  wire'[r][j] = cursor'[r] + j
      OBVIOUS
    <3>3. wire'[r][j] = cursor[r] + (j + 1) /\ j \in Int
      BY <3>1, <3>2
    <3>4. cursor'[r] = cursor[r] + 1
      BY <2>1, <2>3
    <3>5. cursor[r] \in Int
      BY <1>0
    <3>6. cursor[r] + (j + 1) = (cursor[r] + 1) + j
      BY <3>3, <3>5
    <3>. QED
      BY <3>3, <3>4, <3>6
  <2>6. seen'[r] = [j \in 1..cursor'[r] |-> j]
    <3>1. seen[r] = [j \in 1..cursor[r] |-> j]
      BY <1>7 DEF StreamInOrder
    <3>2. Len(seen[r]) = cursor[r]
      BY <1>0, <3>1
    <3>. QED
      BY <1>0, <2>1, <2>3, <3>1, <3>2
  <2>7. StreamInOrder(r, k)'
    <3>1. cursor'[r] + Len(wire'[r]) = cursor[r] + Len(wire[r])
      BY <1>0, <2>1, <2>3, <2>4
    <3>2. conn'[r] # "none"
      BY <1>7, <2>1 DEF StreamInOrder
    <3>. QED
      BY <1>7, <1>8, <2>1, <2>5, <2>6, <3>1, <3>2 DEF StreamInOrder
  <2>. QED
    BY <1>2, <2>7, OneReaderMoves DEF Receive, TypeOK
<1>3. CASE EndOfStream(r)
  <2>1. /\ wire[r] = <<>> /\ batch[r] = {} /\ conn'[r] = "none"
        /\ UNCHANGED <<after, batch, wire, cursor, seen>>
    BY <1>3 DEF EndOfStream, StreamInOrder, TypeOK
  <2>2. StreamInOrder(r, k)'
    BY <2>1 DEF StreamInOrder
  <2>. QED
    BY <1>3, <2>2, OneReaderMoves DEF EndOfStream, TypeOK
<1>4. CASE Drop(r)
  <2>1. /\ conn'[r] = "none" /\ wire'[r] = <<>> /\ batch'[r] = {}
        /\ UNCHANGED <<cursor, seen>>
    BY <1>4 DEF Drop, Handler, TypeOK
  <2>2. cursor[r] <= k
    BY <1>0, <1>8
  <2>3. StreamInOrder(r, k)'
    BY <1>0, <1>7, <2>1, <2>2 DEF StreamInOrder
  <2>. QED
    BY <1>4, <2>3, OneReaderMoves DEF Drop, Handler, TypeOK
<1>5. CASE Reload(r)
  <2>1. /\ conn'[r] = "none" /\ wire'[r] = <<>> /\ batch'[r] = {}
        /\ cursor'[r] = 0 /\ seen'[r] = <<>>
    BY <1>5 DEF Reload, Handler, TypeOK
  <2>2. StreamInOrder(r, k)'
    BY <2>1 DEF StreamInOrder
  <2>. QED
    BY <1>5, <2>2, OneReaderMoves DEF Reload, Handler, TypeOK
<1>. QED
  BY <1>1, <1>2, <1>3, <1>4, <1>5

----------------------------------------------------------------------------
(* The invariant and what follows from it. *)

LEMMA InitiallyInOrder == Init => TypeOK /\ LogInv
<1>. SUFFICES ASSUME Init
              PROVE  TypeOK /\ LogInv
  OBVIOUS
<1>1. DOMAIN events = {}
  BY DEF Init
<1>2. TypeOK
  BY <1>1, EventLogAssumption DEF Init, TypeOK
<1>3. Published(0)
  BY <1>1, EventLogAssumption DEF Init, Published
<1>4. ASSUME NEW r \in Readers
      PROVE  StreamInOrder(r, 0)
  BY DEF Init, StreamInOrder
<1>. QED
  BY <1>2, <1>3, <1>4 DEF LogInv

LEMMA StepsKeepOrder == TypeOK /\ LogInv /\ [Next]_vars => (TypeOK /\ LogInv)'
<1>. SUFFICES ASSUME TypeOK, LogInv, [Next]_vars
              PROVE  (TypeOK /\ LogInv)'
  OBVIOUS
<1>1. ASSUME NEW c \in Commands, AppendEvent(c) \/ Commit(c) \/ Rollback(c)
      PROVE  (TypeOK /\ LogInv)'
  BY <1>1, TypesOfTheLog, AppendingKeepsTheLog
<1>2. ASSUME NEW r \in Readers,
             \/ Revoke(r) \/ Grant(r) \/ AuthorizationTick(r)
             \/ Open(r) \/ List(r) \/ HandlerReturns(r)
      PROVE  (TypeOK /\ LogInv)'
  BY <1>2, TypesOfTheStream, StreamingKeepsTheLog
<1>3. ASSUME NEW r \in Readers,
             Write(r) \/ Receive(r) \/ EndOfStream(r) \/ Drop(r) \/ Reload(r)
      PROVE  (TypeOK /\ LogInv)'
  BY <1>3, TypesOfTheWire, TheWireKeepsTheLog
<1>4. CASE UNCHANGED vars
  <2>1. TypeOK'
    BY <1>4 DEF vars, logVars, handlerVars, clientVars, TypeOK
  <2>2. PICK k \in Nat : Published(k) /\ \A q \in Readers : StreamInOrder(q, k)
    BY DEF LogInv
  <2>3. Published(k)'
    BY <1>4, <2>2 DEF vars, logVars, Published
  <2>4. ASSUME NEW q \in Readers
        PROVE  StreamInOrder(q, k)'
    BY <1>4, <2>2 DEF vars, handlerVars, clientVars, StreamInOrder
  <2>. QED
    BY <2>1, <2>3, <2>4 DEF LogInv
<1>. QED
  BY <1>1, <1>2, <1>3, <1>4 DEF Next, Serve, Browse, Interrupt, Refuse, EndStream

LEMMA AlwaysInOrder == Spec => [](TypeOK /\ LogInv)
<1>. QED
  BY InitiallyInOrder, StepsKeepOrder, PTL DEF Spec

\* Every action keeps every variable in its type; the counter does not go
\* below zero however transactions roll back, and a connection never buffers
\* more than its limit.
THEOREM TypeCorrect == Spec => []TypeOK
<1>. QED
  BY AlwaysInOrder, PTL

\* Rollbacks leave no hole in the order of committed events: the counter row
\* is held by whoever raised it until it ends (appendEvent).
THEOREM TheLogHasNoGaps == Spec => []GaplessLog
<1>1. TypeOK /\ LogInv => GaplessLog
  <2>. SUFFICES ASSUME TypeOK, LogInv
                PROVE  GaplessLog
    OBVIOUS
  <2>1. PICK k \in Nat : Published(k)
    BY DEF LogInv
  <2>2. counter - Cardinality(UNION {pending[c] : c \in Commands}) = k
    <3>1. CASE holder = None
      <4>1. UNION {pending[c] : c \in Commands} = {}
        BY <2>1, <3>1, EventLogAssumption DEF Published
      <4>2. Cardinality({}) = 0 /\ counter \in Nat /\ counter = k
        BY <2>1, <3>1, FS_EmptySet DEF Published, TypeOK
      <4>3. k \in Nat
        BY <2>1
      <4>4. Cardinality(UNION {pending[c] : c \in Commands}) = 0
        BY <4>1, <4>2, Zenon
      <4>. QED
        BY <4>2, <4>3, <4>4
    <3>2. CASE holder \in Commands
      <4>1. UNION {pending[c] : c \in Commands} = pending[holder]
        BY <2>1, <3>2 DEF Published
      <4>. QED
        BY <2>1, <3>2, <4>1, RollbackRestores
    <3>. QED
      BY <3>1, <3>2 DEF TypeOK
  <2>. QED
    BY <2>1, <2>2 DEF GaplessLog, Published
<1>. QED
  BY <1>1, AlwaysInOrder, PTL

\* However connections break and transactions interleave, a browser has
\* processed exactly the first events of the log, each once.
THEOREM ReadersSkipNothing == Spec => []NothingSkipped
<1>1. TypeOK /\ LogInv => NothingSkipped
  <2>. SUFFICES ASSUME TypeOK, LogInv, NEW r \in Readers
                PROVE  /\ seen[r] = [n \in 1..cursor[r] |-> n]
                       /\ 1..cursor[r] \subseteq DOMAIN events
    BY DEF NothingSkipped
  <2>1. PICK k \in Nat : Published(k) /\ StreamInOrder(r, k)
    BY DEF LogInv
  <2>2. cursor[r] \in Nat /\ Len(wire[r]) \in Nat /\ cursor[r] + Len(wire[r]) <= k
    BY <2>1 DEF StreamInOrder, TypeOK
  <2>. QED
    BY <2>1, <2>2 DEF StreamInOrder, Published
<1>. QED
  BY <1>1, AlwaysInOrder, PTL

----------------------------------------------------------------------------
(* The log implements the feed of ADR-0002. *)

\* What the mapping to the feed needs beyond LogInv: the table is a sequence,
\* and no transaction appends more than a command may.
FeedInv ==
    /\ events \in Seq(Commands \X Nat)
    /\ \A c \in Commands : Cardinality(pending[c]) <= MaxAppends

\* An open transaction has inserted as many events as it raised the counter.
LEMMA PendingSize ==
    ASSUME TypeOK, NEW k \in Nat, Published(k), NEW c \in Commands, pending[c] # {}
    PROVE  /\ c = holder /\ k < counter
           /\ pending[c] = (k + 1)..counter
           /\ Cardinality(pending[c]) = counter - k
<1>1. c = holder /\ pending[c] = (k + 1)..counter
  BY DEF Published
<1>2. counter \in Nat
  BY DEF TypeOK
<1>3. k < counter
  BY <1>1, <1>2
<1>4. Cardinality((k + 1)..counter) = IF k + 1 > counter THEN 0 ELSE counter - (k + 1) + 1
  <2>1. k + 1 \in Int /\ counter \in Int
    BY <1>2
  <2>. QED
    BY <2>1, FS_Interval
<1>. QED
  BY <1>1, <1>2, <1>3, <1>4

\* The n-th sequence of a transaction is the place of its n-th event.
LEMMA PlaceOfPending ==
    ASSUME TypeOK, NEW k \in Nat, Published(k), NEW c \in Commands,
           NEW n \in pending[c]
    PROVE  Place(c, n) = n - k
<1>1. pending[c] = (k + 1)..counter /\ counter \in Nat
  BY PendingSize DEF TypeOK
<1>2. n \in Nat /\ k + 1 <= n
  BY <1>1
<1>3. {m \in pending[c] : m <= n} = (k + 1)..n
  BY <1>1, <1>2
<1>4. Cardinality((k + 1)..n) = IF k + 1 > n THEN 0 ELSE n - (k + 1) + 1
  <2>1. k + 1 \in Int /\ n \in Int
    BY <1>2
  <2>. QED
    BY <2>1, FS_Interval
<1>. QED
  <2>1. Place(c, n) = Cardinality((k + 1)..n)
    BY <1>3 DEF Place
  <2>2. Cardinality((k + 1)..n) = n - (k + 1) + 1
    BY <1>2, <1>4
  <2>. QED
    BY <1>2, <2>1, <2>2

LEMMA SequenceIsFunction ==
    ASSUME NEW S, NEW s \in Seq(S)
    PROVE  s = [j \in 1..Len(s) |-> s[j]]
OBVIOUS

\* A commit appends the events of its transaction to the table, in the order
\* in which it inserted them.
LEMMA CommitAppends ==
    ASSUME TypeOK, LogInv, FeedInv, NEW c \in Commands, Commit(c)
    PROVE  \E n \in 1..MaxAppends :
              /\ events' = events \o [j \in 1..n |-> <<c, j>>]
              /\ events' \in Seq(Commands \X Nat)
<1>1. PICK k \in Nat : Published(k)
  BY DEF LogInv
<1>2. /\ k < counter /\ counter \in Nat
      /\ pending[c] = (k + 1)..counter /\ Cardinality(pending[c]) = counter - k
  BY <1>1, PendingSize DEF Commit, TypeOK
<1>. DEFINE n == counter - k
            new == [j \in 1..n |-> <<c, j>>]
<1>3. n \in Nat /\ n \in 1..MaxAppends /\ counter = k + n
  BY <1>2, EventLogAssumption DEF FeedInv
<1>4. events \in Seq(Commands \X Nat) /\ Len(events) = k /\ DOMAIN events = 1..k
  BY <1>1 DEF FeedInv, Published
<1>. HIDE DEF n
<1>5. new \in Seq(Commands \X Nat) /\ Len(new) = n
  BY <1>3
<1>6. events' = [j \in 1..(k + n) |-> IF j \in (k + 1)..(k + n) THEN <<c, j - k>> ELSE events[j]]
  <2>1. DOMAIN events \cup pending[c] = 1..(k + n)
    BY <1>2, <1>3, <1>4
  <2>2. events' = [j \in 1..(k + n) |-> IF j \in pending[c] THEN <<c, Place(c, j)>> ELSE events[j]]
    BY <2>1 DEF Commit
  <2>3. \A j \in pending[c] : Place(c, j) = j - k
    BY <1>1, PlaceOfPending
  <2>. QED
    BY <1>2, <1>3, <2>2, <2>3
<1>7. /\ events \o new \in Seq(Commands \X Nat) /\ Len(events \o new) = k + n
      /\ \A j \in 1..(k + n) : (events \o new)[j] = IF j <= k THEN events[j] ELSE new[j - k]
  BY <1>3, <1>4, <1>5, SMTT(40)
<1>8. events \o new = [j \in 1..(k + n) |-> (events \o new)[j]]
  <2>. HIDE DEF new
  <2>. QED
    BY <1>7, SequenceIsFunction
<1>9. \A j \in 1..(k + n) : (events \o new)[j] = events'[j]
  <2>. SUFFICES ASSUME NEW j \in 1..(k + n)
                PROVE  (events \o new)[j] = events'[j]
    OBVIOUS
  <2>0. j \in Int /\ k \in Int
    BY <1>3
  <2>1. CASE j <= k
    BY <1>3, <1>6, <1>7, <2>1
  <2>2. CASE j > k
    <3>1. j - k \in 1..n /\ j \in (k + 1)..(k + n)
      BY <1>3, <2>2
    <3>2. new[j - k] = <<c, j - k>>
      BY <3>1
    <3>3. (events \o new)[j] = new[j - k]
      <4>. HIDE DEF new
      <4>1. ~(j <= k)
        BY <2>0, <2>2
      <4>. QED
        BY <1>7, <4>1
    <3>. QED
      BY <1>6, <3>1, <3>2, <3>3
  <2>. QED
    <3>1. j <= k \/ j > k
      BY <2>0
    <3>. QED
      BY <2>1, <2>2, <3>1
<1>10. events' = events \o new
  BY <1>6, <1>8, <1>9
<1>. QED
  BY <1>3, <1>7, <1>10

LEMMA FeedInvHolds == TypeOK /\ LogInv /\ FeedInv /\ [Next]_vars => FeedInv'
<1>. SUFFICES ASSUME TypeOK, LogInv, FeedInv, [Next]_vars
              PROVE  FeedInv'
  OBVIOUS
<1>1. ASSUME NEW c \in Commands, AppendEvent(c)
      PROVE  FeedInv'
  <2>1. PICK k \in Nat : Published(k)
    BY DEF LogInv
  <2>2. events' = events /\ pending' = [pending EXCEPT ![c] = @ \cup {counter + 1}]
    BY <1>1 DEF AppendEvent
  <2>3. IsFiniteSet(pending[c])
    <3>1. CASE pending[c] = {}
      BY <3>1, FS_EmptySet
    <3>2. CASE pending[c] # {}
      <4>1. pending[c] = (k + 1)..counter /\ k + 1 \in Int /\ counter \in Int
        BY <2>1, <3>2, PendingSize DEF TypeOK
      <4>. QED
        BY <4>1, FS_Interval
    <3>. QED
      BY <3>1, <3>2
  <2>4. Cardinality(pending[c] \cup {counter + 1}) <= MaxAppends
    <3>1. Cardinality(pending[c]) \in Nat /\ Cardinality(pending[c]) < MaxAppends
      BY <1>1, <2>3, FS_CardinalityType DEF AppendEvent
    <3>2. Cardinality(pending[c] \cup {counter + 1}) \in {Cardinality(pending[c]), Cardinality(pending[c]) + 1}
      BY <2>3, FS_AddElement
    <3>. QED
      BY <3>1, <3>2, EventLogAssumption
  <2>. QED
    BY <2>2, <2>4 DEF FeedInv, TypeOK
<1>2. ASSUME NEW c \in Commands, Commit(c)
      PROVE  FeedInv'
  <2>1. events' \in Seq(Commands \X Nat)
    BY <1>2, CommitAppends
  <2>2. pending' = [pending EXCEPT ![c] = {}] /\ Cardinality({}) = 0
    BY <1>2, FS_EmptySet DEF Commit
  <2>. QED
    BY <2>1, <2>2, EventLogAssumption DEF FeedInv, TypeOK
<1>3. ASSUME NEW c \in Commands, Rollback(c)
      PROVE  FeedInv'
  <2>1. pending' = [pending EXCEPT ![c] = {}] /\ Cardinality({}) = 0 /\ events' = events
    BY <1>3, FS_EmptySet DEF Rollback
  <2>. QED
    BY <2>1, EventLogAssumption DEF FeedInv, TypeOK
<1>4. ASSUME UNCHANGED logVars
      PROVE  FeedInv'
  BY <1>4 DEF FeedInv, logVars
<1>5. ASSUME NEW r \in Readers,
             \/ Revoke(r) \/ Grant(r) \/ AuthorizationTick(r)
             \/ Serve(r) \/ Browse(r) \/ Interrupt(r)
      PROVE  UNCHANGED logVars
  BY <1>5 DEF Revoke, Grant, AuthorizationTick, Serve, Browse, Interrupt, Open, List, Write,
       Refuse, EndStream, HandlerReturns, Receive, EndOfStream, Drop, Reload
<1>. QED
  BY <1>1, <1>2, <1>3, <1>4, <1>5 DEF Next, vars

LEMMA AlwaysFeedInv == Spec => [](TypeOK /\ LogInv /\ FeedInv)
<1>1. Init => FeedInv
  <2>. SUFFICES ASSUME Init
                PROVE  FeedInv
    OBVIOUS
  <2>1. events = <<>> /\ pending = [c \in Commands |-> {}] /\ Cardinality({}) = 0
    BY FS_EmptySet DEF Init
  <2>. QED
    BY <2>1, EventLogAssumption DEF FeedInv
<1>. QED
  BY <1>1, InitiallyInOrder, StepsKeepOrder, FeedInvHolds, PTL DEF Spec

\* What a reader of the feed has received, by the mapping.
received(r) == [n \in 1..Len(seen[r]) |-> events[seen[r][n]]]

LEMMA ReceivedIsAPrefix ==
    ASSUME TypeOK, LogInv, FeedInv, NEW r \in Readers
    PROVE  /\ cursor[r] \in Nat /\ Len(seen[r]) = cursor[r]
           /\ \A n \in 1..cursor[r] : seen[r][n] = n
           /\ cursor[r] + Len(wire[r]) <= Len(events)
           /\ \A n \in 1..Len(wire[r]) : wire[r][n] = cursor[r] + n
<1>1. PICK k \in Nat : Published(k) /\ StreamInOrder(r, k)
  BY DEF LogInv
<1>2. cursor[r] \in Nat /\ seen[r] = [n \in 1..cursor[r] |-> n]
  BY <1>1 DEF TypeOK, StreamInOrder
<1>3. Len(events) = k
  BY <1>1 DEF Published, FeedInv
<1>. QED
  BY <1>1, <1>2, <1>3 DEF StreamInOrder

\* Publishing changes nothing of what was received.
LEMMA ReceivedStays ==
    ASSUME TypeOK, LogInv, FeedInv, NEW r \in Readers, UNCHANGED seen,
           \A n \in 1..Len(events) : events'[n] = events[n]
    PROVE  received(r)' = received(r)
<1>1. \A n \in 1..Len(seen[r]) : seen[r][n] \in 1..Len(events)
  <2>1. Len(wire[r]) \in Nat /\ Len(events) \in Nat
    BY DEF TypeOK, FeedInv
  <2>. QED
    BY <2>1, ReceivedIsAPrefix
<1>. QED
  BY <1>1 DEF received

\* The browser receives the event after the last one it has.
LEMMA ReceiveDelivers ==
    ASSUME TypeOK, LogInv, FeedInv, NEW r \in Readers, Receive(r)
    PROVE  /\ Len(received(r)) < Len(events)
           /\ received(r)' = Append(received(r), events[Len(received(r)) + 1])
           /\ \A q \in Readers \ {r} : received(q)' = received(q)
<1>. DEFINE c == cursor[r]
<1>1. /\ wire[r] # <<>> /\ events' = events
      /\ seen' = [seen EXCEPT ![r] = Append(@, Head(wire[r]))]
  BY DEF Receive, logVars
<1>2. /\ c \in Nat /\ Len(seen[r]) = c /\ \A n \in 1..c : seen[r][n] = n
      /\ wire[r] \in Seq(Nat \ {0}) /\ seen[r] \in Seq(Nat \ {0})
      /\ events \in Seq(Commands \X Nat)
      /\ c + Len(wire[r]) <= Len(events)
  BY ReceivedIsAPrefix DEF TypeOK, FeedInv
<1>3. /\ Len(wire[r]) \in Nat /\ Len(wire[r]) >= 1 /\ Head(wire[r]) = wire[r][1]
      /\ Len(events) \in Nat
  BY <1>1, <1>2, SMTT(40)
<1>4. Head(wire[r]) = c + 1
  <2>1. \A n \in 1..Len(wire[r]) : wire[r][n] = c + n
    BY ReceivedIsAPrefix
  <2>2. 1 \in 1..Len(wire[r])
    BY <1>3
  <2>. QED
    BY <1>3, <2>1, <2>2
<1>5. c + 1 \in 1..Len(events)
  BY <1>2, <1>3, SMTT(40)
<1>6. /\ seen'[r] = Append(seen[r], c + 1)
      /\ \A q \in Readers \ {r} : seen'[q] = seen[q]
  BY <1>1, <1>4 DEF TypeOK
<1>7. received(r) = [n \in 1..c |-> events[n]]
  BY <1>2 DEF received
<1>. HIDE DEF c
<1>8. received(r) \in Seq(Commands \X Nat) /\ Len(received(r)) = c
  <2>1. \A n \in 1..c : n \in 1..Len(events)
    BY <1>2, <1>3, <1>5
  <2>2. \A n \in 1..c : events[n] \in Commands \X Nat
    BY <1>2, <2>1
  <2>. QED
    BY <1>2, <1>7, <2>2
<1>9. received(r)' = [n \in 1..(c + 1) |-> events[n]]
  <2>1. Len(seen'[r]) = c + 1 /\ \A n \in 1..(c + 1) : seen'[r][n] = n
    <3>1. /\ Len(seen'[r]) = c + 1 /\ seen'[r][c + 1] = c + 1
          /\ \A n \in 1..c : seen'[r][n] = seen[r][n]
      BY <1>2, <1>6
    <3>2. \A n \in 1..(c + 1) : n \in 1..c \/ n = c + 1
      BY <1>2
    <3>. QED
      BY <1>2, <3>1, <3>2
  <2>. QED
    BY <1>1, <2>1 DEF received
<1>10. Append(received(r), events[c + 1]) = [n \in 1..(c + 1) |-> events[n]]
  BY <1>2, <1>7
<1>11. \A q \in Readers \ {r} : received(q)' = received(q)
  BY <1>1, <1>6 DEF received
<1>. QED
  BY <1>5, <1>8, <1>9, <1>10, <1>11

\* Every step of the log and its streams is a step of the feed, or none.
LEMMA StepsOfTheFeed ==
    ASSUME TypeOK, LogInv, FeedInv, [Next]_vars
    PROVE  [Feed!Next]_(Feed!vars)
<1>. DEFINE all == [r \in Readers |-> received(r)]
<1>1. Feed!vars = <<events, all>>
  BY DEF Feed!vars, received
<1>2. ASSUME NEW c \in Commands, Commit(c)
      PROVE  Feed!Next
  <2>1. PICK n \in 1..MaxAppends : events' = events \o [j \in 1..n |-> <<c, j>>]
    BY <1>2, CommitAppends
  <2>2. \A n2 \in 1..Len(events) : events'[n2] = events[n2]
    BY <2>1, EventLogAssumption DEF FeedInv
  <2>3. UNCHANGED seen
    BY <1>2 DEF Commit, clientVars
  <2>4. all' = all
    BY <2>2, <2>3, ReceivedStays
  <2>5. Feed!Publish(c, n)
    BY <2>1, <2>4 DEF Feed!Publish, received
  <2>. QED
    BY <2>5 DEF Feed!Next
<1>3. ASSUME NEW r \in Readers, Receive(r)
      PROVE  Feed!Next
  <2>1. all' = [all EXCEPT ![r] = Append(@, events[Len(@) + 1])]
    BY <1>3, ReceiveDelivers
  <2>2. Len(all[r]) < Len(events) /\ events' = events
    BY <1>3, ReceiveDelivers DEF Receive, logVars
  <2>3. Feed!Deliver(r)
    BY <2>1, <2>2 DEF Feed!Deliver, received
  <2>. QED
    BY <2>3 DEF Feed!Next
<1>4. ASSUME NEW r \in Readers, Reload(r)
      PROVE  Feed!Next
  <2>1. events' = events /\ seen' = [seen EXCEPT ![r] = <<>>]
    BY <1>4 DEF Reload, logVars
  <2>2. received(r)' = <<>> /\ \A q \in Readers \ {r} : received(q)' = received(q)
    BY <2>1 DEF received, TypeOK
  <2>3. all' = [all EXCEPT ![r] = <<>>]
    BY <2>2
  <2>4. Feed!Forget(r)
    BY <2>1, <2>3 DEF Feed!Forget, received
  <2>. QED
    BY <2>4 DEF Feed!Next
<1>5. ASSUME UNCHANGED <<events, seen>>
      PROVE  UNCHANGED Feed!vars
  BY <1>5 DEF Feed!vars
<1>6. ASSUME NEW c \in Commands, AppendEvent(c) \/ Rollback(c)
      PROVE  UNCHANGED <<events, seen>>
  BY <1>6 DEF AppendEvent, Rollback, clientVars
<1>7. ASSUME NEW r \in Readers,
             \/ Revoke(r) \/ Grant(r) \/ AuthorizationTick(r)
             \/ Serve(r) \/ EndOfStream(r) \/ EndStream(r) \/ Drop(r)
      PROVE  UNCHANGED <<events, seen>>
  BY <1>7 DEF Revoke, Grant, AuthorizationTick, Serve, Open, List, Write, Refuse, EndStream,
       HandlerReturns, EndOfStream, Drop, logVars, clientVars
<1>8. ASSUME UNCHANGED vars
      PROVE  UNCHANGED <<events, seen>>
  BY <1>8 DEF vars, logVars, clientVars
<1>. QED
  BY <1>2, <1>3, <1>4, <1>5, <1>6, <1>7, <1>8 DEF Next, Browse, Interrupt

\* The table of events with its lock, and the streams with their cursors, do
\* what the feed promises: one order, each command's events together, and each
\* reader receives them in that order from the first on (ADR-0002).
THEOREM LogImplementsFeed == Spec => ImplementsFeed
<1>1. Init => Feed!Init
  BY DEF Init, Feed!Init
<1>2. TypeOK /\ LogInv /\ FeedInv /\ [Next]_vars => [Feed!Next]_(Feed!vars)
  BY StepsOfTheFeed
<1>. QED
  BY <1>1, <1>2, AlwaysFeedInv, PTL DEF Spec, ImplementsFeed, Feed!Spec

----------------------------------------------------------------------------
(* The streams of the directory. *)

\* Where an answer is on its way, the page still remembers having asked; a
\* stream whose id it knows has no call under way, and one about to be stopped
\* is forgotten.
CallsAgree ==
    \A s \in Streams :
        /\ call[s] \in {"start", "started"} <=> held[s] \in {"asked", "disposed"}
        /\ call[s] = "stop" => held[s] = "none"

DirectoryInv ==
    /\ call \in [Streams -> {"none", "start", "started", "stop"}]
    /\ held \in [Streams -> {"none", "asked", "held", "disposed"}]
    /\ listed \subseteq Streams
    /\ CallsAgree
    /\ StreamsHaveAnOwner

LEMMA CleanUpKeepsOwners ==
    ASSUME DirectoryInv, Directory!CleanUp, page' = "out", UNCHANGED listed
    PROVE  DirectoryInv'
<1>1. /\ held' = [s \in Streams |-> CASE held[s] = "asked" -> "disposed"
                                       [] held[s] = "held" -> "none"
                                       [] OTHER -> held[s]]
      /\ call' = [s \in Streams |-> IF held[s] = "held" THEN "stop" ELSE call[s]]
  BY DEF Directory!CleanUp
<1>2. /\ call' \in [Streams -> {"none", "start", "started", "stop"}]
      /\ held' \in [Streams -> {"none", "asked", "held", "disposed"}]
  BY <1>1 DEF DirectoryInv
<1>3. CallsAgree'
  BY <1>1 DEF DirectoryInv, CallsAgree
<1>4. StreamsHaveAnOwner'
  <2>1. \A s \in Streams : ~Directory!Used(s)'
    BY <1>1 DEF DirectoryInv, Directory!Used
  <2>2. ASSUME NEW s \in listed PROVE held'[s] # "none" \/ call'[s] = "stop"
    BY <1>1, <2>2 DEF DirectoryInv, StreamsHaveAnOwner, Directory!StreamsHaveAnOwner
  <2>. QED
    BY <2>1, <2>2 DEF StreamsHaveAnOwner, Directory!StreamsHaveAnOwner
<1>. QED
  BY <1>2, <1>3, <1>4 DEF DirectoryInv

LEMMA StreamStepKeepsOwners ==
    ASSUME DirectoryInv, NEW s \in Streams,
           \/ Directory!Start(s) \/ Directory!Stop(s) \/ Directory!Unauthorized(s)
           \/ Directory!Quit(s) \/ Directory!Started(s)
    PROVE  DirectoryInv'
<1>. USE DEF DirectoryInv, CallsAgree, StreamsHaveAnOwner, Directory!StreamsHaveAnOwner,
             Directory!Used, Directory!view
<1>1. CASE Directory!Start(s)
  BY <1>1 DEF Directory!Start
<1>2. CASE Directory!Stop(s)
  BY <1>2 DEF Directory!Stop
<1>3. CASE Directory!Unauthorized(s)
  BY <1>3 DEF Directory!Unauthorized, Directory!Closed
<1>4. CASE Directory!Quit(s)
  BY <1>4 DEF Directory!Quit, Directory!Closed
<1>5. CASE Directory!Started(s)
  BY <1>5 DEF Directory!Started, Directory!desktop
<1>. QED
  BY <1>1, <1>2, <1>3, <1>4, <1>5

LEMMA MountKeepsOwners ==
    ASSUME DirectoryInv, Directory!Mount
    PROVE  DirectoryInv'
<1>1. PICK s \in Streams : /\ Directory!Unused(s)
                           /\ call' = [call EXCEPT ![s] = "start"]
                           /\ held' = [held EXCEPT ![s] = "asked"]
  BY DEF Directory!Mount
<1>2. page = "out" /\ page' = "in" /\ listed' = listed
  BY DEF Directory!Mount, Directory!desktop
<1>3. \A t \in Streams : ~Directory!Used(t)
  BY <1>2 DEF DirectoryInv, StreamsHaveAnOwner, Directory!StreamsHaveAnOwner
<1>4. held[s] = "none" /\ call[s] = "none"
  BY <1>1 DEF Directory!Unused
<1>. QED
  BY <1>1, <1>2, <1>3, <1>4 DEF DirectoryInv, CallsAgree, StreamsHaveAnOwner,
     Directory!StreamsHaveAnOwner, Directory!Used

LEMMA DirectoryStep ==
    ASSUME DirectoryInv, Directory!DirectoryNext
    PROVE  DirectoryInv'
<1>1. ASSUME UNCHANGED <<call, held, listed, page>>
      PROVE  DirectoryInv'
  BY <1>1 DEF DirectoryInv, CallsAgree, StreamsHaveAnOwner, Directory!StreamsHaveAnOwner, Directory!Used
<1>2. ASSUME Directory!CleanUp, page' = "out", UNCHANGED listed
      PROVE  DirectoryInv'
  BY <1>2, CleanUpKeepsOwners
<1>3. CASE Directory!Unmount
  BY <1>2, <1>3 DEF Directory!Unmount, Directory!desktop
<1>4. CASE Directory!Receive
  BY <1>1, <1>2, <1>4 DEF Directory!Receive, Directory!desktop, Directory!view
<1>5. CASE Directory!Answer
  BY <1>1, <1>2, <1>5 DEF Directory!Answer, Directory!desktop
<1>6. CASE Directory!Change \/ Directory!SignOut \/ Directory!Deliver
  BY <1>1, <1>6 DEF Directory!Change, Directory!SignOut, Directory!Deliver, Directory!desktop, Directory!view
<1>7. ASSUME NEW s \in Streams,
             \/ Directory!ServeDirectory(s) \/ Directory!Relay(s) \/ Directory!EndOfStream(s)
             \/ Directory!Break(s)
      PROVE  DirectoryInv'
  BY <1>1, <1>7 DEF Directory!ServeDirectory, Directory!Open, Directory!Poll, Directory!Revalidate,
     Directory!EndServing, Directory!Relay, Directory!EndOfStream, Directory!Break, Directory!Drop,
     Directory!desktop, Directory!view
<1>. QED
  BY <1>3, <1>4, <1>5, <1>6, <1>7, MountKeepsOwners, StreamStepKeepsOwners
     DEF Directory!DirectoryNext, Directory!Show, Directory!Run

\* However a page comes and goes while its calls are under way, the process of
\* the desktop application keeps no stream that nobody will stop, and a page has
\* one at most (useWorkspaceDirectoryEvents, Desktop.StopStream).
THEOREM StreamsAreOwned == FollowSpec => []StreamsHaveAnOwner
<1>1. FollowInit => DirectoryInv
  BY DEF FollowInit, Directory!Init, DirectoryInv, CallsAgree, StreamsHaveAnOwner,
     Directory!StreamsHaveAnOwner, Directory!Used
<1>2. DirectoryInv /\ [FollowNext]_<<part, vars, directoryVars>> => DirectoryInv'
  <2>1. ASSUME DirectoryInv, UNCHANGED directoryVars
        PROVE  DirectoryInv'
    BY <2>1 DEF directoryVars, DirectoryInv, CallsAgree, StreamsHaveAnOwner,
       Directory!StreamsHaveAnOwner, Directory!Used
  <2>. QED
    BY <2>1, DirectoryStep DEF FollowNext
<1>3. DirectoryInv => StreamsHaveAnOwner
  BY DEF DirectoryInv
<1>. QED
  BY <1>1, <1>2, <1>3, PTL DEF FollowSpec
=============================================================================
