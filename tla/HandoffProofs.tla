--------------------------- MODULE HandoffProofs ---------------------------
(***************************************************************************)
(* Commands that are sent again act once and are answered truly, and the   *)
(* history of an intent alternates between offers and their outcomes, for  *)
(* any number of agents, intents, offers and keys.                         *)
(***************************************************************************)
EXTENDS Handoffs, TLAPS

----------------------------------------------------------------------------
(* The types. *)

LEMMA LapsedIsInt == Lapsed \in Int /\ Lapsed < 0 /\ Lapsed < OfferLife /\ Delays \subseteq Nat
  BY HandoffAssumption DEF Lapsed, Delays

LEMMA EndedRow ==
    ASSUME NEW row \in HandoffRow, NEW status \in {"expired"} \cup Outcomes,
           NEW to \in Actors \cup {None}, status = "accepted" <=> to # None
    PROVE  /\ Ended(row, status, to) \in HandoffRow
           /\ Ended(row, status, to).status = status
           /\ Ended(row, status, to).to = to
           /\ Ended(row, status, to).intent = row.intent
           /\ Ended(row, status, to).from = row.from
<1>1. 0 \in Lapsed..OfferLife
  BY LapsedIsInt, HandoffAssumption
<1>. QED
  BY <1>1 DEF Ended, HandoffRow, Outcomes

LEMMA OfferedRow ==
    ASSUME NEW i \in Intents, NEW a \in Actors, NEW d \in Delays
    PROVE  [status |-> "offered", intent |-> i, from |-> a, to |-> None,
            left |-> OfferLife - d, known |-> 0] \in HandoffRow
<1>1. OfferLife - d \in Lapsed..OfferLife /\ 0 \in Delays
  BY HandoffAssumption DEF Lapsed, Delays
<1>. QED
  BY <1>1 DEF HandoffRow, Outcomes

LEMMA RowIsPresent == \A row \in HandoffRow : row # Absent /\ row.status # "absent"
  BY DEF HandoffRow, Absent, Outcomes

\* What a transaction of OfferHandoff does to the rows.
LEMMA OfferRows ==
    ASSUME TypeOK, NEW request \in Request, NEW key \in Keys, NEW h \in Offers,
           NEW allowAll \in BOOLEAN, NEW d \in Delays, Offer(request, key, h, allowAll, d)
    PROVE  /\ request.intent \in Intents /\ request.actor \in Actors /\ request.type = "offer"
           /\ handoff' \in [Offers -> HandoffRow \cup {Absent}]
           /\ handoff[h] = Absent
           /\ handoff'[h].status = "offered" /\ handoff'[h].intent = request.intent
           /\ handoff'[h].from = request.actor
           /\ \A g \in Stale(request.intent, d) :
                 /\ g # h /\ handoff[g] \in HandoffRow /\ handoff'[g] \in HandoffRow
                 /\ handoff'[g].status = "expired"
                 /\ handoff'[g].intent = handoff[g].intent
                 /\ handoff'[g].from = handoff[g].from
                 /\ handoff'[g].to = None
           /\ \A g \in Offers \ (Stale(request.intent, d) \cup {h}) : handoff'[g] = handoff[g]
<1>. DEFINE stale == Stale(request.intent, d)
            fresh == [status |-> "offered", intent |-> request.intent,
                      from |-> request.actor, to |-> None,
                      left |-> OfferLife - d, known |-> 0]
            expired == [g \in Offers |->
                           IF g \in stale THEN Ended(handoff[g], "expired", None)
                           ELSE handoff[g]]
<1>1. request.intent \in Intents /\ request.actor \in Actors /\ request.type = "offer"
  BY DEF Offer, MayOffer, Request
<1>2. fresh \in HandoffRow
  BY <1>1, OfferedRow
<1>3. handoff[h] = Absent /\ handoff' = [expired EXCEPT ![h] = fresh]
  BY DEF Offer
<1>4. ASSUME NEW g \in stale
      PROVE /\ g \in Offers /\ g # h /\ handoff[g] \in HandoffRow
            /\ Ended(handoff[g], "expired", None) \in HandoffRow
            /\ Ended(handoff[g], "expired", None).status = "expired"
            /\ Ended(handoff[g], "expired", None).intent = handoff[g].intent
            /\ Ended(handoff[g], "expired", None).from = handoff[g].from
            /\ Ended(handoff[g], "expired", None).to = None
  <2>1. g \in Offers /\ handoff[g].status = "offered"
    BY DEF Stale, OfferedFor
  <2>2. g # h /\ handoff[g] \in HandoffRow
    BY <1>3, <2>1 DEF TypeOK, Absent
  <2>. QED
    BY <2>1, <2>2, EndedRow
<1>. HIDE DEF fresh, stale
<1>5. expired \in [Offers -> HandoffRow \cup {Absent}]
  BY <1>4 DEF TypeOK
<1>6. handoff' \in [Offers -> HandoffRow \cup {Absent}] /\ handoff'[h] = fresh
  BY <1>2, <1>3, <1>5
<1>7. \A g \in Offers : g # h => handoff'[g] = expired[g]
  BY <1>3, <1>5
<1>8. \A g \in stale : handoff'[g] = Ended(handoff[g], "expired", None)
  BY <1>4, <1>7
<1>9. \A g \in Offers \ (stale \cup {h}) : handoff'[g] = handoff[g]
  BY <1>7
<1>10. fresh.status = "offered" /\ fresh.intent = request.intent /\ fresh.from = request.actor
  BY DEF fresh
<1>. QED
  BY <1>1, <1>3, <1>4, <1>6, <1>8, <1>9, <1>10 DEF stale

LEMMA AppendedEvent ==
    ASSUME NEW s \in Seq(Event), NEW e \in Event
    PROVE  /\ Append(s, e) \in Seq(Event)
           /\ Len(s) \in Nat /\ Len(Append(s, e)) = Len(s) + 1
           /\ DOMAIN s = 1..Len(s) /\ DOMAIN Append(s, e) = 1..(Len(s) + 1)
           /\ \A n \in 1..Len(s) : Append(s, e)[n] = s[n]
           /\ Append(s, e)[Len(s) + 1] = e
  OBVIOUS

LEMMA OfferEvents ==
    ASSUME TypeOK, NEW request \in Request, NEW key \in Keys, NEW h \in Offers,
           NEW allowAll \in BOOLEAN, NEW d \in Delays, Offer(request, key, h, allowAll, d)
    PROVE  /\ events' \in Seq(Event)
           /\ Len(events) \in Nat /\ DOMAIN events = 1..Len(events)
           /\ DOMAIN events' = 1..Len(events')
           /\ \A n \in 1..Len(events) : events'[n] = events[n]
           /\ \/ /\ Stale(request.intent, d) = {}
                 /\ Len(events') = Len(events) + 1
                 /\ events'[Len(events) + 1] = Published("offered", h, key)
              \/ /\ Len(events') = Len(events) + 2
                 /\ events'[Len(events) + 2] = Published("offered", h, key)
                 /\ \E g \in Stale(request.intent, d) :
                       events'[Len(events) + 1] = Published("expired", g, key)
<1>1. Published("offered", h, key) \in Event
  BY DEF Published, Event
<1>2. CASE /\ Stale(request.intent, d) = {}
           /\ events' = Append(events, Published("offered", h, key))
  BY <1>1, <1>2, AppendedEvent DEF TypeOK
<1>3. CASE \E g \in Stale(request.intent, d) :
              events' = Append(Append(events, Published("expired", g, key)),
                               Published("offered", h, key))
  <2>1. PICK g \in Stale(request.intent, d) :
              events' = Append(Append(events, Published("expired", g, key)),
                               Published("offered", h, key))
    BY <1>3
  <2>2. g \in Offers
    BY DEF Stale, OfferedFor
  <2>3. Published("expired", g, key) \in Event
    BY <2>2 DEF Published, Event
  <2>. DEFINE first == Append(events, Published("expired", g, key))
  <2>4. /\ first \in Seq(Event) /\ Len(events) \in Nat /\ Len(first) = Len(events) + 1
        /\ DOMAIN events = 1..Len(events)
        /\ \A n \in 1..Len(events) : first[n] = events[n]
        /\ first[Len(events) + 1] = Published("expired", g, key)
    BY <2>3, AppendedEvent DEF TypeOK
  <2>. HIDE DEF first
  <2>5. events' = Append(first, Published("offered", h, key))
    BY <2>1 DEF first
  <2>6. /\ events' \in Seq(Event) /\ Len(events') = Len(first) + 1
        /\ DOMAIN events' = 1..(Len(first) + 1)
        /\ \A n \in 1..Len(first) : events'[n] = first[n]
        /\ events'[Len(first) + 1] = Published("offered", h, key)
    BY <1>1, <2>4, <2>5, AppendedEvent
  <2>7. \A n \in 1..Len(events) : events'[n] = events[n]
    BY <2>4, <2>6
  <2>8. events'[Len(events) + 1] = Published("expired", g, key)
    BY <2>4, <2>6
  <2>. QED
    BY <2>4, <2>6, <2>7, <2>8
<1>. QED
  BY <1>2, <1>3 DEF Offer

LEMMA ResponseRow ==
    ASSUME TypeOK, NEW request \in Request, NEW key \in Keys,
           NEW allowAll \in BOOLEAN, NEW d \in Delays, Respond(request, key, allowAll, d)
    PROVE  /\ request.offer \in Offers /\ request.actor \in Actors
           /\ request.status \in Outcomes /\ request.type = "status"
           /\ handoff[request.offer] \in HandoffRow
           /\ handoff[request.offer].status = "offered"
           /\ handoff' \in [Offers -> HandoffRow \cup {Absent}]
           /\ handoff'[request.offer].status = request.status
           /\ handoff'[request.offer].intent = handoff[request.offer].intent
           /\ handoff'[request.offer].from = handoff[request.offer].from
           /\ request.status = "accepted" => handoff'[request.offer].to = request.actor
           /\ \A g \in Offers \ {request.offer} : handoff'[g] = handoff[g]
<1>. DEFINE to == IF request.status = "accepted" THEN request.actor ELSE None
<1>1. /\ request.offer \in Offers /\ request.actor \in Actors
      /\ request.status \in Outcomes /\ request.type = "status"
  BY DEF Respond, MayAnswer, Request
<1>2. handoff[request.offer] \in HandoffRow /\ handoff[request.offer].status = "offered"
  BY <1>1 DEF Respond, Open, TypeOK, Absent
<1>3. to \in Actors \cup {None} /\ (request.status = "accepted" <=> to # None)
  BY <1>1, HandoffAssumption
<1>4. handoff' = [handoff EXCEPT ![request.offer] =
                     Ended(handoff[request.offer], request.status, to)]
  BY DEF Respond
<1>. HIDE DEF to
<1>5. /\ Ended(handoff[request.offer], request.status, to) \in HandoffRow
      /\ Ended(handoff[request.offer], request.status, to).status = request.status
      /\ Ended(handoff[request.offer], request.status, to).to = to
      /\ Ended(handoff[request.offer], request.status, to).intent = handoff[request.offer].intent
      /\ Ended(handoff[request.offer], request.status, to).from = handoff[request.offer].from
  BY <1>1, <1>2, <1>3, EndedRow
<1>6. request.status = "accepted" => to = request.actor
  BY DEF to
<1>. QED
  BY <1>1, <1>2, <1>4, <1>5, <1>6 DEF TypeOK

LEMMA TickRows ==
    ASSUME TypeOK, Tick
    PROVE  /\ handoff' \in [Offers -> HandoffRow \cup {Absent}]
           /\ \A h \in Offers : /\ handoff'[h] = Absent <=> handoff[h] = Absent
                                /\ handoff'[h].status = handoff[h].status
                                /\ handoff[h] # Absent =>
                                      /\ handoff'[h].intent = handoff[h].intent
                                      /\ handoff'[h].from = handoff[h].from
                                      /\ handoff'[h].to = handoff[h].to
<1>. DEFINE Aged(row) ==
       [row EXCEPT !.left = IF row.status = "offered" /\ @ > Lapsed THEN @ - 1 ELSE @,
                   !.known = IF @ < MaxDelay THEN @ + 1 ELSE @]
<1>1. ASSUME NEW row \in HandoffRow
      PROVE  /\ Aged(row) \in HandoffRow
             /\ Aged(row).status = row.status /\ Aged(row).intent = row.intent
             /\ Aged(row).from = row.from /\ Aged(row).to = row.to
  <2>1. row.left \in Lapsed..OfferLife /\ row.known \in Delays
    BY DEF HandoffRow
  <2>2. (IF row.status = "offered" /\ row.left > Lapsed THEN row.left - 1 ELSE row.left)
           \in Lapsed..OfferLife
    BY <2>1, LapsedIsInt, HandoffAssumption
  <2>3. (IF row.known < MaxDelay THEN row.known + 1 ELSE row.known) \in Delays
    BY <2>1, HandoffAssumption DEF Delays
  <2>. QED
    BY <2>2, <2>3 DEF HandoffRow
<1>2. handoff' = [h \in Offers |-> IF handoff[h] = Absent THEN Absent ELSE Aged(handoff[h])]
  BY DEF Tick
<1>. HIDE DEF Aged
<1>3. \A h \in Offers : handoff[h] = Absent \/ handoff[h] \in HandoffRow
  BY DEF TypeOK
<1>. QED
  BY <1>1, <1>2, <1>3, RowIsPresent

LEMMA InitTypeOK == Init => TypeOK
  BY DEF Init, TypeOK

LEMMA NextTypeOK == TypeOK /\ [Next]_vars => TypeOK'
<1>. SUFFICES ASSUME TypeOK, [Next]_vars PROVE TypeOK'
  OBVIOUS
<1>1. ASSUME NEW request \in Request, NEW key \in Keys, NEW allowAll \in BOOLEAN,
             NEW d \in Delays, NEW h \in Offers, Offer(request, key, h, allowAll, d)
      PROVE TypeOK'
  <2>1. handoff' \in [Offers -> HandoffRow \cup {Absent}] /\ request.type = "offer"
    BY <1>1, OfferRows
  <2>2. events' \in Seq(Event)
    BY <1>1, OfferEvents
  <2>3. [offer |-> h, status |-> "offered"] \in Response
    BY DEF Response
  <2>. QED
    BY <1>1, <2>1, <2>2, <2>3 DEF Offer, Complete, Answer, TypeOK, Command, Types
<1>2. ASSUME NEW request \in Request, NEW key \in Keys, NEW allowAll \in BOOLEAN,
             NEW d \in Delays, Respond(request, key, allowAll, d)
      PROVE TypeOK'
  <2>1. /\ handoff' \in [Offers -> HandoffRow \cup {Absent}]
        /\ request.offer \in Offers /\ request.status \in Outcomes /\ request.type = "status"
    BY <1>2, ResponseRow
  <2>2. Published(request.status, request.offer, key) \in Event
    BY <2>1 DEF Published, Event
  <2>3. [offer |-> request.offer, status |-> request.status] \in Response
    BY <2>1 DEF Response
  <2>. QED
    BY <1>2, <2>1, <2>2, <2>3 DEF Respond, Complete, Answer, TypeOK, Command, Types
<1>3. ASSUME NEW request \in Request, NEW key \in Keys, NEW allowAll \in BOOLEAN,
             NEW d \in Delays, Replay(request, key, allowAll, d)
      PROVE TypeOK'
  <2>1. commands[<<request.type, key>>].response \in Response
    <3>1. <<request.type, key>> \in Types \X Keys
      BY DEF Request, Types
    <3>. QED
      BY <1>3, <3>1 DEF Replay, Replayed, TypeOK, Command
  <2>. QED
    BY <1>3, <2>1 DEF Replay, Answer, TypeOK
<1>4. ASSUME NEW i \in Intents, DropIntent(i) PROVE TypeOK'
  BY <1>4 DEF DropIntent, TypeOK
<1>5. CASE Tick
  BY <1>5, TickRows DEF Tick, TypeOK
<1>6. CASE UNCHANGED vars
  BY <1>6 DEF vars, TypeOK
<1>. QED
  BY <1>1, <1>2, <1>3, <1>4, <1>5, <1>6 DEF Next

\* Every row, record and event has the shape the tables give it; in particular a
\* recipient is named exactly when the handoff was accepted.
THEOREM TypeCorrect == Spec => []TypeOK
  BY InitTypeOK, NextTypeOK, PTL DEF Spec

----------------------------------------------------------------------------
(* The history. *)

HistoryInv ==
    /\ \A n \in DOMAIN events : handoff[events[n].offer] # Absent
    /\ \A g, h \in Offers :
          /\ handoff[g].status = "offered" /\ handoff[h].status = "offered"
          /\ handoff[g].intent = handoff[h].intent
          => g = h
    /\ \A n \in DOMAIN events :
          IsOutcome(events[n]) => handoff[events[n].offer].status = events[n].type
    /\ OffersAlternate

\* What a step may do to rows and events that exist.
Kept ==
    /\ \A g \in Offers : handoff[g] # Absent =>
          /\ handoff'[g] # Absent
          /\ handoff'[g].intent = handoff[g].intent /\ handoff'[g].from = handoff[g].from
          /\ handoff[g].status # "offered" =>
                handoff'[g].status = handoff[g].status /\ handoff'[g].to = handoff[g].to
    /\ \A n \in DOMAIN events : n \in DOMAIN events' /\ events'[n] = events[n]

LEMMA OfferKeeps ==
    ASSUME TypeOK, NEW request \in Request, NEW key \in Keys, NEW h \in Offers,
           NEW allowAll \in BOOLEAN, NEW d \in Delays, Offer(request, key, h, allowAll, d)
    PROVE  Kept
<1>1. \A n \in DOMAIN events : n \in DOMAIN events' /\ events'[n] = events[n]
  BY OfferEvents
<1>2. \A g \in Stale(request.intent, d) : handoff[g].status = "offered" /\ g \in Offers
  BY DEF Stale, OfferedFor
<1>. QED
  BY <1>1, <1>2, OfferRows, RowIsPresent DEF Kept

LEMMA ResponseKeeps ==
    ASSUME TypeOK, NEW request \in Request, NEW key \in Keys,
           NEW allowAll \in BOOLEAN, NEW d \in Delays, Respond(request, key, allowAll, d)
    PROVE  Kept
<1>1. \A n \in DOMAIN events : n \in DOMAIN events' /\ events'[n] = events[n]
  BY DEF Respond, TypeOK
<1>. QED
  BY <1>1, ResponseRow, RowIsPresent DEF Kept, Absent, Outcomes

LEMMA TickKeeps ==
    ASSUME TypeOK, Tick
    PROVE  Kept
  BY TickRows DEF Kept, Tick

LEMMA StepKeeps == ASSUME TypeOK, [Next]_vars PROVE Kept
<1>1. ASSUME NEW request \in Request, NEW key \in Keys, NEW allowAll \in BOOLEAN,
             NEW d \in Delays, Replay(request, key, allowAll, d)
      PROVE Kept
  BY <1>1 DEF Replay, Kept
<1>2. ASSUME NEW i \in Intents, DropIntent(i) PROVE Kept
  BY <1>2 DEF DropIntent, Kept
<1>3. CASE UNCHANGED vars
  BY <1>3 DEF vars, Kept
<1>. QED
  BY <1>1, <1>2, <1>3, OfferKeeps, ResponseKeeps, TickKeeps DEF Next

----------------------------------------------------------------------------
(* Offers and outcomes alternate. *)

LEMMA EventTypes ==
    ASSUME TypeOK, NEW n \in DOMAIN events
    PROVE  /\ events[n].offer \in Offers /\ events[n].key \in Keys
           /\ events[n].type \in {"offered", "expired"} \cup Outcomes
<1>1. events[n] \in Event
  BY DEF TypeOK
<1>. QED
  BY <1>1 DEF Event

\* A handoff that has been published and is not offered has its outcome in the
\* history, after every event of it that is not one.
LEMMA OutcomeIsPublished ==
    ASSUME TypeOK, HistoryInv, NEW m \in DOMAIN events,
           handoff[events[m].offer].status # "offered"
    PROVE  \E k \in DOMAIN events : /\ m <= k /\ events[k].offer = events[m].offer
                                    /\ IsOutcome(events[k])
  BY DEF HistoryInv, OffersAlternate, IsOutcome

\* A step that publishes nothing and keeps the states of the rows.
LEMMA SilentStep ==
    ASSUME TypeOK, HistoryInv, Kept, events' = events,
           \A g \in Offers : /\ handoff'[g].status = handoff[g].status
                             /\ handoff[g] = Absent => handoff'[g] = Absent
    PROVE  HistoryInv'
<1>1. \A n \in DOMAIN events : events[n].offer \in Offers /\ handoff[events[n].offer] # Absent
  BY EventTypes DEF HistoryInv
<1>2. \A g \in Offers : handoff[g].status = "offered" => handoff[g] # Absent
  BY DEF Absent
<1>3. \A g \in Offers : handoff[g] # Absent =>
          handoff'[g] # Absent /\ handoff'[g].intent = handoff[g].intent
  BY DEF Kept
<1>4. \A m, n \in DOMAIN events :
          SameIntent(events[m], events[n])' <=> SameIntent(events[m], events[n])
  BY <1>1, <1>3 DEF SameIntent
<1>5. OffersAlternate'
  BY <1>1, <1>4 DEF HistoryInv, OffersAlternate, IsOutcome
<1>. QED
  BY <1>1, <1>2, <1>3, <1>5 DEF HistoryInv, IsOutcome

LEMMA ResponseHistory ==
    ASSUME TypeOK, TypeOK', HistoryInv, NEW request \in Request, NEW key \in Keys,
           NEW allowAll \in BOOLEAN, NEW d \in Delays, Respond(request, key, allowAll, d)
    PROVE  HistoryInv'
<1>. DEFINE last == Len(events) + 1
            g == request.offer
<1>1. /\ g \in Offers /\ request.status \in Outcomes
      /\ handoff[g] # Absent /\ handoff[g].status = "offered"
      /\ handoff'[g] # Absent /\ handoff'[g].status = request.status
      /\ handoff'[g].intent = handoff[g].intent
      /\ \A h \in Offers \ {g} : handoff'[h] = handoff[h]
  BY ResponseRow, RowIsPresent, ResponseKeeps DEF Kept
<1>2. /\ Len(events) \in Nat /\ DOMAIN events = 1..Len(events)
      /\ DOMAIN events' = 1..last
      /\ \A n \in 1..Len(events) : events'[n] = events[n]
      /\ events'[last] = Published(request.status, g, key)
  <2>1. Published(request.status, g, key) \in Event
    BY <1>1 DEF Published, Event
  <2>. QED
    BY <2>1, AppendedEvent DEF Respond, TypeOK
<1>3. /\ events'[last].offer = g /\ events'[last].type = request.status
      /\ IsOutcome(events'[last])
  BY <1>1, <1>2 DEF Published, IsOutcome, Outcomes
<1>. HIDE DEF last, g
<1>4. last = Len(events) + 1
  BY DEF last
<1>5. \A n \in 1..Len(events) : events[n].offer \in Offers /\ handoff[events[n].offer] # Absent
  BY <1>2, EventTypes DEF HistoryInv
<1>6. \A n \in 1..Len(events) : events[n].offer = g => ~IsOutcome(events[n])
  BY <1>1, <1>2 DEF HistoryInv, IsOutcome
<1>7. \A n \in DOMAIN events' : handoff'[events'[n].offer] # Absent
  BY <1>1, <1>2, <1>3, <1>4, <1>5
<1>8. \A e, h \in Offers :
          /\ handoff'[e].status = "offered" /\ handoff'[h].status = "offered"
          /\ handoff'[e].intent = handoff'[h].intent
          => e = h
  <2>1. request.status # "offered"
    BY <1>1 DEF Outcomes
  <2>. QED
    BY <1>1, <2>1 DEF HistoryInv
<1>9. \A n \in DOMAIN events' :
          IsOutcome(events'[n]) => handoff'[events'[n].offer].status = events'[n].type
  BY <1>1, <1>2, <1>3, <1>4, <1>5, <1>6 DEF HistoryInv
<1>10. ASSUME NEW m \in DOMAIN events', NEW n \in DOMAIN events', m < n
       PROVE  IF events'[m].offer = events'[n].offer
              THEN ~IsOutcome(events'[m]) /\ IsOutcome(events'[n])
              ELSE ~IsOutcome(events'[m]) /\ SameIntent(events[m], events[n])' =>
                      \E k \in m..n : /\ events'[k].offer = events'[m].offer
                                      /\ IsOutcome(events'[k])
  <2>1. m \in 1..Len(events) /\ events'[m] = events[m] /\ m \in DOMAIN events
    BY <1>2, <1>4, <1>10
  <2>2. CASE n \in 1..Len(events)
    <3>1. events'[n] = events[n] /\ \A k \in m..n : events'[k] = events[k]
      BY <1>2, <2>1, <2>2
    <3>2. SameIntent(events[m], events[n])' <=> SameIntent(events[m], events[n])
      BY <1>1, <1>5, <2>1, <2>2, <3>1 DEF SameIntent
    <3>3. n \in DOMAIN events
      BY <1>2, <2>2
    <3>4. IF events[m].offer = events[n].offer
          THEN ~IsOutcome(events[m]) /\ IsOutcome(events[n])
          ELSE ~IsOutcome(events[m]) /\ SameIntent(events[m], events[n]) =>
                  \E k \in m..n : /\ events[k].offer = events[m].offer
                                  /\ IsOutcome(events[k])
      BY <1>10, <2>1, <3>3 DEF HistoryInv, OffersAlternate
    <3>. QED
      BY <2>1, <3>1, <3>2, <3>4
  <2>3. CASE n = last
    <3>1. CASE events[m].offer = g
      BY <1>3, <1>6, <2>1, <2>3, <3>1
    <3>2. CASE events[m].offer # g /\ SameIntent(events[m], events[n])'
      <4>1. handoff[events[m].offer].intent = handoff[g].intent
        BY <1>1, <1>3, <1>5, <2>1, <2>3, <3>2 DEF SameIntent
      <4>2. handoff[events[m].offer].status # "offered"
        BY <1>1, <1>5, <2>1, <3>2, <4>1 DEF HistoryInv
      <4>3. PICK k \in DOMAIN events : /\ m <= k /\ events[k].offer = events[m].offer
                                       /\ IsOutcome(events[k])
        BY <2>1, <4>2, OutcomeIsPublished
      <4>4. k \in m..n /\ events'[k] = events[k]
        BY <1>2, <1>4, <2>1, <2>3, <4>3
      <4>. QED
        BY <1>3, <2>1, <2>3, <3>2, <4>3, <4>4
    <3>. QED
      BY <1>3, <2>1, <2>3, <3>1, <3>2
  <2>. QED
    BY <1>2, <1>4, <2>2, <2>3
<1>11. ASSUME NEW m \in DOMAIN events'
       PROVE  \E n \in DOMAIN events' :
                 /\ m <= n /\ events'[n].offer = events'[m].offer
                 /\ events'[n].type = handoff'[events'[m].offer].status
  <2>1. CASE events'[m].offer = g
    BY <1>1, <1>2, <1>3, <1>4, <2>1
  <2>2. CASE events'[m].offer # g
    <3>1. m \in DOMAIN events /\ events'[m] = events[m]
      BY <1>2, <1>3, <1>4, <2>2
    <3>2. PICK n \in DOMAIN events : /\ m <= n /\ events[n].offer = events[m].offer
                                     /\ events[n].type = handoff[events[m].offer].status
      BY <3>1 DEF HistoryInv, OffersAlternate
    <3>. QED
      BY <1>1, <1>2, <1>4, <1>5, <2>2, <3>1, <3>2
  <2>. QED
    BY <2>1, <2>2
<1>. QED
  BY <1>7, <1>8, <1>9, <1>10, <1>11 DEF HistoryInv, OffersAlternate

LEMMA OfferHistory ==
    ASSUME TypeOK, HistoryInv, NEW request \in Request, NEW key \in Keys, NEW h \in Offers,
           NEW allowAll \in BOOLEAN, NEW d \in Delays, Offer(request, key, h, allowAll, d)
    PROVE  HistoryInv'
<1>. DEFINE size == Len(events)
            last == Len(events')
            stale == Stale(request.intent, d)
            history == 1..size
<1>1. /\ size \in Nat /\ DOMAIN events = history /\ DOMAIN events' = 1..last
      /\ last \in {size + 1, size + 2}
      /\ \A n \in history : events'[n] = events[n]
      /\ events'[last].offer = h /\ events'[last].type = "offered"
      /\ last = size + 1 <=> stale = {}
      /\ last = size + 2 => \E g \in stale : /\ events'[size + 1].offer = g
                                             /\ events'[size + 1].type = "expired"
  <2>1. /\ size \in Nat /\ DOMAIN events = history /\ DOMAIN events' = 1..last
        /\ \A n \in history : events'[n] = events[n]
    BY OfferEvents
  <2>2. \/ /\ stale = {} /\ last = size + 1
           /\ events'[size + 1] = Published("offered", h, key)
        \/ /\ last = size + 2
           /\ events'[size + 2] = Published("offered", h, key)
           /\ \E g \in stale : events'[size + 1] = Published("expired", g, key)
    BY OfferEvents
  <2>. HIDE DEF size, last, stale
  <2>3. CASE /\ stale = {} /\ last = size + 1
             /\ events'[size + 1] = Published("offered", h, key)
    BY <2>1, <2>3 DEF Published
  <2>4. CASE /\ last = size + 2
             /\ events'[size + 2] = Published("offered", h, key)
             /\ \E g \in stale : events'[size + 1] = Published("expired", g, key)
    <3>1. PICK g \in stale : events'[size + 1] = Published("expired", g, key)
      BY <2>4
    <3>2. events'[size + 1].offer = g /\ events'[size + 1].type = "expired"
      BY <3>1 DEF Published
    <3>3. events'[last].offer = h /\ events'[last].type = "offered"
      BY <2>4 DEF Published
    <3>4. last # size + 1
      BY <2>1, <2>4
    <3>. QED
      BY <2>1, <2>4, <3>2, <3>3, <3>4
  <2>. QED
    BY <2>2, <2>3, <2>4
<1>2. /\ handoff[h] = Absent /\ handoff'[h] # Absent
      /\ handoff'[h].status = "offered" /\ handoff'[h].intent = request.intent
      /\ \A g \in stale : handoff'[g] # Absent /\ handoff'[g].status = "expired" /\ g # h
      /\ \A g \in Offers \ (stale \cup {h}) : handoff'[g] = handoff[g]
  <2>1. handoff'[h] # Absent
    <3>1. handoff'[h].status = "offered"
      BY OfferRows
    <3>. QED
      BY <3>1 DEF Absent
  <2>2. \A g \in stale : handoff'[g] # Absent
    <3>1. \A g \in stale : handoff'[g] \in HandoffRow
      BY OfferRows
    <3>. QED
      BY <3>1, RowIsPresent
  <2>. HIDE DEF size, last, history
  <2>. QED
    BY <2>1, <2>2, OfferRows
<1>3. /\ \A g \in stale : /\ g \in Offers /\ handoff[g].status = "offered"
                          /\ handoff[g].intent = request.intent
      /\ \A g \in Offers : /\ handoff[g].status = "offered"
                           /\ handoff[g].intent = request.intent
                           => g \in stale
  BY DEF Offer, Stale, OfferedFor
<1>4. \A f, g \in stale : f = g
  BY <1>3 DEF HistoryInv
<1>6. Kept
  BY OfferKeeps
<1>5. last = size + 2 => \E g \in stale : /\ events'[size + 1].offer = g
                                          /\ events'[size + 1].type = "expired"
  BY <1>1
<1>. HIDE DEF size, last, stale
<1>7. \A n \in history : /\ events[n].offer \in Offers /\ events[n].offer # h
                         /\ handoff[events[n].offer] # Absent
                         /\ handoff'[events[n].offer] # Absent
                         /\ handoff'[events[n].offer].intent = handoff[events[n].offer].intent
  <2>1. \A n \in history : events[n].offer \in Offers /\ handoff[events[n].offer] # Absent
    BY <1>1, EventTypes DEF HistoryInv
  <2>. QED
    BY <1>2, <1>6, <2>1 DEF Kept
<1>8. ASSUME NEW n \in DOMAIN events'
      PROVE  \/ n \in history /\ n < last
             \/ n = size + 1 /\ last = size + 2
             \/ n = last
  BY <1>1
<1>. HIDE DEF history
<1>9. \A n \in history : events[n].offer \in stale => ~IsOutcome(events[n])
  BY <1>1, <1>3 DEF HistoryInv, IsOutcome
<1>10. ASSUME NEW m \in history, handoff[events[m].offer].intent = request.intent,
              events[m].offer \notin stale
       PROVE  \E k \in DOMAIN events : /\ m <= k /\ events'[k] = events[k]
                                       /\ events[k].offer = events[m].offer
                                       /\ IsOutcome(events[k])
  <2>1. handoff[events[m].offer].status # "offered"
    BY <1>3, <1>7, <1>10
  <2>. QED
    BY <1>1, <2>1, OutcomeIsPublished
<1>11. \A n \in DOMAIN events' : handoff'[events'[n].offer] # Absent
  BY <1>1, <1>2, <1>5, <1>7, <1>8
<1>12. \A e, g \in Offers :
          /\ handoff'[e].status = "offered" /\ handoff'[g].status = "offered"
          /\ handoff'[e].intent = handoff'[g].intent
          => e = g
  <2>1. \A g \in Offers : handoff'[g].status = "offered" =>
            \/ g = h
            \/ g # h /\ g \notin stale /\ handoff'[g] = handoff[g]
    BY <1>2
  <2>. QED
    BY <1>2, <1>3, <2>1 DEF HistoryInv
<1>13. \A n \in DOMAIN events' :
          IsOutcome(events'[n]) => handoff'[events'[n].offer].status = events'[n].type
  <2>1. \A n \in history : IsOutcome(events[n]) =>
            handoff'[events[n].offer].status = events[n].type
    BY <1>1, <1>2, <1>7, <1>9 DEF HistoryInv
  <2>. QED
    BY <1>1, <1>2, <1>5, <1>8, <2>1 DEF IsOutcome
<1>14. ASSUME NEW m \in DOMAIN events', NEW n \in DOMAIN events', m < n
       PROVE  IF events'[m].offer = events'[n].offer
              THEN ~IsOutcome(events'[m]) /\ IsOutcome(events'[n])
              ELSE ~IsOutcome(events'[m]) /\ SameIntent(events[m], events[n])' =>
                      \E k \in m..n : /\ events'[k].offer = events'[m].offer
                                      /\ IsOutcome(events'[k])
  <2>1. CASE n \in history
    <3>1. m \in history /\ events'[m] = events[m] /\ events'[n] = events[n]
      BY <1>1, <1>14, <2>1 DEF history
    <3>2. \A k \in m..n : events'[k] = events[k]
      BY <1>1, <2>1, <3>1 DEF history
    <3>3. SameIntent(events[m], events[n])' <=> SameIntent(events[m], events[n])
      BY <1>7, <2>1, <3>1 DEF SameIntent
    <3>4. IF events[m].offer = events[n].offer
          THEN ~IsOutcome(events[m]) /\ IsOutcome(events[n])
          ELSE ~IsOutcome(events[m]) /\ SameIntent(events[m], events[n]) =>
                  \E k \in m..n : /\ events[k].offer = events[m].offer
                                  /\ IsOutcome(events[k])
      BY <1>1, <1>14, <2>1, <3>1 DEF HistoryInv, OffersAlternate
    <3>. QED
      BY <3>1, <3>2, <3>3, <3>4
  <2>2. CASE n = size + 1 /\ last = size + 2
    <3>1. m \in history /\ events'[m] = events[m]
      BY <1>1, <1>14, <2>2 DEF history
    <3>2. events'[n].offer \in stale /\ IsOutcome(events'[n])
      BY <1>5, <2>2 DEF IsOutcome
    <3>3. CASE events[m].offer \in stale
      BY <1>4, <1>9, <3>1, <3>2, <3>3
    <3>4. CASE events[m].offer \notin stale /\ SameIntent(events[m], events[n])'
      <4>1. handoff'[events'[n].offer].intent = request.intent
        BY <1>3, <1>6, <3>2 DEF Kept, Absent
      <4>2. handoff[events[m].offer].intent = request.intent
        BY <1>7, <3>1, <3>4, <4>1 DEF SameIntent
      <4>3. PICK k \in DOMAIN events : /\ m <= k /\ events'[k] = events[k]
                                       /\ events[k].offer = events[m].offer
                                       /\ IsOutcome(events[k])
        BY <1>10, <3>1, <3>4, <4>2
      <4>4. k \in m..n
        BY <1>1, <2>2, <3>1, <4>3 DEF history
      <4>. QED
        BY <3>1, <3>2, <3>4, <4>3, <4>4
    <3>. QED
      BY <3>1, <3>2, <3>3, <3>4
  <2>3. CASE n = last
    <3>1. CASE m \in history
      <4>1. events'[m] = events[m] /\ events'[m].offer # events'[n].offer
        BY <1>1, <1>7, <2>3, <3>1
      <4>2. CASE ~IsOutcome(events[m]) /\ SameIntent(events[m], events[n])'
        <5>1. handoff[events[m].offer].intent = request.intent
          BY <1>1, <1>2, <1>7, <2>3, <3>1, <4>1, <4>2 DEF SameIntent
        <5>2. CASE events[m].offer \in stale
          <6>1. /\ last = size + 2 /\ size + 1 \in m..n
                /\ events'[size + 1].offer = events[m].offer
                /\ IsOutcome(events'[size + 1])
            BY <1>1, <1>4, <1>5, <2>3, <3>1, <5>2 DEF IsOutcome, history
          <6>. QED
            BY <4>1, <6>1
        <5>3. CASE events[m].offer \notin stale
          <6>1. PICK k \in DOMAIN events : /\ m <= k /\ events'[k] = events[k]
                                           /\ events[k].offer = events[m].offer
                                           /\ IsOutcome(events[k])
            BY <1>10, <3>1, <5>1, <5>3
          <6>2. k \in m..n
            BY <1>1, <2>3, <3>1, <6>1 DEF history
          <6>. QED
            BY <4>1, <6>1, <6>2
        <5>. QED
          BY <5>2, <5>3
      <4>. QED
        BY <4>1, <4>2
    <3>2. CASE m = size + 1 /\ last = size + 2
      <4>1. IsOutcome(events'[m]) /\ events'[m].offer # events'[n].offer
        BY <1>1, <1>2, <1>5, <2>3, <3>2 DEF IsOutcome
      <4>. QED
        BY <4>1
    <3>. QED
      BY <1>1, <1>8, <1>14, <2>3, <3>1, <3>2
  <2>. QED
    BY <1>8, <2>1, <2>2, <2>3
<1>15. ASSUME NEW m \in DOMAIN events'
       PROVE  \E n \in DOMAIN events' :
                 /\ m <= n /\ events'[n].offer = events'[m].offer
                 /\ events'[n].type = handoff'[events'[m].offer].status
  <2>1. CASE m = last
    BY <1>1, <1>2, <2>1
  <2>2. CASE events'[m].offer \in stale
    <3>1. last = size + 2 /\ size + 1 \in DOMAIN events'
      BY <1>1, <2>2
    <3>2. /\ events'[size + 1].offer = events'[m].offer
          /\ events'[size + 1].type = "expired"
      BY <1>4, <1>5, <2>2, <3>1
    <3>3. m # last
      BY <1>1, <1>2, <2>2
    <3>4. m <= size + 1
      BY <1>1, <3>1, <3>3
    <3>. QED
      BY <1>2, <2>2, <3>1, <3>2, <3>4
  <2>3. CASE m \in history /\ events'[m].offer \notin stale
    <3>1. m \in DOMAIN events /\ events'[m] = events[m]
          /\ handoff'[events[m].offer] = handoff[events[m].offer]
      BY <1>1, <1>2, <1>7, <2>3
    <3>2. PICK n \in DOMAIN events : /\ m <= n /\ events[n].offer = events[m].offer
                                     /\ events[n].type = handoff[events[m].offer].status
      BY <3>1 DEF HistoryInv, OffersAlternate
    <3>3. n \in DOMAIN events' /\ events'[n] = events[n]
      BY <1>6, <3>2 DEF Kept
    <3>. QED
      BY <3>1, <3>2, <3>3
  <2>. QED
    BY <1>5, <1>8, <2>1, <2>2, <2>3
<1>. QED
  BY <1>11, <1>12, <1>13, <1>14, <1>15 DEF HistoryInv, OffersAlternate

LEMMA InitHistory == Init => HistoryInv
  BY DEF Init, HistoryInv, OffersAlternate, Absent

LEMMA NextHistory == TypeOK /\ HistoryInv /\ [Next]_vars => HistoryInv'
<1>. SUFFICES ASSUME TypeOK, HistoryInv, [Next]_vars PROVE HistoryInv'
  OBVIOUS
<1>1. Kept /\ TypeOK'
  BY StepKeeps, NextTypeOK
<1>2. CASE UNCHANGED <<handoff, events>>
  BY <1>1, <1>2, SilentStep
<1>3. CASE Tick
  <2>1. \A g \in Offers : /\ handoff'[g].status = handoff[g].status
                          /\ handoff[g] = Absent => handoff'[g] = Absent
    BY <1>3, TickRows
  <2>2. events' = events
    BY <1>3 DEF Tick
  <2>. QED
    BY <1>1, <2>1, <2>2, SilentStep
<1>4. ASSUME NEW request \in Request, NEW key \in Keys, NEW allowAll \in BOOLEAN,
             NEW d \in Delays, NEW h \in Offers, Offer(request, key, h, allowAll, d)
      PROVE HistoryInv'
  BY <1>4, OfferHistory
<1>5. ASSUME NEW request \in Request, NEW key \in Keys, NEW allowAll \in BOOLEAN,
             NEW d \in Delays, Respond(request, key, allowAll, d)
      PROVE HistoryInv'
  BY <1>1, <1>5, ResponseHistory
<1>. QED
  BY <1>2, <1>3, <1>4, <1>5 DEF Next, Replay, DropIntent, vars

LEMMA HistoryHolds == Spec => [](TypeOK /\ HistoryInv)
  BY InitTypeOK, NextTypeOK, InitHistory, NextHistory, PTL DEF Spec

\* No offer of an intent is replaced, answered twice or expired without a trace:
\* the history of every intent alternates between offers and their outcomes.
THEOREM HistoryAlternates == Spec => []OffersAlternate
<1>1. HistoryInv => OffersAlternate
  BY DEF HistoryInv
<1>. QED
  BY <1>1, HistoryHolds, PTL

----------------------------------------------------------------------------
(* A key acts once. *)

KeyInv ==
    /\ \A n \in DOMAIN events :
          /\ events[n].type = "offered" => commands[<<"offer", events[n].key>>] # Absent
          /\ events[n].type \in Outcomes => commands[<<"status", events[n].key>>] # Absent
    /\ ActsOncePerKey

\* What reserving and completing a command does to the records.
LEMMA Recorded ==
    ASSUME TypeOK, NEW request \in Request, NEW key \in Keys, NEW response,
           Complete(request, key, response)
    PROVE  /\ commands'[<<request.type, key>>] = [request |-> request, response |-> response]
           /\ \A t \in Types, k \in Keys :
                 t # request.type \/ k # key => commands'[<<t, k>>] = commands[<<t, k>>]
           /\ answer' = [request |-> request, key |-> key, response |-> response]
<1>1. <<request.type, key>> \in Types \X Keys
  BY DEF Request, Types
<1>2. \A t \in Types, k \in Keys : t # request.type \/ k # key =>
         <<t, k>> \in Types \X Keys /\ <<t, k>> # <<request.type, key>>
  OBVIOUS
<1>. QED
  BY <1>1, <1>2 DEF Complete, Answer, TypeOK

LEMMA OfferKey ==
    ASSUME TypeOK, KeyInv, NEW request \in Request, NEW key \in Keys, NEW h \in Offers,
           NEW allowAll \in BOOLEAN, NEW d \in Delays, Offer(request, key, h, allowAll, d)
    PROVE  KeyInv'
<1>1. /\ commands[<<"offer", key>>] = Absent /\ commands'[<<"offer", key>>] # Absent
      /\ \A k \in Keys : /\ commands[<<"offer", k>>] # Absent => commands'[<<"offer", k>>] # Absent
                         /\ commands'[<<"status", k>>] = commands[<<"status", k>>]
  <2>1. request.type = "offer" /\ commands[<<"offer", key>>] = Absent
    BY DEF Offer, MayOffer, Reserved
  <2>2. Complete(request, key, [offer |-> h, status |-> "offered"])
    BY DEF Offer
  <2>3. /\ commands'[<<"offer", key>>] =
              [request |-> request, response |-> [offer |-> h, status |-> "offered"]]
        /\ \A t \in Types, k \in Keys :
              t # "offer" \/ k # key => commands'[<<t, k>>] = commands[<<t, k>>]
    BY <2>1, <2>2, Recorded
  <2>. QED
    BY <2>1, <2>3 DEF Absent, Types
<1>2. /\ Len(events) \in Nat /\ DOMAIN events = 1..Len(events)
      /\ DOMAIN events' = 1..Len(events')
      /\ \A n \in 1..Len(events) : events'[n] = events[n]
      /\ Len(events') \in {Len(events) + 1, Len(events) + 2}
      /\ events'[Len(events')].key = key /\ events'[Len(events')].type = "offered"
      /\ Len(events') = Len(events) + 2 => events'[Len(events) + 1].type = "expired"
  <2>1. CASE /\ Len(events') = Len(events) + 1
             /\ events'[Len(events) + 1] = Published("offered", h, key)
    <3>1. events'[Len(events')].key = key /\ events'[Len(events')].type = "offered"
      BY <2>1 DEF Published
    <3>2. Len(events') # Len(events) + 2
      BY <2>1, OfferEvents
    <3>. QED
      BY <2>1, <3>1, <3>2, OfferEvents
  <2>2. CASE /\ Len(events') = Len(events) + 2
             /\ events'[Len(events) + 2] = Published("offered", h, key)
             /\ \E g \in Stale(request.intent, d) :
                   events'[Len(events) + 1] = Published("expired", g, key)
    <3>1. /\ events'[Len(events')].key = key /\ events'[Len(events')].type = "offered"
          /\ events'[Len(events) + 1].type = "expired"
      BY <2>2 DEF Published
    <3>. QED
      BY <2>2, <3>1, OfferEvents
  <2>. QED
    BY <2>1, <2>2, OfferEvents
<1>3. \A n \in 1..Len(events) : events[n].key \in Keys
  BY <1>2, EventTypes
<1>. DEFINE size == Len(events)
            last == Len(events')
<1>. HIDE DEF size, last
<1>4. /\ size \in Nat /\ DOMAIN events = 1..size /\ DOMAIN events' = 1..last
      /\ last = size + 1 \/ last = size + 2
      /\ \A n \in 1..size : events'[n] = events[n] /\ events[n].key \in Keys
      /\ events'[last].key = key /\ events'[last].type = "offered"
      /\ last = size + 2 => events'[size + 1].type = "expired"
  BY <1>2, <1>3 DEF size, last
<1>5. ASSUME NEW n \in DOMAIN events'
      PROVE  \/ n \in 1..size /\ events'[n] = events[n] /\ n # last
             \/ n = last
             \/ events'[n].type = "expired"
  BY <1>4
<1>6. \A n \in DOMAIN events' :
          /\ events'[n].type = "offered" => commands'[<<"offer", events'[n].key>>] # Absent
          /\ events'[n].type \in Outcomes => commands'[<<"status", events'[n].key>>] # Absent
  BY <1>1, <1>4, <1>5 DEF KeyInv, Outcomes
<1>7. \A n \in 1..size : events[n].type = "offered" => events[n].key # key
  BY <1>1, <1>4 DEF KeyInv
<1>8. ASSUME NEW m \in DOMAIN events', NEW n \in DOMAIN events', events'[m].key = events'[n].key,
             \/ events'[m].type = "offered" /\ events'[n].type = "offered"
             \/ events'[m].type \in Outcomes /\ events'[n].type \in Outcomes
      PROVE  m = n
  <2>1. CASE m \in 1..size /\ n \in 1..size
    BY <1>4, <1>8, <2>1 DEF KeyInv, ActsOncePerKey
  <2>2. CASE m = last /\ n \in 1..size
    BY <1>4, <1>7, <1>8, <2>2 DEF Outcomes
  <2>3. CASE n = last /\ m \in 1..size
    BY <1>4, <1>7, <1>8, <2>3 DEF Outcomes
  <2>4. events'[m].type # "expired" /\ events'[n].type # "expired"
    BY <1>8 DEF Outcomes
  <2>. QED
    BY <1>5, <2>1, <2>2, <2>3, <2>4
<1>. QED
  BY <1>6, <1>8 DEF KeyInv, ActsOncePerKey

LEMMA ResponseKey ==
    ASSUME TypeOK, KeyInv, NEW request \in Request, NEW key \in Keys,
           NEW allowAll \in BOOLEAN, NEW d \in Delays, Respond(request, key, allowAll, d)
    PROVE  KeyInv'
<1>1. request.type = "status" /\ request.offer \in Offers /\ request.status \in Outcomes
  BY ResponseRow
<1>2. /\ commands[<<"status", key>>] = Absent /\ commands'[<<"status", key>>] # Absent
      /\ \A k \in Keys :
            /\ commands[<<"status", k>>] # Absent => commands'[<<"status", k>>] # Absent
            /\ commands'[<<"offer", k>>] = commands[<<"offer", k>>]
  <2>1. commands[<<"status", key>>] = Absent
    BY <1>1 DEF Respond, Reserved
  <2>2. Complete(request, key, [offer |-> request.offer, status |-> request.status])
    BY DEF Respond
  <2>3. /\ commands'[<<"status", key>>] =
              [request |-> request,
               response |-> [offer |-> request.offer, status |-> request.status]]
        /\ \A t \in Types, k \in Keys :
              t # "status" \/ k # key => commands'[<<t, k>>] = commands[<<t, k>>]
    BY <1>1, <2>2, Recorded
  <2>. QED
    BY <2>1, <2>3 DEF Absent, Types
<1>. DEFINE size == Len(events)
            last == size + 1
<1>3. /\ size \in Nat /\ DOMAIN events = 1..size /\ DOMAIN events' = 1..last
      /\ \A n \in 1..size : events'[n] = events[n]
      /\ events'[last] = Published(request.status, request.offer, key)
  <2>1. Published(request.status, request.offer, key) \in Event
    BY <1>1 DEF Published, Event
  <2>. QED
    BY <2>1, AppendedEvent DEF Respond, TypeOK
<1>4. events'[last].key = key /\ events'[last].type = request.status
  BY <1>3 DEF Published
<1>5. \A n \in 1..size : events[n].key \in Keys
  BY <1>3, EventTypes
<1>. HIDE DEF size
<1>6. \A n \in DOMAIN events' :
          /\ events'[n].type = "offered" => commands'[<<"offer", events'[n].key>>] # Absent
          /\ events'[n].type \in Outcomes => commands'[<<"status", events'[n].key>>] # Absent
  BY <1>1, <1>2, <1>3, <1>4, <1>5 DEF KeyInv, Outcomes
<1>7. \A n \in 1..size : events[n].type \in Outcomes => events[n].key # key
  BY <1>2, <1>3 DEF KeyInv
<1>8. ASSUME NEW m \in DOMAIN events', NEW n \in DOMAIN events', events'[m].key = events'[n].key,
             \/ events'[m].type = "offered" /\ events'[n].type = "offered"
             \/ events'[m].type \in Outcomes /\ events'[n].type \in Outcomes
      PROVE  m = n
  <2>1. CASE m \in 1..size /\ n \in 1..size
    BY <1>3, <1>8, <2>1 DEF KeyInv, ActsOncePerKey
  <2>2. CASE m = last /\ n \in 1..size
    BY <1>1, <1>3, <1>4, <1>7, <1>8, <2>2 DEF Outcomes
  <2>3. CASE n = last /\ m \in 1..size
    BY <1>1, <1>3, <1>4, <1>7, <1>8, <2>3 DEF Outcomes
  <2>. QED
    BY <1>3, <2>1, <2>2, <2>3
<1>. QED
  BY <1>6, <1>8 DEF KeyInv, ActsOncePerKey

LEMMA NextKey == TypeOK /\ KeyInv /\ [Next]_vars => KeyInv'
<1>. SUFFICES ASSUME TypeOK, KeyInv, [Next]_vars PROVE KeyInv'
  OBVIOUS
<1>1. CASE UNCHANGED <<commands, events>>
  BY <1>1 DEF KeyInv, ActsOncePerKey
<1>. QED
  BY <1>1, OfferKey, ResponseKey DEF Next, Replay, DropIntent, Tick, vars

\* However often a command is repeated with its key, it publishes once.
THEOREM KeyActsOnce == Spec => []ActsOncePerKey
<1>1. Init => KeyInv
  BY DEF Init, KeyInv, ActsOncePerKey
<1>2. KeyInv => ActsOncePerKey
  BY DEF KeyInv
<1>. QED
  BY <1>1, <1>2, NextKey, TypeCorrect, PTL DEF Spec

----------------------------------------------------------------------------
(* Answers are true. *)

AnswerInv ==
    /\ \A k \in Keys, request \in Request, response \in Response :
          commands[<<request.type, k>>] = [request |-> request, response |-> response]
             => Happened(request, k, response)
    /\ \A t \in Types, k \in Keys :
          commands[<<t, k>>] # Absent => commands[<<t, k>>].request.type = t
    /\ \A k \in Keys, request \in Request, response \in Response :
          answer = [request |-> request, key |-> k, response |-> response]
             => Happened(request, k, response)

\* What happened stays so.
LEMMA StillHappened ==
    ASSUME TypeOK, HistoryInv, Kept, NEW request \in Request, NEW key \in Keys,
           NEW response \in Response, Happened(request, key, response)
    PROVE  Happened(request, key, response)'
<1>1. PICK n \in DOMAIN events : events[n] = Published(response.status, response.offer, key)
  BY DEF Happened
<1>2. response.offer \in Offers /\ handoff[response.offer] # Absent
  BY <1>1 DEF Response, HistoryInv, Published
<1>3. n \in DOMAIN events' /\ events'[n] = Published(response.status, response.offer, key)
  BY <1>1 DEF Kept
<1>4. /\ handoff'[response.offer].intent = handoff[response.offer].intent
      /\ handoff'[response.offer].from = handoff[response.offer].from
      /\ handoff[response.offer].status # "offered" =>
            /\ handoff'[response.offer].status = handoff[response.offer].status
            /\ handoff'[response.offer].to = handoff[response.offer].to
  BY <1>2 DEF Kept
<1>5. request.type = "status" => request.status # "offered"
  BY DEF Request, Outcomes
<1>. QED
  BY <1>3, <1>4, <1>5 DEF Happened

\* A step that completes a command, given that the command did what it stores.
LEMMA CompletedAnswer ==
    ASSUME TypeOK, HistoryInv, AnswerInv, Kept, NEW request \in Request, NEW key \in Keys,
           NEW response \in Response, Complete(request, key, response),
           Happened(request, key, response)'
    PROVE  AnswerInv'
<1>1. /\ commands'[<<request.type, key>>] = [request |-> request, response |-> response]
      /\ \A t \in Types, k \in Keys :
            t # request.type \/ k # key => commands'[<<t, k>>] = commands[<<t, k>>]
      /\ answer' = [request |-> request, key |-> key, response |-> response]
  BY Recorded
<1>2. ASSUME NEW k \in Keys, NEW asked \in Request, NEW told \in Response,
             commands'[<<asked.type, k>>] = [request |-> asked, response |-> told]
      PROVE Happened(asked, k, told)'
  <2>1. CASE asked.type = request.type /\ k = key
    <3>1. [request |-> asked, response |-> told] = [request |-> request, response |-> response]
      BY <1>1, <1>2, <2>1
    <3>2. [request |-> asked, response |-> told].request = asked
          /\ [request |-> asked, response |-> told].response = told
          /\ [request |-> request, response |-> response].request = request
          /\ [request |-> request, response |-> response].response = response
      OBVIOUS
    <3>3. asked = request /\ told = response
      BY <3>1, <3>2
    <3>. QED
      BY <2>1, <3>3
  <2>2. CASE asked.type # request.type \/ k # key
    <3>1. commands[<<asked.type, k>>] = [request |-> asked, response |-> told]
      BY <1>1, <1>2, <2>2 DEF Request, Types
    <3>. QED
      BY <3>1, StillHappened DEF AnswerInv
  <2>. QED
    BY <2>1, <2>2
<1>3. ASSUME NEW t \in Types, NEW k \in Keys, commands'[<<t, k>>] # Absent
      PROVE commands'[<<t, k>>].request.type = t
  BY <1>1, <1>3 DEF AnswerInv
<1>4. ASSUME NEW k \in Keys, NEW asked \in Request, NEW told \in Response,
             answer' = [request |-> asked, key |-> k, response |-> told]
      PROVE Happened(asked, k, told)'
  <2>1. answer'.request = asked /\ answer'.key = k /\ answer'.response = told
    BY <1>4
  <2>2. answer'.request = request /\ answer'.key = key /\ answer'.response = response
    BY <1>1
  <2>. QED
    BY <2>1, <2>2
<1>. QED
  BY <1>2, <1>3, <1>4 DEF AnswerInv

LEMMA OfferAnswer ==
    ASSUME TypeOK, NEW request \in Request, NEW key \in Keys, NEW h \in Offers,
           NEW allowAll \in BOOLEAN, NEW d \in Delays, Offer(request, key, h, allowAll, d)
    PROVE  Happened(request, key, [offer |-> h, status |-> "offered"])'
<1>1. /\ request.type = "offer" /\ handoff'[h].intent = request.intent
      /\ handoff'[h].from = request.actor
  BY OfferRows
<1>2. Len(events') \in DOMAIN events' /\ events'[Len(events')] = Published("offered", h, key)
  BY OfferEvents
<1>. QED
  BY <1>1, <1>2 DEF Happened

LEMMA ResponseAnswer ==
    ASSUME TypeOK, NEW request \in Request, NEW key \in Keys,
           NEW allowAll \in BOOLEAN, NEW d \in Delays, Respond(request, key, allowAll, d)
    PROVE  Happened(request, key,
                    [offer |-> request.offer, status |-> request.status])'
<1>1. Published(request.status, request.offer, key) \in Event
  BY ResponseRow DEF Published, Event
<1>2. /\ Len(events) + 1 \in DOMAIN events'
      /\ events'[Len(events) + 1] = Published(request.status, request.offer, key)
  BY <1>1, AppendedEvent DEF Respond, TypeOK
<1>. QED
  BY <1>2, ResponseRow DEF Happened

\* The stored answer of a command that is sent again is the answer to it.
LEMMA ReplayAnswer ==
    ASSUME TypeOK, HistoryInv, AnswerInv, Kept, NEW request \in Request, NEW key \in Keys,
           NEW allowAll \in BOOLEAN, NEW d \in Delays, Replay(request, key, allowAll, d)
    PROVE  AnswerInv'
<1>. DEFINE response == commands[<<request.type, key>>].response
<1>1. response \in Response
      /\ commands[<<request.type, key>>] = [request |-> request, response |-> response]
  <2>1. <<request.type, key>> \in Types \X Keys
    BY DEF Request, Types
  <2>2. commands[<<request.type, key>>] \in Command
        /\ commands[<<request.type, key>>].request = request
    BY <2>1 DEF Replay, Replayed, TypeOK
  <2>. QED
    BY <2>2 DEF Command
<1>2. Happened(request, key, response)
  BY <1>1 DEF AnswerInv
<1>3. /\ commands' = commands
      /\ answer' = [request |-> request, key |-> key, response |-> response]
  BY DEF Replay, Answer
<1>. HIDE DEF response
<1>4. PICK told \in Response : told = response
  BY <1>1
<1>5. Happened(request, key, told)'
  BY <1>2, <1>4, StillHappened
<1>6. ASSUME NEW k \in Keys, NEW asked \in Request, NEW said \in Response,
             answer' = [request |-> asked, key |-> k, response |-> said]
      PROVE Happened(asked, k, said)'
  <2>1. answer'.request = asked /\ answer'.key = k /\ answer'.response = said
    BY <1>6
  <2>2. answer'.request = request /\ answer'.key = key /\ answer'.response = told
    BY <1>3, <1>4
  <2>. QED
    BY <1>5, <2>1, <2>2
<1>7. ASSUME NEW k \in Keys, NEW asked \in Request, NEW said \in Response,
             commands'[<<asked.type, k>>] = [request |-> asked, response |-> said]
      PROVE Happened(asked, k, said)'
  <2>1. Happened(asked, k, said)
    BY <1>3, <1>7 DEF AnswerInv
  <2>. QED
    BY <2>1, StillHappened
<1>. QED
  BY <1>3, <1>6, <1>7 DEF AnswerInv

LEMMA NextAnswer == TypeOK /\ HistoryInv /\ AnswerInv /\ [Next]_vars => AnswerInv'
<1>. SUFFICES ASSUME TypeOK, HistoryInv, AnswerInv, [Next]_vars PROVE AnswerInv'
  OBVIOUS
<1>1. Kept
  BY StepKeeps
<1>2. CASE UNCHANGED <<commands, answer>>
  <2>1. ASSUME NEW k \in Keys, NEW request \in Request, NEW response \in Response,
               \/ commands[<<request.type, k>>] = [request |-> request, response |-> response]
               \/ answer = [request |-> request, key |-> k, response |-> response]
        PROVE Happened(request, k, response)'
    <3>1. Happened(request, k, response)
      BY <2>1 DEF AnswerInv
    <3>. QED
      BY <1>1, <3>1, StillHappened
  <2>. QED
    BY <1>2, <2>1 DEF AnswerInv
<1>3. ASSUME NEW request \in Request, NEW key \in Keys, NEW allowAll \in BOOLEAN,
             NEW d \in Delays, NEW h \in Offers, Offer(request, key, h, allowAll, d)
      PROVE AnswerInv'
  <2>1. [offer |-> h, status |-> "offered"] \in Response
        /\ Complete(request, key, [offer |-> h, status |-> "offered"])
    BY <1>3 DEF Response, Offer
  <2>. QED
    BY <1>1, <1>3, <2>1, OfferAnswer, CompletedAnswer
<1>4. ASSUME NEW request \in Request, NEW key \in Keys, NEW allowAll \in BOOLEAN,
             NEW d \in Delays, Respond(request, key, allowAll, d)
      PROVE AnswerInv'
  <2>1. request.offer \in Offers /\ request.status \in Outcomes
    BY <1>4, ResponseRow
  <2>2. [offer |-> request.offer, status |-> request.status] \in Response
        /\ Complete(request, key, [offer |-> request.offer, status |-> request.status])
    BY <1>4, <2>1 DEF Response, Respond
  <2>. QED
    BY <1>1, <1>4, <2>2, ResponseAnswer, CompletedAnswer
<1>5. ASSUME NEW request \in Request, NEW key \in Keys, NEW allowAll \in BOOLEAN,
             NEW d \in Delays, Replay(request, key, allowAll, d)
      PROVE AnswerInv'
  BY <1>1, <1>5, ReplayAnswer
<1>. QED
  BY <1>2, <1>3, <1>4, <1>5 DEF Next, DropIntent, Tick, vars

\* A client that repeats a command is told only what the history shows that this
\* very command did.
THEOREM AnswersTellTheHistory == Spec => []AnswersAreTrue
<1>1. Init => AnswerInv
  <2>. SUFFICES ASSUME Init PROVE AnswerInv
    OBVIOUS
  <2>1. \A t \in Types, k \in Keys : commands[<<t, k>>] = Absent
    BY DEF Init
  <2>2. \A request \in Request : request.type \in Types
    BY DEF Request, Types
  <2>3. \A request, response : [request |-> request, response |-> response] # Absent
    BY DEF Absent
  <2>4. \A request, response, k :
            [request |-> request, key |-> k, response |-> response] # Absent
    BY DEF Absent
  <2>. QED
    BY <2>1, <2>2, <2>3, <2>4 DEF Init, AnswerInv
<1>2. TypeOK /\ AnswerInv => AnswersAreTrue
  BY DEF TypeOK, AnswerInv, AnswersAreTrue
<1>. QED
  BY <1>1, <1>2, NextAnswer, HistoryHolds, PTL DEF Spec

----------------------------------------------------------------------------
(* Expired offers. *)

LEMMA StepLeavesExpired ==
    ASSUME TypeOK, [Next]_vars, NEW h \in Offers,
           handoff[h].status = "offered", handoff[h].left <= -MaxDelay
    PROVE  handoff'[h].status \in {"offered", "expired"}
<1>1. handoff[h] \in HandoffRow
  BY DEF TypeOK, Absent
<1>2. handoff[h].left \in Int
  BY <1>1, LapsedIsInt, HandoffAssumption DEF HandoffRow
<1>3. ASSUME NEW request \in Request, NEW key \in Keys, NEW allowAll \in BOOLEAN,
             NEW d \in Delays, Respond(request, key, allowAll, d)
      PROVE handoff'[h] = handoff[h]
  <2>1. ~Unexpired(h, d)
    BY <1>2, HandoffAssumption DEF Unexpired, Delays
  <2>2. request.offer # h
    BY <1>3, <2>1 DEF Respond, Open
  <2>. QED
    BY <1>3, <2>2, ResponseRow
<1>4. ASSUME NEW request \in Request, NEW key \in Keys, NEW allowAll \in BOOLEAN,
             NEW d \in Delays, NEW g \in Offers, Offer(request, key, g, allowAll, d)
      PROVE handoff'[h].status \in {"offered", "expired"}
  BY <1>4, OfferRows
<1>5. CASE Tick
  BY <1>5, TickRows
<1>6. CASE UNCHANGED handoff
  BY <1>6
<1>. QED
  BY <1>3, <1>4, <1>5, <1>6 DEF Next, Replay, DropIntent, vars

\* Once an offer has been expired for longer than a transaction waits for its
\* locks, nobody can accept or withdraw it any more.
THEOREM ExpiredIsFinal == Spec => ShownExpiredIsFinal
<1>1. TypeOK /\ [Next]_vars =>
        [\A h \in Offers :
            handoff[h].status = "offered" /\ handoff[h].left <= -MaxDelay
              => handoff'[h].status \in {"offered", "expired"}]_vars
  BY StepLeavesExpired
<1>. QED
  BY <1>1, TypeCorrect, PTL DEF Spec, ShownExpiredIsFinal
=============================================================================
