------------------------------ MODULE Handoffs ------------------------------
(***************************************************************************)
(* Handoffs of one project and the commands that offer and answer them     *)
(* (internal/coordination/handoff_postgres.go, reserveCommand).            *)
(*                                                                         *)
(* A client may send a command again with its idempotency key when the     *)
(* answer was lost, so every command may be carried out any number of      *)
(* times.  The project's advisory lock makes each transaction one step; as *)
(* in Coordination, d is how many ticks ago it began and left is           *)
(* expires_at minus the clock.                                             *)
(*                                                                         *)
(* The expected version of an answer is left out: a row has version 1      *)
(* exactly while it is offered.                                            *)
(***************************************************************************)
EXTENDS Integers, Sequences, FiniteSets

CONSTANTS Actors,       \* agent identities with a live session
          Intents,
          Responsible,  \* the agent responsible for each intent
          Offers,       \* rows of coordination.handoffs
          Keys,         \* idempotency keys, per command type
          None,
          OfferLife,    \* expires_in_hours, in ticks
          MaxDelay      \* the longest a transaction waits for its locks

ASSUME HandoffAssumption ==
    /\ Responsible \in [Intents -> Actors]
    /\ None \notin Actors
    /\ OfferLife \in Nat \ {0}
    /\ MaxDelay \in Nat

VARIABLES dropped,   \* intents that were cancelled or abandoned
          handoff,   \* coordination.handoffs
          commands,  \* platform.idempotency_records
          events,    \* what the commands published, in order
          answer     \* the last successful answer

vars == <<dropped, handoff, commands, events, answer>>

Delays == 0..MaxDelay
Lapsed == -(MaxDelay + 1)
Outcomes == {"accepted", "withdrawn"}
Types == {"offer", "status"}

Absent == [status |-> "absent"]

\* handoffs_response_state_ck: a recipient is named exactly when one accepted.
HandoffRow ==
    {row \in [status : {"offered", "expired"} \cup Outcomes, intent : Intents,
              from : Actors, to : Actors \cup {None}, left : Lapsed..OfferLife,
              known : Delays] :
        row.status = "accepted" <=> row.to # None}

\* A command's request, which its request_hash stands for.
Request ==
    [type : {"offer"}, actor : Actors, intent : Intents]
      \cup [type : {"status"}, actor : Actors, offer : Offers, status : Outcomes]

\* The stored response: the handoff as the command left it.
Response == [offer : Offers, status : {"offered"} \cup Outcomes]

Command == [request : Request, response : Response]
Event == [type : {"offered", "expired"} \cup Outcomes, offer : Offers, key : Keys]

TypeOK ==
    /\ dropped \subseteq Intents
    /\ handoff \in [Offers -> HandoffRow \cup {Absent}]
    /\ commands \in [Types \X Keys -> Command \cup {Absent}]
    /\ events \in Seq(Event)
    /\ answer = Absent \/ answer \in [request : Request, key : Keys, response : Response]

Init ==
    /\ dropped = {}
    /\ handoff = [h \in Offers |-> Absent]
    /\ commands = [c \in Types \X Keys |-> Absent]
    /\ events = <<>>
    /\ answer = Absent

----------------------------------------------------------------------------
Unexpired(h, d) == handoff[h].left > -d

OfferedFor(i) == {h \in Offers : handoff[h].status = "offered" /\ handoff[h].intent = i}

\* The guards of both commands that come before the key is reserved.
MayOffer(request, allowAll) ==
    /\ request.type = "offer"
    /\ request.intent \notin dropped
    /\ request.actor = Responsible[request.intent] \/ allowAll

MayAnswer(request, d) ==
    /\ request.type = "status"
    /\ handoff[request.offer] # Absent
    /\ d <= handoff[request.offer].known

ReservedAlways(request, key) == TRUE

\* reserveCommand inserts the key; a key that exists is a replay or a conflict.
Reserved(request, key) == commands[<<request.type, key>>] = Absent

ReplayedWhateverItAsks(request, key) == commands[<<request.type, key>>] # Absent

Replayed(request, key) ==
    /\ commands[<<request.type, key>>] # Absent
    /\ commands[<<request.type, key>>].request = request

Answer(request, key, response) ==
    answer' = [request |-> request, key |-> key, response |-> response]

\* completeCommand stores the response under the key.
Complete(request, key, response) ==
    /\ commands' = [commands EXCEPT ![<<request.type, key>>] =
                       [request |-> request, response |-> response]]
    /\ Answer(request, key, response)

----------------------------------------------------------------------------
Published(type, h, key) == [type |-> type, offer |-> h, key |-> key]

\* The times of an offer that was answered or expired are not read again.
Ended(row, status, to) == [row EXCEPT !.status = status, !.to = to, !.left = 0]

\* What OfferHandoff expires: the offer of the intent that ran out before the
\* transaction began.
Stale(i, d) == {h \in OfferedFor(i) : ~Unexpired(h, d)}

OfferBesideStale(request, key, h, allowAll, d) ==
    /\ MayOffer(request, allowAll)
    /\ Reserved(request, key)
    /\ handoff[h] = Absent
    /\ OfferedFor(request.intent) \subseteq Stale(request.intent, d)
    /\ handoff' = [handoff EXCEPT ![h] =
          [status |-> "offered", intent |-> request.intent, from |-> request.actor,
           to |-> None, left |-> OfferLife - d, known |-> 0]]
    /\ events' = Append(events, Published("offered", h, key))
    /\ Complete(request, key, [offer |-> h, status |-> "offered"])
    /\ UNCHANGED dropped

\* handoffs_one_offered_intent_idx refuses a second offered row, and admits at
\* most one stale one.
Offer(request, key, h, allowAll, d) ==
    LET stale == Stale(request.intent, d)
        expired == [g \in Offers |->
                       IF g \in stale THEN Ended(handoff[g], "expired", None)
                       ELSE handoff[g]]
    IN  /\ MayOffer(request, allowAll)
        /\ Reserved(request, key)
        /\ handoff[h] = Absent
        /\ OfferedFor(request.intent) \subseteq stale
        /\ handoff' = [expired EXCEPT ![h] =
              [status |-> "offered", intent |-> request.intent, from |-> request.actor,
               to |-> None, left |-> OfferLife - d, known |-> 0]]
        /\ \/ stale = {} /\ events' = Append(events, Published("offered", h, key))
           \/ \E g \in stale :
                 events' = Append(Append(events, Published("expired", g, key)),
                                  Published("offered", h, key))
        /\ Complete(request, key, [offer |-> h, status |-> "offered"])
        /\ UNCHANGED dropped

StillOffered(request, d) == handoff[request.offer].status = "offered"

Open(request, d) ==
    /\ handoff[request.offer].status = "offered"
    /\ Unexpired(request.offer, d)

\* UpdateHandoffStatus.
Respond(request, key, allowAll, d) ==
    /\ MayAnswer(request, d)
    /\ Reserved(request, key)
    /\ Open(request, d)
    /\ request.status = "withdrawn" =>
          request.actor = handoff[request.offer].from \/ allowAll
    /\ request.status = "accepted" => request.actor # handoff[request.offer].from
    /\ handoff' = [handoff EXCEPT ![request.offer] =
          Ended(@, request.status,
                IF request.status = "accepted" THEN request.actor ELSE None)]
    /\ events' = Append(events, Published(request.status, request.offer, key))
    /\ Complete(request, key, [offer |-> request.offer, status |-> request.status])
    /\ UNCHANGED dropped

\* A command that was carried out before is answered from its record.
Replay(request, key, allowAll, d) ==
    /\ MayOffer(request, allowAll) \/ MayAnswer(request, d)
    /\ Replayed(request, key)
    /\ Answer(request, key, commands[<<request.type, key>>].response)
    /\ UNCHANGED <<dropped, handoff, commands, events>>

\* UpdateStatus cancels or abandons the intent.
DropIntent(i) ==
    /\ i \notin dropped
    /\ dropped' = dropped \cup {i}
    /\ UNCHANGED <<handoff, commands, events, answer>>

Tick ==
    /\ handoff' = [h \in Offers |->
          IF handoff[h] = Absent THEN Absent
          ELSE [handoff[h] EXCEPT
                   !.left = IF handoff[h].status = "offered" /\ @ > Lapsed THEN @ - 1 ELSE @,
                   !.known = IF @ < MaxDelay THEN @ + 1 ELSE @]]
    /\ UNCHANGED <<dropped, commands, events, answer>>

Next ==
    \/ \E request \in Request, key \in Keys, allowAll \in BOOLEAN, d \in Delays :
          \/ \E h \in Offers : Offer(request, key, h, allowAll, d)
          \/ Respond(request, key, allowAll, d)
          \/ Replay(request, key, allowAll, d)
    \/ \E i \in Intents : DropIntent(i)
    \/ Tick

Spec == Init /\ [][Next]_vars

----------------------------------------------------------------------------
SameIntent(e, f) == handoff[e.offer].intent = handoff[f.offer].intent

IsOutcome(e) == e.type # "offered"

\* The published history of an intent alternates between an offer and the one
\* outcome of that same offer, and the rows say what was published last: no
\* offer is replaced, answered twice or expired without a trace.
OffersAlternate ==
    /\ \A m, n \in DOMAIN events :
          m < n =>
             IF events[m].offer = events[n].offer
             THEN ~IsOutcome(events[m]) /\ IsOutcome(events[n])
             ELSE ~IsOutcome(events[m]) /\ SameIntent(events[m], events[n]) =>
                     \E k \in m..n : /\ events[k].offer = events[m].offer
                                     /\ IsOutcome(events[k])
    /\ \A m \in DOMAIN events :
          \E n \in DOMAIN events :
             /\ m <= n /\ events[n].offer = events[m].offer
             /\ events[n].type = handoff[events[m].offer].status

\* A command acts at most once for each key, however often and with whatever
\* request it is repeated: reuse of a key "no genera otro efecto"
\* (docs/adr/0002-platform-foundation.md).
ActsOncePerKey ==
    \A m, n \in DOMAIN events :
        /\ events[m].key = events[n].key
        /\ \/ events[m].type = "offered" /\ events[n].type = "offered"
           \/ events[m].type \in Outcomes /\ events[n].type \in Outcomes
        => m = n

\* The history and the rows show that the request did what the response says.
Happened(request, key, response) ==
    /\ \E n \in DOMAIN events :
          events[n] = Published(response.status, response.offer, key)
    /\ request.type = "offer" =>
          /\ handoff[response.offer].intent = request.intent
          /\ handoff[response.offer].from = request.actor
    /\ request.type = "status" =>
          /\ response.offer = request.offer
          /\ handoff[response.offer].status = request.status
          /\ request.status = "accepted" => handoff[response.offer].to = request.actor

\* A successful answer, first or replayed, reports what the project's history
\* shows that this very request did.
AnswersAreTrue ==
    answer # Absent => Happened(answer.request, answer.key, answer.response)

\* Once an offer has been expired for longer than a transaction waits, what
\* readers were shown is final: it is never answered, only replaced.
ShownExpiredIsFinal ==
    [][\A h \in Offers :
          handoff[h].status = "offered" /\ handoff[h].left <= -MaxDelay
            => handoff'[h].status \in {"offered", "expired"}]_vars
=============================================================================
