-------------------------------- MODULE Rooms --------------------------------
(***************************************************************************)
(* Messages of a room, their threads, and the mentions that make up the    *)
(* inboxes.  A message and its mention are written by one transaction; the *)
(* trigger that touches the room makes two of them in one room wait for    *)
(* each other.  A message is named by the request that wrote it.           *)
(***************************************************************************)
EXTENDS Workspaces

VARIABLES messages, \* requests whose message is stored
          thread,   \* thread_root_message_id of a message
          inbox,    \* status of the mention a message makes
          reply     \* the message a request answers to, once resolved

rmVars == <<messages, thread, inbox, reply>>

MentionStates == {"pending", "read", "responded", "dismissed"}

RoomOf(r) == <<Target(r), cmd[r].room>>

RoomWant(r) ==
  IF at[r] = "post" THEN {<<<<"row of room", RoomOf(r)>>, "noKey">>} ELSE {}

\* resolveAuthor: an active principal, or the active session of an agent it sponsors.
\* Accounts and Coordination own those rows: any answer is possible here.
ResolveAuthor(r, known) ==
  /\ at[r] = "author"
  /\ IF known THEN Go(r, "thread") ELSE Fail(r)
  /\ UNCHANGED rmVars

InRoom(r) == {m \in messages : RoomOf(m) = RoomOf(r)}

ResolveReply(r) ==
  /\ at[r] = "thread"
  /\ IF ~cmd[r].reply THEN Go(r, "post") /\ UNCHANGED reply
     ELSE \/ \E m \in InRoom(r) : Go(r, "post") /\ reply' = [reply EXCEPT ![r] = m]
          \/ InRoom(r) = {} /\ Fail(r) /\ UNCHANGED reply
  /\ UNCHANGED <<messages, thread, inbox>>

InsertMessage(r) ==
  /\ at[r] = "post"
  /\ IF RoomOf(r) \in rooms THEN Take(r, RoomWant(r), "mention") ELSE Fail(r)
  /\ UNCHANGED rmVars

\* A mentioned actor must be active; again its row is another component's.
InsertMention(r, active) ==
  /\ at[r] = "mention"
  /\ IF cmd[r].mention \in {None, cmd[r].by} \/ active THEN Go(r, "commit") ELSE Fail(r)
  /\ UNCHANGED rmVars

Root(m) == IF thread[m] = None THEN m ELSE thread[m]

CommitMessage(r) ==
  /\ at[r] = "commit" /\ Kind(r) = "room.message.create"
  /\ Complete(r)
  /\ messages' = messages \cup {r}
  /\ thread' = [thread EXCEPT ![r] = IF reply[r] = None THEN None ELSE Root(reply[r])]
  /\ inbox' = IF cmd[r].mention \in {None, cmd[r].by} THEN inbox
              ELSE [inbox EXCEPT ![r] = "pending"]
  /\ UNCHANGED reply

\* The person or agent mentioned; one statement, and no idempotency key.
UpdateMention(m, status) ==
  /\ inbox[m] # None
  /\ inbox' = [inbox EXCEPT ![m] = status]
  /\ UNCHANGED <<messages, thread, reply>>

RoomStep(r) ==
  \/ (\E known \in BOOLEAN : ResolveAuthor(r, known))
  \/ ResolveReply(r) \/ InsertMessage(r)
  \/ (\E active \in BOOLEAN : InsertMention(r, active))
  \/ CommitMessage(r)
=============================================================================
