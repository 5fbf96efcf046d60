------------------------- MODULE CollaborationProofs -------------------------
(***************************************************************************)
(* A key has one effect, records never supersede each other, no review is  *)
(* lost and a default workspace follows its projects, for any number of    *)
(* requests and any commands.  The first three rest on one fact, that the  *)
(* locks transactions hold never conflict, and on which of them one holds  *)
(* at which statement; the last on what a move has read, and who may have  *)
(* changed it since.                                                       *)
(***************************************************************************)
EXTENDS Collaboration, TLAPS

\* Nobody holds a lock that conflicts with another's.
LocksAgree ==
    \A r, s \in Requests : \A h \in holds[r], k \in holds[s] :
        r # s /\ h[1] = k[1] => ~Conflict(h[2], k[2])

\* r has reserved its key and not ended.
Reserved(r) ==
    /\ at[r] \notin {"idle", "ended", "grant", "gather", "actor", "scope", "advisory", "load", "reserve"}
    /\ cmd[r].kind # "workspace.attach"

KeysHeld ==
    \A r \in Requests : Reserved(r) => KeyWant(r) \subseteq holds[r] /\ Stored(r) = {}

\* The services have let through what is under way.
UnderWay ==
    \A r \in Requests :
        /\ at[r] = "idle" \/ Valid(cmd[r])
        /\ at[r] = "load" => cmd[r].kind = "workspace.attach"
        /\ cmd[r].kind = "knowledge.record.status" =>
             at[r] \in {"idle", "reserve", "lock", "check", "write", "commit", "ended"}

Reviewing(r) == at[r] \in {"check", "write", "commit"} /\ cmd[r].kind = "knowledge.record.status"

\* A review keeps its record as it found it.
ReviewsHold ==
    \A r \in Requests : Reviewing(r) =>
        /\ <<<<"record", cmd[r].record>>, "update">> \in holds[r]
        /\ record[cmd[r].record].version = cmd[r].version
        /\ <<record[cmd[r].record].status, cmd[r].status>> \in Transitions

\* The superseding record was not superseded by this one, and does not become it.
SupersedingHolds ==
    \A r \in Requests : Reviewing(r) /\ at[r] # "check" /\ cmd[r].other # None =>
        /\ record[cmd[r].other].by # cmd[r].record
        /\ at[r] = "commit" => <<<<"record", cmd[r].other>>, "key">> \in holds[r]

SupersededHaveTheStatus == \A a \in Records : record[a].by # None => record[a].status = "superseded"

TrailType == trail \in [Records -> Seq(Statuses)]

HoldsType == holds = [r \in Requests |-> holds[r]]

ReplyType == reply \in [Requests -> Requests \cup {None}]

IInv ==
    /\ TypeOK /\ HoldsType /\ TrailType /\ ReplyType
    /\ LocksAgree /\ KeysHeld /\ UnderWay
    /\ ReviewsHold /\ SupersedingHolds /\ SupersededHaveTheStatus
    /\ OneEffectPerKey /\ NeverMutuallySuperseded /\ TrailTellsTheRecord

-----------------------------------------------------------------------------
(* What a step does to the transaction of its request. *)

ReviewPath == {<<"reserve", "lock">>, <<"lock", "check">>, <<"check", "write">>, <<"write", "commit">>}

\* It goes on, with more locks.
Goes(r) ==
    at[r] # "idle" /\ \E want : \E next \in Steps \ {"idle", "load"} :
        /\ Blockers(r, want) = {}
        /\ holds' = [holds EXCEPT ![r] = @ \cup want]
        /\ at' = [at EXCEPT ![r] = next]
        /\ done' = done
        /\ \/ Reserved(r)
           \/ Stored(r) = {} /\ want = KeyWant(r)
           \/ next \in {"gather", "actor", "scope", "advisory", "reserve", "grant"}
           \/ cmd[r].kind = "workspace.attach"
        /\ cmd[r].kind = "knowledge.record.status" => <<at[r], next>> \in ReviewPath

\* It ends, or leaves only the grant of ownership to do.
Ends(r) ==
    /\ at[r] # "idle"
    /\ holds' = [holds EXCEPT ![r] = {}]
    /\ \E next \in {"grant", "ended"} :
        /\ at' = [at EXCEPT ![r] = next]
        /\ cmd[r].kind = "knowledge.record.status" => next = "ended"
    /\ done' = done \/ (done' = done \cup {r} /\ Reserved(r))

LEMMA WorkspaceShape ==
    ASSUME IInv, NEW r \in Requests, WorkspaceStep(r)
    PROVE  cmd' = cmd /\ (Goes(r) \/ Ends(r))
<1>. USE DEF IInv, TypeOK, HoldsType, UnderWay, Steps, Reserved, ReviewPath
<1>1. CASE LoadWorkspace(r)
  BY <1>1 DEF LoadWorkspace, Go, Take, Fail, Finish, Goes, Ends
<1>2. CASE InsertWorkspace(r)
  BY <1>2, ZenonT(40) DEF InsertWorkspace, Go, Take, Fail, Finish, Goes, Ends, Kind
<1>3. ASSUME NEW p \in Projects, ReadHome(r, p) PROVE cmd' = cmd /\ Goes(r)
  BY <1>3 DEF ReadHome, Go, Take, Fail, Finish, Goes, Ends
<1>4. CASE Relate(r)
  BY <1>4 DEF Relate, Go, Take, Fail, Finish, Goes, Ends
<1>5. CASE Touch(r)
  BY <1>5 DEF Touch, Go, Take, Fail, Finish, Goes, Ends
<1>6. CASE Look(r)
  BY <1>6 DEF Look, Go, Take, Fail, Finish, Goes, Ends
<1>7. CASE Leave(r)
  BY <1>7 DEF Leave, Go, Take, Fail, Finish, Goes, Ends
<1>8. CASE CommitMove(r)
  BY <1>8 DEF CommitMove, Complete, Finish, Goes, Ends, Kind
<1>9. CASE InsertProject(r)
  BY <1>9 DEF InsertProject, Go, Take, Fail, Finish, Goes, Ends, Kind
<1>10. CASE PlaceInDefault(r)
  BY <1>10 DEF PlaceInDefault, Go, Take, Fail, Finish, Goes, Ends
<1>11. CASE FindWorkspace(r)
  BY <1>11 DEF FindWorkspace, Go, Take, Fail, Finish, Goes, Ends
<1>12. CASE Enter(r)
  BY <1>12 DEF Enter, Go, Take, Fail, Finish, Goes, Ends
<1>13. CASE CommitProject(r)
  BY <1>13 DEF CommitProject, Goes, Ends, Kind
<1>14. CASE ReplayProject(r)
  <2>1. Blockers(r, {}) = {}
    BY DEF Blockers
  <2>2. holds = [holds EXCEPT ![r] = @ \cup {}]
    BY <1>14 DEF ReplayProject
  <2>. QED
    BY <1>14, <2>1, <2>2 DEF ReplayProject, Kind, Fail, Finish, Goes, Ends
<1>15. CASE GrantProjectOwner(r)
  BY <1>15 DEF GrantProjectOwner, Finish, Goes, Ends
<1>16. CASE CheckWorkspace(r)
  BY <1>16, ZenonT(40) DEF CheckWorkspace, Kind, Go, Take, Fail, Finish, Goes, Ends
<1>17. CASE InsertRoom(r)
  BY <1>17 DEF InsertRoom, Go, Take, Fail, Finish, Goes, Ends, Kind
<1>18. CASE CommitRoom(r)
  BY <1>18 DEF CommitRoom, Complete, Finish, Goes, Ends, Kind
<1>. QED
  BY <1>1, <1>2, <1>3, <1>4, <1>5, <1>6, <1>7, <1>8, <1>9, <1>10, <1>11, <1>12, <1>13, <1>14, <1>15, <1>16, <1>17, <1>18 DEF WorkspaceStep

LEMMA OthersShape ==
    ASSUME IInv, NEW r \in Requests,
           ReserveKey(r) \/ RoomStep(r) \/ KnowledgeStep(r) \/ PackStep(r) \/ PackCommit(r)
    PROVE  cmd' = cmd /\ (Goes(r) \/ Ends(r))
<1>. USE DEF IInv, TypeOK, HoldsType, UnderWay, Steps, Reserved, ReviewPath
<1>1. CASE ReserveKey(r)
  <2>1. /\ AfterReserve(cmd[r]) \in Steps \ {"idle", "load"}
        /\ cmd[r].kind = "knowledge.record.status" => AfterReserve(cmd[r]) = "lock"
    BY DEF AfterReserve, Scoped
  <2>. QED
    BY <1>1, <2>1 DEF ReserveKey, Reserve, Replay, Take, Finish, Goes, Ends
<1>2. ASSUME NEW known \in BOOLEAN, ResolveAuthor(r, known) PROVE cmd' = cmd /\ (Goes(r) \/ Ends(r))
  BY <1>2 DEF ResolveAuthor, Go, Take, Fail, Finish, Goes, Ends
<1>3. CASE ResolveReply(r)
  BY <1>3 DEF ResolveReply, Go, Take, Fail, Finish, Goes, Ends
<1>4. CASE InsertMessage(r)
  BY <1>4 DEF InsertMessage, Go, Take, Fail, Finish, Goes, Ends
<1>5. ASSUME NEW active \in BOOLEAN, InsertMention(r, active) PROVE cmd' = cmd /\ (Goes(r) \/ Ends(r))
  BY <1>5 DEF InsertMention, Go, Take, Fail, Finish, Goes, Ends
<1>6. CASE CommitMessage(r)
  BY <1>6 DEF CommitMessage, Complete, Finish, Ends, Kind
<1>7. CASE InsertResource(r)
  BY <1>7 DEF InsertResource, Go, Take, Fail, Finish, Goes, Ends
<1>8. CASE CommitResource(r)
  BY <1>8 DEF CommitResource, Complete, Finish, Ends
<1>9. CASE AttachEvidence(r)
  BY <1>9 DEF AttachEvidence, Go, Take, Fail, Finish, Goes, Ends
<1>10. CASE CommitRecord(r)
  BY <1>10 DEF CommitRecord, Complete, Finish, Ends
<1>11. CASE LockRecord(r)
  BY <1>11 DEF LockRecord, Go, Take, Fail, Finish, Goes, Ends
<1>12. CASE CheckSuperseding(r)
  BY <1>12 DEF CheckSuperseding, Go, Take, Fail, Finish, Goes, Ends
<1>13. CASE WriteStatus(r)
  BY <1>13 DEF WriteStatus, Go, Take, Fail, Finish, Goes, Ends
<1>14. CASE CommitReview(r)
  BY <1>14 DEF CommitReview, Complete, Finish, Ends
<1>15. CASE Gather(r)
  BY <1>15 DEF Gather, Go, Take, Fail, Finish, Goes, Ends
<1>16. ASSUME NEW known \in BOOLEAN, PackActor(r, known) PROVE cmd' = cmd /\ (Goes(r) \/ Ends(r))
  BY <1>16 DEF PackActor, Go, Take, Fail, Finish, Goes, Ends
<1>17. CASE CheckScope(r)
  BY <1>17 DEF CheckScope, Go, Take, Fail, Finish, Goes, Ends
<1>18. CASE ReadCursor(r)
  BY <1>18 DEF ReadCursor, Take, Goes
<1>19. CASE Count(r)
  BY <1>19 DEF Count, Take, Goes
<1>20. CASE Bump(r)
  BY <1>20 DEF Bump, Take, Goes
<1>21. CASE LockProject(r)
  BY <1>21 DEF LockProject, Take, Goes
<1>22. CASE PackCommit(r)
  BY <1>22 DEF PackCommit, CommitPack, CommitWork, Complete, Finish, Ends, Kind
<1>. QED
  BY <1>1, <1>2, <1>3, <1>4, <1>5, <1>6, <1>7, <1>8, <1>9, <1>10, <1>11, <1>12, <1>13, <1>14, <1>15, <1>16, <1>17, <1>18, <1>19, <1>20, <1>21, <1>22
     DEF RoomStep, KnowledgeStep, PackStep

-----------------------------------------------------------------------------
(* Locks. *)

LEMMA GoesKeepsLocks ==
    ASSUME IInv, NEW r \in Requests, cmd' = cmd, Goes(r)
    PROVE  HoldsType' /\ LocksAgree' /\ KeysHeld'
<1>. USE DEF IInv, TypeOK, HoldsType
<1>. PICK want : \E next \in Steps \ {"idle", "load"} :
        /\ Blockers(r, want) = {}
        /\ holds' = [holds EXCEPT ![r] = @ \cup want]
        /\ at' = [at EXCEPT ![r] = next]
        /\ done' = done
        /\ \/ Reserved(r)
           \/ Stored(r) = {} /\ want = KeyWant(r)
           \/ next \in {"gather", "actor", "scope", "advisory", "reserve", "grant"}
           \/ cmd[r].kind = "workspace.attach"
  BY DEF Goes
<1>. PICK next \in Steps \ {"idle", "load"} :
        /\ at' = [at EXCEPT ![r] = next]
        /\ \/ Reserved(r)
           \/ Stored(r) = {} /\ want = KeyWant(r)
           \/ next \in {"gather", "actor", "scope", "advisory", "reserve", "grant"}
           \/ cmd[r].kind = "workspace.attach"
  OBVIOUS
<1>1. HoldsType'
  OBVIOUS
<1>2. \A s \in Requests \ {r} : \A h \in holds[s], w \in want : h[1] = w[1] => ~Conflict(h[2], w[2])
  BY DEF Blockers
<1>3. \A m, n : Conflict(m, n) <=> Conflict(n, m)
  BY DEF Conflict
<1>4. LocksAgree'
  BY <1>2, <1>3 DEF LocksAgree
<1>5. ASSUME NEW s \in Requests, Reserved(s)' PROVE KeyWant(s) \subseteq holds'[s] /\ Stored(s) = {}
  <2>1. CASE s # r
    BY <1>5, <2>1 DEF KeysHeld, Reserved
  <2>2. CASE s = r
    <3>1. next \notin {"idle", "ended", "grant", "gather", "actor", "scope", "advisory", "load", "reserve"}
      BY <1>5, <2>2 DEF Reserved
    <3>2. cmd[r].kind # "workspace.attach"
      BY <1>5, <2>2 DEF Reserved
    <3>. QED
      BY <2>2, <3>1, <3>2 DEF KeysHeld
  <2>. QED
    BY <2>1, <2>2
<1>6. \A s \in Requests : Stored(s)' = Stored(s) /\ KeyWant(s)' = KeyWant(s)
  BY DEF Stored, KeyWant
<1>7. KeysHeld'
  BY <1>5, <1>6 DEF KeysHeld
<1>. QED
  BY <1>1, <1>4, <1>7

\* Two that have reserved have reserved different keys.
LEMMA KeysDiffer ==
    ASSUME LocksAgree, KeysHeld, NEW r \in Requests, NEW s \in Requests, Reserved(r), Reserved(s), r # s
    PROVE  Slot(cmd[r]) # Slot(cmd[s])
<1>. SUFFICES ASSUME Slot(cmd[r]) = Slot(cmd[s]) PROVE FALSE
  OBVIOUS
<1>. DEFINE lock == <<<<"key", Slot(cmd[r])>>, "update">>
<1>1. lock \in holds[r] /\ lock \in holds[s]
  BY DEF KeysHeld, KeyWant
<1>2. Conflict(lock[2], lock[2])
  BY DEF Conflict, Conflicts
<1>. QED
  BY <1>1, <1>2 DEF LocksAgree

LEMMA EndsKeepsLocks ==
    ASSUME IInv, NEW r \in Requests, cmd' = cmd, Ends(r)
    PROVE  HoldsType' /\ LocksAgree' /\ KeysHeld'
<1>. USE DEF IInv, TypeOK, HoldsType
<1>1. PICK next \in {"grant", "ended"} : at' = [at EXCEPT ![r] = next]
  BY DEF Ends
<1>2. HoldsType'
  BY DEF Ends
<1>3. LocksAgree'
  BY DEF Ends, LocksAgree
<1>4. ASSUME NEW s \in Requests, Reserved(s)' PROVE KeyWant(s)' \subseteq holds'[s] /\ Stored(s)' = {}
  <2>1. s # r /\ Reserved(s)
    BY <1>4, <1>1 DEF Reserved
  <2>2. KeyWant(s)' \subseteq holds'[s]
    BY <2>1 DEF KeysHeld, Ends, KeyWant
  <2>3. Stored(s) = {}
    BY <2>1 DEF KeysHeld
  <2>4. CASE done' = done
    BY <2>2, <2>3, <2>4 DEF Stored
  <2>5. CASE done' = done \cup {r} /\ Reserved(r)
    <3>1. Slot(cmd[r]) # Slot(cmd[s])
      BY <2>1, <2>5, KeysDiffer
    <3>. QED
      BY <2>2, <2>3, <2>5, <3>1 DEF Stored, Slot
  <2>. QED
    BY <2>2, <2>4, <2>5 DEF Ends
<1>5. KeysHeld'
  BY <1>4 DEF KeysHeld
<1>. QED
  BY <1>2, <1>3, <1>5

LEMMA BeginKeepsLocks ==
    ASSUME IInv, NEW r \in Requests, Begin(r)
    PROVE  HoldsType' /\ LocksAgree' /\ KeysHeld'
<1>. USE DEF IInv, TypeOK, HoldsType, Begin
<1>1. First(cmd[r]) \in {"load", "gather", "actor", "reserve"}
  BY DEF First
<1>2. HoldsType' /\ LocksAgree'
  BY DEF LocksAgree
<1>3. ASSUME NEW s \in Requests, Reserved(s)' PROVE Reserved(s)
  BY <1>1, <1>3 DEF Reserved
<1>4. \A s \in Requests : KeyWant(s)' = KeyWant(s) /\ Stored(s)' = Stored(s)
  BY DEF KeyWant, Stored
<1>5. KeysHeld'
  BY <1>3, <1>4 DEF KeysHeld
<1>. QED
  BY <1>2, <1>5

\* A transaction that dies or is chosen as the victim leaves nothing.
LEMMA LeavesNothing ==
    ASSUME IInv, NEW r \in Requests, Victim(r) \/ Die(r)
    PROVE  cmd' = cmd /\ Ends(r)
BY DEF Victim, Die, Fail, Crash, Finish, Ends, Deadlocked, Running

LEMMA StepShape ==
    ASSUME IInv, NEW r \in Requests, Step(r)
    PROVE  cmd' = cmd /\ (Goes(r) \/ Ends(r))
BY WorkspaceShape, OthersShape DEF Step

LEMMA LocksStep == IInv /\ [Next]_vars => HoldsType' /\ LocksAgree' /\ KeysHeld'
<1>. SUFFICES ASSUME IInv, [Next]_vars PROVE HoldsType' /\ LocksAgree' /\ KeysHeld'
  OBVIOUS
<1>1. ASSUME NEW r \in Requests, Begin(r) PROVE HoldsType' /\ LocksAgree' /\ KeysHeld'
  BY <1>1, BeginKeepsLocks
<1>2. ASSUME NEW r \in Requests, Step(r) PROVE HoldsType' /\ LocksAgree' /\ KeysHeld'
  BY <1>2, StepShape, GoesKeepsLocks, EndsKeepsLocks
<1>3. ASSUME NEW r \in Requests, Victim(r) \/ Die(r) PROVE HoldsType' /\ LocksAgree' /\ KeysHeld'
  BY <1>3, LeavesNothing, EndsKeepsLocks
<1>4. CASE Acknowledge \/ UNCHANGED vars
  <2>1. UNCHANGED txVars
    BY <1>4 DEF Acknowledge, vars
  <2>2. UNCHANGED <<cmd, at, holds, answer, done>>
    BY <2>1 DEF txVars
  <2>. QED
    BY <2>2 DEF IInv, HoldsType, LocksAgree, KeysHeld, KeyWant, Stored, Reserved
<1>. QED
  BY <1>1, <1>2, <1>3, <1>4 DEF Next

LEMMA UnderWayStep == IInv /\ [Next]_vars => UnderWay'
<1>. SUFFICES ASSUME IInv, [Next]_vars PROVE UnderWay'
  OBVIOUS
<1>. USE DEF IInv, TypeOK, UnderWay
<1>1. ASSUME NEW r \in Requests, Begin(r) PROVE UnderWay'
  BY <1>1 DEF Begin, First, Scoped
<1>2. ASSUME NEW r \in Requests, cmd' = cmd, Goes(r) PROVE UnderWay'
  BY <1>2 DEF Goes, ReviewPath
<1>3. ASSUME NEW r \in Requests, cmd' = cmd, Ends(r) PROVE UnderWay'
  BY <1>3 DEF Ends
<1>4. CASE Acknowledge \/ UNCHANGED vars
  BY <1>4 DEF Acknowledge, vars, txVars
<1>. QED
  BY <1>1, <1>2, <1>3, <1>4, StepShape, LeavesNothing DEF Next

-----------------------------------------------------------------------------
(* What a step publishes. *)

\* The records, messages and packs, and the commands that had an effect.
Effects == <<done, messages, packs, record, trail>>

Answered(r, x) == answer' = [answer EXCEPT ![r] = x]

\* Most steps have no effect, and answer nothing but an error.
Quiet(r) ==
    /\ UNCHANGED <<cmd, Effects>>
    /\ answer' = answer \/ Answered(r, "error") \/ Answered(r, "lost")

LEMMA QuietWorkspaces ==
    ASSUME NEW r \in Requests, UNCHANGED <<rmVars, knVars, cpVars>>,
           \/ LoadWorkspace(r) \/ InsertWorkspace(r) \/ (\E p \in Projects : ReadHome(r, p))
           \/ Relate(r) \/ Touch(r) \/ Look(r) \/ Leave(r)
           \/ InsertProject(r) \/ PlaceInDefault(r) \/ FindWorkspace(r) \/ Enter(r)
           \/ CheckWorkspace(r) \/ InsertRoom(r)
    PROVE  Quiet(r)
<1>. USE DEF rmVars, knVars, cpVars, Quiet, Effects, Answered, Go, Take, Fail, Finish
<1>1. CASE LoadWorkspace(r) \/ InsertWorkspace(r)
  BY <1>1 DEF LoadWorkspace, InsertWorkspace
<1>2. CASE \E p \in Projects : ReadHome(r, p)
  BY <1>2 DEF ReadHome
<1>3. CASE Relate(r) \/ Touch(r)
  BY <1>3 DEF Relate, Touch
<1>4. CASE Look(r) \/ Leave(r)
  BY <1>4 DEF Look, Leave
<1>5. CASE InsertProject(r) \/ PlaceInDefault(r)
  BY <1>5 DEF InsertProject, PlaceInDefault
<1>6. CASE FindWorkspace(r) \/ Enter(r)
  BY <1>6 DEF FindWorkspace, Enter
<1>7. CASE CheckWorkspace(r) \/ InsertRoom(r)
  BY <1>7 DEF CheckWorkspace, InsertRoom
<1>. QED
  BY <1>1, <1>2, <1>3, <1>4, <1>5, <1>6, <1>7

LEMMA QuietOthers ==
    ASSUME NEW r \in Requests,
           \/ /\ UNCHANGED <<knVars, cpVars>>
              /\ \/ (\E known \in BOOLEAN : ResolveAuthor(r, known)) \/ ResolveReply(r)
                 \/ InsertMessage(r) \/ (\E active \in BOOLEAN : InsertMention(r, active))
           \/ /\ UNCHANGED <<rmVars, cpVars>>
              /\ InsertResource(r) \/ AttachEvidence(r) \/ LockRecord(r) \/ CheckSuperseding(r)
                    \/ WriteStatus(r)
           \/ PackStep(r) /\ UNCHANGED <<rmVars, knVars>>
           \/ Victim(r) \/ Die(r)
    PROVE  Quiet(r)
<1>. USE DEF rmVars, knVars, cpVars, Quiet, Effects, Answered, Go, Take, Fail, Finish
<1>1. CASE UNCHANGED <<knVars, cpVars>> /\ (\E known \in BOOLEAN : ResolveAuthor(r, known))
  BY <1>1 DEF ResolveAuthor
<1>2. CASE UNCHANGED <<knVars, cpVars>> /\ (ResolveReply(r) \/ InsertMessage(r))
  BY <1>2 DEF ResolveReply, InsertMessage
<1>3. CASE UNCHANGED <<knVars, cpVars>> /\ (\E active \in BOOLEAN : InsertMention(r, active))
  BY <1>3 DEF InsertMention
<1>4. CASE UNCHANGED <<rmVars, cpVars>> /\ (InsertResource(r) \/ AttachEvidence(r))
  BY <1>4 DEF InsertResource, AttachEvidence
<1>5. CASE UNCHANGED <<rmVars, cpVars>> /\ (LockRecord(r) \/ CheckSuperseding(r) \/ WriteStatus(r))
  BY <1>5 DEF LockRecord, CheckSuperseding, WriteStatus
<1>6. CASE PackStep(r) /\ UNCHANGED <<rmVars, knVars>>
  BY <1>6 DEF PackStep, Gather, PackActor, CheckScope, ReadCursor, Count, Bump, LockProject
<1>7. CASE Victim(r) \/ Die(r)
  BY <1>7 DEF Victim, Die, Crash
<1>. QED
  BY <1>1, <1>2, <1>3, <1>4, <1>5, <1>6, <1>7

\* The others end with a response, or hand one out again.
Speaks(r) ==
    \/ ReserveKey(r)
    \/ /\ UNCHANGED <<rmVars, knVars, cpVars>>
       /\ CommitMove(r) \/ CommitProject(r) \/ ReplayProject(r) \/ GrantProjectOwner(r) \/ CommitRoom(r)
    \/ CommitMessage(r) /\ UNCHANGED <<wsVars, knVars, cpVars>>
    \/ (CommitResource(r) \/ CommitRecord(r) \/ CommitReview(r)) /\ UNCHANGED <<wsVars, rmVars, cpVars>>
    \/ PackCommit(r) /\ UNCHANGED <<rmVars, knVars>>

LEMMA StepSpeaks ==
    ASSUME NEW r \in Requests, Step(r)
    PROVE  Quiet(r) \/ Speaks(r)
BY QuietWorkspaces, QuietOthers DEF Step, Speaks, WorkspaceStep, RoomStep, KnowledgeStep

\* An answer names a command of the same kind that had its effect.
LEMMA EffectsStay ==
    ASSUME IInv, NEW r \in Requests, cmd' = cmd,
           done' = done \/ (done' = done \cup {r} /\ Reserved(r)),
           \/ answer' = answer
           \/ \E x : /\ Answered(r, x)
                     /\ x \in Requests /\ cmd[r].kind \in Keyed =>
                          x \in done' /\ Payload(cmd[x]) = Payload(cmd[r]),
           messages' = messages \cup {q \in done' \ done : cmd[q].kind = "room.message.create"},
           packs' = packs \cup {q \in done' \ done : cmd[q].kind = "context.compile"}
    PROVE  OneEffectPerKey'
<1>. USE DEF IInv
<1>1. ASSUME NEW p \in done', NEW q \in done', Slot(cmd[p]) = Slot(cmd[q]) PROVE p = q
  <2>1. CASE done' = done
    BY <1>1, <2>1 DEF OneEffectPerKey
  <2>2. CASE done' = done \cup {r} /\ Reserved(r)
    <3>1. Stored(r) = {}
      BY <2>2 DEF KeysHeld
    <3>. QED
      BY <1>1, <2>2, <3>1 DEF OneEffectPerKey, Stored
  <2>. QED
    BY <2>1, <2>2
<1>2. ASSUME NEW q \in Requests, answer'[q] \in Requests, cmd[q].kind \in Keyed
      PROVE  answer'[q] \in done' /\ Payload(cmd[answer'[q]]) = Payload(cmd[q])
  <2>1. done \subseteq done'
    OBVIOUS
  <2>2. CASE answer'[q] = answer[q]
    BY <1>2, <2>1, <2>2 DEF OneEffectPerKey
  <2>3. CASE answer'[q] # answer[q]
    <3>. answer' # answer
      BY <2>3
    <3>1. PICK x : /\ Answered(r, x)
                   /\ x \in Requests /\ cmd[r].kind \in Keyed =>
                        x \in done' /\ Payload(cmd[x]) = Payload(cmd[r])
      OBVIOUS
    <3>2. q = r /\ answer'[q] = x
      BY <2>3, <3>1 DEF Answered, TypeOK
    <3>. QED
      BY <1>2, <3>1, <3>2
  <2>. QED
    BY <2>2, <2>3
<1>3. /\ messages' = {q \in done' : cmd[q].kind = "room.message.create"}
      /\ packs' = {q \in done' : cmd[q].kind = "context.compile"}
  BY DEF OneEffectPerKey
<1>. QED
  BY <1>1, <1>2, <1>3 DEF OneEffectPerKey, Slot, Payload

LEMMA SpeaksOnce ==
    ASSUME IInv, NEW r \in Requests, Speaks(r), cmd' = cmd
    PROVE  OneEffectPerKey'
<1>. USE DEF IInv, TypeOK
<1>1. ASSUME NEW x, Finish(r, x), done' = done, x \notin Requests \/ cmd[r].kind \notin Keyed \/ (x \in done /\ Payload(cmd[x]) = Payload(cmd[r])),
             messages' = messages, packs' = packs
      PROVE  OneEffectPerKey'
  BY <1>1, EffectsStay DEF Finish, Answered
<1>2. ASSUME Finish(r, r) \/ Answered(r, r), done' = done \cup {r}, Reserved(r),
             messages' = messages \cup {q \in {r} : cmd[q].kind = "room.message.create"},
             packs' = packs \cup {q \in {r} : cmd[q].kind = "context.compile"}
      PROVE  OneEffectPerKey'
  <2>1. r \notin done
    BY <1>2 DEF KeysHeld, Stored
  <2>2. done' \ done = {r}
    BY <1>2, <2>1
  <2>3. Answered(r, r)
    BY <1>2 DEF Finish, Answered
  <2>. QED
    BY <1>2, <2>2, <2>3, EffectsStay
<1>3. CASE ReserveKey(r)
  <2>1. CASE Reserve(r, AfterReserve(cmd[r]))
    BY <1>3, <2>1, EffectsStay DEF ReserveKey, Reserve, Take, rmVars, cpVars
  <2>2. CASE Replay(r)
    <3>1. "error" \notin Requests
      BY TransactionsAssumption
    <3>. QED
      BY <1>1, <1>3, <2>2, <3>1 DEF ReserveKey, Replay, Stored, rmVars, cpVars
  <2>. QED
    BY <1>3, <2>1, <2>2 DEF ReserveKey
<1>4. CASE CommitMove(r) /\ UNCHANGED <<rmVars, knVars, cpVars>>
  <2>1. at[r] = "read" /\ messages' = messages /\ packs' = packs
    BY <1>4 DEF CommitMove, rmVars, cpVars
  <2>2. CASE Kind(r) = "workspace.create"
    BY <1>2, <1>4, <2>1, <2>2 DEF CommitMove, Complete, Reserved, Kind
  <2>3. CASE Kind(r) # "workspace.create"
    <3>1. cmd[r].kind = "workspace.attach"
      BY <1>4, <2>3 DEF CommitMove, Mover, Kind
    <3>. QED
      BY <1>1, <1>4, <2>1, <2>3, <3>1 DEF CommitMove, Keyed
  <2>. QED
    BY <2>2, <2>3
<1>5. CASE CommitProject(r) /\ UNCHANGED <<rmVars, knVars, cpVars>>
  BY <1>2, <1>5 DEF CommitProject, Answered, Reserved, Kind, rmVars, cpVars
<1>6. CASE ReplayProject(r) /\ UNCHANGED <<rmVars, knVars, cpVars>>
  <2>1. PICK x \in done : IF Payload(cmd[x]) = Payload(cmd[r])
                          THEN Answered(r, x) /\ done' = done ELSE Fail(r)
    BY <1>6 DEF ReplayProject, Stored, Answered
  <2>2. CASE Payload(cmd[x]) = Payload(cmd[r])
    BY <1>6, <2>1, <2>2, EffectsStay DEF rmVars, cpVars
  <2>3. CASE Payload(cmd[x]) # Payload(cmd[r])
    BY <1>1, <1>6, <2>1, <2>3, TransactionsAssumption DEF Fail, rmVars, cpVars
  <2>. QED
    BY <2>2, <2>3
<1>7. CASE GrantProjectOwner(r) /\ UNCHANGED <<rmVars, knVars, cpVars>>
  BY <1>1, <1>7 DEF GrantProjectOwner, OneEffectPerKey, rmVars, cpVars
<1>8. CASE CommitRoom(r) /\ UNCHANGED <<rmVars, knVars, cpVars>>
  BY <1>2, <1>8 DEF CommitRoom, Complete, Reserved, Kind, rmVars, cpVars
<1>9. CASE CommitMessage(r) /\ UNCHANGED <<wsVars, knVars, cpVars>>
  BY <1>2, <1>9 DEF CommitMessage, Complete, Reserved, Kind, cpVars
<1>10. CASE (CommitResource(r) \/ CommitRecord(r) \/ CommitReview(r)) /\ UNCHANGED <<wsVars, rmVars, cpVars>>
  BY <1>2, <1>10 DEF CommitResource, CommitRecord, CommitReview, Complete, Reserved, rmVars, cpVars
<1>11. CASE PackCommit(r) /\ UNCHANGED <<rmVars, knVars>>
  BY <1>2, <1>11 DEF PackCommit, CommitPack, CommitWork, Complete, Reserved, Kind, rmVars, cpVars
<1>. QED
  BY <1>3, <1>4, <1>5, <1>6, <1>7, <1>8, <1>9, <1>10, <1>11 DEF Speaks

LEMMA EffectStep == IInv /\ [Next]_vars => OneEffectPerKey'
<1>. SUFFICES ASSUME IInv, [Next]_vars PROVE OneEffectPerKey'
  OBVIOUS
<1>. USE DEF IInv
<1>1. ASSUME NEW r \in Requests, Quiet(r) PROVE OneEffectPerKey'
  BY <1>1, EffectsStay, TransactionsAssumption DEF Quiet, Effects, Answered
<1>2. ASSUME NEW r \in Requests, Step(r) PROVE OneEffectPerKey'
  BY <1>1, <1>2, StepSpeaks, StepShape, SpeaksOnce
<1>3. ASSUME NEW r \in Requests, Victim(r) \/ Die(r) PROVE OneEffectPerKey'
  BY <1>1, <1>3, QuietOthers
<1>4. ASSUME NEW r \in Requests, Begin(r) PROVE OneEffectPerKey'
  BY <1>4 DEF Begin, OneEffectPerKey, rmVars, cpVars, Slot, Payload
<1>5. CASE Acknowledge \/ UNCHANGED vars
  BY <1>5, ZenonT(40) DEF Acknowledge, UpdateMention, vars, OneEffectPerKey, txVars, rmVars, cpVars, Slot, Payload
<1>. QED
  BY <1>2, <1>3, <1>4, <1>5 DEF Next

-----------------------------------------------------------------------------
(* Reviews. *)

LEMMA ReviewsAlone ==
    ASSUME IInv, NEW r \in Requests, NEW s \in Requests, r # s, Reviewing(r), Reviewing(s)
    PROVE  /\ cmd[r].record # cmd[s].record
           /\ at[s] = "commit" /\ cmd[s].other # None => cmd[s].other # cmd[r].record
<1>. USE DEF IInv, ReviewsHold, SupersedingHolds
<1>1. /\ <<<<"record", cmd[r].record>>, "update">> \in holds[r]
      /\ <<<<"record", cmd[s].record>>, "update">> \in holds[s]
  OBVIOUS
<1>2. Conflict("update", "update") /\ Conflict("update", "key")
  BY DEF Conflict, Conflicts
<1>3. cmd[r].record # cmd[s].record
  BY <1>1, <1>2 DEF LocksAgree
<1>4. ASSUME at[s] = "commit", cmd[s].other # None PROVE cmd[s].other # cmd[r].record
  <2>1. <<<<"record", cmd[s].other>>, "key">> \in holds[s]
    BY <1>4
  <2>. QED
    BY <1>1, <1>2, <2>1 DEF LocksAgree
<1>. QED
  BY <1>3, <1>4

\* Who reviews does nothing else meanwhile.
LEMMA OnlyReviews ==
    ASSUME NEW r \in Requests, Step(r), cmd[r].kind = "knowledge.record.status",
           at[r] \in {"lock", "check", "write"}
    PROVE  LockRecord(r) \/ CheckSuperseding(r) \/ WriteStatus(r)
<1>1. ~ReserveKey(r)
  BY DEF ReserveKey, Reserve, Replay
<1>2. ~WorkspaceStep(r)
  BY DEF WorkspaceStep, Kind, LoadWorkspace, InsertWorkspace, ReadHome, Relate, Touch, Look, Leave,
         CommitMove, InsertProject, PlaceInDefault, FindWorkspace, Enter, CommitProject,
         ReplayProject, GrantProjectOwner, CheckWorkspace, InsertRoom, CommitRoom
<1>3. ~RoomStep(r)
  BY DEF RoomStep, ResolveAuthor, ResolveReply, InsertMessage, InsertMention, CommitMessage
<1>4. ~PackStep(r)
  BY DEF PackStep, Gather, PackActor, CheckScope, ReadCursor, Count, Bump, LockProject
<1>5. ~PackCommit(r)
  BY DEF PackCommit, CommitPack, CommitWork
<1>6. ~(InsertResource(r) \/ CommitResource(r) \/ AttachEvidence(r) \/ CommitRecord(r) \/ CommitReview(r))
  BY DEF InsertResource, CommitResource, AttachEvidence, CommitRecord, CommitReview
<1>. QED
  BY <1>1, <1>2, <1>3, <1>4, <1>5, <1>6 DEF Step, KnowledgeStep

LEMMA RecordsMove ==
    ASSUME NEW r \in Requests, Step(r)
    PROVE  UNCHANGED <<record, trail>> \/ CommitRecord(r) \/ CommitReview(r)
<1>1. CASE Quiet(r)
  BY <1>1 DEF Quiet, Effects
<1>2. CASE Speaks(r)
  BY <1>2 DEF Speaks, ReserveKey, knVars, CommitResource
<1>. QED
  BY <1>1, <1>2, StepSpeaks

\* The other reviews stay as they are while r takes its step.
LEMMA OthersReview ==
    ASSUME IInv, NEW r \in Requests, cmd' = cmd, Goes(r) \/ Ends(r),
           NEW s \in Requests, s # r
    PROVE  at'[s] = at[s] /\ holds'[s] = holds[s] /\ (Reviewing(s)' <=> Reviewing(s))
BY DEF IInv, TypeOK, HoldsType, Goes, Ends, Reviewing

\* A step that leaves the records alone.
LEMMA ReviewGoesOn ==
    ASSUME IInv, NEW r \in Requests, Step(r), record' = record
    PROVE  ReviewsHold' /\ SupersedingHolds'
<1>. USE DEF IInv
<1>1. cmd' = cmd /\ (Goes(r) \/ Ends(r))
  BY StepShape
<1>2. ASSUME NEW s \in Requests, Reviewing(s)'
      PROVE  /\ <<<<"record", cmd[s].record>>, "update">> \in holds'[s]
             /\ record[cmd[s].record].version = cmd[s].version
             /\ <<record[cmd[s].record].status, cmd[s].status>> \in Transitions
             /\ at'[s] # "check" /\ cmd[s].other # None =>
                  /\ record[cmd[s].other].by # cmd[s].record
                  /\ at'[s] = "commit" => <<<<"record", cmd[s].other>>, "key">> \in holds'[s]
  <2>1. CASE s # r
    BY <1>1, <1>2, <2>1, OthersReview DEF ReviewsHold, SupersedingHolds
  <2>2. CASE s = r
    <3>1. cmd[r].kind = "knowledge.record.status" /\ at'[r] \in {"check", "write", "commit"}
      BY <1>1, <1>2, <2>2 DEF Reviewing
    <3>2. <<at[r], at'[r]>> \in ReviewPath
      BY <1>1, <3>1 DEF Goes, Ends, TypeOK
    <3>3. at[r] \in {"lock", "check", "write"}
      BY <3>1, <3>2 DEF ReviewPath
    <3>4. Valid(cmd[r])
      BY <3>3 DEF UnderWay
    <3>5. cmd[r].record \in Records /\ Reviewable(cmd[r])
      BY <3>1, <3>4 DEF Valid
    <3>6. LockRecord(r) \/ CheckSuperseding(r) \/ WriteStatus(r)
      BY <3>1, <3>3, OnlyReviews
    <3>7. CASE LockRecord(r)
      <4>1. at'[r] = "check"
        BY <3>2, <3>7 DEF ReviewPath, LockRecord
      <4>2. Take(r, KnowledgeWant(r), "check") /\ at[r] = "lock"
        BY <3>7, <4>1 DEF LockRecord, Fail, Finish, TypeOK
      <4>3. <<<<"record", cmd[r].record>>, "update">> \in KnowledgeWant(r)
        BY <4>2 DEF KnowledgeWant, ReviewLock
      <4>4. /\ record[cmd[r].record].version = cmd[r].version
            /\ <<record[cmd[r].record].status, cmd[r].status>> \in Transitions
        BY <3>7, <4>1 DEF LockRecord, Fail, Finish, TypeOK
      <4>. QED
        BY <2>2, <4>1, <4>2, <4>3, <4>4 DEF Take, HoldsType
    <3>8. CASE CheckSuperseding(r)
      <4>1. at'[r] = "write" /\ Go(r, "write") /\ at[r] = "check"
        BY <3>2, <3>8 DEF ReviewPath, CheckSuperseding, Fail, Finish, TypeOK
      <4>2. Reviewing(r)
        BY <3>1, <4>1 DEF Reviewing
      <4>3. cmd[r].other # None => cmd[r].other \in Records /\ record[cmd[r].other].status = "accepted"
        BY <3>8, <4>1 DEF CheckSuperseding, Fail, Finish, TypeOK
      <4>4. cmd[r].other # None => record[cmd[r].other].by = None
        BY <4>3 DEF SupersededHaveTheStatus
      <4>5. None # cmd[r].record
        BY <3>5, TransactionsAssumption
      <4>. QED
        BY <2>2, <4>1, <4>2, <4>4, <4>5 DEF ReviewsHold, Go, Take, HoldsType
    <3>9. CASE WriteStatus(r)
      <4>1. at'[r] = "commit" /\ Take(r, KnowledgeWant(r), "commit") /\ at[r] = "write"
        BY <3>2, <3>9 DEF ReviewPath, WriteStatus, Fail, Finish, TypeOK
      <4>2. Reviewing(r)
        BY <3>1, <4>1 DEF Reviewing
      <4>3. cmd[r].other # None => <<<<"record", cmd[r].other>>, "key">> \in KnowledgeWant(r)
        BY <4>1 DEF KnowledgeWant
      <4>. QED
        BY <2>2, <4>1, <4>2, <4>3 DEF ReviewsHold, SupersedingHolds, Take, HoldsType
    <3>. QED
      BY <3>6, <3>7, <3>8, <3>9
  <2>. QED
    BY <2>1, <2>2
<1>3. \A s \in Requests : Reviewing(s)' => cmd'[s] = cmd[s]
  BY <1>1
<1>. QED
  BY <1>1, <1>2 DEF ReviewsHold, SupersedingHolds

\* A review is written: its record is nobody else's, and nobody supersedes by it.
LEMMA ReviewCommits ==
    ASSUME IInv, NEW r \in Requests, Step(r), CommitReview(r)
    PROVE  /\ ReviewsHold' /\ SupersedingHolds' /\ SupersededHaveTheStatus'
           /\ NeverMutuallySuperseded' /\ TrailTellsTheRecord' /\ TrailType'
<1>. USE DEF IInv
<1>. DEFINE a == cmd[r].record
<1>1. cmd' = cmd /\ (Goes(r) \/ Ends(r))
  BY StepShape
<1>2. /\ at[r] = "commit" /\ cmd[r].kind = "knowledge.record.status" /\ Reviewing(r)
      /\ at' = [at EXCEPT ![r] = "ended"]
      /\ record' = [record EXCEPT ![a] = Reviewed(r)]
      /\ trail' = [trail EXCEPT ![a] = Append(@, cmd[r].status)]
  BY DEF CommitReview, Complete, Finish, Reviewing
<1>3. a \in Records /\ Reviewable(cmd[r])
  BY <1>2 DEF UnderWay, Valid
<1>4. cmd[r] \in Command
  BY DEF TypeOK
<1>5. /\ record \in [Records -> RecordType] /\ TrailType
      /\ record'[a] = [status |-> cmd[r].status, version |-> cmd[r].version + 1, by |-> cmd[r].other]
      /\ \A b \in Records \ {a} : record'[b] = record[b] /\ trail'[b] = trail[b]
      /\ trail'[a] = Append(trail[a], cmd[r].status)
  BY <1>2, <1>3 DEF TypeOK, TrailType, Reviewed, ReviewsHold
<1>6. ASSUME NEW s \in Requests, Reviewing(s)'
      PROVE  /\ s # r /\ Reviewing(s) /\ at'[s] = at[s] /\ holds'[s] = holds[s]
             /\ cmd[s].record \in Records \ {a}
             /\ cmd[s].other # None => cmd[s].other \in Records
             /\ cmd[r].other # cmd[s].record
  <2>1. s # r
    BY <1>2, <1>6 DEF Reviewing, TypeOK
  <2>2. Reviewing(s) /\ at'[s] = at[s] /\ holds'[s] = holds[s]
    BY <1>1, <1>6, <2>1, OthersReview
  <2>3. cmd[s].record \in Records /\ Reviewable(cmd[s])
    BY <2>2 DEF Reviewing, UnderWay, Valid
  <2>4. cmd[s].other # None => cmd[s].other \in Records
    BY <2>3 DEF Reviewable
  <2>5. cmd[s].record # None
    BY <2>3, TransactionsAssumption
  <2>. QED
    BY <1>2, <2>1, <2>2, <2>3, <2>4, <2>5, ReviewsAlone
<1>7. ReviewsHold'
  BY <1>1, <1>5, <1>6, ZenonT(40) DEF ReviewsHold
<1>8. SupersedingHolds'
  <2>1. ASSUME NEW s \in Requests, Reviewing(s)', at'[s] # "check", cmd[s].other # None
        PROVE  /\ record'[cmd[s].other].by # cmd[s].record
               /\ at'[s] = "commit" => <<<<"record", cmd[s].other>>, "key">> \in holds'[s]
    <3>1. /\ Reviewing(s) /\ at'[s] = at[s] /\ holds'[s] = holds[s]
          /\ cmd[s].other \in Records /\ cmd[r].other # cmd[s].record
      BY <1>6, <2>1
    <3>2. /\ record[cmd[s].other].by # cmd[s].record
          /\ at[s] = "commit" => <<<<"record", cmd[s].other>>, "key">> \in holds[s]
      BY <2>1, <3>1 DEF SupersedingHolds
    <3>3. record'[cmd[s].other].by # cmd[s].record
      <4>1. CASE cmd[s].other = a
        BY <1>5, <3>1, <4>1
      <4>2. CASE cmd[s].other # a
        BY <1>5, <3>1, <3>2, <4>2
      <4>. QED
        BY <4>1, <4>2
    <3>. QED
      BY <3>1, <3>2, <3>3
  <2>. QED
    BY <1>1, <2>1 DEF SupersedingHolds
<1>9. SupersededHaveTheStatus'
  BY <1>3, <1>5 DEF SupersededHaveTheStatus, Reviewable
<1>10. NeverMutuallySuperseded'
  <2>1. cmd[r].other # None => cmd[r].other \in Records \ {a} /\ record[cmd[r].other].by # a
    BY <1>2, <1>3 DEF SupersedingHolds, Reviewable
  <2>2. None \notin Records
    BY TransactionsAssumption
  <2>3. ASSUME NEW b \in Records, record'[a].by = b, record'[b].by = a PROVE FALSE
    BY <1>5, <2>1, <2>2, <2>3
  <2>. QED
    BY <1>3, <1>5, <2>3 DEF NeverMutuallySuperseded
<1>11. TrailType'
  BY <1>3, <1>4, <1>2 DEF TrailType, Command
<1>12. TrailTellsTheRecord'
  <2>1. trail[a] \in Seq(Statuses) /\ Len(trail[a]) = record[a].version
    BY <1>3, <1>5 DEF TrailType, TrailTellsTheRecord
  <2>2. record[a].version = cmd[r].version /\ cmd[r].version \in Nat \ {0}
    <3>1. record[a].version = cmd[r].version
      BY <1>2 DEF ReviewsHold
    <3>2. cmd[r].version \in 0..3
      BY <1>4 DEF Command
    <3>3. cmd[r].version >= 1
      BY <1>3 DEF Reviewable
    <3>. QED
      BY <3>1, <3>2, <3>3
  <2>3. <<trail[a][Len(trail[a])], cmd[r].status>> \in Transitions
    <3>1. trail[a] # <<>>
      BY <2>1, <2>2
    <3>2. trail[a][Len(trail[a])] = record[a].status
      BY <1>3, <3>1 DEF TrailTellsTheRecord
    <3>3. <<record[a].status, cmd[r].status>> \in Transitions
      BY <1>2 DEF ReviewsHold
    <3>. QED
      BY <3>2, <3>3
  <2>4. /\ Len(trail'[a]) = Len(trail[a]) + 1
        /\ trail'[a][Len(trail[a]) + 1] = cmd[r].status
        /\ \A i \in 1..Len(trail[a]) : trail'[a][i] = trail[a][i]
    BY <1>4, <1>5, <2>1 DEF Command
  <2>5. /\ Len(trail'[a]) = record'[a].version
        /\ trail'[a][Len(trail'[a])] = record'[a].status
    BY <1>5, <2>1, <2>2, <2>4
  <2>6. ASSUME NEW i \in 1..(Len(trail'[a]) - 1) PROVE <<trail'[a][i], trail'[a][i + 1]>> \in Transitions
    <3>1. CASE i = Len(trail[a])
      <4>1. i \in 1..Len(trail[a]) /\ i + 1 = Len(trail[a]) + 1
        BY <2>1, <2>2, <3>1
      <4>2. trail'[a][i] = trail[a][Len(trail[a])] /\ trail'[a][i + 1] = cmd[r].status
        BY <2>4, <3>1, <4>1
      <4>. QED
        BY <2>3, <4>2
    <3>2. CASE i # Len(trail[a])
      <4>1. i \in 1..(Len(trail[a]) - 1) /\ i + 1 \in 1..Len(trail[a])
        <5>1. Len(trail[a]) \in Nat /\ Len(trail'[a]) = Len(trail[a]) + 1
          BY <2>1, <2>4
        <5>2. i \in 1..Len(trail[a])
          BY <5>1
        <5>. QED
          BY <3>2, <5>1, <5>2
      <4>2. <<trail[a][i], trail[a][i + 1]>> \in Transitions
        BY <1>3, <4>1 DEF TrailTellsTheRecord
      <4>3. trail'[a][i] = trail[a][i] /\ trail'[a][i + 1] = trail[a][i + 1]
        <5>. i \in 1..Len(trail[a])
          BY <2>1, <4>1
        <5>. QED
          BY <2>4, <4>1
      <4>. QED
        BY <4>2, <4>3
    <3>. QED
      BY <3>1, <3>2
  <2>. QED
    BY <1>3, <1>5, <2>5, <2>6 DEF TrailTellsTheRecord
<1>. QED
  BY <1>7, <1>8, <1>9, <1>10, <1>11, <1>12

\* A proposal is a new record, which no review is about.
LEMMA ProposalCommits ==
    ASSUME IInv, NEW r \in Requests, Step(r), CommitRecord(r)
    PROVE  /\ ReviewsHold' /\ SupersedingHolds' /\ SupersededHaveTheStatus'
           /\ NeverMutuallySuperseded' /\ TrailTellsTheRecord' /\ TrailType'
<1>. USE DEF IInv
<1>. DEFINE a == cmd[r].record
<1>1. cmd' = cmd /\ (Goes(r) \/ Ends(r))
  BY StepShape
<1>2. /\ at[r] = "commit" /\ cmd[r].kind = "knowledge.record.create"
      /\ record[a] = Absent
      /\ record' = [record EXCEPT ![a] = Proposed]
      /\ trail' = [trail EXCEPT ![a] = <<"proposed">>]
  BY DEF CommitRecord
<1>3. a \in Records
  BY <1>2 DEF UnderWay, Valid
<1>4. /\ record \in [Records -> RecordType] /\ TrailType
      /\ record'[a] = Proposed
      /\ \A b \in Records \ {a} : record'[b] = record[b] /\ trail'[b] = trail[b]
      /\ trail'[a] = <<"proposed">>
  BY <1>2, <1>3 DEF TypeOK, TrailType
<1>5. ASSUME NEW s \in Requests, Reviewing(s)'
      PROVE  /\ Reviewing(s) /\ at'[s] = at[s] /\ holds'[s] = holds[s]
             /\ cmd[s].record \in Records \ {a}
             /\ cmd[s].other # None => cmd[s].other \in Records
  <2>1. s # r
    BY <1>1, <1>2, <1>5 DEF Reviewing
  <2>2. Reviewing(s) /\ at'[s] = at[s] /\ holds'[s] = holds[s]
    BY <1>1, <1>5, <2>1, OthersReview
  <2>3. cmd[s].record \in Records /\ Reviewable(cmd[s])
    BY <2>2 DEF Reviewing, UnderWay, Valid
  <2>4. cmd[s].record # a
    <3>1. cmd[s].version >= 1 /\ record[cmd[s].record].version = cmd[s].version
      BY <2>2, <2>3 DEF ReviewsHold, Reviewable
    <3>2. record[a].version = 0
      BY <1>2 DEF Absent
    <3>. QED
      BY <3>1, <3>2
  <2>. QED
    BY <2>2, <2>3, <2>4 DEF Reviewable
<1>6. None \notin Records
  BY TransactionsAssumption
<1>7. ReviewsHold'
  BY <1>1, <1>4, <1>5 DEF ReviewsHold
<1>8. SupersedingHolds'
  BY <1>1, <1>4, <1>5, <1>6, SMTT(30) DEF SupersedingHolds, Proposed
<1>9. SupersededHaveTheStatus' /\ NeverMutuallySuperseded'
  BY <1>3, <1>4, <1>6 DEF SupersededHaveTheStatus, NeverMutuallySuperseded, Proposed
<1>10. TrailType'
  <2>1. <<"proposed">> \in Seq(Statuses)
    BY DEF Statuses
  <2>2. trail' \in [Records -> Seq(Statuses)]
    BY <1>2, <1>4, <2>1 DEF TrailType
  <2>. QED
    BY <2>2 DEF TrailType
<1>11. TrailTellsTheRecord'
  <2>1. ASSUME NEW b \in Records
        PROVE  /\ Len(trail'[b]) = record'[b].version
               /\ trail'[b] # <<>> => trail'[b][Len(trail'[b])] = record'[b].status
               /\ \A i \in 1..(Len(trail'[b]) - 1) : <<trail'[b][i], trail'[b][i + 1]>> \in Transitions
    <3>1. CASE b = a
      <4>1. Len(trail'[b]) = 1 /\ trail'[b][1] = "proposed"
        BY <1>4, <3>1
      <4>2. record'[b].version = 1 /\ record'[b].status = "proposed"
        BY <1>4, <3>1 DEF Proposed
      <4>. QED
        BY <4>1, <4>2
    <3>2. CASE b # a
      BY <1>4, <3>2 DEF TrailTellsTheRecord
    <3>. QED
      BY <3>1, <3>2
  <2>. QED
    BY <2>1 DEF TrailTellsTheRecord
<1>. QED
  BY <1>7, <1>8, <1>9, <1>10, <1>11

LEMMA ReviewStep ==
    IInv /\ [Next]_vars => /\ ReviewsHold' /\ SupersedingHolds' /\ SupersededHaveTheStatus'
                           /\ NeverMutuallySuperseded' /\ TrailTellsTheRecord' /\ TrailType'
<1>. SUFFICES ASSUME IInv, [Next]_vars
              PROVE  /\ ReviewsHold' /\ SupersedingHolds' /\ SupersededHaveTheStatus'
                     /\ NeverMutuallySuperseded' /\ TrailTellsTheRecord' /\ TrailType'
  OBVIOUS
<1>. DEFINE Told == SupersededHaveTheStatus /\ NeverMutuallySuperseded /\ TrailTellsTheRecord /\ TrailType
<1>1. ASSUME UNCHANGED <<record, trail>> PROVE Told'
  BY <1>1 DEF IInv, SupersededHaveTheStatus, NeverMutuallySuperseded, TrailTellsTheRecord, TrailType
<1>2. ASSUME NEW r \in Requests, Step(r) PROVE ReviewsHold' /\ SupersedingHolds' /\ Told'
  BY <1>1, <1>2, RecordsMove, ReviewGoesOn, ReviewCommits, ProposalCommits
<1>3. ASSUME NEW r \in Requests, Victim(r) \/ Die(r) PROVE ReviewsHold' /\ SupersedingHolds' /\ Told'
  <2>1. UNCHANGED <<record, trail>>
    BY <1>3, QuietOthers DEF Quiet, Effects
  <2>2. cmd' = cmd /\ Ends(r)
    BY <1>3, LeavesNothing
  <2>3. ~Reviewing(r)'
    BY <2>2 DEF Ends, Reviewing, IInv, TypeOK
  <2>. QED
    BY <1>1, <2>1, <2>2, <2>3, OthersReview DEF IInv, ReviewsHold, SupersedingHolds
<1>4. ASSUME NEW r \in Requests, Begin(r) PROVE ReviewsHold' /\ SupersedingHolds' /\ Told'
  <2>1. First(cmd[r]) \in {"load", "gather", "actor", "reserve"}
    BY DEF First
  <2>2. UNCHANGED <<cmd, holds, record, trail>> /\ at' = [at EXCEPT ![r] = First(cmd[r])]
    BY <1>4 DEF Begin, knVars
  <2>3. \A s \in Requests : Reviewing(s)' => Reviewing(s) /\ at'[s] = at[s]
    BY <2>1, <2>2 DEF Reviewing, IInv, TypeOK
  <2>. QED
    BY <1>1, <2>2, <2>3 DEF IInv, ReviewsHold, SupersedingHolds
<1>5. CASE Acknowledge \/ UNCHANGED vars
  <2>1. UNCHANGED <<cmd, at, holds, record, trail>>
    BY <1>5 DEF Acknowledge, vars, txVars, knVars
  <2>. QED
    BY <1>1, <2>1 DEF IInv, ReviewsHold, SupersedingHolds, Reviewing
<1>. QED
  BY <1>2, <1>3, <1>4, <1>5 DEF Next

-----------------------------------------------------------------------------
(* The types, table by table. *)

TxTypes ==
    /\ cmd \in [Requests -> Command]
    /\ at \in [Requests -> Steps]
    /\ answer \in [Requests -> Requests \cup {None, "error", "lost"}]
    /\ done \subseteq Requests

WsTypes ==
    /\ home \in [Projects -> Workspaces \cup {None}]
    /\ space \in [Workspaces -> {"absent", "active", "archived"}]
    /\ rooms \subseteq Rooms
    /\ owners \in [Projects -> SUBSET People]
    /\ sequence \in [Projects -> Nat]
    /\ move \in [Requests -> MoveType]

RmTypes ==
    /\ messages \subseteq Requests
    /\ thread \in [Requests -> Requests \cup {None}]
    /\ inbox \in [Requests -> MentionStates \cup {None}]
    /\ ReplyType

KnTypes == resources \subseteq Resources /\ record \in [Records -> RecordType]

CpTypes == draft \in [Requests -> DraftType] /\ packs \subseteq Requests

LEMMA TypeParts == TypeOK /\ ReplyType <=> TxTypes /\ WsTypes /\ RmTypes /\ KnTypes /\ CpTypes
BY DEF TypeOK, TxTypes, WsTypes, RmTypes, KnTypes, CpTypes

LEMMA TxTypesStep == IInv /\ [Next]_vars => TxTypes'
<1>. SUFFICES ASSUME IInv, [Next]_vars PROVE TxTypes'
  OBVIOUS
<1>0. TxTypes
  BY TypeParts DEF IInv
<1>1. ASSUME NEW r \in Requests, cmd' = cmd, Goes(r) \/ Ends(r),
             answer' = answer \/ \E x \in Requests \cup {None, "error", "lost"} : Answered(r, x)
      PROVE  TxTypes'
  <2>1. at' \in [Requests -> Steps]
    <3>1. CASE Goes(r)
      BY <1>0, <3>1 DEF TxTypes, Goes
    <3>2. CASE Ends(r)
      BY <1>0, <3>2 DEF TxTypes, Ends, Steps
    <3>. QED
      BY <1>1, <3>1, <3>2
  <2>2. answer' \in [Requests -> Requests \cup {None, "error", "lost"}]
    BY <1>0, <1>1 DEF TxTypes, Answered
  <2>3. done' \subseteq Requests
    BY <1>0, <1>1 DEF TxTypes, Goes, Ends
  <2>. QED
    BY <1>0, <1>1, <2>1, <2>2, <2>3 DEF TxTypes
<1>2. ASSUME NEW r \in Requests, Quiet(r)
      PROVE  answer' = answer \/ \E x \in Requests \cup {None, "error", "lost"} : Answered(r, x)
  BY <1>2 DEF Quiet
<1>3. ASSUME NEW r \in Requests, Speaks(r)
      PROVE  answer' = answer \/ \E x \in Requests \cup {None, "error", "lost"} : Answered(r, x)
  <2>1. answer[r] \in Requests \cup {None, "error", "lost"} /\ Stored(r) \subseteq Requests
    BY <1>0 DEF TxTypes, Stored
  <2>. USE DEF Complete, Finish, Fail, Answered
  <2>2. CASE ReserveKey(r)
    BY <2>1, <2>2 DEF ReserveKey, Reserve, Replay, Take
  <2>3. CASE CommitMove(r) \/ CommitProject(r) \/ GrantProjectOwner(r) \/ CommitRoom(r)
    BY <2>1, <2>3 DEF CommitMove, CommitProject, GrantProjectOwner, CommitRoom
  <2>4. CASE ReplayProject(r)
    BY <2>1, <2>4 DEF ReplayProject
  <2>5. CASE CommitMessage(r) \/ CommitResource(r) \/ CommitRecord(r) \/ CommitReview(r) \/ PackCommit(r)
    BY <2>5 DEF CommitMessage, CommitResource, CommitRecord, CommitReview, PackCommit, CommitPack, CommitWork
  <2>. QED
    BY <1>3, <2>2, <2>3, <2>4, <2>5 DEF Speaks
<1>4. ASSUME NEW r \in Requests, Step(r) PROVE TxTypes'
  BY <1>1, <1>2, <1>3, <1>4, StepShape, StepSpeaks
<1>5. ASSUME NEW r \in Requests, Victim(r) \/ Die(r) PROVE TxTypes'
  BY <1>1, <1>2, <1>5, LeavesNothing, QuietOthers
<1>6. ASSUME NEW r \in Requests, Begin(r) PROVE TxTypes'
  <2>1. First(cmd[r]) \in Steps
    BY DEF First, Steps
  <2>. QED
    BY <1>0, <1>6, <2>1 DEF Begin, TxTypes
<1>7. CASE Acknowledge \/ UNCHANGED vars
  BY <1>0, <1>7 DEF Acknowledge, vars, txVars, TxTypes
<1>. QED
  BY <1>4, <1>5, <1>6, <1>7 DEF Next

LEMMA Moves ==
    ASSUME NEW m \in MoveType
    PROVE  /\ m.todo \subseteq Projects /\ m.now \in Projects \cup {None}
           /\ m.from \in Workspaces \cup {None} /\ m.moved \subseteq Projects
           /\ m.saw \subseteq Projects /\ m.archives \subseteq Workspaces
           /\ m.spaces \subseteq Workspaces
           /\ m = [todo |-> m.todo, now |-> m.now, from |-> m.from, moved |-> m.moved,
                   saw |-> m.saw, archives |-> m.archives, spaces |-> m.spaces]
BY DEF MoveType

LEMMA WorkspaceTypes ==
    ASSUME IInv, NEW r \in Requests, WorkspaceStep(r)
    PROVE  WsTypes'
<1>0. WsTypes
  BY TypeParts DEF IInv
<1>1. /\ Target(r) \in Workspaces \cup {None}
      /\ Kind(r) \in {"workspace.create", "workspace.attach", "room.create"} => Target(r) \in Workspaces \/ at[r] = "idle"
      /\ Kind(r) = "project.create" => cmd[r].project \in Projects \/ at[r] = "idle"
      /\ Kind(r) = "room.create" => cmd[r].room \in RoomNames \cup {"general"} \/ at[r] = "idle"
      /\ cmd[r].by \in People
  <2>1. cmd[r] \in Command
    BY DEF IInv, TypeOK
  <2>2. at[r] = "idle" \/ Valid(cmd[r])
    BY DEF IInv, UnderWay
  <2>. QED
    BY <2>1, <2>2 DEF Target, Kind, Valid, Command
<1>2. \A p \in Projects : View(r, p) \in Workspaces \cup {None}
  BY <1>0, <1>1 DEF View, WsTypes
<1>3. move[r] \in MoveType
  BY <1>0 DEF WsTypes
<1>4. Projects \subseteq Workspaces
  BY DEF Workspaces
<1>. USE DEF WsTypes
<1>5. CASE LoadWorkspace(r) \/ InsertWorkspace(r) \/ InsertProject(r) \/ PlaceInDefault(r) \/ Enter(r)
             \/ ReplayProject(r) \/ CheckWorkspace(r) \/ InsertRoom(r)
  BY <1>0, <1>5 DEF LoadWorkspace, InsertWorkspace, InsertProject, PlaceInDefault, Enter, ReplayProject,
                    CheckWorkspace, InsertRoom, wsVars
<1>6. ASSUME NEW x \in MoveType, move' = [move EXCEPT ![r] = x] \/ move' = move, UNCHANGED wsRows PROVE WsTypes'
  BY <1>0, <1>6 DEF wsRows
<1>7. ASSUME NEW p \in Projects, ReadHome(r, p) PROVE WsTypes'
  <2>1. [move[r] EXCEPT !.todo = @ \ {p}] \in MoveType
    BY <1>3 DEF MoveType
  <2>2. [move[r] EXCEPT !.now = p, !.from = View(r, p), !.spaces = @ \cup ({Target(r), View(r, p)} \ {None})] \in MoveType
    BY <1>1, <1>2, <1>3 DEF MoveType
  <2>3. UNCHANGED wsRows
    BY <1>7 DEF ReadHome
  <2>4. CASE View(r, p) = Target(r)
    <3>1. move' = [move EXCEPT ![r] = [move[r] EXCEPT !.todo = @ \ {p}]]
      BY <1>0, <1>7, <2>4 DEF ReadHome
    <3>. QED
      BY <1>6, <2>1, <2>3, <3>1
  <2>5. CASE View(r, p) # Target(r)
    <3>1. move' = [move EXCEPT ![r] = [move[r] EXCEPT !.now = p, !.from = View(r, p),
                                          !.spaces = @ \cup ({Target(r), View(r, p)} \ {None})]]
      BY <1>0, <1>7, <2>5 DEF ReadHome
    <3>. QED
      BY <1>6, <2>2, <2>3, <3>1
  <2>. QED
    BY <2>4, <2>5
<1>8. CASE Relate(r)
  <2>1. move[r].now \in Existing => [move[r] EXCEPT !.moved = @ \cup {move[r].now}] \in MoveType
    BY <1>3 DEF MoveType, Existing
  <2>. QED
    BY <1>3, <1>6, <1>8, <2>1 DEF Relate
<1>9. CASE Touch(r)
  <2>1. [move[r] EXCEPT !.todo = @ \ {move[r].now}] \in MoveType
    BY <1>3 DEF MoveType
  <2>. QED
    BY <1>3, <1>6, <1>9, <2>1 DEF Touch
<1>10. CASE Look(r)
  <2>1. [move[r] EXCEPT !.saw = {p \in Projects : View(r, p) = move[r].from}] \in MoveType
    BY <1>3 DEF MoveType
  <2>. QED
    BY <1>6, <1>10, <2>1 DEF Look
<1>11. CASE Leave(r)
  <2>1. Empties(r) => move[r].from \in Workspaces
    BY <1>4 DEF Empties, Managed
  <2>2. [move[r] EXCEPT !.todo = @ \ {move[r].now},
                        !.archives = IF Empties(r) THEN @ \cup {move[r].from} ELSE @] \in MoveType
    BY <1>3, <2>1 DEF MoveType
  <2>. QED
    BY <1>6, <1>11, <2>2 DEF Leave
<1>12. CASE CommitMove(r)
  <2>1. at[r] = "read" /\ Kind(r) \in {"workspace.create", "workspace.attach"}
    BY <1>12 DEF CommitMove, Mover
  <2>2. rooms' \subseteq Rooms
    BY <1>0, <1>1, <1>12, <2>1 DEF CommitMove, Rooms
  <2>. QED
    BY <1>0, <1>2, <1>12, <2>2 DEF CommitMove
<1>13. CASE FindWorkspace(r)
  <2>1. [move[r] EXCEPT !.spaces = {Target(r)}] \in MoveType
    BY <1>1, <1>3, <1>13 DEF MoveType, FindWorkspace
  <2>. QED
    BY <1>3, <1>6, <1>13, <2>1 DEF FindWorkspace
<1>14. CASE CommitProject(r)
  <2>. DEFINE w == IF Target(r) = None THEN cmd[r].project ELSE Target(r)
  <2>1. cmd[r].project \in Projects /\ w \in Workspaces
    BY <1>1, <1>4, <1>14 DEF CommitProject
  <2>2. <<w, "general">> \in Rooms
    BY <2>1 DEF Rooms
  <2>. QED
    BY <1>0, <1>14, <2>1, <2>2 DEF CommitProject
<1>15. CASE GrantProjectOwner(r)
  BY <1>0, <1>1, <1>15 DEF GrantProjectOwner
<1>16. CASE CommitRoom(r)
  BY <1>0, <1>1, <1>16 DEF CommitRoom, Rooms
<1>. QED
  BY <1>5, <1>7, <1>8, <1>9, <1>10, <1>11, <1>12, <1>13, <1>14, <1>15, <1>16 DEF WorkspaceStep

LEMMA WsTypesStep == IInv /\ [Next]_vars => WsTypes'
<1>. SUFFICES ASSUME IInv, [Next]_vars PROVE WsTypes'
  OBVIOUS
<1>0. WsTypes
  BY TypeParts DEF IInv
<1>1. ASSUME UNCHANGED wsVars PROVE WsTypes'
  BY <1>0, <1>1 DEF wsVars, WsTypes
<1>2. ASSUME NEW r \in Requests, PackCommit(r) PROVE WsTypes'
  <2>1. at[r] = "idle" \/ Valid(cmd[r])
    BY DEF IInv, UnderWay
  <2>2. at[r] = "commit" /\ Kind(r) \in Scoped
    BY <1>2 DEF PackCommit, CommitPack, CommitWork, Scoped
  <2>3. Pr(r) \in Projects
    BY <2>1, <2>2 DEF Valid, Kind, Pr
  <2>4. sequence' \in [Projects -> Nat]
    BY <1>0, <1>2, <2>3 DEF PackCommit, WsTypes
  <2>. QED
    BY <1>0, <1>2, <2>4 DEF PackCommit, WsTypes
<1>3. ASSUME NEW r \in Requests, Step(r) PROVE WsTypes'
  BY <1>1, <1>2, <1>3, WorkspaceTypes DEF Step, ReserveKey
<1>. QED
  BY <1>1, <1>3 DEF Next, Begin, Victim, Die, Acknowledge, vars

LEMMA RmTypesStep == IInv /\ [Next]_vars => RmTypes'
<1>. SUFFICES ASSUME IInv, [Next]_vars PROVE RmTypes'
  OBVIOUS
<1>0. RmTypes
  BY TypeParts DEF IInv
<1>. USE DEF RmTypes, ReplyType
<1>1. ASSUME UNCHANGED rmVars PROVE RmTypes'
  BY <1>0, <1>1 DEF rmVars
<1>2. ASSUME NEW r \in Requests, RoomStep(r) PROVE RmTypes'
  <2>1. CASE (\E known \in BOOLEAN : ResolveAuthor(r, known)) \/ InsertMessage(r) \/ (\E active \in BOOLEAN : InsertMention(r, active))
    BY <1>1, <2>1 DEF ResolveAuthor, InsertMessage, InsertMention
  <2>2. CASE ResolveReply(r)
    BY <1>0, <2>2 DEF ResolveReply, InRoom
  <2>3. CASE CommitMessage(r)
    BY <1>0, <2>3 DEF CommitMessage, Root, MentionStates
  <2>. QED
    BY <1>2, <2>1, <2>2, <2>3 DEF RoomStep
<1>3. ASSUME NEW r \in Requests, Step(r) PROVE RmTypes'
  BY <1>1, <1>2, <1>3 DEF Step, ReserveKey
<1>4. CASE Acknowledge
  BY <1>0, <1>4 DEF Acknowledge, UpdateMention
<1>. QED
  BY <1>1, <1>3, <1>4 DEF Next, Begin, Victim, Die, vars

LEMMA KnTypesStep == IInv /\ [Next]_vars => KnTypes'
<1>. SUFFICES ASSUME IInv, [Next]_vars PROVE KnTypes'
  OBVIOUS
<1>0. KnTypes
  BY TypeParts DEF IInv
<1>. USE DEF KnTypes
<1>1. ASSUME UNCHANGED <<resources, record>> PROVE KnTypes'
  BY <1>0, <1>1
<1>2. ASSUME NEW r \in Requests, KnowledgeStep(r) PROVE KnTypes'
  <2>1. at[r] = "idle" \/ Valid(cmd[r])
    BY DEF IInv, UnderWay
  <2>2. cmd[r] \in Command
    BY DEF IInv, TypeOK
  <2>3. CASE CommitResource(r)
    BY <1>0, <2>1, <2>3 DEF CommitResource, Valid
  <2>4. CASE CommitRecord(r)
    BY <1>0, <2>4 DEF CommitRecord, Proposed, RecordType, Statuses
  <2>5. CASE CommitReview(r)
    <3>1. cmd[r].record \in Records
      BY <2>1, <2>5 DEF CommitReview, Valid
    <3>2. cmd[r].status \in Statuses /\ cmd[r].other \in Records \cup {None}
      BY <2>2 DEF Command
    <3>3. Reviewed(r) \in RecordType
      BY <1>0, <3>1, <3>2 DEF Reviewed, RecordType
    <3>. QED
      BY <1>0, <2>5, <3>3 DEF CommitReview
  <2>6. CASE InsertResource(r) \/ AttachEvidence(r) \/ LockRecord(r) \/ CheckSuperseding(r) \/ WriteStatus(r)
    BY <1>1, <2>6 DEF InsertResource, AttachEvidence, LockRecord, CheckSuperseding, WriteStatus, knVars
  <2>. QED
    BY <1>2, <2>3, <2>4, <2>5, <2>6 DEF KnowledgeStep
<1>3. ASSUME NEW r \in Requests, Step(r) PROVE KnTypes'
  BY <1>1, <1>2, <1>3 DEF Step, ReserveKey, knVars
<1>. QED
  BY <1>1, <1>3 DEF Next, Begin, Victim, Die, Acknowledge, vars, knVars

LEMMA CpTypesStep == IInv /\ [Next]_vars => CpTypes'
<1>. SUFFICES ASSUME IInv, [Next]_vars PROVE CpTypes'
  OBVIOUS
<1>0. CpTypes
  BY TypeParts DEF IInv
<1>. USE DEF CpTypes
<1>1. ASSUME UNCHANGED cpVars PROVE CpTypes'
  BY <1>0, <1>1 DEF cpVars
<1>2. ASSUME NEW r \in Requests, PackStep(r) PROVE CpTypes'
  <2>1. at[r] = "idle" \/ Valid(cmd[r])
    BY DEF IInv, UnderWay
  <2>2. draft[r] \in DraftType /\ WsTypes
    BY <1>0, TypeParts DEF IInv
  <2>3. CASE Gather(r)
    <3>1. ASSUME Pr(r) \in Existing
          PROVE  [[draft[r] EXCEPT !.home = home[Pr(r)]] EXCEPT !.read = sequence[Pr(r)]] \in DraftType
      BY <2>2, <3>1 DEF DraftType, WsTypes, Existing
    <3>. QED
      BY <1>0, <2>3, <3>1 DEF Gather
  <2>4. CASE ReadCursor(r)
    <3>1. Pr(r) \in Projects
      BY <2>1, <2>4 DEF ReadCursor, Valid, Kind, Pr
    <3>2. [draft[r] EXCEPT !.cursor = sequence[Pr(r)]] \in DraftType
      BY <2>2, <3>1 DEF DraftType, WsTypes
    <3>. QED
      BY <1>0, <2>4, <3>2 DEF ReadCursor
  <2>. QED
    BY <1>0, <1>1, <1>2, <2>3, <2>4 DEF PackStep, PackActor, CheckScope, Count, Bump, LockProject
<1>3. ASSUME NEW r \in Requests, PackCommit(r) PROVE CpTypes'
  BY <1>0, <1>3 DEF PackCommit, CommitPack, CommitWork, cpVars
<1>4. ASSUME NEW r \in Requests, Step(r) PROVE CpTypes'
  BY <1>1, <1>2, <1>3, <1>4 DEF Step, ReserveKey
<1>. QED
  BY <1>1, <1>4 DEF Next, Begin, Victim, Die, Acknowledge, vars

-----------------------------------------------------------------------------
LEMMA InitCollaboration == Init => IInv
<1>. SUFFICES ASSUME Init PROVE IInv
  OBVIOUS
<1>1. PICK s \in Scenarios :
        /\ cmd = s.cmd /\ home = s.home
        /\ space = [w \in Workspaces |->
                      IF w \in Shared THEN IF w \in s.shared THEN "active" ELSE "absent"
                      ELSE IF s.home[w] = None THEN "absent"
                           ELSE IF \E p \in Projects : s.home[p] = w THEN "active" ELSE "archived"]
        /\ sequence = [p \in Projects |-> IF s.home[p] = None THEN 0 ELSE 1]
        /\ move = [r \in Requests |-> NoMove(s.cmd[r])]
        /\ record = [a \in Records |-> IF a \in s.accepted THEN Accepted
                                      ELSE IF a \in s.proposed THEN Proposed ELSE Absent]
        /\ trail = [a \in Records |-> IF a \in s.accepted THEN <<"proposed", "accepted">>
                                     ELSE IF a \in s.proposed THEN <<"proposed">> ELSE <<>>]
  BY DEF Init
<1>2. s \in Scenario
  BY TransactionsAssumption
<1>3. TxTypes
  BY <1>1, <1>2 DEF Init, TxTypes, Scenario, Steps
<1>4. WsTypes
  <2>1. move \in [Requests -> MoveType]
    BY <1>1, <1>2 DEF Scenario, NoMove, MoveType, Command
  <2>2. rooms \subseteq Rooms
    BY DEF Init, Rooms
  <2>. QED
    BY <1>1, <1>2, <2>1, <2>2 DEF Init, WsTypes, Scenario
<1>5. RmTypes
  BY DEF Init, RmTypes, ReplyType
<1>6. KnTypes
  BY <1>1 DEF Init, KnTypes, RecordType, Accepted, Proposed, Absent, Statuses
<1>7. CpTypes
  BY DEF Init, CpTypes, DraftType, NoDraft
<1>8. TypeOK /\ ReplyType
  BY <1>3, <1>4, <1>5, <1>6, <1>7, TypeParts
<1>9. TrailType
  <2>1. /\ <<>> \in Seq(Statuses) /\ <<"proposed">> \in Seq(Statuses)
        /\ <<"proposed", "accepted">> \in Seq(Statuses)
    BY DEF Statuses
  <2>. QED
    BY <1>1, <2>1 DEF TrailType
<1>10. HoldsType /\ LocksAgree /\ KeysHeld /\ UnderWay /\ ReviewsHold /\ SupersedingHolds
  BY DEF Init, HoldsType, LocksAgree, KeysHeld, Reserved, UnderWay, ReviewsHold, SupersedingHolds, Reviewing
<1>11. SupersededHaveTheStatus /\ NeverMutuallySuperseded
  <2>1. \A a \in Records : record[a].by = None
    BY <1>1 DEF Accepted, Proposed, Absent
  <2>. QED
    BY <2>1, TransactionsAssumption DEF SupersededHaveTheStatus, NeverMutuallySuperseded
<1>12. OneEffectPerKey
  <2>1. done = {} /\ messages = {} /\ packs = {} /\ \A r \in Requests : answer[r] \notin Requests
    BY TransactionsAssumption DEF Init
  <2>. QED
    BY <2>1 DEF OneEffectPerKey
<1>13. TrailTellsTheRecord
  <2>1. \A a \in Records :
          \/ record[a] = Accepted /\ trail[a] = <<"proposed", "accepted">>
          \/ record[a] = Proposed /\ trail[a] = <<"proposed">>
          \/ record[a] = Absent /\ trail[a] = <<>>
    BY <1>1
  <2>. SUFFICES ASSUME NEW a \in Records
                PROVE  /\ Len(trail[a]) = record[a].version
                       /\ trail[a] # <<>> => trail[a][Len(trail[a])] = record[a].status
                       /\ \A i \in 1..(Len(trail[a]) - 1) : <<trail[a][i], trail[a][i + 1]>> \in Transitions
    BY DEF TrailTellsTheRecord
  <2>2. CASE record[a] = Accepted /\ trail[a] = <<"proposed", "accepted">>
    <3>1. \A i \in 1..(Len(trail[a]) - 1) : i = 1
      BY <2>2
    <3>2. <<trail[a][1], trail[a][1 + 1]>> \in Transitions
      BY <2>2 DEF Transitions
    <3>. QED
      BY <2>2, <3>1, <3>2 DEF Accepted
  <2>3. CASE record[a] = Proposed /\ trail[a] = <<"proposed">>
    BY <2>3 DEF Proposed
  <2>4. CASE record[a] = Absent /\ trail[a] = <<>>
    BY <2>4 DEF Absent
  <2>. QED
    BY <2>1, <2>2, <2>3, <2>4
<1>. QED
  BY <1>8, <1>9, <1>10, <1>11, <1>12, <1>13 DEF IInv

LEMMA CollaborationStep == IInv /\ [Next]_vars => IInv'
<1>1. IInv /\ [Next]_vars => TypeOK' /\ ReplyType'
  BY TypeParts, TxTypesStep, WsTypesStep, RmTypesStep, KnTypesStep, CpTypesStep,
     TypeParts DEF TypeOK, ReplyType, TxTypes, WsTypes, RmTypes, KnTypes, CpTypes
<1>. QED
  BY <1>1, LocksStep, UnderWayStep, EffectStep, ReviewStep DEF IInv

LEMMA CollaborationInvariant == Spec => []IInv
BY InitCollaboration, CollaborationStep, PTL DEF Spec

\* Every row is one the tables admit, and what a transaction has read is too.
THEOREM TypeCorrect == Spec => []TypeOK
<1>1. IInv => TypeOK
  BY DEF IInv
<1>. QED
  BY <1>1, CollaborationInvariant, PTL

\* An idempotency key has one effect and one answer, whichever requests with it run side
\* by side, die or are chosen as the victim of a deadlock.
THEOREM KeysHaveOneEffect == Spec => []OneEffectPerKey
<1>1. IInv => OneEffectPerKey
  BY DEF IInv
<1>. QED
  BY <1>1, CollaborationInvariant, PTL

\* Two records never supersede each other, although a review reads the other record
\* before it locks anything of it.
THEOREM NoMutualSupersession == Spec => []NeverMutuallySuperseded
<1>1. IInv => NeverMutuallySuperseded
  BY DEF IInv
<1>. QED
  BY <1>1, CollaborationInvariant, PTL

\* A record's events are its whole history: no review is lost and each was allowed.
THEOREM NoReviewIsLost == Spec => []TrailTellsTheRecord
<1>1. IInv => TrailTellsTheRecord
  BY DEF IInv
<1>. QED
  BY <1>1, CollaborationInvariant, PTL

-----------------------------------------------------------------------------
(* Default workspaces.  What a transaction that moves projects has read of a     *)
(* workspace stays true until another transaction at work on it commits, and     *)
(* that commit is what puts the workspace into mixed.                            *)

MoveSteps == {"read", "relate", "touch", "look", "leave"}
MidMove == {"relate", "touch", "look", "leave"}
Creating == {"place", "find", "enter"}

\* From here on a transaction may have read, moved or archived something.
Late == MoveSteps \cup {"enter", "commit", "grant", "ended"}

\* A default workspace exists from the creation of its project on, no workspace
\* that projects live in is gone, and no workspace of people is archived.
DefaultsExist ==
    /\ \A p \in Projects : home[p] = None => space[p] = "absent"
    /\ \A p \in Projects : home[p] \in Projects => space[home[p]] # "absent"
    /\ \A w \in Shared : space[w] # "archived"

\* Only commands that move projects are at these statements, and they name
\* workspaces that exist.
MoveFits(r) ==
    /\ Kind(r) = "workspace.create" => Target(r) \in Shared
    /\ \A w \in move[r].spaces \cap Projects : space[w] # "absent"
    /\ at[r] \notin Late => move[r].spaces = {} /\ move[r].archives = {} /\ move[r].moved = {}
    /\ at[r] \in MoveSteps =>
         /\ Mover(r)
         /\ Target(r) \in Projects => space[Target(r)] # "absent"
         /\ move[r].archives \subseteq move[r].spaces \cap (Projects \ {Target(r)})
         /\ move[r].moved # {} => Target(r) \in move[r].spaces
         /\ \A p \in move[r].moved : home[p] # None
    /\ at[r] \in MidMove =>
         /\ move[r].now \in Projects
         /\ Target(r) \in move[r].spaces
         /\ move[r].from # None => move[r].from \in move[r].spaces
         /\ move[r].from # Target(r)

ViewIn(r, w) == {p \in Projects : View(r, p) = w}

\* The default workspaces r has moved projects of, and nobody else meanwhile.
Own(r) == (move[r].spaces \cap Projects) \ (mixed \cup {Target(r)})

\* r archives a workspace exactly when it leaves nothing there, by the time it is
\* through with it.
MoveKnows(r) ==
    at[r] \in MoveSteps => \A w \in Own(r) :
        /\ w \in move[r].archives => ViewIn(r, w) = {}
        /\ ViewIn(r, w) = {} => w \in move[r].archives \/ (at[r] \in MidMove /\ move[r].from = w)
        /\ at[r] = "leave" /\ move[r].from = w => move[r].saw = ViewIn(r, w)
        /\ at[r] = "relate" /\ View(r, move[r].now) = w => move[r].from = w

\* A command that creates a project has the name to itself, and the workspace it
\* found is active.
CreateHolds(r) ==
    /\ at[r] \in Creating => Kind(r) = "project.create"
    /\ at[r] = "place" => Target(r) = None
    /\ at[r] \in {"find", "enter"} => Target(r) # None
    /\ Kind(r) = "project.create" =>
         at[r] \in Creating \cup {"idle", "reserve", "insert", "commit", "grant", "ended"}
    /\ at[r] \in Creating \cup {"commit"} /\ Kind(r) = "project.create" =>
         /\ <<<<"project", cmd[r].project>>, "update">> \in holds[r]
         /\ cmd[r].project \in Projects /\ home[cmd[r].project] = None
         /\ at[r] \in {"enter", "commit"} /\ Target(r) # None =>
              /\ Target(r) \in move[r].spaces
              /\ space[Target(r)] # "absent"
              /\ Target(r) \in Projects \ mixed => space[Target(r)] = "active"

MovesFit == \A r \in Requests : MoveFits(r)
MovesKnow == \A r \in Requests : MoveKnows(r)
CreatesHold == \A r \in Requests : CreateHolds(r)

DInv == DefaultsExist /\ MovesFit /\ MovesKnow /\ CreatesHold /\ DefaultFollowsItsProjects

\* A step of r that leaves the workspaces alone touches only what r itself knows.
LEMMA OnlyItsOwn ==
    ASSUME DInv, NEW r \in Requests, UNCHANGED <<cmd, home, space, mixed>>,
           \A s \in Requests \ {r} : at'[s] = at[s] /\ holds'[s] = holds[s] /\ move'[s] = move[s],
           MoveFits(r)', MoveKnows(r)', CreateHolds(r)'
    PROVE  DInv'
<1>. USE DEF DInv
<1>1. DefaultsExist'
  BY DEF DefaultsExist
<1>2. DefaultFollowsItsProjects'
  BY DEF DefaultFollowsItsProjects, Inside
<1>3. \A s \in Requests : MoveFits(s)'
  BY DEF MovesFit, MoveFits, Kind, Target, Mover
<1>4. \A s \in Requests : MoveKnows(s)'
  BY DEF MovesKnow, MoveKnows, Own, ViewIn, View, Target
<1>5. \A s \in Requests : CreateHolds(s)'
  BY DEF CreatesHold, CreateHolds, Kind, Target
<1>. QED
  BY <1>1, <1>2, <1>3, <1>4, <1>5 DEF MovesFit, MovesKnow, CreatesHold

\* The steps of other commands, and the ends of all: nothing is moved or created.
Aside(r) ==
    /\ cmd' = cmd
    /\ \A s \in Requests \ {r} : at'[s] = at[s] /\ holds'[s] = holds[s]
    /\ at'[r] \notin MoveSteps \cup Creating
    /\ at'[r] = "commit" => Kind(r) # "project.create"
    /\ at[r] \in Late => at'[r] = "ended"
    /\ Kind(r) = "project.create" => at'[r] \in {"reserve", "insert", "grant", "ended"}

LEMMA AsideKeeps ==
    ASSUME DInv, NEW r \in Requests, Aside(r), UNCHANGED <<home, space, move, mixed>>
    PROVE  DInv'
<1>1. MoveFits(r)'
  BY DEF DInv, MovesFit, MoveFits, Aside, Late, MoveSteps, MidMove, Kind, Target, Mover
<1>2. MoveKnows(r)'
  BY DEF MoveKnows, Aside
<1>3. CreateHolds(r)'
  BY DEF CreateHolds, Aside, Kind, Creating
<1>. QED
  BY <1>1, <1>2, <1>3, OnlyItsOwn DEF Aside

LEMMA OthersAside ==
    ASSUME IInv, DInv, NEW r \in Requests,
           Begin(r) \/ ReserveKey(r) \/ RoomStep(r) \/ KnowledgeStep(r) \/ PackStep(r) \/ PackCommit(r)
             \/ Victim(r) \/ Die(r)
    PROVE  Aside(r)
<1>. USE DEF IInv, TypeOK, HoldsType, Aside, Late, MoveSteps, Creating, Kind
<1>0. /\ Kind(r) = "project.create" =>
           at[r] \in {"place", "find", "enter", "idle", "reserve", "insert", "commit", "grant", "ended"}
  BY DEF DInv, CreatesHold, CreateHolds
<1>1. CASE Begin(r)
  BY <1>1 DEF Begin, First, Scoped
<1>2. CASE ReserveKey(r)
  <2>1. /\ AfterReserve(cmd[r]) \in {"check", "author", "lock", "cursor", "insert"}
        /\ cmd[r].kind = "project.create" => AfterReserve(cmd[r]) = "insert"
    BY DEF AfterReserve, Scoped
  <2>. QED
    BY <1>2, <2>1 DEF ReserveKey, Reserve, Replay, Take, Finish
<1>3. ASSUME NEW known \in BOOLEAN, ResolveAuthor(r, known) PROVE Aside(r)
  BY <1>0, <1>3 DEF ResolveAuthor, Go, Take, Fail, Finish
<1>4. CASE ResolveReply(r)
  BY <1>0, <1>4 DEF ResolveReply, Go, Take, Fail, Finish
<1>5. CASE InsertMessage(r)
  BY <1>0, <1>5 DEF InsertMessage, Go, Take, Fail, Finish
<1>6. ASSUME NEW active \in BOOLEAN, InsertMention(r, active) PROVE Aside(r)
  BY <1>0, <1>6 DEF InsertMention, Go, Take, Fail, Finish
<1>7. CASE CommitMessage(r)
  BY <1>7 DEF CommitMessage, Complete, Finish
<1>8. CASE InsertResource(r)
  BY <1>8 DEF InsertResource, Go, Take, Fail, Finish
<1>9. CASE CommitResource(r)
  BY <1>9 DEF CommitResource, Complete, Finish
<1>10. CASE AttachEvidence(r)
  BY <1>10 DEF AttachEvidence, Go, Take, Fail, Finish
<1>11. CASE CommitRecord(r)
  BY <1>11 DEF CommitRecord, Complete, Finish
<1>12. CASE LockRecord(r)
  BY <1>0, <1>12 DEF LockRecord, Go, Take, Fail, Finish
<1>13. CASE CheckSuperseding(r)
  BY <1>0, <1>13 DEF CheckSuperseding, Go, Take, Fail, Finish
<1>14. CASE WriteStatus(r)
  BY <1>0, <1>14 DEF WriteStatus, Go, Take, Fail, Finish
<1>15. CASE CommitReview(r)
  BY <1>15 DEF CommitReview, Complete, Finish
<1>16. CASE Gather(r)
  BY <1>0, <1>16 DEF Gather, Go, Take, Fail, Finish
<1>17. ASSUME NEW known \in BOOLEAN, PackActor(r, known) PROVE Aside(r)
  BY <1>0, <1>17 DEF PackActor, Go, Take, Fail, Finish
<1>18. CASE CheckScope(r)
  BY <1>0, <1>18 DEF CheckScope, Go, Take, Fail, Finish
<1>19. CASE ReadCursor(r)
  BY <1>0, <1>19 DEF ReadCursor, Take
<1>20. CASE Count(r)
  BY <1>0, <1>20 DEF Count, Take
<1>21. CASE Bump(r)
  BY <1>0, <1>21 DEF Bump, Take
<1>22. CASE LockProject(r)
  BY <1>0, <1>22 DEF LockProject, Take
<1>23. CASE PackCommit(r)
  BY <1>23 DEF PackCommit, CommitPack, CommitWork, Complete, Finish
<1>24. CASE Victim(r) \/ Die(r)
  BY <1>24 DEF Victim, Die, Fail, Crash, Finish
<1>. QED
  BY <1>1, <1>2, <1>3, <1>4, <1>5, <1>6, <1>7, <1>8, <1>9, <1>10, <1>11, <1>12, <1>13, <1>14, <1>15,
     <1>16, <1>17, <1>18, <1>19, <1>20, <1>21, <1>22, <1>23, <1>24 DEF RoomStep, KnowledgeStep, PackStep

\* So do the statements about workspaces that end in an error, and the creation of a room.
LEMMA WorkspaceAside ==
    ASSUME IInv, DInv, NEW r \in Requests,
           \/ CheckWorkspace(r) \/ InsertRoom(r) \/ CommitRoom(r) \/ ReplayProject(r) \/ GrantProjectOwner(r)
           \/ Fail(r)
    PROVE  Aside(r)
<1>. USE DEF IInv, TypeOK, HoldsType, Aside, Late, MoveSteps, Creating, Kind
<1>1. CASE CheckWorkspace(r)
  BY <1>1, ZenonT(40) DEF CheckWorkspace, Go, Take, Fail, Finish
<1>2. CASE InsertRoom(r)
  BY <1>2 DEF InsertRoom, Go, Take, Fail, Finish
<1>3. CASE CommitRoom(r)
  BY <1>3 DEF CommitRoom, Complete, Finish
<1>4. CASE ReplayProject(r)
  BY <1>4 DEF ReplayProject, Fail, Finish
<1>5. CASE GrantProjectOwner(r)
  BY <1>5 DEF GrantProjectOwner, Finish
<1>6. CASE Fail(r)
  BY <1>6 DEF Fail, Finish
<1>. QED
  BY <1>1, <1>2, <1>3, <1>4, <1>5, <1>6

-----------------------------------------------------------------------------
(* Moving projects. *)

\* What the types say of a request that moves, or creates, a project.
LEMMA MoverTypes ==
    ASSUME IInv, NEW r \in Requests
    PROVE  /\ move[r].now \in Projects \cup {None} /\ move[r].from \in Workspaces \cup {None}
           /\ move[r].moved \subseteq Projects /\ move[r].archives \subseteq Workspaces
           /\ move[r].spaces \subseteq Workspaces
           /\ Target(r) \in Workspaces \cup {None}
           /\ Kind(r) \in {"workspace.create", "workspace.attach"} /\ at[r] # "idle" => Target(r) \in Workspaces
           /\ Kind(r) = "project.create" /\ at[r] # "idle" => cmd[r].project \in Projects
           /\ \A p \in Projects : home[p] \in Workspaces \cup {None} /\ View(r, p) \in Workspaces \cup {None}
           /\ None \notin Workspaces /\ Projects \cap Shared = {}
<1>1. move[r] \in MoveType /\ cmd[r] \in Command /\ home \in [Projects -> Workspaces \cup {None}]
  BY DEF IInv, TypeOK
<1>2. at[r] = "idle" \/ Valid(cmd[r])
  BY DEF IInv, UnderWay
<1>3. None \notin Workspaces /\ Projects \cap Shared = {}
  BY TransactionsAssumption DEF Workspaces
<1>4. Target(r) \in Workspaces \cup {None}
  BY <1>1 DEF Target, Command
<1>5. /\ Kind(r) \in {"workspace.create", "workspace.attach"} /\ at[r] # "idle" => Target(r) \in Workspaces
      /\ Kind(r) = "project.create" /\ at[r] # "idle" => cmd[r].project \in Projects
  BY <1>2 DEF Kind, Target, Valid
<1>. QED
  BY <1>1, <1>3, <1>4, <1>5, Moves DEF View

\* The statement that comes next, and what the transaction then knows.
OnlyMoves(r, next, x) ==
    /\ UNCHANGED <<cmd, home, space, mixed>>
    /\ at' = [at EXCEPT ![r] = next]
    /\ \A s \in Requests \ {r} : holds'[s] = holds[s]
    /\ move' = [move EXCEPT ![r] = x]

LEMMA MovingOn ==
    ASSUME IInv, DInv, NEW r \in Requests, Mover(r), NEW next \in MoveSteps, NEW x, OnlyMoves(r, next, x),
           MoveFits(r)', MoveKnows(r)'
    PROVE  DInv'
<1>1. at'[r] = next /\ move'[r] = x /\ \A s \in Requests \ {r} : at'[s] = at[s] /\ move'[s] = move[s]
  BY DEF OnlyMoves, IInv, TypeOK
<1>2. CreateHolds(r)'
  BY <1>1 DEF CreateHolds, Creating, MoveSteps, Mover, OnlyMoves, Kind
<1>. QED
  BY <1>1, <1>2, OnlyItsOwn DEF OnlyMoves

LEMMA LoadKeeps ==
    ASSUME IInv, DInv, NEW r \in Requests, LoadWorkspace(r) \/ InsertWorkspace(r)
    PROVE  DInv'
<1>. USE DEF IInv, TypeOK
<1>1. UNCHANGED <<home, space, move, mixed>>
  BY DEF LoadWorkspace, InsertWorkspace, wsVars
<1>2. CASE Fail(r)
  BY <1>1, <1>2, WorkspaceAside, AsideKeeps
<1>3. CASE ~Fail(r)
  <2>1. at[r] \in {"load", "insert"} /\ at' = [at EXCEPT ![r] = "read"] /\ cmd' = cmd
        /\ \A s \in Requests \ {r} : holds'[s] = holds[s]
    BY <1>3 DEF LoadWorkspace, InsertWorkspace, Go, Take, HoldsType
  <2>2. Mover(r)
    BY <1>3, <2>1 DEF LoadWorkspace, InsertWorkspace, UnderWay, Mover, Kind
  <2>3. move[r].spaces = {} /\ move[r].archives = {} /\ move[r].moved = {}
        /\ (Kind(r) = "workspace.create" => Target(r) \in Shared)
    BY <2>1 DEF DInv, MovesFit, MoveFits, Late, MoveSteps
  <2>4. Target(r) \in Projects => space[Target(r)] # "absent"
    <3>1. CASE LoadWorkspace(r)
      BY <1>3, <3>1 DEF LoadWorkspace
    <3>2. CASE InsertWorkspace(r)
      BY <2>3, <3>2, TransactionsAssumption DEF InsertWorkspace
    <3>. QED
      BY <3>1, <3>2
  <2>5. at'[r] = "read"
    BY <2>1
  <2>6. MoveFits(r)'
    BY <1>1, <2>1, <2>2, <2>3, <2>4, <2>5 DEF MoveFits, MoveSteps, MidMove, Late, Kind, Target, Mover
  <2>7. MoveKnows(r)'
    BY <1>1, <2>3 DEF MoveKnows, Own
  <2>8. OnlyMoves(r, "read", move[r])
    BY <1>1, <2>1 DEF OnlyMoves
  <2>. QED
    BY <2>2, <2>6, <2>7, <2>8, MovingOn DEF MoveSteps
<1>. QED
  BY <1>2, <1>3

LEMMA ReadHomeKeeps ==
    ASSUME IInv, DInv, NEW r \in Requests, NEW p \in Projects, ReadHome(r, p)
    PROVE  DInv'
<1>1. /\ at[r] = "read" /\ Mover(r) /\ UNCHANGED <<cmd, home, space, mixed>>
      /\ \A s \in Requests \ {r} : holds'[s] = holds[s]
      /\ move \in [Requests -> MoveType] /\ at \in [Requests -> Steps]
  BY DEF ReadHome, Go, Take, wsRows, DInv, MovesFit, MoveFits, MoveSteps, IInv, TypeOK, HoldsType
<1>2. MoveFits(r) /\ MoveKnows(r)
  BY DEF DInv, MovesFit, MovesKnow
<1>3. CASE View(r, p) = Target(r)
  <2>. DEFINE x == [move[r] EXCEPT !.todo = @ \ {p}]
  <2>1. OnlyMoves(r, "read", x)
    BY <1>1, <1>3 DEF ReadHome, Go, Take, OnlyMoves
  <2>2. /\ at'[r] = "read" /\ move'[r].now = move[r].now /\ move'[r].from = move[r].from
        /\ move'[r].moved = move[r].moved /\ move'[r].archives = move[r].archives
        /\ move'[r].spaces = move[r].spaces
    BY <1>1, <2>1, Moves DEF OnlyMoves
  <2>3. MoveFits(r)'
    BY <1>1, <1>2, <2>2 DEF MoveFits, MoveSteps, MidMove, Late, Kind, Target, Mover
  <2>4. MoveKnows(r)'
    BY <1>1, <1>2, <2>2 DEF MoveKnows, MoveSteps, MidMove, Own, ViewIn, View, Target
  <2>. QED
    BY <1>1, <2>1, <2>3, <2>4, MovingOn DEF MoveSteps
<1>4. CASE View(r, p) # Target(r)
  <2>. DEFINE x == [move[r] EXCEPT !.now = p, !.from = View(r, p),
                                   !.spaces = @ \cup ({Target(r), View(r, p)} \ {None})]
  <2>1. OnlyMoves(r, "relate", x)
    BY <1>1, <1>4 DEF ReadHome, Go, Take, OnlyMoves
  <2>2. /\ at'[r] = "relate" /\ move'[r].now = p /\ move'[r].from = View(r, p)
        /\ move'[r].moved = move[r].moved /\ move'[r].archives = move[r].archives
        /\ move'[r].spaces = move[r].spaces \cup ({Target(r), View(r, p)} \ {None})
    BY <1>1, <2>1, Moves DEF OnlyMoves
  <2>3. View(r, p) \in Projects => space[View(r, p)] # "absent" /\ View(r, p) = home[p]
    BY <1>4 DEF View, DInv, DefaultsExist
  <2>4. Target(r) # None
    BY <1>1, MoverTypes DEF Mover
  <2>5. \A w \in move'[r].spaces \cap Projects : space[w] # "absent"
    BY <1>1, <1>2, <2>2, <2>3 DEF MoveFits, MoveSteps
  <2>6. move[r].archives \subseteq move[r].spaces \cap (Projects \ {Target(r)})
    BY <1>1, <1>2 DEF MoveFits, MoveSteps
  <2>7. MoveFits(r)'
    BY <1>1, <1>2, <1>4, <2>2, <2>4, <2>5 DEF MoveFits, MoveSteps, MidMove, Late, Kind, Target, Mover
  <2>8. \A w \in Projects : ViewIn(r, w)' = ViewIn(r, w)
    BY <1>1, <2>2 DEF ViewIn, View, Target
  <2>9. View(r, p)' = View(r, p)
    BY <1>1, <2>2 DEF View, Target
  <2>10. ASSUME NEW w \in Own(r)'
         PROVE  /\ w \in move'[r].archives => ViewIn(r, w) = {}
                /\ ViewIn(r, w) = {} => w \in move'[r].archives \/ move'[r].from = w
                /\ View(r, p) = w => move'[r].from = w
    <3>1. w \in Own(r) \/ w = View(r, p)
      BY <1>1, <2>2 DEF Own, Target
    <3>2. w \in move[r].archives => w \in Own(r)
      BY <1>1, <2>6 DEF Own, Target
    <3>3. CASE w \in Own(r)
      BY <1>1, <1>2, <2>2, <3>3 DEF MoveKnows, MoveSteps, MidMove
    <3>4. CASE w \notin Own(r)
      BY <2>2, <3>1, <3>2, <3>4
    <3>. QED
      BY <3>3, <3>4
  <2>11. MoveKnows(r)'
    <3>1. \A w \in Own(r)' : w \in Projects
      BY DEF Own
    <3>. QED
      BY <2>2, <2>8, <2>9, <2>10, <3>1 DEF MoveKnows, MidMove
  <2>. QED
    BY <1>1, <2>1, <2>7, <2>11, MovingOn DEF MoveSteps
<1>. QED
  BY <1>3, <1>4

LEMMA RelateKeeps ==
    ASSUME IInv, DInv, NEW r \in Requests, Relate(r)
    PROVE  DInv'
<1>1. /\ at[r] = "relate" /\ Mover(r) /\ UNCHANGED <<home, space, mixed>>
      /\ move \in [Requests -> MoveType] /\ at \in [Requests -> Steps] /\ HoldsType
  BY DEF Relate, wsRows, DInv, MovesFit, MoveFits, MoveSteps, IInv, TypeOK
<1>2. MoveFits(r) /\ MoveKnows(r)
  BY DEF DInv, MovesFit, MovesKnow
<1>3. CASE move[r].now \notin Existing
  BY <1>1, <1>3, WorkspaceAside, AsideKeeps DEF Relate
<1>4. CASE move[r].now \in Existing
  <2>. DEFINE x == [move[r] EXCEPT !.moved = @ \cup {move[r].now}]
  <2>1. OnlyMoves(r, "touch", x)
    BY <1>1, <1>4 DEF Relate, Take, OnlyMoves, HoldsType
  <2>2. /\ at'[r] = "touch" /\ move'[r].now = move[r].now /\ move'[r].from = move[r].from
        /\ move'[r].moved = move[r].moved \cup {move[r].now} /\ move'[r].archives = move[r].archives
        /\ move'[r].spaces = move[r].spaces /\ cmd' = cmd
    BY <1>1, <2>1, Moves DEF OnlyMoves
  <2>3. home[move[r].now] # None
    BY <1>4 DEF Existing
  <2>4. MoveFits(r)'
    BY <1>1, <1>2, <2>2, <2>3 DEF MoveFits, MoveSteps, MidMove, Late, Kind, Target, Mover
  <2>5. ASSUME NEW w \in Own(r)'
        PROVE  w \in Own(r) /\ ViewIn(r, w)' = ViewIn(r, w) \ {move[r].now}
    BY <1>1, <2>2 DEF Own, ViewIn, View, Target
  <2>6. move[r].now \in Projects
    BY <1>4 DEF Existing
  <2>7. ASSUME NEW w \in Own(r)', ViewIn(r, w)' = {}
        PROVE  w \in move'[r].archives \/ move'[r].from = w
    <3>1. CASE move[r].now \in ViewIn(r, w)
      BY <1>1, <1>2, <2>2, <2>5, <2>7, <3>1 DEF MoveKnows, MoveSteps, ViewIn
    <3>2. CASE move[r].now \notin ViewIn(r, w)
      BY <1>1, <1>2, <2>2, <2>5, <2>7, <3>2 DEF MoveKnows, MoveSteps
    <3>. QED
      BY <3>1, <3>2
  <2>8. ASSUME NEW w \in Own(r)', w \in move'[r].archives PROVE ViewIn(r, w)' = {}
    BY <1>1, <1>2, <2>2, <2>5, <2>8 DEF MoveKnows, MoveSteps
  <2>9. MoveKnows(r)'
    BY <2>2, <2>7, <2>8 DEF MoveKnows, MidMove
  <2>. QED
    BY <1>1, <2>1, <2>4, <2>9, MovingOn DEF MoveSteps
<1>. QED
  BY <1>3, <1>4

LEMMA TouchKeeps ==
    ASSUME IInv, DInv, NEW r \in Requests, Touch(r)
    PROVE  DInv'
<1>1. /\ at[r] = "touch" /\ Mover(r) /\ UNCHANGED <<cmd, home, space, mixed>>
      /\ move \in [Requests -> MoveType] /\ at \in [Requests -> Steps] /\ HoldsType
  BY DEF Touch, Take, wsRows, DInv, MovesFit, MoveFits, MoveSteps, IInv, TypeOK
<1>2. MoveFits(r) /\ MoveKnows(r)
  BY DEF DInv, MovesFit, MovesKnow
<1>3. ASSUME NEW next \in {"read", "look"}, next = "read" => move[r].from = None, NEW x, OnlyMoves(r, next, x),
             x.now = move[r].now, x.from = move[r].from, x.moved = move[r].moved,
             x.archives = move[r].archives, x.spaces = move[r].spaces
      PROVE  DInv'
  <2>2. /\ at'[r] = next /\ move'[r].now = move[r].now /\ move'[r].from = move[r].from
        /\ move'[r].moved = move[r].moved /\ move'[r].archives = move[r].archives
        /\ move'[r].spaces = move[r].spaces
    BY <1>1, <1>3 DEF OnlyMoves
  <2>3. MoveFits(r)'
    BY <1>1, <1>2, <2>2 DEF MoveFits, MoveSteps, MidMove, Late, Kind, Target, Mover
  <2>4. \A w \in Own(r)' : w \in Own(r) /\ ViewIn(r, w)' = ViewIn(r, w) /\ w # None
    BY <1>1, <2>2, MoverTypes DEF Own, ViewIn, View, Target
  <2>5. MoveKnows(r)'
    BY <1>1, <1>2, <1>3, <2>2, <2>4 DEF MoveKnows, MoveSteps, MidMove
  <2>. QED
    BY <1>1, <1>3, <2>3, <2>5, MovingOn DEF MoveSteps
<1>4. CASE move[r].from = None
  <2>. DEFINE x == [move[r] EXCEPT !.todo = @ \ {move[r].now}]
  <2>1. OnlyMoves(r, "read", x)
    BY <1>1, <1>4 DEF Touch, Take, OnlyMoves, HoldsType
  <2>2. /\ x.now = move[r].now /\ x.from = move[r].from /\ x.moved = move[r].moved
        /\ x.archives = move[r].archives /\ x.spaces = move[r].spaces
    BY <1>1, Moves
  <2>. HIDE DEF x
  <2>. QED
    BY <1>3, <1>4, <2>1, <2>2
<1>5. CASE move[r].from # None
  <2>1. OnlyMoves(r, "look", move[r])
    BY <1>1, <1>5 DEF Touch, Take, OnlyMoves, HoldsType
  <2>. QED
    BY <1>3, <1>5, <2>1
<1>. QED
  BY <1>4, <1>5

LEMMA LookKeeps ==
    ASSUME IInv, DInv, NEW r \in Requests, Look(r)
    PROVE  DInv'
<1>1. /\ at[r] = "look" /\ Mover(r) /\ UNCHANGED <<cmd, home, space, mixed>>
      /\ move \in [Requests -> MoveType] /\ at \in [Requests -> Steps] /\ HoldsType
  BY DEF Look, Go, Take, wsRows, DInv, MovesFit, MoveFits, MoveSteps, IInv, TypeOK
<1>2. MoveFits(r) /\ MoveKnows(r)
  BY DEF DInv, MovesFit, MovesKnow
<1>. DEFINE x == [move[r] EXCEPT !.saw = {p \in Projects : View(r, p) = move[r].from}]
<1>3. OnlyMoves(r, "leave", x)
  BY <1>1 DEF Look, Go, Take, OnlyMoves, HoldsType
<1>4. /\ at'[r] = "leave" /\ move'[r].now = move[r].now /\ move'[r].from = move[r].from
      /\ move'[r].moved = move[r].moved /\ move'[r].archives = move[r].archives
      /\ move'[r].spaces = move[r].spaces /\ move'[r].saw = ViewIn(r, move[r].from)
  BY <1>1, <1>3, Moves DEF OnlyMoves, ViewIn
<1>5. MoveFits(r)'
  BY <1>1, <1>2, <1>4 DEF MoveFits, MoveSteps, MidMove, Late, Kind, Target, Mover
<1>6. \A w \in Own(r)' : w \in Own(r) /\ ViewIn(r, w)' = ViewIn(r, w)
  BY <1>1, <1>4 DEF Own, ViewIn, View, Target
<1>7. MoveKnows(r)'
  BY <1>1, <1>2, <1>4, <1>6 DEF MoveKnows, MoveSteps, MidMove
<1>. QED
  BY <1>1, <1>3, <1>5, <1>7, MovingOn DEF MoveSteps

LEMMA LeaveKeeps ==
    ASSUME IInv, DInv, NEW r \in Requests, Leave(r)
    PROVE  DInv'
<1>1. /\ at[r] = "leave" /\ Mover(r) /\ UNCHANGED <<cmd, home, space, mixed>>
      /\ move \in [Requests -> MoveType] /\ at \in [Requests -> Steps] /\ HoldsType
  BY DEF Leave, Take, wsRows, DInv, MovesFit, MoveFits, MoveSteps, IInv, TypeOK
<1>2. MoveFits(r) /\ MoveKnows(r)
  BY DEF DInv, MovesFit, MovesKnow
<1>. DEFINE x == [move[r] EXCEPT !.todo = @ \ {move[r].now},
                                 !.archives = IF Empties(r) THEN @ \cup {move[r].from} ELSE @]
<1>3. OnlyMoves(r, "read", x)
  BY <1>1 DEF Leave, Take, OnlyMoves, HoldsType
<1>4. /\ at'[r] = "read" /\ move'[r].now = move[r].now /\ move'[r].from = move[r].from
      /\ move'[r].moved = move[r].moved /\ move'[r].spaces = move[r].spaces
      /\ move'[r].archives = IF Empties(r) THEN move[r].archives \cup {move[r].from} ELSE move[r].archives
  BY <1>1, <1>3, Moves DEF OnlyMoves
<1>5. Empties(r) => move[r].from \in Projects /\ move[r].from # None
  BY TransactionsAssumption DEF Empties, Managed
<1>6. MoveFits(r)'
  BY <1>1, <1>2, <1>4, <1>5 DEF MoveFits, MoveSteps, MidMove, Late, Kind, Target, Mover
<1>7. \A w \in Own(r)' : w \in Own(r) /\ w \in Projects /\ ViewIn(r, w)' = ViewIn(r, w)
  BY <1>1, <1>4 DEF Own, ViewIn, View, Target
<1>8. ASSUME NEW w \in Own(r)' PROVE w \in move'[r].archives <=> ViewIn(r, w) = {}
  <2>1. CASE move[r].from = w
    BY <1>1, <1>2, <1>4, <1>7, <1>8, <2>1 DEF MoveKnows, MoveSteps, MidMove, Empties, Managed
  <2>2. CASE move[r].from # w
    BY <1>1, <1>2, <1>4, <1>7, <1>8, <2>2 DEF MoveKnows, MoveSteps, MidMove
  <2>. QED
    BY <2>1, <2>2
<1>9. MoveKnows(r)'
  BY <1>4, <1>7, <1>8 DEF MoveKnows
<1>. QED
  BY <1>1, <1>3, <1>6, <1>9, MovingOn DEF MoveSteps

-----------------------------------------------------------------------------
(* Creating a project. *)

LEMMA CreatingKeeps ==
    ASSUME IInv, DInv, NEW r \in Requests, InsertProject(r) \/ PlaceInDefault(r) \/ FindWorkspace(r) \/ Enter(r)
    PROVE  DInv'
<1>. USE DEF Late, MoveSteps, MidMove, Creating, Kind, Target
<1>1. /\ UNCHANGED <<cmd, home, space, mixed>> /\ at \in [Requests -> Steps] /\ HoldsType
      /\ move \in [Requests -> MoveType]
  BY DEF InsertProject, PlaceInDefault, FindWorkspace, Enter, Go, Take, Fail, Finish, wsRows, wsVars, IInv, TypeOK
<1>2. MoveFits(r) /\ CreateHolds(r)
  BY DEF DInv, MovesFit, CreatesHold
<1>3. CASE Fail(r)
  <2>1. move' = move
    BY <1>1, <1>3 DEF InsertProject, PlaceInDefault, FindWorkspace, Enter, Go, Take, Fail, Finish, wsVars
  <2>. QED
    BY <1>1, <1>3, <2>1, WorkspaceAside, AsideKeeps
<1>4. ASSUME ~Fail(r)
      PROVE  /\ Kind(r) = "project.create"
             /\ \A s \in Requests \ {r} : at'[s] = at[s] /\ holds'[s] = holds[s] /\ move'[s] = move[s]
             /\ at'[r] \in {"place", "find", "enter", "commit"} /\ MoveFits(r)' /\ CreateHolds(r)'
  <2>1. CASE InsertProject(r)
    <3>1. /\ at[r] = "insert" /\ Kind(r) = "project.create" /\ move' = move
          /\ at' = [at EXCEPT ![r] = IF Target(r) = None THEN "place" ELSE "find"]
          /\ holds' = [holds EXCEPT ![r] = @ \cup WorkspaceWant(r)]
          /\ cmd[r].project \notin Existing
      BY <1>1, <1>4, <2>1 DEF InsertProject, Take, wsVars
    <3>2. WorkspaceWant(r) = {<<<<"project", cmd[r].project>>, "update">>}
      BY <3>1 DEF WorkspaceWant
    <3>3. cmd[r].project \in Projects
      BY <3>1, MoverTypes
    <3>4. home[cmd[r].project] = None
      BY <3>1, <3>3 DEF Existing
    <3>5. /\ at'[r] \in {"place", "find"} /\ (at'[r] = "place" => Target(r) = None)
          /\ (at'[r] = "find" => Target(r) # None)
          /\ <<<<"project", cmd[r].project>>, "update">> \in holds'[r]
      BY <1>1, <3>1, <3>2 DEF HoldsType
    <3>6. MoveFits(r)'
      BY <1>1, <1>2, <3>1, <3>5 DEF MoveFits
    <3>7. CreateHolds(r)'
      BY <1>1, <1>2, <3>1, <3>3, <3>4, <3>5 DEF CreateHolds, MoveFits
    <3>. QED
      BY <1>1, <3>1, <3>5, <3>6, <3>7 DEF HoldsType
  <2>2. CASE PlaceInDefault(r)
    <3>1. /\ at[r] = "place" /\ Kind(r) = "project.create" /\ move' = move
          /\ at' = [at EXCEPT ![r] = "commit"]
          /\ holds' = [holds EXCEPT ![r] = @ \cup WorkspaceWant(r)]
      BY <1>1, <1>2, <2>2 DEF PlaceInDefault, Take, wsVars, CreateHolds
    <3>2. at'[r] = "commit" /\ holds[r] \subseteq holds'[r]
      BY <1>1, <3>1 DEF HoldsType
    <3>3. MoveFits(r)' /\ CreateHolds(r)'
      BY <1>1, <1>2, <3>1, <3>2 DEF MoveFits, CreateHolds
    <3>. QED
      BY <1>1, <3>1, <3>2, <3>3 DEF HoldsType
  <2>3. CASE FindWorkspace(r)
    <3>1. /\ at[r] = "find" /\ Kind(r) = "project.create" /\ space[Target(r)] = "active"
          /\ at' = [at EXCEPT ![r] = "enter"]
          /\ holds' = [holds EXCEPT ![r] = @ \cup {}]
          /\ move' = [move EXCEPT ![r] = [move[r] EXCEPT !.spaces = {Target(r)}]]
      BY <1>1, <1>2, <1>4, <2>3 DEF FindWorkspace, Go, Take, CreateHolds
    <3>2. at'[r] = "enter" /\ holds'[r] = holds[r] /\ move'[r].spaces = {Target(r)}
      BY <1>1, <3>1, Moves DEF HoldsType
    <3>3. MoveFits(r)'
      BY <1>1, <1>2, <3>1, <3>2 DEF MoveFits
    <3>4. CreateHolds(r)'
      BY <1>1, <1>2, <3>1, <3>2 DEF CreateHolds
    <3>. QED
      BY <1>1, <3>1, <3>2, <3>3, <3>4 DEF HoldsType
  <2>4. CASE Enter(r)
    <3>1. /\ at[r] = "enter" /\ Kind(r) = "project.create" /\ move' = move
          /\ at' = [at EXCEPT ![r] = "commit"]
          /\ holds' = [holds EXCEPT ![r] = @ \cup WorkspaceWant(r)]
      BY <1>1, <1>2, <2>4 DEF Enter, Take, wsVars, CreateHolds
    <3>2. at'[r] = "commit" /\ holds[r] \subseteq holds'[r]
      BY <1>1, <3>1 DEF HoldsType
    <3>3. MoveFits(r)' /\ CreateHolds(r)'
      BY <1>1, <1>2, <3>1, <3>2 DEF MoveFits, CreateHolds
    <3>. QED
      BY <1>1, <3>1, <3>2, <3>3 DEF HoldsType
  <2>. QED
    BY <2>1, <2>2, <2>3, <2>4
<1>5. CASE ~Fail(r)
  <2>1. MoveKnows(r)'
    BY <1>4, <1>5 DEF MoveKnows
  <2>. QED
    BY <1>1, <1>4, <1>5, <2>1, OnlyItsOwn
<1>. QED
  BY <1>3, <1>5

-----------------------------------------------------------------------------
(* Commits. *)

\* Whoever is at work on a default workspace finds it as it was, unless the commit
\* puts it into mixed.
Apart(r) ==
    \A s \in Requests \ {r} : Running(s) => \A w \in (move[s].spaces \cap Projects) \ mixed' :
        /\ \A p \in Projects : home'[p] = w <=> home[p] = w
        /\ space[w] # "absent" => space'[w] = space[w]

\* What a commit of r leaves of the others.
LEMMA OthersAfter ==
    ASSUME IInv, DInv, NEW r \in Requests, Apart(r), cmd' = cmd, move' = move, mixed \subseteq mixed',
           at'[r] \in {"grant", "ended"},
           \A s \in Requests \ {r} : at'[s] = at[s] /\ holds'[s] = holds[s],
           \A p \in Projects : home[p] # None => home'[p] # None,
           \A w \in Workspaces : space[w] # "absent" => space'[w] # "absent",
           \A s \in Requests \ {r} : CreateHolds(s) /\ at[s] \in Creating \cup {"commit"}
                /\ Kind(s) = "project.create" => home'[cmd[s].project] = None,
           DefaultsExist', DefaultFollowsItsProjects'
    PROVE  DInv'
<1>. USE DEF Kind, Target, Mover
<1>0. Projects \subseteq Workspaces
  BY DEF Workspaces
<1>1. MoveFits(r)' /\ CreateHolds(r)' /\ MoveKnows(r)'
  BY <1>0 DEF DInv, MovesFit, MoveFits, MoveKnows, CreatesHold, CreateHolds, Late, MoveSteps, MidMove, Creating
<1>3. ASSUME NEW s \in Requests \ {r} PROVE MoveFits(s)'
  <2>1. MoveFits(s)
    BY DEF DInv, MovesFit
  <2>2. move[s].moved \subseteq Projects
    BY MoverTypes
  <2>. QED
    BY <1>0, <2>1, <2>2 DEF MoveFits
<1>4. ASSUME NEW s \in Requests \ {r} PROVE MoveKnows(s)'
  <2>1. SUFFICES ASSUME at[s] \in MoveSteps, NEW w \in Own(s)'
                 PROVE  /\ w \in move[s].archives => ViewIn(s, w)' = {}
                        /\ ViewIn(s, w)' = {} => w \in move[s].archives \/ (at[s] \in MidMove /\ move[s].from = w)
                        /\ at[s] = "leave" /\ move[s].from = w => move[s].saw = ViewIn(s, w)'
                        /\ at[s] = "relate" /\ View(s, move[s].now)' = w => move[s].from = w
    BY DEF MoveKnows
  <2>2. Running(s) /\ w \in Own(s) /\ w \in (move[s].spaces \cap Projects) \ mixed' /\ w # Target(s)
    BY <2>1 DEF MoveSteps, Running, Own
  <2>3. \A p \in Projects : home'[p] = w <=> home[p] = w
    BY <2>2 DEF Apart
  <2>4. \A p \in Projects : View(s, p)' = w <=> View(s, p) = w
    BY <2>2, <2>3 DEF View
  <2>5. ViewIn(s, w)' = ViewIn(s, w)
    BY <2>4 DEF ViewIn
  <2>6. MoveKnows(s) /\ MoveFits(s)
    BY DEF DInv, MovesKnow, MovesFit
  <2>7. at[s] = "relate" => move[s].now \in Projects
    BY <2>6 DEF MoveFits, MidMove
  <2>. QED
    BY <2>1, <2>2, <2>4, <2>5, <2>6, <2>7 DEF MoveKnows
<1>5. ASSUME NEW s \in Requests \ {r} PROVE CreateHolds(s)'
  <2>1. CreateHolds(s)
    BY DEF DInv, CreatesHold
  <2>2. Target(s) \in Workspaces \cup {None}
    BY MoverTypes
  <2>3. ASSUME at[s] \in {"enter", "commit"}, Kind(s) = "project.create", Target(s) \in Projects \ mixed', Target(s) # None
        PROVE  space'[Target(s)] = "active"
    <3>1. /\ Running(s) /\ Target(s) \in move[s].spaces /\ space[Target(s)] = "active"
      BY <2>1, <2>3 DEF CreateHolds, Running, Creating
    <3>. QED
      BY <2>3, <3>1 DEF Apart
  <2>. QED
    BY <1>0, <2>1, <2>2, <2>3 DEF CreateHolds, Creating
<1>. QED
  BY <1>1, <1>3, <1>4, <1>5 DEF DInv, MovesFit, MovesKnow, CreatesHold

LEMMA CommitMoveKeeps ==
    ASSUME IInv, DInv, NEW r \in Requests, CommitMove(r)
    PROVE  DInv'
<1>. DEFINE T == Target(r)
            m == move[r]
<1>1. /\ at[r] = "read" /\ Mover(r) /\ UNCHANGED <<cmd, move>>
      /\ at' = [at EXCEPT ![r] = "ended"] /\ holds' = [holds EXCEPT ![r] = {}]
      /\ at \in [Requests -> Steps] /\ HoldsType
      /\ mixed' = Overlap(r)
  BY DEF CommitMove, Complete, Finish, IInv, TypeOK
<1>2. /\ \A p \in Projects : home'[p] = View(r, p)
      /\ \A w \in Workspaces : space'[w] = IF w \in m.archives THEN "archived"
              ELSE IF w = T /\ (Kind(r) = "workspace.create" \/ m.moved # {}) THEN "active" ELSE space[w]
  BY DEF CommitMove
<1>3. /\ T \in Workspaces /\ T # None /\ m.moved \subseteq Projects /\ m.spaces \subseteq Workspaces
      /\ Projects \cap Shared = {} /\ None \notin Workspaces /\ Projects \subseteq Workspaces
      /\ \A p \in Projects : home[p] \in Workspaces \cup {None}
  BY <1>1, MoverTypes DEF Mover, Workspaces
<1>4. /\ Kind(r) = "workspace.create" => T \in Shared
      /\ T \in Projects => space[T] # "absent"
      /\ m.archives \subseteq m.spaces \cap (Projects \ {T})
      /\ m.moved # {} => T \in m.spaces
      /\ \A p \in m.moved : home[p] # None
      /\ \A w \in m.spaces \cap Projects : space[w] # "absent"
  BY <1>1 DEF DInv, MovesFit, MoveFits, MoveSteps
<1>5. \A w \in Own(r) : w \in m.archives <=> ViewIn(r, w) = {}
  BY <1>1 DEF DInv, MovesKnow, MoveKnows, MoveSteps, MidMove
<1>6. \A p \in Projects : (p \in m.moved /\ home'[p] = T) \/ (p \notin m.moved /\ home'[p] = home[p])
  BY <1>2 DEF View
<1>7. \A w \in Workspaces : space[w] # "absent" => space'[w] # "absent"
  BY <1>2
<1>8. \A p \in Projects : home[p] # None <=> home'[p] # None
  BY <1>3, <1>4, <1>6
\* Where nothing is moved from, and nothing to, nothing changes.
<1>9. ASSUME NEW w \in Projects, w \notin mixed', w \notin m.spaces
      PROVE  /\ \A p \in Projects : home'[p] = w <=> home[p] = w
             /\ space'[w] = space[w]
  <2>1. ASSUME NEW p \in m.moved PROVE home'[p] # w /\ home[p] # w
    <3>1. home'[p] # w
      BY <1>3, <1>4, <1>6, <1>9, <2>1
    <3>2. ASSUME home[p] = w PROVE FALSE
      <4>1. w \in {home[q] : q \in m.moved} \ (m.spaces \cup {None})
        BY <1>3, <1>9, <3>2
      <4>. QED
        BY <1>1, <1>9, <4>1 DEF Overlap
    <3>. QED
      BY <3>1, <3>2
  <2>2. w # T \/ m.moved = {}
    BY <1>4, <1>9
  <2>3. w = T => Kind(r) # "workspace.create"
    BY <1>3, <1>4, <1>9
  <2>4. space'[w] = space[w]
    BY <1>2, <1>3, <1>4, <1>9, <2>2, <2>3
  <2>. QED
    BY <1>6, <2>1, <2>4
<1>10. Apart(r)
  <2>1. SUFFICES ASSUME NEW s \in Requests \ {r}, Running(s), NEW w \in (move[s].spaces \cap Projects) \ mixed'
                 PROVE  w \notin m.spaces
    BY <1>9 DEF Apart
  <2>. QED
    BY <1>1, <2>1 DEF Overlap
<1>11. mixed \subseteq mixed'
  BY <1>1 DEF Overlap
<1>12. DefaultsExist'
  <2>1. ASSUME NEW p \in Projects, home'[p] = None PROVE space'[p] = "absent"
    <3>1. space[p] = "absent"
      BY <1>8, <2>1 DEF DInv, DefaultsExist
    <3>. QED
      BY <1>2, <1>3, <1>4, <3>1
  <2>2. ASSUME NEW p \in Projects, home'[p] \in Projects PROVE space'[home'[p]] # "absent"
    <3>1. CASE p \in m.moved
      BY <1>3, <1>4, <1>6, <1>7, <2>2, <3>1
    <3>2. CASE p \notin m.moved
      BY <1>3, <1>6, <1>7, <2>2, <3>2 DEF DInv, DefaultsExist
    <3>. QED
      BY <3>1, <3>2
  <2>3. ASSUME NEW w \in Shared PROVE space'[w] # "archived"
    BY <1>2, <1>3, <1>4, <2>3 DEF DInv, DefaultsExist, Workspaces
  <2>. QED
    BY <2>1, <2>2, <2>3 DEF DefaultsExist
<1>13. DefaultFollowsItsProjects'
  <2>1. ASSUME NEW w \in Projects \ mixed', space'[w] # "absent"
        PROVE  space'[w] = "archived" <=> ~\E p \in Projects : home'[p] = w
    <3>1. space[w] # "absent" => (space[w] = "archived" <=> ~\E p \in Projects : home[p] = w)
      BY <1>11, <2>1 DEF DInv, DefaultFollowsItsProjects, Inside
    <3>2. CASE w \notin m.spaces
      BY <1>9, <2>1, <3>1, <3>2
    <3>3. CASE w \in m.spaces /\ w = T /\ m.moved # {}
      <4>1. space'[w] = "active"
        BY <1>2, <1>3, <1>4, <3>3
      <4>. QED
        BY <1>3, <1>6, <3>3, <4>1
    <3>4. CASE w \in m.spaces /\ w = T /\ m.moved = {}
      <4>1. space'[w] = space[w]
        BY <1>2, <1>3, <1>4, <2>1, <3>4
      <4>. QED
        BY <1>6, <2>1, <3>1, <3>4, <4>1
    <3>5. CASE w \in m.spaces /\ w # T
      <4>1. w \in Own(r) /\ space[w] # "absent"
        BY <1>4, <1>11, <2>1, <3>5 DEF Own
      <4>2. w \in m.archives <=> ~\E p \in Projects : home'[p] = w
        BY <1>2, <1>5, <4>1 DEF ViewIn
      <4>3. w \notin m.archives => space'[w] = space[w]
        BY <1>2, <1>3, <3>5
      <4>4. ASSUME NEW p \in Projects, home'[p] = w PROVE home[p] = w
        BY <1>6, <3>5, <4>4
      <4>. QED
        BY <1>2, <1>3, <3>1, <4>1, <4>2, <4>3, <4>4
    <3>. QED
      BY <3>2, <3>3, <3>4, <3>5
  <2>2. \A w \in Shared : space'[w] # "archived"
    BY <1>12 DEF DefaultsExist
  <2>. QED
    BY <2>1, <2>2 DEF DefaultFollowsItsProjects, Inside
<1>14. ASSUME NEW s \in Requests \ {r}, CreateHolds(s), at[s] \in Creating \cup {"commit"}, Kind(s) = "project.create"
       PROVE  home'[cmd[s].project] = None
  BY <1>8, <1>14 DEF CreateHolds
<1>15. at'[r] = "ended" /\ \A s \in Requests \ {r} : at'[s] = at[s] /\ holds'[s] = holds[s]
  BY <1>1 DEF HoldsType
<1>. QED
  BY <1>1, <1>7, <1>8, <1>10, <1>11, <1>12, <1>13, <1>14, <1>15, OthersAfter

LEMMA CommitProjectKeeps ==
    ASSUME IInv, DInv, NEW r \in Requests, CommitProject(r)
    PROVE  DInv'
<1>. DEFINE p == cmd[r].project
            T == Target(r)
            w == IF T = None THEN p ELSE T
<1>1. /\ at[r] = "commit" /\ Kind(r) = "project.create" /\ UNCHANGED <<cmd, move>>
      /\ at' = [at EXCEPT ![r] = "grant"] /\ holds' = [holds EXCEPT ![r] = {}]
      /\ at \in [Requests -> Steps] /\ HoldsType
      /\ mixed' = Overlap(r)
      /\ home' = [home EXCEPT ![p] = w]
      /\ space' = IF T = None THEN [space EXCEPT ![w] = "active"] ELSE space
      /\ home \in [Projects -> Workspaces \cup {None}]
      /\ space \in [Workspaces -> {"absent", "active", "archived"}]
  BY DEF CommitProject, IInv, TypeOK
<1>2. /\ T \in Workspaces \cup {None} /\ p \in Projects /\ None \notin Workspaces
      /\ Projects \cap Shared = {} /\ Projects \subseteq Workspaces
  BY <1>1, MoverTypes DEF Workspaces
<1>3. /\ <<<<"project", p>>, "update">> \in holds[r] /\ home[p] = None /\ space[p] = "absent"
      /\ T # None => /\ T \in move[r].spaces /\ space[T] # "absent"
                     /\ T \in Projects \ mixed => space[T] = "active"
  BY <1>1 DEF DInv, CreatesHold, CreateHolds, Creating, DefaultsExist
<1>4. home'[p] = w /\ \A q \in Projects \ {p} : home'[q] = home[q]
  BY <1>1, <1>2
<1>5. \A v \in Workspaces : space'[v] = IF v = p /\ T = None THEN "active" ELSE space[v]
  BY <1>1, <1>2
<1>6. mixed \subseteq mixed'
  BY <1>1 DEF Overlap
<1>7. w \in Workspaces /\ w # None
  BY <1>2
<1>8. Apart(r)
  <2>1. SUFFICES ASSUME NEW s \in Requests \ {r}, Running(s), NEW v \in (move[s].spaces \cap Projects) \ mixed'
                 PROVE  /\ \A q \in Projects : home'[q] = v <=> home[q] = v
                        /\ space[v] # "absent" => space'[v] = space[v]
    BY DEF Apart
  <2>2. v \notin move[r].spaces
    BY <1>1, <2>1 DEF Overlap
  <2>3. T # None => v # T
    BY <1>3, <2>2
  <2>4. space[v] # "absent" => space'[v] = space[v]
    BY <1>2, <1>3, <1>5, <2>1
  <2>5. v # p
    <3>1. MoveFits(s)
      BY DEF DInv, MovesFit
    <3>2. space[v] # "absent"
      BY <2>1, <3>1 DEF MoveFits
    <3>. QED
      BY <1>3, <3>2
  <2>. QED
    BY <1>2, <1>3, <1>4, <2>1, <2>3, <2>4, <2>5
<1>9. DefaultsExist'
  <2>1. \A q \in Projects : home'[q] = None => space'[q] = "absent"
    BY <1>2, <1>4, <1>5, <1>7 DEF DInv, DefaultsExist
  <2>2. \A q \in Projects : home'[q] \in Projects => space'[home'[q]] # "absent"
    BY <1>2, <1>3, <1>4, <1>5 DEF DInv, DefaultsExist
  <2>3. \A v \in Shared : space'[v] # "archived"
    BY <1>2, <1>5 DEF DInv, DefaultsExist, Workspaces
  <2>. QED
    BY <2>1, <2>2, <2>3 DEF DefaultsExist
<1>10. DefaultFollowsItsProjects'
  <2>1. ASSUME NEW v \in Projects \ mixed', space'[v] # "absent"
        PROVE  space'[v] = "archived" <=> ~\E q \in Projects : home'[q] = v
    <3>1. space[v] # "absent" => (space[v] = "archived" <=> ~\E q \in Projects : home[q] = v)
      BY <1>6, <2>1 DEF DInv, DefaultFollowsItsProjects, Inside
    <3>2. CASE v = w
      <4>1. space'[v] = "active"
        BY <1>2, <1>3, <1>5, <1>6, <2>1, <3>2
      <4>. QED
        BY <1>2, <1>4, <3>2, <4>1
    <3>3. CASE v # w
      <4>1. space'[v] = space[v]
        BY <1>2, <1>5, <2>1, <3>3
      <4>2. \A q \in Projects : home'[q] = v <=> home[q] = v
        BY <1>2, <1>3, <1>4, <2>1, <3>3
      <4>. QED
        BY <2>1, <3>1, <4>1, <4>2
    <3>. QED
      BY <3>2, <3>3
  <2>2. \A v \in Shared : space'[v] # "archived"
    BY <1>9 DEF DefaultsExist
  <2>. QED
    BY <2>1, <2>2 DEF DefaultFollowsItsProjects, Inside
\* Two that create the same project would hold its name both.
<1>11. ASSUME NEW s \in Requests \ {r}, CreateHolds(s), at[s] \in Creating \cup {"commit"}, Kind(s) = "project.create"
       PROVE  home'[cmd[s].project] = None
  <2>1. /\ <<<<"project", cmd[s].project>>, "update">> \in holds[s]
        /\ cmd[s].project \in Projects /\ home[cmd[s].project] = None
    BY <1>11 DEF CreateHolds
  <2>2. Conflict("update", "update")
    BY DEF Conflict, Conflicts
  <2>3. cmd[s].project # p
    BY <1>3, <2>1, <2>2 DEF IInv, LocksAgree
  <2>. QED
    BY <1>4, <2>1, <2>3
<1>12. at'[r] = "grant" /\ \A s \in Requests \ {r} : at'[s] = at[s] /\ holds'[s] = holds[s]
  BY <1>1 DEF HoldsType
<1>13. \A q \in Projects : home[q] # None => home'[q] # None
  BY <1>4, <1>7
<1>14. \A v \in Workspaces : space[v] # "absent" => space'[v] # "absent"
  BY <1>5
<1>. QED
  BY <1>1, <1>6, <1>8, <1>9, <1>10, <1>11, <1>12, <1>13, <1>14, OthersAfter

-----------------------------------------------------------------------------
LEMMA DefaultsStep == IInv /\ DInv /\ [Next]_vars => DInv'
<1>. SUFFICES ASSUME IInv, DInv, [Next]_vars PROVE DInv'
  OBVIOUS
<1>1. ASSUME NEW r \in Requests, Begin(r) \/ Victim(r) \/ Die(r) PROVE DInv'
  BY <1>1, OthersAside, AsideKeeps DEF Begin, Victim, Die, wsVars
<1>2. ASSUME NEW r \in Requests, WorkspaceStep(r) PROVE DInv'
  <2>1. CASE \/ CheckWorkspace(r) \/ InsertRoom(r) \/ CommitRoom(r) \/ ReplayProject(r) \/ GrantProjectOwner(r)
    BY <2>1, WorkspaceAside, AsideKeeps
       DEF CheckWorkspace, InsertRoom, CommitRoom, ReplayProject, GrantProjectOwner, wsVars
  <2>2. CASE LoadWorkspace(r) \/ InsertWorkspace(r)
    BY <2>2, LoadKeeps
  <2>3. CASE InsertProject(r) \/ PlaceInDefault(r) \/ FindWorkspace(r) \/ Enter(r)
    BY <2>3, CreatingKeeps
  <2>. QED
    BY <1>2, <2>1, <2>2, <2>3, ReadHomeKeeps, RelateKeeps, TouchKeeps, LookKeeps, LeaveKeeps,
       CommitMoveKeeps, CommitProjectKeeps DEF WorkspaceStep
<1>3. ASSUME NEW r \in Requests, Step(r) PROVE DInv'
  <2>1. CASE WorkspaceStep(r)
    BY <1>2, <2>1
  <2>2. CASE PackCommit(r)
    BY <2>2, OthersAside, AsideKeeps DEF PackCommit
  <2>3. CASE ~WorkspaceStep(r) /\ ~PackCommit(r)
    <3>1. UNCHANGED wsVars
      BY <1>3, <2>3 DEF Step, ReserveKey
    <3>. QED
      BY <1>3, <2>3, <3>1, OthersAside, AsideKeeps DEF Step, wsVars
  <2>. QED
    BY <2>1, <2>2, <2>3
<1>4. CASE Acknowledge \/ UNCHANGED vars
  <2>1. UNCHANGED <<txVars, wsVars>>
    BY <1>4 DEF Acknowledge, vars
  <2>2. UNCHANGED <<cmd, at, holds, answer, done, home, space, rooms, owners, sequence, move, mixed>>
    BY <2>1 DEF txVars, wsVars
  <2>3. DefaultsExist' /\ DefaultFollowsItsProjects'
    BY <2>2 DEF DInv, DefaultsExist, DefaultFollowsItsProjects, Inside
  <2>4. MovesFit' /\ MovesKnow' /\ CreatesHold'
    BY <2>2 DEF DInv, MovesFit, MovesKnow, CreatesHold, MoveFits, MoveKnows, CreateHolds, Own, ViewIn, View,
                Kind, Target, Mover
  <2>. QED
    BY <2>3, <2>4 DEF DInv
<1>. QED
  BY <1>1, <1>3, <1>4 DEF Next

LEMMA InitDefaults == Init => DInv
<1>. SUFFICES ASSUME Init PROVE DInv
  OBVIOUS
<1>1. PICK s \in Scenarios :
        /\ cmd = s.cmd /\ home = s.home
        /\ space = [w \in Workspaces |->
                      IF w \in Shared THEN IF w \in s.shared THEN "active" ELSE "absent"
                      ELSE IF s.home[w] = None THEN "absent"
                           ELSE IF \E p \in Projects : s.home[p] = w THEN "active" ELSE "archived"]
        /\ move = [r \in Requests |-> NoMove(s.cmd[r])]
  BY DEF Init
<1>2. /\ Projects \cap Shared = {} /\ Projects \subseteq Workspaces /\ Shared \subseteq Workspaces
      /\ Consistent(s)
  BY TransactionsAssumption DEF Workspaces
<1>3. DefaultsExist
  BY <1>1, <1>2 DEF DefaultsExist, Consistent
<1>4. \A r \in Requests : /\ at[r] = "idle" /\ move[r].spaces = {} /\ move[r].archives = {} /\ move[r].moved = {}
                          /\ Kind(r) = "workspace.create" => Target(r) \in Shared
  BY <1>1, <1>2 DEF Init, NoMove, Consistent, Kind, Target
<1>5. MovesFit /\ MovesKnow /\ CreatesHold
  BY <1>4 DEF MovesFit, MovesKnow, CreatesHold, MoveFits, MoveKnows, CreateHolds, MoveSteps, MidMove, Creating
<1>6. DefaultFollowsItsProjects
  BY <1>1, <1>2, <1>3 DEF DefaultFollowsItsProjects, Inside, DefaultsExist
<1>. QED
  BY <1>3, <1>5, <1>6 DEF DInv

\* A managed default workspace is archived exactly while no project lives in it, unless
\* transactions that moved projects of it have overlapped; no workspace of people is archived.
THEOREM DefaultsFollowTheirProjects == Spec => []DefaultFollowsItsProjects
<1>1. Init => IInv /\ DInv
  BY InitCollaboration, InitDefaults
<1>2. IInv /\ DInv /\ [Next]_vars => (IInv /\ DInv)'
  BY CollaborationStep, DefaultsStep
<1>3. IInv /\ DInv => DefaultFollowsItsProjects
  BY DEF DInv
<1>. QED
  BY <1>1, <1>2, <1>3, PTL DEF Spec
=============================================================================
