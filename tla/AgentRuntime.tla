---------------------------- MODULE AgentRuntime ----------------------------
(***************************************************************************)
(* `pact mcp serve`: one process on an agent's machine that holds one      *)
(* session, answers the tool calls of its client, several at a time, and   *)
(* observes a worktree per work item (cmd/pact/mcp.go, main.go).           *)
(*                                                                         *)
(* The server is here what the runtime sees of it: its session, the status *)
(* of its intents and of their worktrees.  Coordination says what the      *)
(* server does with them.  A request or a git command may fail; a request  *)
(* that fails may have been carried out.                                   *)
(***************************************************************************)
EXTENDS FiniteSets

CONSTANTS Works,    \* intents, with the worktree each may get
          Calls,    \* tool calls the client makes at a time
          NoWork

VARIABLES session,     \* "active", or "lost": replaced, revoked or expired
          intent,      \* coordination.intents.status
          touched,     \* intents past the version they started with
          worktree,    \* coordination.worktrees.status
          process,     \* "up", "stopping" or "over"
          loops,       \* the heartbeat and the checkout observer, while they run
          errors,      \* what waits in the error channels of runMCP
          registered,  \* workspaceCancel: worktrees whose observer can be stopped
          cancelled,   \* observer contexts that were cancelled
          observer,    \* maintainGitObservationsForWorkspace, per worktree
          call,        \* tool calls under way
          client,      \* FALSE once stdin closed or a signal arrived
          trouble      \* what went wrong, for the properties only

vars == <<session, intent, touched, worktree, process, loops, errors,
          registered, cancelled, observer, call, client, trouble>>

remote == <<session, intent, touched, worktree>>
local == <<process, loops, errors, client>>
watch == <<registered, cancelled, observer>>

Open == {"active", "blocked", "submitted"}
Loops == {"heartbeat", "checkout"}
Idle == [step |-> "idle", work |-> NoWork]

TypeOK ==
    /\ session \in {"active", "lost"}
    /\ intent \in [Works -> Open \cup {"none", "ended"}]
    /\ touched \subseteq Works
    /\ worktree \in [Works -> {"none", "ready", "frozen", "archived"}]
    /\ process \in {"up", "stopping", "over"}
    /\ loops \subseteq Loops
    /\ errors \subseteq Loops \cup {"observer"}
    /\ registered \subseteq Works
    /\ cancelled \subseteq Works
    /\ observer \in [Works -> {"none", "waiting", "looking"}]
    /\ call \in [Calls -> [step : {"idle", "create", "attach", "register",
                                   "look", "block", "stop"},
                           work : Works \cup {NoWork}]]
    /\ client \in BOOLEAN
    /\ trouble \in [failed : BOOLEAN, adrift : SUBSET Works, unstopped : SUBSET Works]

\* The session is open, its first observation was accepted and the loops run.
Init ==
    /\ session = "active"
    /\ intent = [w \in Works |-> "none"]
    /\ touched = {}
    /\ worktree = [w \in Works |-> "none"]
    /\ process = "up"
    /\ loops = Loops
    /\ errors = {}
    /\ registered = {}
    /\ cancelled = {}
    /\ observer = [w \in Works |-> "none"]
    /\ call = [c \in Calls |-> Idle]
    /\ client = TRUE
    /\ trouble = [failed |-> FALSE, adrift |-> {}, unstopped |-> {}]

Goto(c, step) == call' = [call EXCEPT ![c].step = step]
Return(c) == call' = [call EXCEPT ![c] = Idle]
At(c, step) == call[c].step = step
Working(w, steps) == \E c \in Calls : call[c].work = w /\ call[c].step \in steps
Starting == {"create", "attach", "register", "look", "block"}
Fails == trouble' = [trouble EXCEPT !.failed = TRUE]

-----------------------------------------------------------------------------
(* pact.start_work. *)

\* A clean checkout with a HEAD, and scopes the server grants.  When the answer
\* is lost the intent is there and nobody on this machine knows its name.
StartWork(c, w) ==
    /\ process = "up" /\ At(c, "idle")
    /\ intent[w] = "none" /\ session = "active"
    /\ intent' = [intent EXCEPT ![w] = "active"]
    /\ \/ /\ call' = [call EXCEPT ![c] = [step |-> "create", work |-> w]]
          /\ UNCHANGED trouble
       \/ /\ trouble' = [trouble EXCEPT !.failed = TRUE, !.adrift = @ \cup {w}]
          /\ UNCHANGED call
    /\ UNCHANGED <<session, touched, worktree, local, watch>>

\* worktree.Create takes the worktree away again when a later step of it fails.
CreateWorktree(c) ==
    /\ process # "over" /\ At(c, "create")
    /\ \/ process = "up" /\ Goto(c, "attach") /\ UNCHANGED trouble
       \/ Goto(c, "block") /\ Fails
    /\ UNCHANGED <<remote, local, watch>>

Attachable(w) ==
    session = "active" /\ intent[w] \in Open /\ worktree[w] = "none"

\* A lost answer is treated as a refusal, though the worktree is registered.
AttachWorktree(c) ==
    /\ process # "over" /\ At(c, "attach")
    /\ LET w == call[c].work IN
       \/ /\ Attachable(w)
          /\ worktree' = [worktree EXCEPT ![w] = "ready"]
          /\ \/ process = "up" /\ Goto(c, "register") /\ UNCHANGED trouble
             \/ Goto(c, "block") /\ Fails
       \/ ~Attachable(w) /\ Goto(c, "block") /\ UNCHANGED <<worktree, trouble>>
       \/ Goto(c, "block") /\ Fails /\ UNCHANGED worktree
    /\ UNCHANGED <<session, intent, touched, local, watch>>

\* As it is without the registration: the observer is entered when it runs.
LookAtOnce(c) ==
    /\ process # "over" /\ At(c, "register")
    /\ Goto(c, "look")
    /\ UNCHANGED <<remote, local, watch, trouble>>

\* A worktree just registered has no entry yet.
RegisterObserver(c) ==
    /\ process # "over" /\ At(c, "register")
    /\ registered' = registered \cup {call[c].work}
    /\ Goto(c, "look")
    /\ UNCHANGED <<remote, local, cancelled, observer, trouble>>

\* The worktrees whose observations the server takes.
ReadyOnly == {"ready"}
Observable == {"ready", "frozen"}

Accepted(w) == session = "active" /\ worktree[w] \in Observable

\* The first capture and its submission, then the loop.  A context that was
\* cancelled meanwhile fails them, or ends the loop before it looks.
FirstLook(c) ==
    /\ process # "over" /\ At(c, "look")
    /\ LET w == call[c].work
           Fail == /\ cancelled' = cancelled \cup {w}
                   /\ registered' = registered \ {w}
                   /\ Goto(c, "block")
                   /\ UNCHANGED observer
       IN \/ /\ process = "up" /\ Accepted(w)
             /\ observer' = [observer EXCEPT ![w] = "waiting"]
             /\ Return(c)
             /\ UNCHANGED <<registered, cancelled, trouble>>
          \/ (w \in cancelled \/ ~Accepted(w)) /\ Fail /\ UNCHANGED trouble
          \/ Fail /\ Fails
    /\ UNCHANGED <<remote, local>>

\* markWorkBlocked: with the version the intent started with, on a context of
\* its own, and whatever comes of it is dropped.
Blockable(w) == session = "active" /\ intent[w] = "active" /\ w \notin touched

MarkWorkBlocked(c) ==
    /\ process # "over" /\ At(c, "block")
    /\ LET w == call[c].work IN
       \/ /\ Blockable(w)
          /\ intent' = [intent EXCEPT ![w] = "blocked"]
          /\ touched' = touched \cup {w}
          /\ UNCHANGED trouble
       \/ /\ ~Blockable(w)
          /\ trouble' = [trouble EXCEPT !.adrift = @ \cup {w}]
          /\ UNCHANGED <<intent, touched>>
       \/ /\ trouble' = [trouble EXCEPT !.failed = TRUE, !.adrift = @ \cup {w}]
          /\ UNCHANGED <<intent, touched>>
    /\ Return(c)
    /\ UNCHANGED <<session, worktree, local, watch>>

-----------------------------------------------------------------------------
(* pact.update_work. *)

ValidTransition(from, to) ==
    \/ from \in {"active", "blocked"} /\ to \in {"submitted", "ended"}
    \/ from \in {"active", "submitted"} /\ to = "blocked"
    \/ from = "blocked" /\ to = "active"
    \/ from = "submitted" /\ to = "ended"

SetStatus(w, to) ==
    /\ ValidTransition(intent[w], to)
    /\ intent' = [intent EXCEPT ![w] = to]
    /\ touched' = touched \cup {w}
    /\ worktree' = [worktree EXCEPT ![w] =
          CASE to = "submitted" /\ @ = "ready" -> "frozen"
            [] to = "ended" /\ @ # "none" -> "archived"
            [] OTHER -> @]

Unwatched(w) == observer[w] = "none" /\ w \notin registered

\* The agent may have the intent from pact.list_work as well.  A work item whose
\* start failed can be resumed, without a worktree or without an observer; one that
\* is blocked and resumed while it is being started is left to that call.
UpdateWork(c, w, to) ==
    /\ process = "up" /\ At(c, "idle") /\ session = "active"
    /\ SetStatus(w, to)
    /\ \/ /\ call' = IF to = "ended"
                     THEN [call EXCEPT ![c] = [step |-> "stop", work |-> w]]
                     ELSE call
          /\ trouble' = IF to = "active" /\ Unwatched(w) /\ ~Working(w, Starting)
                        THEN [trouble EXCEPT !.adrift = @ \cup {w}]
                        ELSE trouble
       \/ /\ trouble' = [trouble EXCEPT !.failed = TRUE, !.adrift = @ \cup {w},
                                        !.unstopped = @ \cup {w}]
          /\ UNCHANGED call
    /\ UNCHANGED <<session, local, watch>>

\* stopWorkspaceObserverForIntent asks for the list of work to learn the
\* worktree's name; without the list, or when the item is not on it, it stops
\* nothing.
StopObserver(c) ==
    /\ process # "over" /\ At(c, "stop")
    /\ LET w == call[c].work IN
       \/ /\ worktree[w] # "none"
          /\ registered' = registered \ {w}
          /\ cancelled' = IF w \in registered THEN cancelled \cup {w} ELSE cancelled
          /\ UNCHANGED trouble
       \/ worktree[w] = "none" /\ UNCHANGED <<registered, cancelled, trouble>>
       \/ /\ trouble' = [trouble EXCEPT !.failed = TRUE, !.unstopped = @ \cup {w}]
          /\ UNCHANGED <<registered, cancelled>>
    /\ Return(c)
    /\ UNCHANGED <<remote, local, observer>>

\* Another session of the agent, or an administrator's, ends the work.
EndElsewhere(w) ==
    /\ ValidTransition(intent[w], "ended")
    /\ SetStatus(w, "ended")
    /\ trouble' = [trouble EXCEPT !.unstopped = @ \cup {w}]
    /\ UNCHANGED <<session, local, watch, call>>

-----------------------------------------------------------------------------
(* The loops, and what ends the process. *)

Tick(w) ==
    /\ process = "up" /\ observer[w] = "waiting" /\ w \notin cancelled
    /\ observer' = [observer EXCEPT ![w] = "looking"]
    /\ UNCHANGED <<remote, local, registered, cancelled, call, trouble>>

Report(failure) == errors' = errors \cup {failure}

\* A look that finds nothing new asks nothing of the server.  Any error, that of
\* a context cancelled during the look included, goes to runMCP.
Look(w) ==
    /\ process = "up" /\ observer[w] = "looking"
    /\ \/ observer' = [observer EXCEPT ![w] = "waiting"] /\ UNCHANGED <<errors, trouble>>
       \/ /\ w \in cancelled \/ ~Accepted(w)
          /\ observer' = [observer EXCEPT ![w] = "none"]
          /\ Report("observer")
          /\ UNCHANGED trouble
       \/ /\ observer' = [observer EXCEPT ![w] = "none"]
          /\ Report("observer")
          /\ Fails
    /\ UNCHANGED <<remote, process, loops, client, registered, cancelled, call>>

\* ctx.Done() ends the loop between two looks.
Quit(w) ==
    /\ process = "up" /\ observer[w] = "waiting" /\ w \in cancelled
    /\ observer' = [observer EXCEPT ![w] = "none"]
    /\ UNCHANGED <<remote, local, registered, cancelled, call, trouble>>

LoopFails(l) ==
    /\ process = "up" /\ l \in loops
    /\ \/ session = "lost" /\ UNCHANGED trouble
       \/ Fails
    /\ loops' = loops \ {l}
    /\ Report(l)
    /\ UNCHANGED <<remote, process, client, watch, call>>

LoseSession ==
    /\ session = "active"
    /\ session' = "lost"
    /\ UNCHANGED <<intent, touched, worktree, local, watch, call, trouble>>

Leave ==
    /\ client
    /\ client' = FALSE
    /\ UNCHANGED <<remote, process, loops, errors, watch, call, trouble>>

\* The select of runMCP: the first error, the end of stdin or a signal.
Stop ==
    /\ process = "up"
    /\ errors # {} \/ ~client
    /\ process' = "stopping"
    /\ loops' = {}
    /\ UNCHANGED <<remote, errors, client, watch, call, trouble>>

\* stopAllWorkspaceObservers, CloseAgentSession, and the end of the process and
\* of the calls it was still working on.
Exit ==
    /\ process = "stopping"
    /\ process' = "over"
    /\ observer' = [w \in Works |-> "none"]
    /\ cancelled' = cancelled \cup registered
    /\ registered' = {}
    /\ call' = [c \in Calls |-> Idle]
    /\ \/ session' = "lost" /\ UNCHANGED trouble
       \/ Fails /\ UNCHANGED session
    /\ UNCHANGED <<intent, touched, worktree, loops, errors, client>>

RuntimeNext ==
    \/ \E c \in Calls, w \in Works : StartWork(c, w)
    \/ \E c \in Calls : CreateWorktree(c) \/ AttachWorktree(c) \/ RegisterObserver(c)
                        \/ FirstLook(c) \/ MarkWorkBlocked(c) \/ StopObserver(c)
    \/ \E c \in Calls, w \in Works, to \in Open \cup {"ended"} : UpdateWork(c, w, to)
    \/ \E w \in Works : EndElsewhere(w) \/ Tick(w) \/ Look(w) \/ Quit(w)
    \/ \E l \in Loops : LoopFails(l)
    \/ LoseSession \/ Leave \/ Stop \/ Exit

RuntimeSpec == Init /\ [][RuntimeNext]_vars

-----------------------------------------------------------------------------
Observed(w) == observer[w] # "none" /\ w \notin cancelled

\* Every observer that runs can be stopped by name; one whose worktree was
\* archived is being stopped, unless the list of work failed or another session
\* ended the work; and active work is observed, being started, adrift because its
\* start or a request about it failed, or its observer has just failed, whatever
\* the order in which the client's calls meet (startWorkspaceObserver registers
\* before it looks, updateWork stops after it ends).
ObserversFollowTheWork ==
    process = "up" =>
        \A w \in Works :
            /\ Observed(w) => w \in registered
            /\ Observed(w) /\ worktree[w] = "archived"
               => w \in trouble.unstopped \/ Working(w, {"stop"})
            /\ intent[w] = "active"
               => Observed(w) \/ Working(w, Starting) \/ "observer" \in errors
                  \/ w \in trouble.adrift

\* As long as its session lives, its client is there, nothing fails and no work
\* of it has ended, the runtime serves: blocking, submitting and resuming work
\* never ends it (an observation the server refuses does).
ServesWhileAllIsWell ==
    [][ process = "up" /\ process' # "up"
        => \/ ~client
           \/ session = "lost"
           \/ trouble.failed
           \/ \E w \in Works : worktree[w] = "archived" ]_vars
=============================================================================
