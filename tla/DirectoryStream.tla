--------------------------- MODULE DirectoryStream ---------------------------
(***************************************************************************)
(* How the desktop application keeps its list of workspaces up to date:    *)
(* handleWorkspaceDirectoryStream of the server, the streams of            *)
(* src/desktop/stream.go, and the page that starts and stops them          *)
(* (web/src/realtime/useWorkspaceDirectoryEvents.ts).                      *)
(*                                                                         *)
(* The stream carries no cursor.  The server compares what the person may  *)
(* see with what it saw last and sends a notice; the page then asks for    *)
(* the list.  Page and process talk by asynchronous calls and events.      *)
(***************************************************************************)
EXTENDS Naturals, Sequences, TLC

LOCAL INSTANCE Functions

CONSTANTS LastVersion,  \* the changes of the directory, a bound
          Streams,      \* subscription ids; one of which nothing is left is new
          NoticeLimit,  \* messages a connection buffers before a write blocks
          InboxLimit    \* events on their way to the page

VARIABLES directory,    \* version of what the person may see; no change is undone
          signedIn,     \* the device credential is valid on the server
          call,         \* a call of the page about a stream, on its way
          held,         \* what the page knows of a stream
          listed,       \* Desktop.streams: those that were not cancelled
          routine,      \* runWorkspaceDirectoryStream; "connecting" also between attempts
          fingerprint,  \* what the handler of a stream saw last, while there is one
          wire,         \* messages on their way to this computer
          inbox,        \* events on their way to the page
          page,         \* "in" while the effect is mounted
          shown,        \* version of the list on the page, 0 without one
          fetch,        \* the refresh under way: 0 for none, Asked, or its answer
          missed        \* the last refresh swallowed a notice

directoryVars == <<directory, signedIn, call, held, listed, routine,
                   fingerprint, wire, inbox, page, shown, fetch, missed>>

Asked == LastVersion + 1

server == <<fingerprint, wire>>
desktop == <<listed, routine>>
view == <<page, shown, fetch, missed>>

Init ==
    /\ directory = 1
    /\ signedIn = TRUE
    /\ call = [s \in Streams |-> "none"]
    /\ held = [s \in Streams |-> "none"]
    /\ listed = {}
    /\ routine = [s \in Streams |-> "none"]
    /\ fingerprint = <<>>
    /\ wire = [s \in Streams |-> 0]
    /\ inbox = <<>>
    /\ page = "out"
    /\ shown = 0
    /\ fetch = 0
    /\ missed = FALSE

-----------------------------------------------------------------------------
(* The server. *)

Serving(s) == s \in DOMAIN fingerprint
Unserved(s) == fingerprint' = Restrict(fingerprint, DOMAIN fingerprint \ {s})

\* A workspace, a project in it or a permission changes.
Change ==
    /\ directory < LastVersion /\ signedIn
    /\ directory' = directory + 1
    /\ UNCHANGED <<signedIn, desktop, call, held, server, inbox, view>>

\* The device is revoked from elsewhere.
SignOut ==
    /\ signedIn
    /\ signedIn' = FALSE
    /\ UNCHANGED <<directory, desktop, call, held, server, inbox, view>>

\* As it is when the fingerprint is taken after the headers: of any later moment.
OpenBeforeFingerprint(s) ==
    /\ routine[s] = "connecting" /\ s \in listed /\ signedIn
    /\ routine' = [routine EXCEPT ![s] = "open"]
    /\ \E d \in directory..LastVersion : fingerprint' = fingerprint @@ (s :> d)
    /\ wire' = [wire EXCEPT ![s] = 1]
    /\ UNCHANGED <<directory, signedIn, call, held, listed, inbox, view>>

\* The fingerprint is taken first; the headers are the first message.
Open(s) ==
    /\ routine[s] = "connecting" /\ s \in listed /\ signedIn
    /\ routine' = [routine EXCEPT ![s] = "open"]
    /\ fingerprint' = fingerprint @@ (s :> directory)
    /\ wire' = [wire EXCEPT ![s] = 1]
    /\ UNCHANGED <<directory, signedIn, call, held, listed, inbox, view>>

Poll(s) ==
    /\ Serving(s)
    /\ fingerprint[s] # directory
    /\ wire[s] < NoticeLimit
    /\ wire' = [wire EXCEPT ![s] = @ + 1]
    /\ fingerprint' = [fingerprint EXCEPT ![s] = directory]
    /\ UNCHANGED <<directory, signedIn, desktop, call, held, inbox, view>>

EndServing(s) ==
    /\ Serving(s)
    /\ Unserved(s)
    /\ UNCHANGED <<directory, signedIn, desktop, call, held, wire, inbox, view>>

\* revalidateStreamPrincipal, at an authorization tick.
Revalidate(s) == ~signedIn /\ EndServing(s)

-----------------------------------------------------------------------------
(* The process of the desktop application. *)

Used(s) == held[s] \in {"asked", "held"}
Closed(s) ==
    /\ routine' = [routine EXCEPT ![s] = "none"]
    /\ listed' = listed \ {s}

Start(s) ==
    /\ call[s] = "start"
    /\ call' = [call EXCEPT ![s] = "started"]
    /\ listed' = listed \cup {s}
    /\ routine' = [routine EXCEPT ![s] = "connecting"]
    /\ UNCHANGED <<directory, signedIn, held, server, inbox, view>>

Stop(s) ==
    /\ call[s] = "stop"
    /\ call' = [call EXCEPT ![s] = "none"]
    /\ listed' = listed \ {s}
    /\ UNCHANGED <<directory, signedIn, held, routine, server, inbox, view>>

\* An HTTP 401 ends the stream and tells the page so.
Unauthorized(s) ==
    /\ routine[s] = "connecting" /\ s \in listed /\ ~signedIn
    /\ Len(inbox) < InboxLimit
    /\ Closed(s)
    /\ inbox' = Append(inbox, "expired")
    /\ UNCHANGED <<directory, signedIn, call, held, server, view>>

\* "connected" once the headers are there, then an event for each notice.  What was
\* read before a cancellation is still passed on.
Relay(s) ==
    /\ routine[s] = "open" /\ wire[s] > 0
    /\ Len(inbox) < InboxLimit
    /\ wire' = [wire EXCEPT ![s] = @ - 1]
    /\ inbox' = Append(inbox, "refresh")
    /\ UNCHANGED <<directory, signedIn, desktop, call, held, fingerprint, view>>

EndOfStream(s) ==
    /\ routine[s] = "open" /\ ~Serving(s) /\ wire[s] = 0
    /\ routine' = [routine EXCEPT ![s] = "connecting"]
    /\ UNCHANGED <<directory, signedIn, call, held, listed, server, inbox, view>>

\* The connection fails, and what was on its way is lost.  An attempt that fails
\* changes nothing.
Drop(s) ==
    /\ routine[s] = "open"
    /\ routine' = [routine EXCEPT ![s] = "connecting"]
    /\ Unserved(s)
    /\ wire' = [wire EXCEPT ![s] = 0]
    /\ UNCHANGED <<directory, signedIn, call, held, listed, inbox, view>>

\* A cancelled context ends the routine wherever it waits.
Quit(s) ==
    /\ routine[s] # "none" /\ s \notin listed
    /\ Closed(s)
    /\ Unserved(s)
    /\ wire' = [wire EXCEPT ![s] = 0]
    /\ UNCHANGED <<directory, signedIn, call, held, inbox, view>>

-----------------------------------------------------------------------------
(* The page. *)

Unused(s) == call[s] = "none" /\ held[s] = "none" /\ routine[s] = "none" /\ s \notin listed

\* A page that has read its list opens a stream; whichever list that was is version 0.
Mount ==
    /\ page = "out"
    /\ signedIn
    /\ \E s \in Streams : Unused(s)
    /\ LET s == CHOOSE s \in Streams : Unused(s)
       IN /\ call' = [call EXCEPT ![s] = "start"]
          /\ held' = [held EXCEPT ![s] = "asked"]
    /\ page' = "in"
    /\ UNCHANGED <<directory, signedIn, desktop, server, inbox, shown, fetch, missed>>

\* The effect's cleanup: a stream whose id has not arrived is marked, the other stopped.
CleanUp ==
    /\ held' = [s \in Streams |-> CASE held[s] = "asked" -> "disposed"
                                    [] held[s] = "held" -> "none"
                                    [] OTHER -> held[s]]
    /\ call' = [s \in Streams |-> IF held[s] = "held" THEN "stop" ELSE call[s]]
    /\ shown' = 0
    /\ fetch' = 0
    /\ missed' = FALSE

Unmount ==
    /\ page = "in"
    /\ page' = "out"
    /\ CleanUp
    /\ UNCHANGED <<directory, signedIn, desktop, server, inbox>>

\* As it is without the look at `disposed`.
HoldAnyway(s) ==
    /\ call[s] = "started"
    /\ call' = [call EXCEPT ![s] = "none"]
    /\ held' = [held EXCEPT ![s] = "held"]
    /\ UNCHANGED <<directory, signedIn, desktop, server, inbox, view>>

\* The id arrives: it is kept, or stopped when the effect is gone.
Started(s) ==
    /\ call[s] = "started"
    /\ call' = [call EXCEPT ![s] = IF held[s] = "disposed" THEN "stop" ELSE "none"]
    /\ held' = [held EXCEPT ![s] = IF @ = "disposed" THEN "none" ELSE "held"]
    /\ UNCHANGED <<directory, signedIn, desktop, server, inbox, view>>

\* refreshDirectory: one refresh at a time, and a notice that comes during one is
\* answered by it, also when its answer is already on its way.
Refresh ==
    IF fetch = 0 THEN fetch' = Asked /\ missed' = FALSE
    ELSE missed' = (missed \/ fetch # Asked) /\ UNCHANGED fetch

\* The listener takes the events of any stream.
Receive ==
    /\ inbox # <<>>
    /\ inbox' = Tail(inbox)
    /\ \/ /\ page = "in" /\ Head(inbox) = "refresh"
          /\ Refresh
          /\ UNCHANGED <<page, call, held, shown>>
       \/ /\ page = "in" /\ Head(inbox) = "expired"
          /\ page' = "out"
          /\ CleanUp
       \/ page # "in" /\ UNCHANGED <<view, call, held>>
    /\ UNCHANGED <<directory, signedIn, desktop, server>>

\* GET /v1/workspaces, sent by the process with its credential.
Answer ==
    /\ fetch = Asked
    /\ \/ /\ signedIn
          /\ fetch' = directory
          /\ UNCHANGED <<page, call, held, shown, missed>>
       \/ /\ ~signedIn
          /\ page' = "out"
          /\ CleanUp
    /\ UNCHANGED <<directory, signedIn, desktop, server, inbox>>

Deliver ==
    /\ fetch \in 1..LastVersion
    /\ shown' = fetch
    /\ fetch' = 0
    /\ UNCHANGED <<directory, signedIn, desktop, call, held, server, inbox, page, missed>>

-----------------------------------------------------------------------------
ServeDirectory(s) == Open(s) \/ Poll(s) \/ Revalidate(s)
Run(s) ==
    \/ Start(s) \/ Stop(s) \/ Unauthorized(s)
    \/ Relay(s) \/ EndOfStream(s) \/ Quit(s)
Show == Receive \/ Answer \/ Deliver \/ \E s \in Streams : Started(s)
Break(s) == EndServing(s) \/ Drop(s)

DirectoryNext ==
    \/ Change \/ SignOut
    \/ Mount \/ Unmount \/ Show
    \/ \E s \in Streams : ServeDirectory(s) \/ Run(s) \/ Break(s)

\* The handler polls, the process reads what arrives and connects again after at
\* most ten seconds, and the page works off its events and answers.
DirectoryFairness ==
    /\ \A s \in Streams : WF_directoryVars(ServeDirectory(s)) /\ WF_directoryVars(Run(s))
    /\ WF_directoryVars(Show)

DirectorySpec == Init /\ [][DirectoryNext]_directoryVars /\ DirectoryFairness

-----------------------------------------------------------------------------
\* Whatever the order of mounting, leaving and the answers to both: a page has one
\* stream at most, only while it is there, and every stream that is not cancelled is
\* known to its page or about to be stopped.
StreamsHaveAnOwner ==
    /\ \A s \in Streams : Used(s) => page = "in" /\ \A t \in Streams \ {s} : ~Used(t)
    /\ \A s \in listed : held[s] # "none" \/ call[s] = "stop"

\* A directory that settles, as it does by the bound, is shown on every page that
\* stays, with a server that notices changes only by polling, whatever happened
\* before: unless connections break for ever or the last refresh swallowed a notice.
DirectoryCatchesUp ==
    /\ <>[](signedIn /\ page = "in")
    /\ ~[]<><<\E s \in Streams : Break(s)>>_directoryVars
    => <>[](shown = directory) \/ []<>missed
=============================================================================
