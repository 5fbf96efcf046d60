----------------------------- MODULE MCEventLog -----------------------------
(***************************************************************************)
(* What a client follows: the events of a project, with three transactions *)
(* of up to two events, one reader, pages of two rows and a connection     *)
(* that buffers two messages; and the directory of workspaces, with two    *)
(* subscriptions.  The two share no state; a behaviour exercises one and   *)
(* leaves the other as it starts.                                          *)
(***************************************************************************)
EXTENDS EventLog

CONSTANTS LastVersion, Streams, NoticeLimit, InboxLimit

VARIABLES part, directory, signedIn, call, held, listed, routine, fingerprint,
          notices, inbox, page, shown, fetch, missed

directoryVars == <<directory, signedIn, call, held, listed, routine, fingerprint,
                   notices, inbox, page, shown, fetch, missed>>

Directory == INSTANCE DirectoryStream WITH wire <- notices

FollowInit ==
    /\ part \in {"project", "directory"}
    /\ Init
    /\ Directory!Init

FollowNext ==
    /\ UNCHANGED part
    /\ \/ part = "project" /\ Next /\ UNCHANGED directoryVars
       \/ part = "directory" /\ Directory!DirectoryNext /\ UNCHANGED vars

\* The fairness of EventLog, where its part is exercised, and that of the directory,
\* which has nothing to do where its own is not.
FollowSpec ==
    /\ FollowInit
    /\ [][FollowNext]_<<part, vars, directoryVars>>
    /\ \A r \in Readers : /\ WF_vars(part = "project" /\ Serve(r))
                          /\ WF_vars(part = "project" /\ Browse(r))
                          /\ WF_vars(part = "project" /\ AuthorizationTick(r))
    /\ Directory!DirectoryFairness

\* Every stream of the desktop application has an owner: see DirectoryStream.
StreamsHaveAnOwner == Directory!StreamsHaveAnOwner

\* A directory that settles is shown: see DirectoryStream.
DirectoryCatchesUp == Directory!DirectoryCatchesUp
=============================================================================
