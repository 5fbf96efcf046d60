--------------------------- MODULE ServerProfiles ---------------------------
(***************************************************************************)
(* The servers a computer is logged in to: the profile registry, a file,   *)
(* and the credential store of the operating system, two stores that the   *)
(* command line and the desktop write one after the other under a file     *)
(* lock (internal/serverprofile/manager.go, atomicfile, filelock).         *)
(*                                                                         *)
(* A process may die between any two steps; the operating system then      *)
(* frees its lock.  Of a profile the principal is kept; which profile      *)
(* becomes active after the active one is removed is left open (the code   *)
(* takes the most recently used).  The registry has the present format:    *)
(* that the first load of one of an older format stores its credential and *)
(* writes the file anew is left out.                                       *)
(***************************************************************************)
EXTENDS FiniteSets

CONSTANTS Servers,      \* normalized URLs: one profile and one reference each
          Principals,
          Credentials,  \* device credentials the servers may issue
          Processes,
          None

ASSUME ProfileAssumption ==
    /\ None \notin Servers \cup Principals \cup Credentials \cup Processes
    /\ None \notin [server : Servers, principal : Principals]

VARIABLES registry,  \* config.json: the profiles and which one is active
          store,     \* the credential kept under each profile's reference
          owner,     \* what the servers know of the credentials they issued
          lock,      \* the process that holds config.json.lock
          task,      \* what each process is doing
          torn       \* servers whose two stores a crash or a failure split

vars == <<registry, store, owner, lock, task, torn>>

NoTask == [step |-> "idle", kind |-> None, server |-> None, principal |-> None,
           credential |-> None, previous |-> None, read |-> None]

Registries == [principal : [Servers -> Principals \cup {None}],
               active : Servers \cup {None}]

Tasks == [step : {"idle", "lock", "credential", "registry", "undo"},
          kind : {"login", "use", "remove", None},
          server : Servers \cup {None}, principal : Principals \cup {None},
          credential : Credentials \cup {None}, previous : Credentials \cup {None},
          read : Registries \cup {None}]

TypeOK ==
    /\ registry \in Registries
    /\ store \in [Servers -> Credentials \cup {None}]
    /\ owner \in [Credentials -> [server : Servers, principal : Principals] \cup {None}]
    /\ lock \in Processes \cup {None}
    /\ task \in [Processes -> Tasks]
    /\ torn \subseteq Servers

Init ==
    /\ registry = [principal |-> [s \in Servers |-> None], active |-> None]
    /\ store = [s \in Servers |-> None]
    /\ owner = [c \in Credentials |-> None]
    /\ lock = None
    /\ task = [p \in Processes |-> NoTask]
    /\ torn = {}

At(p, step) == task[p].step = step
Kind(p, kind) == task[p].kind = kind
Server(p) == task[p].server
Begin(p, with) == task' = [task EXCEPT ![p] = with]
Finish(p) == task' = [task EXCEPT ![p] = NoTask] /\ lock' = None

-----------------------------------------------------------------------------
(* The commands up to their turn. *)

\* One credential not issued yet stands for any other.
Issuable == LET fresh == {c \in Credentials : owner[c] = None}
            IN IF fresh = {} THEN {} ELSE {CHOOSE c \in fresh : TRUE}

\* pact login: the exchange issued a credential, and Me told whose it is.
Login(p, s, u, c) ==
    /\ At(p, "idle") /\ c \in Issuable
    /\ owner' = [owner EXCEPT ![c] = [server |-> s, principal |-> u]]
    /\ Begin(p, [NoTask EXCEPT !.step = "lock", !.kind = "login", !.server = s,
                               !.principal = u, !.credential = c])
    /\ UNCHANGED <<registry, store, lock, torn>>

\* pact servers use; pact servers remove and pact logout, which first revoke the
\* device at the server.
Choose(p, s, kind) ==
    /\ At(p, "idle") /\ registry.principal[s] # None
    /\ Begin(p, [NoTask EXCEPT !.step = "lock", !.kind = kind, !.server = s])
    /\ UNCHANGED <<registry, store, owner, lock, torn>>

\* As it is when the registry is read before the lock is there.
ReadBeforeLock(p) ==
    /\ \/ /\ At(p, "lock") /\ task[p].read = None
          /\ task' = [task EXCEPT ![p].read = registry]
          /\ UNCHANGED lock
       \/ /\ At(p, "lock") /\ task[p].read # None /\ lock = None
          /\ lock' = p
          /\ task' = [task EXCEPT ![p].step = "credential"]
    /\ UNCHANGED <<registry, store, owner, torn>>

\* m.lock() and loadLocked(), for a registry that needs no migration.
Lock(p) ==
    /\ At(p, "lock") /\ lock = None
    /\ lock' = p
    /\ task' = [task EXCEPT ![p].step = "credential", ![p].read = registry]
    /\ UNCHANGED <<registry, store, owner, torn>>

-----------------------------------------------------------------------------
(* The credential store. *)

Split(s, split) == torn' = IF split THEN torn \cup {s} ELSE torn

\* replaceCredential: the old secret is remembered, the new one stored and read
\* back.  A Put that fails is taken back as well as can be.
PutCredential(p) ==
    /\ At(p, "credential") /\ Kind(p, "login")
    /\ LET s == Server(p) IN
       \/ /\ store' = [store EXCEPT ![s] = task[p].credential]
          /\ task' = [task EXCEPT ![p].step = "registry", ![p].previous = store[s]]
          /\ UNCHANGED <<lock, torn>>
       \/ \E left \in {store[s], task[p].credential} :
             /\ store' = [store EXCEPT ![s] = left]
             /\ Split(s, left # store[s])
             /\ Finish(p)
    /\ UNCHANGED <<registry, owner>>

\* SetActive reads the credential of the profile it prefers.
ReadCredential(p) ==
    /\ At(p, "credential") /\ Kind(p, "use")
    /\ LET s == Server(p) IN
       IF task[p].read.principal[s] # None /\ store[s] # None
       THEN task' = [task EXCEPT ![p].step = "registry"] /\ UNCHANGED lock
       ELSE Finish(p)
    /\ UNCHANGED <<registry, store, owner, torn>>

\* Remove deletes the credential first; a missing one is no error.
DeleteCredential(p) ==
    /\ At(p, "credential") /\ Kind(p, "remove")
    /\ LET s == Server(p) IN
       \/ /\ task[p].read.principal[s] # None
          /\ store' = [store EXCEPT ![s] = None]
          /\ task' = [task EXCEPT ![p].step = "registry", ![p].previous = store[s]]
          /\ UNCHANGED <<lock, torn>>
       \/ \E left \in {store[s], None} :
             /\ left = None => task[p].read.principal[s] # None
             /\ store' = [store EXCEPT ![s] = left]
             /\ Split(s, left # store[s])
             /\ Finish(p)
    /\ UNCHANGED <<registry, owner>>

-----------------------------------------------------------------------------
(* The registry. *)

Remaining(r, s) == {t \in Servers \ {s} : r.principal[t] # None}

\* What the process writes, from what it read under the lock.
Written(p) ==
    LET r == task[p].read
        s == Server(p)
    IN CASE Kind(p, "login") ->
              {[principal |-> [r.principal EXCEPT ![s] = task[p].principal], active |-> s]}
         [] Kind(p, "use") -> {[r EXCEPT !.active = s]}
         [] Kind(p, "remove") ->
              {[principal |-> [r.principal EXCEPT ![s] = None], active |-> a] :
                  a \in IF r.active # s THEN {r.active}
                        ELSE IF Remaining(r, s) = {} THEN {None} ELSE Remaining(r, s)}

WriteRegistry(p) ==
    /\ At(p, "registry")
    /\ registry' \in Written(p)
    /\ torn' = IF Kind(p, "use") THEN torn ELSE torn \ {Server(p)}
    /\ Finish(p)
    /\ UNCHANGED <<store, owner>>

\* atomicfile.Write may fail before the file is replaced, or after it when the
\* directory is synchronized.
WriteFails(p) ==
    /\ At(p, "registry")
    /\ registry' \in Written(p) \cup {registry}
    /\ IF Kind(p, "use") THEN Finish(p)
       ELSE task' = [task EXCEPT ![p].step = "undo"] /\ UNCHANGED lock
    /\ UNCHANGED <<store, owner, torn>>

Joined(s) == (registry.principal[s] = None) = (store[s] = None)

\* The principal the registry names is the one the credential was issued to.
Matches(s) ==
    /\ Joined(s)
    /\ store[s] # None => owner[store[s]] = [server |-> s, principal |-> registry.principal[s]]

\* As they are without the rollback: the failed command keeps its credential.
KeepCredential(p) ==
    /\ At(p, "undo")
    /\ Finish(p)
    /\ UNCHANGED <<registry, store, owner, torn>>

\* The old credential is put back, unless that fails too.
Undo(p) ==
    /\ At(p, "undo")
    /\ LET s == Server(p) IN
       \/ /\ store' = [store EXCEPT ![s] = task[p].previous]
          /\ Split(s, registry # task[p].read)
       \/ /\ Split(s, TRUE)
          /\ UNCHANGED store
    /\ Finish(p)
    /\ UNCHANGED <<registry, owner>>

\* The process dies and the operating system gives its lock back.
Die(p) ==
    /\ ~At(p, "idle")
    /\ task' = [task EXCEPT ![p] = NoTask]
    /\ lock' = IF lock = p THEN None ELSE lock
    /\ Split(Server(p), lock = p /\ (At(p, "undo") \/ (At(p, "registry") /\ ~Kind(p, "use"))))
    /\ UNCHANGED <<registry, store, owner>>

ProfileNext ==
    \/ \E p \in Processes, s \in Servers, u \in Principals, c \in Credentials : Login(p, s, u, c)
    \/ \E p \in Processes, s \in Servers, kind \in {"use", "remove"} : Choose(p, s, kind)
    \/ \E p \in Processes :
          Lock(p) \/ PutCredential(p) \/ ReadCredential(p) \/ DeleteCredential(p)
          \/ WriteRegistry(p) \/ WriteFails(p) \/ Undo(p) \/ Die(p)

ProfileSpec == Init /\ [][ProfileNext]_vars

-----------------------------------------------------------------------------
\* Whenever nobody is writing, the two stores tell one story: a server has a
\* profile exactly when it has a credential, issued by that server to the
\* principal the profile names, and the active server has a profile.  Two
\* logins, a removal and a change of preference at the same time, failed writes
\* and their rollbacks included; only a process that died between its two
\* writes, or a failure whose rollback could not restore both, may leave a
\* server split, and the next login or removal joins it again.
WhoIsLoggedIn ==
    /\ lock = None => \A s \in Servers \ torn : Matches(s)
    /\ registry.active # None => registry.principal[registry.active] # None
=============================================================================
