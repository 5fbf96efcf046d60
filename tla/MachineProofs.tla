--------------------------- MODULE MachineProofs ---------------------------
(***************************************************************************)
(* What runs on one computer, for any number of servers, credentials,      *)
(* processes, work items, calls and keys.  The logins: every write goes    *)
(* through the lock, and a holder that changed one store still has what it *)
(* needs to make the other agree, or to take its change back.  The local   *)
(* server: no command changes what another one has still to use, as long   *)
(* as the ones that must not meet do not.  The runtime of an agent: a call *)
(* that starts, ends or resumes work leaves behind what the next one and   *)
(* the loops need to find.  The checkout: a key has one home, the server   *)
(* that knows it or is going to.                                           *)
(***************************************************************************)
EXTENDS MCMachine, TLAPS

(* The logins. *)

Holds(p) == task[p].step \in {"credential", "registry", "undo"}

\* A process has the lock exactly while it is past it.
LockIsHeld == \A p \in Processes : Holds(p) <=> lock = p

TasksAreNamed ==
    \A p \in Processes : ~At(p, "idle") =>
        Server(p) \in Servers /\ task[p].kind \in {"login", "use", "remove"}

\* What a login stores was issued to whom it says.
LoginsAreIssued ==
    \A p \in Processes : ~At(p, "idle") /\ Kind(p, "login") =>
        /\ task[p].principal \in Principals
        /\ task[p].credential \in Credentials
        /\ owner[task[p].credential] = [server |-> Server(p), principal |-> task[p].principal]

\* Nobody writes the registry between a holder's reading and its writing.
ReadIsCurrent ==
    \A p \in Processes : At(p, "credential") \/ At(p, "registry") => task[p].read = registry

\* What a profile's principal and its credential say together.
Story(s, principal, credential) ==
    /\ (principal = None) = (credential = None)
    /\ credential # None => owner[credential] = [server |-> s, principal |-> principal]

\* Processes that changed the credential store and not yet the registry for good.
Between(p) == (At(p, "registry") \/ At(p, "undo")) /\ ~Kind(p, "use")

\* They can put back what was there.
PreviousAgrees ==
    \A p \in Processes : Between(p) =>
        /\ task[p].read \in Registries
        /\ Server(p) \notin torn =>
              Story(Server(p), task[p].read.principal[Server(p)], task[p].previous)

\* They can go on, too.
NextAgrees ==
    \A p \in Processes :
        /\ At(p, "registry") /\ Kind(p, "login") => store[Server(p)] = task[p].credential
        /\ At(p, "registry") /\ Kind(p, "remove") => store[Server(p)] = None
        /\ At(p, "registry") /\ ~Kind(p, "login") => task[p].read.principal[Server(p)] # None
        /\ At(p, "undo") => ~Kind(p, "use")

OthersAgree ==
    \A s \in Servers \ torn :
        Matches(s) \/ \E p \in Processes : Between(p) /\ Server(p) = s

ActiveIsKnown == registry.active # None => registry.principal[registry.active] # None

ProfileInv ==
    /\ TypeOK /\ LockIsHeld /\ TasksAreNamed /\ LoginsAreIssued /\ ReadIsCurrent
    /\ PreviousAgrees /\ NextAgrees /\ OthersAgree /\ ActiveIsKnown

----------------------------------------------------------------------------
(* The helpers. *)

\* A server matches when its principal and its credential tell one story.
LEMMA MatchingIsAStory ==
    ASSUME NEW s PROVE Matches(s) <=> Story(s, registry.principal[s], store[s])
BY DEF Matches, Joined, Story

\* Two processes never hold the lock.
LEMMA OneHolder ==
    ASSUME LockIsHeld, NEW p \in Processes, NEW q \in Processes, Holds(p), Holds(q)
    PROVE  p = q
BY DEF LockIsHeld

\* The registries a command writes are registries.
LEMMA WrittenIsARegistry ==
    ASSUME TypeOK, TasksAreNamed, LoginsAreIssued, ReadIsCurrent,
           NEW p \in Processes, At(p, "registry"), NEW r \in Written(p)
    PROVE  /\ r \in Registries
           /\ \A t \in Servers \ {Server(p)} : r.principal[t] = registry.principal[t]
           /\ Kind(p, "use") => r.principal = registry.principal
           /\ Kind(p, "login") => r.principal[Server(p)] = task[p].principal
           /\ Kind(p, "remove") => r.principal[Server(p)] = None
<1>1. /\ task[p].read = registry /\ Server(p) \in Servers
      /\ registry.principal \in [Servers -> Principals \cup {None}]
      /\ registry.active \in Servers \cup {None}
  BY DEF TypeOK, Registries, ReadIsCurrent, TasksAreNamed, At, Server
<1>2. CASE Kind(p, "login")
  <2>1. task[p].principal \in Principals
    BY <1>2 DEF LoginsAreIssued, At
  <2>2. r = [principal |-> [registry.principal EXCEPT ![Server(p)] = task[p].principal],
             active |-> Server(p)]
    BY <1>1, <1>2 DEF Written, Kind
  <2> QED BY <1>1, <1>2, <2>1, <2>2 DEF Registries, Kind
<1>3. CASE Kind(p, "use")
  <2>1. r = [registry EXCEPT !.active = Server(p)]
    BY <1>1, <1>3 DEF Written, Kind
  <2> QED BY <1>1, <1>3, <2>1 DEF Registries, Kind, TypeOK
<1>4. CASE Kind(p, "remove")
  <2>1. r \in {[principal |-> [registry.principal EXCEPT ![Server(p)] = None], active |-> a] :
                  a \in IF registry.active # Server(p) THEN {registry.active}
                        ELSE IF Remaining(registry, Server(p)) = {} THEN {None}
                        ELSE Remaining(registry, Server(p))}
    BY <1>1, <1>4 DEF Written, Kind
  <2>2. PICK a \in Servers \cup {None} :
           r = [principal |-> [registry.principal EXCEPT ![Server(p)] = None], active |-> a]
    BY <1>1, <2>1 DEF Remaining
  <2> QED BY <1>1, <1>4, <2>2 DEF Registries, Kind
<1> QED BY <1>2, <1>3, <1>4 DEF TasksAreNamed, Kind, At

----------------------------------------------------------------------------
(* One lemma for each action. *)

\* pact login waits with a credential that nobody else can have.
LEMMA LoginKeeps ==
    ASSUME ProfileInv, NEW p \in Processes, NEW s \in Servers, NEW u \in Principals,
           NEW c \in Credentials, Login(p, s, u, c)
    PROVE  ProfileInv'
<1> DEFINE v == [NoTask EXCEPT !.step = "lock", !.kind = "login", !.server = s,
                               !.principal = u, !.credential = c]
           o == [server |-> s, principal |-> u]
<1>1. /\ v \in Tasks
      /\ v.step = "lock" /\ v.kind = "login" /\ v.server = s
      /\ v.principal = u /\ v.credential = c
  BY DEF Tasks, NoTask
<1>2. /\ task' = [task EXCEPT ![p] = v] /\ task[p].step = "idle"
      /\ owner' = [owner EXCEPT ![c] = o] /\ owner[c] = None
      /\ UNCHANGED <<registry, store, lock, torn>>
  <2>1. owner[c] = None
    BY DEF Login, Issuable
  <2> QED BY <2>1 DEF Login, Begin, At
<1> HIDE DEF v
<1>3. task \in [Processes -> Tasks] /\ owner \in [Credentials -> [server : Servers, principal : Principals] \cup {None}]
  BY DEF ProfileInv, TypeOK
<1>4. /\ task'[p] = v
      /\ \A q \in Processes : q # p => task'[q] = task[q]
      /\ owner'[c] = o
      /\ \A d \in Credentials : d # c => owner'[d] = owner[d]
  BY <1>2, <1>3
<1>5. o # None
  BY ProfileAssumption
<1>6. \A t \in Servers, w \in Principals \cup {None}, d \in Credentials \cup {None} :
         Story(t, w, d) => Story(t, w, d)'
  <2> SUFFICES ASSUME NEW t \in Servers, NEW w \in Principals, NEW d \in Credentials,
                      Story(t, w, d), d # None, w # None
               PROVE  owner'[d] = [server |-> t, principal |-> w]
    BY DEF Story
  <2>1. owner[d] = [server |-> t, principal |-> w]
    BY DEF Story
  <2>2. d # c
    BY <2>1, <1>2, ProfileAssumption
  <2> QED BY <2>1, <2>2, <1>4
<1>a. TypeOK'
  BY <1>1, <1>2, <1>3 DEF ProfileInv, TypeOK
<1>b. LockIsHeld'
  BY <1>1, <1>2, <1>4 DEF ProfileInv, LockIsHeld, Holds
<1>c. TasksAreNamed'
  BY <1>1, <1>4 DEF ProfileInv, TasksAreNamed, At, Server
<1>d. LoginsAreIssued'
  <2> SUFFICES ASSUME NEW q \in Processes, q # p, ~At(q, "idle"), Kind(q, "login")
               PROVE  owner'[task[q].credential] = [server |-> Server(q), principal |-> task[q].principal]
                      /\ task[q].principal \in Principals /\ task[q].credential \in Credentials
    BY <1>1, <1>4 DEF LoginsAreIssued, At, Kind, Server
  <2>1. /\ owner[task[q].credential] = [server |-> Server(q), principal |-> task[q].principal]
        /\ task[q].principal \in Principals /\ task[q].credential \in Credentials
        /\ Server(q) \in Servers
    BY DEF ProfileInv, LoginsAreIssued, TasksAreNamed
  <2>2. task[q].credential # c
    BY <2>1, <1>2, ProfileAssumption
  <2> QED BY <2>1, <2>2, <1>4
<1>e. ReadIsCurrent'
  BY <1>1, <1>2, <1>4 DEF ProfileInv, ReadIsCurrent, At
<1>f. PreviousAgrees'
  <2> SUFFICES ASSUME NEW q \in Processes, Between(q)'
               PROVE  (task[q].read \in Registries
                       /\ (Server(q) \notin torn =>
                             Story(Server(q), task[q].read.principal[Server(q)], task[q].previous)))'
    BY DEF PreviousAgrees
  <2>1. q # p /\ task'[q] = task[q]
    BY <1>1, <1>4 DEF Between, At
  <2>2. Between(q) /\ ~At(q, "idle") /\ task[q] \in Tasks
    BY <2>1, <1>3 DEF Between, At, Kind
  <2>3. /\ task[q].read \in Registries
        /\ Server(q) \in Servers /\ task[q].previous \in Credentials \cup {None}
        /\ Server(q) \notin torn =>
              Story(Server(q), task[q].read.principal[Server(q)], task[q].previous)
    BY <2>2 DEF ProfileInv, PreviousAgrees, TasksAreNamed, Tasks
  <2>4. task[q].read.principal[Server(q)] \in Principals \cup {None}
    BY <2>3 DEF Registries
  <2>5. Server(q) \notin torn =>
           Story(Server(q), task[q].read.principal[Server(q)], task[q].previous)'
    <3> DEFINE w == task[q].read.principal[Server(q)]
               d == task[q].previous
               t == Server(q)
    <3>1. /\ t' = t /\ w' = w /\ d' = d
      BY <2>1 DEF Server
    <3>2. t \in Servers /\ w \in Principals \cup {None} /\ d \in Credentials \cup {None}
      BY <2>3, <2>4
    <3>3. t \notin torn => Story(t, w, d)
      BY <2>3
    <3> QED BY <3>1, <3>2, <3>3, <1>6 DEF Story
  <2> QED BY <2>1, <2>3, <2>5, <1>2 DEF Server
<1>g. NextAgrees'
  BY <1>1, <1>2, <1>4 DEF ProfileInv, NextAgrees, At, Kind, Server
<1>h. OthersAgree'
  <2> SUFFICES ASSUME NEW t \in Servers \ torn
               PROVE  Matches(t)' \/ \E q \in Processes : (Between(q) /\ Server(q) = t)'
    BY <1>2 DEF OthersAgree
  <2>1. CASE Matches(t)
    <3>1. Story(t, registry.principal[t], store[t])
      BY <2>1, MatchingIsAStory
    <3>2. store[t] \in Credentials \cup {None} /\ registry.principal[t] \in Principals \cup {None}
      BY DEF ProfileInv, TypeOK, Registries
    <3>3. Story(t, registry.principal[t], store[t])'
      BY <3>1, <3>2, <1>6, <1>2 DEF Story
    <3> QED BY <3>3 DEF Matches, Joined, Story
  <2>2. CASE \E q \in Processes : Between(q) /\ Server(q) = t
    <3>1. PICK q \in Processes : Between(q) /\ Server(q) = t
      BY <2>2
    <3>2. q # p
      BY <3>1, <1>2 DEF Between, At
    <3> QED BY <3>1, <3>2, <1>4 DEF Between, At, Kind, Server
  <2> QED BY <2>1, <2>2 DEF ProfileInv, OthersAgree
<1>i. ActiveIsKnown'
  BY <1>2 DEF ProfileInv, ActiveIsKnown
<1> QED
  BY <1>a, <1>b, <1>c, <1>d, <1>e, <1>f, <1>g, <1>h, <1>i DEF ProfileInv

\* What the others know is not disturbed by a step of p alone, and only a holder
\* of the lock touches the two stores: it is enough to look at p.
LEMMA StepOfOne ==
    ASSUME ProfileInv, NEW p \in Processes, NEW v \in Tasks,
           task' = [task EXCEPT ![p] = v], owner' = owner, TypeOK',
           v.step \in {"credential", "registry", "undo"} <=> lock' = p,
           \A q \in Processes \ {p} : lock' = q <=> lock = q,
           UNCHANGED <<registry, store, torn>> \/ lock = p,
           v.step # "idle" => v.server \in Servers /\ v.kind \in {"login", "use", "remove"},
           v.step # "idle" /\ v.kind = "login" =>
               /\ v.principal \in Principals /\ v.credential \in Credentials
               /\ owner[v.credential] = [server |-> v.server, principal |-> v.principal],
           v.step \in {"credential", "registry"} => v.read = registry',
           v.step \in {"registry", "undo"} /\ v.kind # "use" =>
               /\ v.read \in Registries
               /\ v.server \notin torn' =>
                     Story(v.server, v.read.principal[v.server], v.previous),
           v.step = "registry" /\ v.kind = "login" => store'[v.server] = v.credential,
           v.step = "registry" /\ v.kind = "remove" => store'[v.server] = None,
           v.step = "registry" /\ v.kind # "login" => v.read.principal[v.server] # None,
           v.step = "undo" => v.kind # "use",
           OthersAgree', ActiveIsKnown'
    PROVE  ProfileInv'
<1>1. /\ task'[p] = v
      /\ \A q \in Processes : q # p => task'[q] = task[q]
  BY DEF ProfileInv, TypeOK
<1>2. ASSUME NEW q \in Processes, q # p, Holds(q)
      PROVE  UNCHANGED <<registry, store, torn>>
  BY <1>2 DEF ProfileInv, LockIsHeld
<1>b. LockIsHeld'
  BY <1>1 DEF ProfileInv, LockIsHeld, Holds
<1>c. TasksAreNamed'
  BY <1>1 DEF ProfileInv, TasksAreNamed, At, Server
<1>d. LoginsAreIssued'
  BY <1>1 DEF ProfileInv, LoginsAreIssued, At, Kind, Server
<1>e. ReadIsCurrent'
  <2> SUFFICES ASSUME NEW q \in Processes, (At(q, "credential") \/ At(q, "registry"))'
               PROVE  task'[q].read = registry'
    BY DEF ReadIsCurrent
  <2>1. CASE q = p
    BY <2>1, <1>1 DEF At
  <2>2. CASE q # p
    <3>1. At(q, "credential") \/ At(q, "registry")
      BY <2>2, <1>1 DEF At
    <3>2. registry' = registry
      BY <2>2, <3>1, <1>2 DEF Holds, At
    <3> QED BY <2>2, <3>1, <3>2, <1>1 DEF ProfileInv, ReadIsCurrent
  <2> QED BY <2>1, <2>2
<1>f. PreviousAgrees'
  <2> SUFFICES ASSUME NEW q \in Processes, Between(q)'
               PROVE  (task[q].read \in Registries
                       /\ (Server(q) \notin torn =>
                             Story(Server(q), task[q].read.principal[Server(q)], task[q].previous)))'
    BY DEF PreviousAgrees
  <2>1. CASE q = p
    BY <2>1, <1>1 DEF Between, At, Kind, Server, Story
  <2>2. CASE q # p
    <3>1. Between(q) /\ task'[q] = task[q]
      BY <2>2, <1>1 DEF Between, At, Kind
    <3>2. torn' = torn
      BY <2>2, <3>1, <1>2 DEF Holds, At, Between
    <3>3. task[q].read \in Registries
          /\ (Server(q) \notin torn =>
                 Story(Server(q), task[q].read.principal[Server(q)], task[q].previous))
      BY <3>1 DEF ProfileInv, PreviousAgrees
    <3> QED BY <3>1, <3>2, <3>3 DEF Server, Story
  <2> QED BY <2>1, <2>2
<1>g. NextAgrees'
  <2> SUFFICES ASSUME NEW q \in Processes
               PROVE  (/\ At(q, "registry") /\ Kind(q, "login") => store[Server(q)] = task[q].credential
                       /\ At(q, "registry") /\ Kind(q, "remove") => store[Server(q)] = None
                       /\ At(q, "registry") /\ ~Kind(q, "login") => task[q].read.principal[Server(q)] # None
                       /\ At(q, "undo") => ~Kind(q, "use"))'
    BY DEF NextAgrees
  <2>1. CASE q = p
    BY <2>1, <1>1 DEF At, Kind, Server
  <2>2. CASE q # p
    <3>1. task'[q] = task[q]
      BY <2>2, <1>1
    <3>2. At(q, "registry") => store' = store
      BY <2>2, <1>2 DEF Holds, At
    <3> QED BY <3>1, <3>2 DEF ProfileInv, NextAgrees, At, Kind, Server
  <2> QED BY <2>1, <2>2
<1> QED
  BY <1>b, <1>c, <1>d, <1>e, <1>f, <1>g DEF ProfileInv

\* The two stores agree on the other servers when a step of p changes neither,
\* unless it gives up what it was in the middle of.
LEMMA UntouchedAgree ==
    ASSUME ProfileInv, NEW p \in Processes, NEW v \in Tasks,
           task' = [task EXCEPT ![p] = v], UNCHANGED <<registry, store, owner>>,
           torn \subseteq torn',
           Between(p) => \/ Server(p) \in torn'
                         \/ /\ v.step \in {"registry", "undo"} /\ v.kind # "use"
                            /\ v.server = Server(p)
    PROVE  OthersAgree' /\ ActiveIsKnown'
<1>1. /\ task'[p] = v
      /\ \A q \in Processes : q # p => task'[q] = task[q]
  BY DEF ProfileInv, TypeOK
<1>2. ActiveIsKnown'
  BY DEF ProfileInv, ActiveIsKnown
<1>3. OthersAgree'
  <2> SUFFICES ASSUME NEW t \in Servers, t \notin torn'
               PROVE  Matches(t)' \/ \E q \in Processes : (Between(q) /\ Server(q) = t)'
    BY DEF OthersAgree
  <2>1. CASE Matches(t)
    BY <2>1 DEF Matches, Joined
  <2>2. CASE \E q \in Processes : Between(q) /\ Server(q) = t
    <3>1. PICK q \in Processes : Between(q) /\ Server(q) = t
      BY <2>2
    <3>2. CASE q = p
      BY <3>1, <3>2, <1>1 DEF Between, At, Kind, Server
    <3>3. CASE q # p
      BY <3>1, <3>3, <1>1 DEF Between, At, Kind, Server
    <3> QED BY <3>2, <3>3
  <2> QED BY <2>1, <2>2 DEF ProfileInv, OthersAgree
<1> QED BY <1>2, <1>3

\* A command waits for its turn.
LEMMA ChooseKeeps ==
    ASSUME ProfileInv, NEW p \in Processes, NEW s \in Servers, NEW kind \in {"use", "remove"},
           Choose(p, s, kind)
    PROVE  ProfileInv'
<1> DEFINE v == [NoTask EXCEPT !.step = "lock", !.kind = kind, !.server = s]
<1>1. /\ v \in Tasks
      /\ v.step = "lock" /\ v.kind = kind /\ v.server = s
  BY DEF Tasks, NoTask
<1>2. /\ task' = [task EXCEPT ![p] = v] /\ task[p].step = "idle"
      /\ UNCHANGED <<registry, store, owner, lock, torn>>
  BY DEF Choose, Begin, At
<1> HIDE DEF v
<1>3. TypeOK'
  BY <1>1, <1>2 DEF ProfileInv, TypeOK
<1>4. lock # p
  BY <1>2 DEF ProfileInv, LockIsHeld, Holds
<1>5. ~Between(p)
  BY <1>2 DEF Between, At
<1>6. OthersAgree' /\ ActiveIsKnown'
  BY <1>1, <1>2, <1>5, UntouchedAgree
<1> QED
  BY <1>1, <1>2, <1>3, <1>4, <1>6, StepOfOne

\* The holder starts from the registry as it is.
LEMMA LockKeeps ==
    ASSUME ProfileInv, NEW p \in Processes, Lock(p)
    PROVE  ProfileInv'
<1> DEFINE v == [task[p] EXCEPT !.step = "credential", !.read = registry]
<1>1. task[p] \in Tasks /\ task \in [Processes -> Tasks] /\ registry \in Registries
  BY DEF ProfileInv, TypeOK
<1>2. /\ task' = [task EXCEPT ![p] = v] /\ task[p].step = "lock"
      /\ lock = None /\ lock' = p
      /\ UNCHANGED <<registry, store, owner, torn>>
  BY <1>1 DEF Lock, At
<1>3. /\ v \in Tasks
      /\ v.step = "credential" /\ v.read = registry
      /\ v.kind = task[p].kind /\ v.server = task[p].server
      /\ v.principal = task[p].principal /\ v.credential = task[p].credential
  BY <1>1 DEF Tasks
<1> HIDE DEF v
<1>4. TypeOK'
  BY <1>2, <1>3 DEF ProfileInv, TypeOK
<1>5. ~Between(p) /\ ~At(p, "idle")
  BY <1>2 DEF Between, At
<1>6. OthersAgree' /\ ActiveIsKnown'
  BY <1>2, <1>3, <1>5, UntouchedAgree
<1>7. \A q \in Processes \ {p} : lock' # q /\ lock # q
  BY <1>2, ProfileAssumption
<1>8. /\ v.server \in Servers /\ v.kind \in {"login", "use", "remove"}
      /\ v.kind = "login" => /\ v.principal \in Principals /\ v.credential \in Credentials
                             /\ owner[v.credential] = [server |-> v.server, principal |-> v.principal]
  BY <1>3, <1>5 DEF ProfileInv, TasksAreNamed, LoginsAreIssued, Kind, Server
<1> QED
  BY <1>2, <1>3, <1>4, <1>6, <1>7, <1>8, StepOfOne

\* Nothing is written for a profile that is not there.
LEMMA ReadCredentialKeeps ==
    ASSUME ProfileInv, NEW p \in Processes, ReadCredential(p)
    PROVE  ProfileInv'
<1>1. /\ task[p] \in Tasks /\ task \in [Processes -> Tasks]
      /\ task[p].step = "credential" /\ task[p].kind = "use" /\ task[p].read = registry
      /\ lock = p /\ ~Between(p) /\ ~At(p, "idle")
      /\ task[p].server \in Servers
      /\ UNCHANGED <<registry, store, owner, torn>>
  BY DEF ReadCredential, At, Kind, ProfileInv, TypeOK, LockIsHeld, Holds, Between, TasksAreNamed,
         Server, ReadIsCurrent
<1>2. CASE task[p].read.principal[Server(p)] # None /\ store[Server(p)] # None
  <2> DEFINE v == [task[p] EXCEPT !.step = "registry"]
  <2>1. /\ task' = [task EXCEPT ![p] = v] /\ lock' = lock
    BY <1>1, <1>2 DEF ReadCredential
  <2>2. /\ v \in Tasks
        /\ v.step = "registry" /\ v.read = registry /\ v.kind = "use"
        /\ v.server = task[p].server
    BY <1>1 DEF Tasks
  <2> HIDE DEF v
  <2>3. TypeOK'
    BY <1>1, <2>1, <2>2 DEF ProfileInv, TypeOK
  <2>4. OthersAgree' /\ ActiveIsKnown'
    BY <1>1, <2>1, <2>2, UntouchedAgree
  <2>5. v.read.principal[v.server] # None
    BY <1>1, <1>2, <2>2 DEF Server
  <2> QED
    BY <1>1, <2>1, <2>2, <2>3, <2>4, <2>5, StepOfOne
<1>3. CASE ~(task[p].read.principal[Server(p)] # None /\ store[Server(p)] # None)
  <2>1. task' = [task EXCEPT ![p] = NoTask] /\ lock' = None
    BY <1>3 DEF ReadCredential, Finish
  <2>2. NoTask \in Tasks /\ NoTask.step = "idle"
    BY DEF NoTask, Tasks
  <2>3. TypeOK'
    BY <1>1, <2>1, <2>2 DEF ProfileInv, TypeOK
  <2>4. OthersAgree' /\ ActiveIsKnown'
    BY <1>1, <2>1, <2>2, UntouchedAgree
  <2>5. lock' # p /\ \A q \in Processes \ {p} : lock' # q /\ lock # q
    BY <1>1, <2>1, ProfileAssumption
  <2> QED
    BY <1>1, <2>1, <2>2, <2>3, <2>4, <2>5, StepOfOne
<1> QED BY <1>2, <1>3

\* A process that dies between its two writes leaves its server torn.
LEMMA DieKeeps ==
    ASSUME ProfileInv, NEW p \in Processes, Die(p)
    PROVE  ProfileInv'
<1>1. /\ task[p].step # "idle"
      /\ task' = [task EXCEPT ![p] = NoTask]
      /\ lock' = IF lock = p THEN None ELSE lock
      /\ torn' = IF lock = p /\ (At(p, "undo") \/ (At(p, "registry") /\ ~Kind(p, "use")))
                 THEN torn \cup {Server(p)} ELSE torn
      /\ UNCHANGED <<registry, store, owner>>
  BY DEF Die, Split, At
<1>2. NoTask \in Tasks /\ NoTask.step = "idle"
  BY DEF NoTask, Tasks
<1>3. Server(p) \in Servers
  BY <1>1 DEF ProfileInv, TasksAreNamed, At
<1>4. TypeOK'
  BY <1>1, <1>2, <1>3 DEF ProfileInv, TypeOK
<1>5. Between(p) => lock = p /\ Server(p) \in torn'
  BY <1>1 DEF ProfileInv, LockIsHeld, Holds, Between, At
<1>6. OthersAgree' /\ ActiveIsKnown'
  BY <1>1, <1>2, <1>5, UntouchedAgree
<1>7. lock' # p /\ \A q \in Processes \ {p} : lock' = q <=> lock = q
  BY <1>1, ProfileAssumption
<1>8. UNCHANGED <<registry, store, torn>> \/ lock = p
  BY <1>1
<1> QED
  BY <1>1, <1>2, <1>4, <1>6, <1>7, <1>8, StepOfOne

\* Where the holder is not at work the two stores agree.
LEMMA ElsewhereAgree ==
    ASSUME ProfileInv, NEW p \in Processes, lock = p,
           NEW t \in Servers, t \notin torn, t # Server(p) \/ ~Between(p)
    PROVE  Matches(t)
<1>1. ASSUME NEW q \in Processes, Between(q), Server(q) = t
      PROVE  FALSE
  <2>1. Holds(q)
    BY <1>1 DEF Between, At, Holds
  <2>2. q = p
    BY <2>1 DEF ProfileInv, LockIsHeld
  <2> QED BY <1>1, <2>2
<1> QED BY <1>1 DEF ProfileInv, OthersAgree

\* The holder moves one server, and settles it, gives it up or goes on with it.
LEMMA OneServerMoves ==
    ASSUME ProfileInv, NEW p \in Processes, lock = p, NEW s \in Servers, Server(p) = s,
           owner' = owner, torn \ {s} \subseteq torn',
           \A t \in Servers \ {s} :
               store'[t] = store[t] /\ registry'.principal[t] = registry.principal[t],
           s \in torn' \/ Matches(s)' \/ (Between(p) /\ Server(p) = s)'
    PROVE  OthersAgree'
<1> SUFFICES ASSUME NEW t \in Servers, t \notin torn', t # s
             PROVE  Matches(t)'
  BY DEF OthersAgree
<1>1. Matches(t)
  BY ElsewhereAgree
<1> QED BY <1>1 DEF Matches, Joined

\* What a holder is known to have at hand before it changes the credential.
LEMMA HolderAtCredential ==
    ASSUME ProfileInv, NEW p \in Processes, At(p, "credential")
    PROVE  /\ task[p] \in Tasks /\ task \in [Processes -> Tasks]
           /\ store \in [Servers -> Credentials \cup {None}]
           /\ registry \in Registries /\ task[p].read = registry
           /\ lock = p /\ ~Between(p) /\ task[p].step = "credential"
           /\ Server(p) \in Servers
           /\ task[p].kind \in {"login", "use", "remove"}
           /\ task[p].kind = "login" =>
                 /\ task[p].principal \in Principals /\ task[p].credential \in Credentials
                 /\ owner[task[p].credential] =
                       [server |-> Server(p), principal |-> task[p].principal]
           /\ Server(p) \notin torn =>
                 Story(Server(p), registry.principal[Server(p)], store[Server(p)])
<1>1. lock = p /\ ~Between(p) /\ Server(p) \in Servers /\ task[p].step = "credential"
  BY DEF At, ProfileInv, LockIsHeld, Holds, Between, TasksAreNamed
<1>2. Server(p) \notin torn => Matches(Server(p))
  BY <1>1, ElsewhereAgree
<1>3. Server(p) \notin torn =>
         Story(Server(p), registry.principal[Server(p)], store[Server(p)])
  BY <1>2, MatchingIsAStory
<1> QED
  BY <1>1, <1>3 DEF At, Kind, ProfileInv, TypeOK, TasksAreNamed, LoginsAreIssued, ReadIsCurrent

\* A command that gives up: what it leaves is as it was, or torn.
LEMMA GivingUpKeeps ==
    ASSUME ProfileInv, NEW p \in Processes, lock = p,
           NEW s \in Servers, Server(p) = s,
           UNCHANGED <<registry, owner>>, Finish(p),
           NEW left \in Credentials \cup {None},
           store' = [store EXCEPT ![s] = left],
           torn' = torn \cup {s} \/ (torn' = torn /\ (s \in torn \/ Matches(s)'))
    PROVE  ProfileInv'
<1>1. task' = [task EXCEPT ![p] = NoTask] /\ lock' = None
  BY DEF Finish
<1>2. NoTask \in Tasks /\ NoTask.step = "idle"
  BY DEF NoTask, Tasks
<1>3. TypeOK'
  BY <1>1, <1>2 DEF ProfileInv, TypeOK
<1>4. OthersAgree'
  <2>1. \A t \in Servers \ {s} :
           store'[t] = store[t] /\ registry'.principal[t] = registry.principal[t]
    BY DEF ProfileInv, TypeOK
  <2>2. torn \ {s} \subseteq torn' /\ (s \in torn' \/ Matches(s)')
    OBVIOUS
  <2> QED BY <2>1, <2>2, OneServerMoves
<1>5. ActiveIsKnown'
  BY DEF ProfileInv, ActiveIsKnown
<1>6. lock' # p /\ \A q \in Processes \ {p} : lock' # q /\ lock # q
  BY <1>1, ProfileAssumption
<1> QED
  BY <1>1, <1>2, <1>3, <1>4, <1>5, <1>6, StepOfOne

\* A holder that changed the credential remembers the one before.
LEMMA ChangedCredentialKeeps ==
    ASSUME ProfileInv, NEW p \in Processes, At(p, "credential"), ~Kind(p, "use"),
           NEW c \in Credentials \cup {None},
           Kind(p, "login") => c = task[p].credential,
           Kind(p, "remove") => c = None /\ task[p].read.principal[Server(p)] # None,
           store' = [store EXCEPT ![Server(p)] = c],
           task' = [task EXCEPT ![p].step = "registry", ![p].previous = store[Server(p)]],
           UNCHANGED <<registry, owner, lock, torn>>
    PROVE  ProfileInv'
<1> DEFINE v == [task[p] EXCEPT !.step = "registry", !.previous = store[Server(p)]]
<1>1. /\ task[p] \in Tasks /\ task \in [Processes -> Tasks]
      /\ store \in [Servers -> Credentials \cup {None}]
      /\ registry \in Registries /\ task[p].read = registry
      /\ lock = p /\ Server(p) \in Servers /\ Server(p) = task[p].server
      /\ task[p].kind \in {"login", "use", "remove"}
      /\ task[p].kind = "login" =>
            /\ task[p].principal \in Principals /\ task[p].credential \in Credentials
            /\ owner[task[p].credential] =
                  [server |-> Server(p), principal |-> task[p].principal]
      /\ Server(p) \notin torn =>
            Story(Server(p), registry.principal[Server(p)], store[Server(p)])
  BY HolderAtCredential DEF Server
<1>2. task' = [task EXCEPT ![p] = v]
  BY <1>1
<1>3. /\ v \in Tasks
      /\ v.step = "registry" /\ v.read = registry /\ v.kind = task[p].kind
      /\ v.server = Server(p) /\ v.principal = task[p].principal
      /\ v.credential = task[p].credential /\ v.previous = store[Server(p)]
  BY <1>1 DEF Tasks
<1> HIDE DEF v
<1>4. TypeOK'
  BY <1>1, <1>2, <1>3 DEF ProfileInv, TypeOK
<1>5. (Between(p) /\ Server(p) = Server(p))' /\ Server(p)' = Server(p)
  BY <1>1, <1>2, <1>3 DEF Between, At, Kind, Server
<1>6. OthersAgree'
  BY <1>1, <1>5, OneServerMoves
<1>7. ActiveIsKnown'
  BY DEF ProfileInv, ActiveIsKnown
<1>8. store'[v.server] = c
  BY <1>1, <1>3
<1>9. v.kind # "use"
  BY <1>3 DEF Kind
<1>10. v.server \notin torn' => Story(v.server, v.read.principal[v.server], v.previous)
  BY <1>1, <1>3
<1>11. /\ v.kind = "login" => c = v.credential
       /\ v.kind = "remove" => c = None
       /\ v.kind # "login" => v.read.principal[v.server] # None
  BY <1>1, <1>3, <1>9 DEF Kind
<1>12. /\ v.read \in Registries /\ v.read = registry' /\ v.server \in Servers
       /\ v.kind \in {"login", "use", "remove"}
       /\ v.kind = "login" =>
             /\ v.principal \in Principals /\ v.credential \in Credentials
             /\ owner[v.credential] = [server |-> v.server, principal |-> v.principal]
  BY <1>1, <1>3
<1>13. lock = p /\ lock' = p /\ \A q \in Processes \ {p} : lock' = q <=> lock = q
  BY <1>1
<1>14. /\ v.kind = "login" => store'[v.server] = v.credential
       /\ v.kind = "remove" => store'[v.server] = None
       /\ v.kind # "login" => v.read.principal[v.server] # None
       /\ v.step = "registry"
  BY <1>3, <1>8, <1>11
<1>15. v \in Tasks
  BY <1>3
<1> QED
  BY <1>15, <1>2, <1>4, <1>6, <1>7, <1>14, <1>10, <1>12, <1>13, StepOfOne

\* A stored credential, or a failure to store it.
LEMMA PutCredentialKeeps ==
    ASSUME ProfileInv, NEW p \in Processes, PutCredential(p)
    PROVE  ProfileInv'
<1>1. At(p, "credential") /\ Kind(p, "login") /\ UNCHANGED <<registry, owner>>
  BY DEF PutCredential
<1>2. /\ store \in [Servers -> Credentials \cup {None}]
      /\ lock = p /\ Server(p) \in Servers
      /\ task[p].credential \in Credentials
      /\ Server(p) \notin torn => Matches(Server(p))
  BY <1>1, HolderAtCredential, MatchingIsAStory DEF Kind
<1>3. CASE /\ store' = [store EXCEPT ![Server(p)] = task[p].credential]
           /\ task' = [task EXCEPT ![p].step = "registry", ![p].previous = store[Server(p)]]
           /\ UNCHANGED <<lock, torn>>
  BY <1>1, <1>2, <1>3, ChangedCredentialKeeps DEF Kind
<1>4. CASE \E left \in {store[Server(p)], task[p].credential} :
              /\ store' = [store EXCEPT ![Server(p)] = left]
              /\ Split(Server(p), left # store[Server(p)])
              /\ Finish(p)
  <2>1. PICK s \in Servers : Server(p) = s
    BY <1>2
  <2>2. PICK left \in {store[s], task[p].credential} :
           store' = [store EXCEPT ![s] = left] /\ Split(s, left # store[s]) /\ Finish(p)
    BY <1>4, <2>1
  <2>3. left \in Credentials \cup {None}
    BY <1>2
  <2>4. torn' = torn \cup {s} \/ (torn' = torn /\ (s \in torn \/ Matches(s)'))
    BY <1>1, <1>2, <2>1, <2>2 DEF Split, Matches, Joined
  <2> QED BY <1>1, <1>2, <2>1, <2>2, <2>3, <2>4, GivingUpKeeps
<1> QED BY <1>3, <1>4 DEF PutCredential

\* A deleted credential, or a failure to delete it.
LEMMA DeleteCredentialKeeps ==
    ASSUME ProfileInv, NEW p \in Processes, DeleteCredential(p)
    PROVE  ProfileInv'
<1>1. At(p, "credential") /\ Kind(p, "remove") /\ UNCHANGED <<registry, owner>>
  BY DEF DeleteCredential
<1>2. /\ store \in [Servers -> Credentials \cup {None}]
      /\ lock = p /\ Server(p) \in Servers
      /\ Server(p) \notin torn => Matches(Server(p))
  BY <1>1, HolderAtCredential, MatchingIsAStory
<1>3. CASE /\ task[p].read.principal[Server(p)] # None
           /\ store' = [store EXCEPT ![Server(p)] = None]
           /\ task' = [task EXCEPT ![p].step = "registry", ![p].previous = store[Server(p)]]
           /\ UNCHANGED <<lock, torn>>
  BY <1>1, <1>2, <1>3, ChangedCredentialKeeps DEF Kind
<1>4. CASE \E left \in {store[Server(p)], None} :
              /\ store' = [store EXCEPT ![Server(p)] = left]
              /\ Split(Server(p), left # store[Server(p)])
              /\ Finish(p)
  <2>1. PICK s \in Servers : Server(p) = s
    BY <1>2
  <2>2. PICK left \in {store[s], None} :
           store' = [store EXCEPT ![s] = left] /\ Split(s, left # store[s]) /\ Finish(p)
    BY <1>4, <2>1
  <2>3. left \in Credentials \cup {None}
    BY <1>2
  <2>4. torn' = torn \cup {s} \/ (torn' = torn /\ (s \in torn \/ Matches(s)'))
    BY <1>1, <1>2, <2>1, <2>2 DEF Split, Matches, Joined
  <2> QED BY <1>1, <1>2, <2>1, <2>2, <2>3, <2>4, GivingUpKeeps
<1> QED BY <1>3, <1>4 DEF DeleteCredential

\* What a holder is known to have at hand before it writes the registry.
LEMMA HolderAtRegistry ==
    ASSUME ProfileInv, NEW p \in Processes, At(p, "registry")
    PROVE  /\ task[p] \in Tasks /\ task \in [Processes -> Tasks]
           /\ store \in [Servers -> Credentials \cup {None}]
           /\ registry \in Registries /\ task[p].read = registry
           /\ lock = p /\ Server(p) \in Servers
           /\ Kind(p, "login") \/ Kind(p, "use") \/ Kind(p, "remove")
           /\ Kind(p, "login") =>
                 /\ task[p].principal \in Principals /\ task[p].credential \in Credentials
                 /\ store[Server(p)] = task[p].credential
                 /\ owner[task[p].credential] =
                       [server |-> Server(p), principal |-> task[p].principal]
           /\ Kind(p, "remove") => store[Server(p)] = None
           /\ ~Kind(p, "login") => registry.principal[Server(p)] # None
           /\ Kind(p, "use") /\ Server(p) \notin torn => Matches(Server(p))
<1>1. lock = p /\ Server(p) \in Servers /\ task[p].read = registry /\ ~At(p, "idle")
      /\ (Kind(p, "login") \/ Kind(p, "use") \/ Kind(p, "remove"))
  BY DEF At, Kind, ProfileInv, LockIsHeld, Holds, TasksAreNamed, ReadIsCurrent
<1>2. Kind(p, "use") /\ Server(p) \notin torn => Matches(Server(p))
  BY <1>1, ElsewhereAgree DEF Between
<1> QED
  BY <1>1, <1>2 DEF ProfileInv, TypeOK, LoginsAreIssued, NextAgrees

\* The active server of what is written has a profile.
LEMMA WrittenIsActive ==
    ASSUME ProfileInv, NEW p \in Processes, At(p, "registry"), NEW r \in Written(p)
    PROVE  r.active # None => r.principal[r.active] # None
<1>1. /\ registry \in Registries /\ task[p].read = registry /\ Server(p) \in Servers
      /\ Kind(p, "login") \/ Kind(p, "use") \/ Kind(p, "remove")
      /\ Kind(p, "login") => task[p].principal # None
      /\ ~Kind(p, "login") => registry.principal[Server(p)] # None
      /\ registry.active # None => registry.principal[registry.active] # None
  BY HolderAtRegistry, ProfileAssumption DEF ProfileInv, ActiveIsKnown
<1>2. /\ registry.principal \in [Servers -> Principals \cup {None}]
      /\ registry.active \in Servers \cup {None}
  BY <1>1 DEF Registries
<1>3. CASE Kind(p, "login")
  <2>1. r = [principal |-> [registry.principal EXCEPT ![Server(p)] = task[p].principal],
             active |-> Server(p)]
    BY <1>1, <1>3 DEF Written, Kind
  <2> QED BY <1>1, <1>2, <1>3, <2>1
<1>4. CASE Kind(p, "use")
  <2>1. r = [registry EXCEPT !.active = Server(p)]
    BY <1>1, <1>4 DEF Written, Kind
  <2>2. r.active = Server(p) /\ r.principal = registry.principal
    BY <1>1, <2>1 DEF Registries
  <2> QED BY <1>1, <1>4, <2>2 DEF Kind
<1>5. CASE Kind(p, "remove")
  <2>1. r \in {[principal |-> [registry.principal EXCEPT ![Server(p)] = None], active |-> a] :
                  a \in IF registry.active # Server(p) THEN {registry.active}
                        ELSE IF Remaining(registry, Server(p)) = {} THEN {None}
                        ELSE Remaining(registry, Server(p))}
    BY <1>1, <1>5 DEF Written, Kind
  <2>2. PICK a \in IF registry.active # Server(p) THEN {registry.active}
                    ELSE IF Remaining(registry, Server(p)) = {} THEN {None}
                    ELSE Remaining(registry, Server(p)) :
           r = [principal |-> [registry.principal EXCEPT ![Server(p)] = None], active |-> a]
    BY <2>1
  <2>3. a = None \/ (a \in Servers \ {Server(p)} /\ registry.principal[a] # None)
    BY <1>1, <1>2, <2>2 DEF Remaining
  <2> QED BY <1>2, <2>2, <2>3
<1> QED BY <1>1, <1>3, <1>4, <1>5

\* The two stores agree on a server again when its registry is written.
LEMMA WriteRegistryKeeps ==
    ASSUME ProfileInv, NEW p \in Processes, WriteRegistry(p)
    PROVE  ProfileInv'
<1>1. /\ At(p, "registry") /\ registry' \in Written(p) /\ UNCHANGED <<store, owner>>
      /\ torn' = IF Kind(p, "use") THEN torn ELSE torn \ {Server(p)}
      /\ task' = [task EXCEPT ![p] = NoTask] /\ lock' = None
  BY DEF WriteRegistry, Finish
<1>2. PICK s \in Servers : Server(p) = s
  BY <1>1, HolderAtRegistry
<1>3. /\ registry' \in Registries
      /\ \A t \in Servers \ {s} : registry'.principal[t] = registry.principal[t]
      /\ Kind(p, "use") => registry'.principal = registry.principal
      /\ Kind(p, "login") => registry'.principal[s] = task[p].principal
      /\ Kind(p, "remove") => registry'.principal[s] = None
  BY <1>1, <1>2, WrittenIsARegistry DEF ProfileInv
<1>4. NoTask \in Tasks /\ NoTask.step = "idle"
  BY DEF NoTask, Tasks
<1>5. TypeOK'
  BY <1>1, <1>3, <1>4 DEF ProfileInv, TypeOK
<1>6. lock = p /\ lock' # p /\ \A q \in Processes \ {p} : lock' # q /\ lock # q
  BY <1>1, HolderAtRegistry, ProfileAssumption
<1>7. s \in torn' \/ Matches(s)'
  <2>1. CASE Kind(p, "login")
    <3>1. /\ task[p].principal \in Principals /\ task[p].credential \in Credentials
          /\ store[s] = task[p].credential
          /\ owner[task[p].credential] = [server |-> s, principal |-> task[p].principal]
      BY <1>1, <1>2, <2>1, HolderAtRegistry
    <3>2. /\ registry'.principal[s] # None /\ store'[s] # None
          /\ owner'[store'[s]] = [server |-> s, principal |-> registry'.principal[s]]
      BY <1>1, <1>3, <2>1, <3>1, ProfileAssumption
    <3> QED BY <3>2 DEF Matches, Joined
  <2>2. CASE Kind(p, "use")
    BY <1>1, <1>2, <1>3, <2>2, HolderAtRegistry DEF Matches, Joined
  <2>3. CASE Kind(p, "remove")
    BY <1>1, <1>2, <1>3, <2>3, HolderAtRegistry DEF Matches, Joined
  <2> QED BY <1>1, <2>1, <2>2, <2>3, HolderAtRegistry
<1>8. torn \ {s} \subseteq torn'
  BY <1>1, <1>2
<1>9. OthersAgree'
  BY <1>1, <1>2, <1>3, <1>6, <1>7, <1>8, OneServerMoves
<1>10. ActiveIsKnown'
  BY <1>1, WrittenIsActive DEF ActiveIsKnown
<1> QED
  BY <1>1, <1>4, <1>5, <1>6, <1>9, <1>10, StepOfOne

\* A write that failed may have been done; the holder takes its change back next.
LEMMA WriteFailsKeeps ==
    ASSUME ProfileInv, NEW p \in Processes, WriteFails(p)
    PROVE  ProfileInv'
<1>1. /\ At(p, "registry") /\ registry' \in Written(p) \cup {registry}
      /\ UNCHANGED <<store, owner, torn>>
  BY DEF WriteFails
<1>2. /\ task[p] \in Tasks /\ task \in [Processes -> Tasks] /\ lock = p
      /\ registry \in Registries /\ task[p].read = registry
  BY <1>1, HolderAtRegistry
<1>3. PICK s \in Servers : Server(p) = s
  BY <1>1, HolderAtRegistry
<1>4. /\ registry' \in Registries
      /\ \A t \in Servers \ {s} : registry'.principal[t] = registry.principal[t]
      /\ Kind(p, "use") => registry'.principal = registry.principal
  BY <1>1, <1>2, <1>3, WrittenIsARegistry DEF ProfileInv
<1>5. ActiveIsKnown'
  BY <1>1, WrittenIsActive DEF ActiveIsKnown, ProfileInv
<1>6. \A t \in Servers \ {s} :
         store'[t] = store[t] /\ registry'.principal[t] = registry.principal[t]
  BY <1>1, <1>4
<1>7. CASE Kind(p, "use")
  <2>1. task' = [task EXCEPT ![p] = NoTask] /\ lock' = None
    BY <1>7 DEF WriteFails, Finish
  <2>2. NoTask \in Tasks /\ NoTask.step = "idle"
    BY DEF NoTask, Tasks
  <2>3. TypeOK'
    BY <1>1, <1>4, <2>1, <2>2 DEF ProfileInv, TypeOK
  <2>4. s \in torn' \/ Matches(s)'
    BY <1>1, <1>3, <1>4, <1>7, HolderAtRegistry DEF Matches, Joined
  <2>5. OthersAgree'
    BY <1>1, <1>2, <1>3, <1>6, <2>4, OneServerMoves
  <2>6. lock' # p /\ \A q \in Processes \ {p} : lock' # q /\ lock # q
    BY <1>2, <2>1, ProfileAssumption
  <2> QED
    BY <1>1, <1>2, <1>5, <2>1, <2>2, <2>3, <2>5, <2>6, StepOfOne
<1>8. CASE ~Kind(p, "use")
  <2> DEFINE v == [task[p] EXCEPT !.step = "undo"]
  <2>1. task' = [task EXCEPT ![p] = v] /\ lock' = lock
    BY <1>2, <1>8 DEF WriteFails
  <2>2. /\ v \in Tasks /\ v.step = "undo" /\ v.kind = task[p].kind
        /\ v.server = s /\ v.read = task[p].read /\ v.previous = task[p].previous
        /\ v.principal = task[p].principal /\ v.credential = task[p].credential
    BY <1>2, <1>3 DEF Tasks, Server
  <2> HIDE DEF v
  <2>3. TypeOK'
    BY <1>1, <1>2, <1>4, <2>1, <2>2 DEF ProfileInv, TypeOK
  <2>4. (Between(p) /\ Server(p) = s)'
    BY <1>2, <1>8, <2>1, <2>2 DEF Between, At, Kind, Server
  <2>5. OthersAgree'
    BY <1>1, <1>2, <1>3, <1>6, <2>4, OneServerMoves
  <2>6. lock' = p /\ \A q \in Processes \ {p} : lock' = q <=> lock = q
    BY <1>2, <2>1
  <2>7. v.kind # "use"
    BY <1>8, <2>2 DEF Kind
  <2>8. /\ v.read \in Registries
        /\ v.server \notin torn' => Story(v.server, v.read.principal[v.server], v.previous)
    BY <1>1, <1>3, <1>8, <2>2 DEF ProfileInv, PreviousAgrees, Between
  <2>9. v.kind \in {"login", "use", "remove"}
        /\ (v.kind = "login" =>
               /\ v.principal \in Principals /\ v.credential \in Credentials
               /\ owner[v.credential] = [server |-> v.server, principal |-> v.principal])
    BY <1>1, <1>3, <2>2, HolderAtRegistry DEF Kind
  <2> QED
    BY <1>1, <1>2, <1>5, <2>1, <2>2, <2>3, <2>5, <2>6, <2>7, <2>8, <2>9, StepOfOne
<1> QED BY <1>7, <1>8

\* The old credential goes with the old registry; if the new one stayed, or the
\* credential could not be put back, the server is torn.
LEMMA UndoKeeps ==
    ASSUME ProfileInv, NEW p \in Processes, Undo(p)
    PROVE  ProfileInv'
<1>1. At(p, "undo") /\ Finish(p) /\ UNCHANGED <<registry, owner>>
  BY DEF Undo
<1>2. /\ Between(p) /\ lock = p /\ ~At(p, "idle")
      /\ task[p] \in Tasks /\ store \in [Servers -> Credentials \cup {None}]
  BY <1>1 DEF At, Between, ProfileInv, LockIsHeld, Holds, NextAgrees, TypeOK
<1>3. PICK s \in Servers : Server(p) = s
  BY <1>2 DEF ProfileInv, TasksAreNamed
<1>4. task[p].previous \in Credentials \cup {None}
  BY <1>2 DEF Tasks
<1>5. s \notin torn => Story(s, task[p].read.principal[s], task[p].previous)
  BY <1>2, <1>3 DEF ProfileInv, PreviousAgrees
<1>6. CASE store' = [store EXCEPT ![s] = task[p].previous] /\ Split(s, registry # task[p].read)
  <2>1. torn' = torn \cup {s} \/ (torn' = torn /\ (s \in torn \/ Matches(s)'))
    BY <1>1, <1>2, <1>5, <1>6 DEF Split, Matches, Joined, Story
  <2> QED BY <1>1, <1>2, <1>3, <1>4, <1>6, <2>1, GivingUpKeeps
<1>7. CASE Split(s, TRUE) /\ UNCHANGED store
  <2>1. store' = [store EXCEPT ![s] = store[s]] /\ store[s] \in Credentials \cup {None}
    BY <1>2, <1>7
  <2>2. torn' = torn \cup {s}
    BY <1>7 DEF Split
  <2> QED BY <1>1, <1>2, <1>3, <2>1, <2>2, GivingUpKeeps
<1> QED BY <1>3, <1>6, <1>7 DEF Undo

----------------------------------------------------------------------------
(* The theorems. *)

\* The invariant holds at the start.
LEMMA ProfilesStart ==
    ASSUME Init PROVE ProfileInv
<1>1. \A p \in Processes : task[p] = NoTask /\ NoTask.step = "idle"
  BY DEF Init, NoTask
<1>2. TypeOK
  BY DEF Init, TypeOK, NoTask, Tasks, Registries
<1>3. LockIsHeld
  BY <1>1, ProfileAssumption DEF Init, LockIsHeld, Holds
<1>4. TasksAreNamed /\ LoginsAreIssued /\ ReadIsCurrent /\ PreviousAgrees /\ NextAgrees
  BY <1>1 DEF TasksAreNamed, LoginsAreIssued, ReadIsCurrent, PreviousAgrees, NextAgrees,
              Between, At
<1>5. OthersAgree /\ ActiveIsKnown
  BY DEF Init, OthersAgree, ActiveIsKnown, Matches, Joined
<1> QED BY <1>2, <1>3, <1>4, <1>5 DEF ProfileInv

\* Every step keeps it.
LEMMA ProfilesStep ==
    ASSUME ProfileInv, [ProfileNext]_vars PROVE ProfileInv'
<1>1. CASE \E p \in Processes, s \in Servers, u \in Principals, c \in Credentials : Login(p, s, u, c)
  BY <1>1, LoginKeeps
<1>2. CASE \E p \in Processes, s \in Servers, kind \in {"use", "remove"} : Choose(p, s, kind)
  BY <1>2, ChooseKeeps
<1>3. CASE \E p \in Processes :
              Lock(p) \/ PutCredential(p) \/ ReadCredential(p) \/ DeleteCredential(p)
              \/ WriteRegistry(p) \/ WriteFails(p) \/ Undo(p) \/ Die(p)
  BY <1>3, LockKeeps, PutCredentialKeeps, ReadCredentialKeeps, DeleteCredentialKeeps,
     WriteRegistryKeeps, WriteFailsKeeps, UndoKeeps, DieKeeps
<1>4. CASE UNCHANGED vars
  BY <1>4 DEF vars, ProfileInv, TypeOK, LockIsHeld, Holds, TasksAreNamed, LoginsAreIssued,
              ReadIsCurrent, PreviousAgrees, NextAgrees, OthersAgree, ActiveIsKnown, Between,
              At, Kind, Server, Story, Matches, Joined
<1> QED BY <1>1, <1>2, <1>3, <1>4 DEF ProfileNext

\* The invariant of the registry of logins.
THEOREM ProfilesAgree == ProfileSpec => []ProfileInv
<1>1. Init => ProfileInv
  BY ProfilesStart
<1>2. ProfileInv /\ [ProfileNext]_vars => ProfileInv'
  BY ProfilesStep
<1> QED BY <1>1, <1>2, PTL DEF ProfileSpec

\* Whenever the lock is free, a server that no crash or double failure tore has a
\* profile exactly when it has a credential, and the credential was issued to the
\* principal the profile names; and the active server always has a profile.
THEOREM RegistryAndStoreAgree == ProfileSpec => []WhoIsLoggedIn
<1>1. ProfileInv => WhoIsLoggedIn
  <2> SUFFICES ASSUME ProfileInv PROVE WhoIsLoggedIn
    OBVIOUS
  <2>1. ASSUME lock = None, NEW s \in Servers \ torn
        PROVE  Matches(s)
    <3>1. \A p \in Processes : ~Between(p)
      BY <2>1, ProfileAssumption DEF ProfileInv, LockIsHeld, Holds, Between, At
    <3> QED BY <2>1, <3>1 DEF ProfileInv, OthersAgree
  <2> QED BY <2>1 DEF WhoIsLoggedIn, ProfileInv, ActiveIsKnown
<1> QED BY <1>1, ProfilesAgree, PTL

----------------------------------------------------------------------------
(* The local server: what its files and its volume say together. *)

\* What a command can be doing at each of its steps.
StepsHaveTheirCommand ==
    \A p \in Commanders :
        /\ command[p].kind = "none" <=> Host!At(p, "none")
        /\ command[p].step \in {"compose", "environment"}
           => command[p].kind \in {"install", "force"} /\ command[p].password \in Passwords
        /\ Host!At(p, "record") => command[p].kind \in {"install", "force", "upgrade"}
        /\ Host!At(p, "up") => command[p].kind \in {"install", "force", "upgrade", "start"}
        /\ Host!At(p, "image") => command[p].kind = "upgrade"
        /\ Host!At(p, "remove") => command[p].kind = "erase"
        /\ command[p].step \in {"install", "force", "start", "stop", "upgrade", "down", "erase"}
           => command[p].kind = command[p].step
        /\ command[p].kind \in {"install", "force", "upgrade"} => command[p].image \in Images

\* No two commands that write the files, and none beside the removal of the data.
CommandsKeepApart ==
    \A p \in Commanders : \A q \in Commanders \ {p} :
        ~Host!Collide(command[p].kind, command[q].kind)

\* What each step still needs: nobody else can have changed it since the command
\* saw it.
StepsAreSound ==
    \A p \in Commanders :
        /\ command[p].step \in {"compose", "environment"}
           => (record # Nothing => environment # Nothing /\ environment.password = command[p].password)
        /\ command[p].step \in {"environment", "image", "record"} => compose
        /\ command[p].step \in {"image", "record"} => environment # Nothing
        /\ Host!At(p, "image") => record # Nothing
        /\ Host!At(p, "record") => environment.image = command[p].image
        /\ Host!At(p, "up") => record # Nothing
        /\ Host!At(p, "remove") => volume = Nothing /\ "removal" \in halfDone

TheFilesAgree ==
    /\ volume # Nothing /\ environment # Nothing => environment.password = volume
    /\ volume # Nothing => record # Nothing
    /\ record # Nothing /\ "removal" \notin halfDone => compose /\ environment # Nothing
    /\ record # Nothing /\ environment # Nothing /\ halfDone = {} => environment.image = record

HostInv ==
    /\ Host!TypeOK
    /\ StepsHaveTheirCommand
    /\ overlapped \/ (CommandsKeepApart /\ StepsAreSound /\ TheFilesAgree)

\* The secrets an installation keeps or draws are passwords.
LEMMA SecretsArePasswords ==
    ASSUME Host!TypeOK
    PROVE  Host!Secrets \subseteq Passwords
<1>1. Host!NewPasswords \subseteq Passwords
  <2>1. CASE Passwords = drawn
    BY <2>1 DEF Host!NewPasswords
  <2>2. CASE Passwords # drawn
    <3>1. \E password : password \in Passwords \ drawn
      BY <2>2 DEF Host!TypeOK
    <3> QED BY <2>2, <3>1 DEF Host!NewPasswords
  <2> QED BY <2>1, <2>2
<1> QED BY <1>1 DEF Host!Secrets, Host!TypeOK

\* A command that begins beside one it must keep apart from is noted as overlapped.
LEMMA BeginKeepsTheFiles ==
    ASSUME HostInv, NEW p \in Commanders,
           NEW kind \in Host!Commands, NEW image \in Images \cup {Nothing},
           kind \in {"install", "force", "upgrade"} => image \in Images,
           Host!Begin(p, kind, image)
    PROVE  HostInv'
<1> USE DEF HostInv, Host!Begin, Host!At, Host!files, Host!docker, Host!NoCommand, Host!TypeOK,
            Host!Commands
<1>1. Host!TypeOK'
  BY MachineAssumption DEF Host!Steps
<1>2. StepsHaveTheirCommand'
  BY MachineAssumption DEF StepsHaveTheirCommand
<1>3. ASSUME ~overlapped' PROVE CommandsKeepApart'
  <2>1. ~overlapped /\ \A q \in Commanders \ {p} : ~Host!Collide(kind, command[q].kind)
    BY <1>3
  <2>2. /\ command'[p].kind = kind
        /\ \A q \in Commanders \ {p} : command'[q] = command[q]
    OBVIOUS
  <2>3. \A q \in Commanders \ {p} : ~Host!Collide(command[q].kind, kind)
    BY <2>1 DEF Host!Collide
  <2> QED BY <2>1, <2>2, <2>3 DEF CommandsKeepApart
<1>4. ASSUME ~overlapped' PROVE StepsAreSound'
  BY <1>4, MachineAssumption DEF StepsHaveTheirCommand, CommandsKeepApart, Host!Collide,
                                 Host!Writers, StepsAreSound, TheFilesAgree
<1>5. ASSUME ~overlapped' PROVE TheFilesAgree'
  BY <1>5, MachineAssumption DEF StepsHaveTheirCommand, CommandsKeepApart, Host!Collide,
                                 Host!Writers, StepsAreSound, TheFilesAgree
<1> QED BY <1>1, <1>2, <1>3, <1>4, <1>5

\* An interrupted command leaves the files as they are.
LEMMA InterruptKeepsTheFiles ==
    ASSUME HostInv, NEW p \in Commanders,
           Host!Interrupt(p)
    PROVE  HostInv'
<1> USE DEF HostInv, Host!Interrupt, Host!At, Host!Done, Host!files, Host!docker,
            Host!NoCommand, Host!TypeOK, Host!Commands
<1>1. Host!TypeOK'
  BY MachineAssumption DEF Host!Steps
<1>2. StepsHaveTheirCommand'
  BY MachineAssumption DEF StepsHaveTheirCommand
<1>3. ASSUME ~overlapped' PROVE CommandsKeepApart'
  BY <1>3, MachineAssumption DEF StepsHaveTheirCommand, CommandsKeepApart, Host!Collide,
                                 Host!Writers
<1>4. ASSUME ~overlapped' PROVE StepsAreSound'
  BY <1>4, MachineAssumption DEF StepsHaveTheirCommand, CommandsKeepApart, Host!Collide,
                                 Host!Writers, StepsAreSound, TheFilesAgree
<1>5. ASSUME ~overlapped' PROVE TheFilesAgree'
  BY <1>5, MachineAssumption DEF StepsHaveTheirCommand, CommandsKeepApart, Host!Collide,
                                 Host!Writers, StepsAreSound, TheFilesAgree
<1> QED BY <1>1, <1>2, <1>3, <1>4, <1>5

\* Secrets are drawn only when no installation is on record, and kept otherwise.
LEMMA ChooseSecretsKeepsTheFiles ==
    ASSUME HostInv, NEW p \in Commanders,
           Host!ChooseSecrets(p)
    PROVE  HostInv'
<1>0. PICK password \in Passwords :
         /\ command' = [command EXCEPT ![p].step = "compose", ![p].password = password]
         /\ drawn' = drawn \cup {password}
         /\ UNCHANGED <<compose, environment, record, volume, running, overlapped, halfDone>>
         /\ record # Nothing => environment # Nothing /\ password = environment.password
         /\ Host!At(p, "install") \/ Host!At(p, "force")
         /\ record = Nothing \/ Host!At(p, "force")
  BY SecretsArePasswords DEF HostInv, Host!ChooseSecrets, Host!Secrets, Host!files, Host!docker
<1>1. Host!TypeOK'
  <2>1. command' \in [Commanders -> [kind : Host!Commands \cup {"none"}, step : Host!Steps,
                                     image : Images \cup {Nothing}, password : Passwords \cup {Nothing}]]
    <3>1. [command[p] EXCEPT !.step = "compose", !.password = password]
             \in [kind : Host!Commands \cup {"none"}, step : Host!Steps,
                  image : Images \cup {Nothing}, password : Passwords \cup {Nothing}]
      BY DEF HostInv, Host!TypeOK, Host!Steps
    <3>2. command' = [command EXCEPT ![p] = [command[p] EXCEPT !.step = "compose", !.password = password]]
      BY <1>0 DEF HostInv, Host!TypeOK
    <3> QED BY <3>1, <3>2 DEF HostInv, Host!TypeOK
  <2>2. drawn' \subseteq Passwords
    BY <1>0 DEF HostInv, Host!TypeOK
  <2> QED BY <1>0, <2>1, <2>2 DEF HostInv, Host!TypeOK
<1>2. StepsHaveTheirCommand'
  BY <1>0 DEF HostInv, Host!TypeOK, Host!At, StepsHaveTheirCommand
<1>3. ASSUME ~overlapped' PROVE CommandsKeepApart'
  BY <1>0, <1>3 DEF HostInv, Host!TypeOK, CommandsKeepApart, Host!Collide
<1>4. ASSUME ~overlapped' PROVE StepsAreSound'
  BY <1>0, <1>4 DEF HostInv, Host!TypeOK, Host!At, StepsAreSound
<1>5. ASSUME ~overlapped' PROVE TheFilesAgree'
  BY <1>0, <1>5 DEF HostInv, TheFilesAgree
<1> QED BY <1>1, <1>2, <1>3, <1>4, <1>5 DEF HostInv

\* compose.yaml is the first of the files to be written.
LEMMA WriteComposeKeepsTheFiles ==
    ASSUME HostInv, NEW p \in Commanders,
           Host!WriteCompose(p)
    PROVE  HostInv'
<1> USE DEF HostInv, Host!WriteCompose, Host!At, Host!Goto, Host!docker, Host!TypeOK,
            Host!Commands
<1>1. Host!TypeOK'
  BY MachineAssumption DEF Host!Steps
<1>2. StepsHaveTheirCommand'
  BY MachineAssumption DEF StepsHaveTheirCommand
<1>3. ASSUME ~overlapped' PROVE CommandsKeepApart'
  BY <1>3, MachineAssumption DEF StepsHaveTheirCommand, CommandsKeepApart, Host!Collide,
                                 Host!Writers
<1>4. ASSUME ~overlapped' PROVE StepsAreSound'
  BY <1>4, MachineAssumption DEF StepsHaveTheirCommand, CommandsKeepApart, Host!Collide,
                                 Host!Writers, StepsAreSound, TheFilesAgree
<1>5. ASSUME ~overlapped' PROVE TheFilesAgree'
  BY <1>5, MachineAssumption DEF StepsHaveTheirCommand, CommandsKeepApart, Host!Collide,
                                 Host!Writers, StepsAreSound, TheFilesAgree
<1> QED BY <1>1, <1>2, <1>3, <1>4, <1>5

\* The new environment has the password of the one it replaces.
LEMMA WriteEnvironmentKeepsTheFiles ==
    ASSUME HostInv, NEW p \in Commanders,
           Host!WriteEnvironment(p)
    PROVE  HostInv'
<1> USE DEF HostInv, Host!WriteEnvironment, Host!At, Host!Goto, Host!docker, Host!TypeOK,
            StepsHaveTheirCommand, Host!Commands
<1>1. Host!TypeOK'
  <2>1. environment' \in [password : Passwords, image : Images]
    OBVIOUS
  <2> QED BY <2>1 DEF Host!Steps
<1>2. StepsHaveTheirCommand'
  BY MachineAssumption
<1>3. ASSUME ~overlapped' PROVE CommandsKeepApart'
  BY <1>3, MachineAssumption DEF CommandsKeepApart, Host!Collide, Host!Writers
<1>4. ASSUME ~overlapped' PROVE StepsAreSound'
  BY <1>4, MachineAssumption DEF CommandsKeepApart, Host!Collide, Host!Writers, StepsAreSound,
                                 TheFilesAgree
<1>5. ASSUME ~overlapped' PROVE TheFilesAgree'
  <2>1. /\ compose /\ TheFilesAgree
        /\ record # Nothing => environment # Nothing /\ environment.password = command[p].password
    BY <1>5 DEF StepsAreSound
  <2>2. /\ environment'.password = command[p].password
        /\ UNCHANGED <<compose, record, volume>>
        /\ record # Nothing => "image" \in halfDone' /\ (halfDone \subseteq halfDone')
    OBVIOUS
  <2>3. environment' # Nothing
    BY <1>1, MachineAssumption
  <2> HIDE DEF HostInv, Host!WriteEnvironment
  <2> QED BY <2>1, <2>2, <2>3 DEF TheFilesAgree
<1> QED BY <1>1, <1>2, <1>3, <1>4, <1>5

\* The record is written when the other files are there, with the same image.
LEMMA WriteRecordKeepsTheFiles ==
    ASSUME HostInv, NEW p \in Commanders,
           Host!WriteRecord(p)
    PROVE  HostInv'
<1> USE DEF HostInv, Host!WriteRecord, Host!At, Host!Goto, Host!docker, Host!TypeOK,
            Host!Commands
<1>1. Host!TypeOK'
  BY MachineAssumption DEF Host!Steps
<1>2. StepsHaveTheirCommand'
  BY MachineAssumption DEF StepsHaveTheirCommand
<1>3. ASSUME ~overlapped' PROVE CommandsKeepApart'
  BY <1>3, MachineAssumption DEF StepsHaveTheirCommand, CommandsKeepApart, Host!Collide,
                                 Host!Writers
<1>4. ASSUME ~overlapped' PROVE StepsAreSound'
  BY <1>4, MachineAssumption DEF StepsHaveTheirCommand, CommandsKeepApart, Host!Collide,
                                 Host!Writers, StepsAreSound, TheFilesAgree
<1>5. ASSUME ~overlapped' PROVE TheFilesAgree'
  BY <1>5, MachineAssumption DEF StepsHaveTheirCommand, CommandsKeepApart, Host!Collide,
                                 Host!Writers, StepsAreSound, TheFilesAgree
<1> QED BY <1>1, <1>2, <1>3, <1>4, <1>5

\* A new volume takes the password of the environment.
LEMMA UpKeepsTheFiles ==
    ASSUME HostInv, NEW p \in Commanders,
           Host!Up(p)
    PROVE  HostInv'
<1> USE DEF HostInv, Host!Up, Host!At, Host!Done, Host!files, Host!NoCommand, Host!TypeOK,
            Host!Commands
<1>1. Host!TypeOK'
  BY MachineAssumption DEF Host!Steps
<1>2. StepsHaveTheirCommand'
  BY MachineAssumption DEF StepsHaveTheirCommand
<1>3. ASSUME ~overlapped' PROVE CommandsKeepApart'
  BY <1>3, MachineAssumption DEF StepsHaveTheirCommand, CommandsKeepApart, Host!Collide,
                                 Host!Writers
<1>4. ASSUME ~overlapped' PROVE StepsAreSound'
  BY <1>4, MachineAssumption DEF StepsHaveTheirCommand, CommandsKeepApart, Host!Collide,
                                 Host!Writers, StepsAreSound, TheFilesAgree
<1>5. ASSUME ~overlapped' PROVE TheFilesAgree'
  BY <1>5, MachineAssumption DEF StepsHaveTheirCommand, CommandsKeepApart, Host!Collide,
                                 Host!Writers, StepsAreSound, TheFilesAgree
<1> QED BY <1>1, <1>2, <1>3, <1>4, <1>5

\* A start changes no file.
LEMMA StartKeepsTheFiles ==
    ASSUME HostInv, NEW p \in Commanders,
           Host!Start(p)
    PROVE  HostInv'
<1> USE DEF HostInv, Host!Start, Host!At, Host!Goto, Host!files, Host!docker, Host!TypeOK,
            Host!Commands
<1>1. Host!TypeOK'
  BY MachineAssumption DEF Host!Steps
<1>2. StepsHaveTheirCommand'
  BY MachineAssumption DEF StepsHaveTheirCommand
<1>3. ASSUME ~overlapped' PROVE CommandsKeepApart'
  BY <1>3, MachineAssumption DEF StepsHaveTheirCommand, CommandsKeepApart, Host!Collide,
                                 Host!Writers
<1>4. ASSUME ~overlapped' PROVE StepsAreSound'
  BY <1>4, MachineAssumption DEF StepsHaveTheirCommand, CommandsKeepApart, Host!Collide,
                                 Host!Writers, StepsAreSound, TheFilesAgree
<1>5. ASSUME ~overlapped' PROVE TheFilesAgree'
  BY <1>5, MachineAssumption DEF StepsHaveTheirCommand, CommandsKeepApart, Host!Collide,
                                 Host!Writers, StepsAreSound, TheFilesAgree
<1> QED BY <1>1, <1>2, <1>3, <1>4, <1>5

\* A stop changes no file.
LEMMA StopKeepsTheFiles ==
    ASSUME HostInv, NEW p \in Commanders,
           Host!Stop(p)
    PROVE  HostInv'
<1> USE DEF HostInv, Host!Stop, Host!At, Host!Done, Host!files, Host!NoCommand, Host!TypeOK,
            Host!Commands
<1>1. Host!TypeOK'
  BY MachineAssumption DEF Host!Steps
<1>2. StepsHaveTheirCommand'
  BY MachineAssumption DEF StepsHaveTheirCommand
<1>3. ASSUME ~overlapped' PROVE CommandsKeepApart'
  BY <1>3, MachineAssumption DEF StepsHaveTheirCommand, CommandsKeepApart, Host!Collide,
                                 Host!Writers
<1>4. ASSUME ~overlapped' PROVE StepsAreSound'
  BY <1>4, MachineAssumption DEF StepsHaveTheirCommand, CommandsKeepApart, Host!Collide,
                                 Host!Writers, StepsAreSound, TheFilesAgree
<1>5. ASSUME ~overlapped' PROVE TheFilesAgree'
  BY <1>5, MachineAssumption DEF StepsHaveTheirCommand, CommandsKeepApart, Host!Collide,
                                 Host!Writers, StepsAreSound, TheFilesAgree
<1> QED BY <1>1, <1>2, <1>3, <1>4, <1>5

\* A backup changes no file.
LEMMA BackUpKeepsTheFiles ==
    ASSUME HostInv, NEW p \in Commanders,
           Host!BackUp(p)
    PROVE  HostInv'
<1> USE DEF HostInv, Host!BackUp, Host!At, Host!Goto, Host!files, Host!docker, Host!TypeOK,
            Host!Commands
<1>1. Host!TypeOK'
  BY MachineAssumption DEF Host!Steps
<1>2. StepsHaveTheirCommand'
  BY MachineAssumption DEF StepsHaveTheirCommand
<1>3. ASSUME ~overlapped' PROVE CommandsKeepApart'
  BY <1>3, MachineAssumption DEF StepsHaveTheirCommand, CommandsKeepApart, Host!Collide,
                                 Host!Writers
<1>4. ASSUME ~overlapped' PROVE StepsAreSound'
  BY <1>4, MachineAssumption DEF StepsHaveTheirCommand, CommandsKeepApart, Host!Collide,
                                 Host!Writers, StepsAreSound, TheFilesAgree
<1>5. ASSUME ~overlapped' PROVE TheFilesAgree'
  BY <1>5, MachineAssumption DEF StepsHaveTheirCommand, CommandsKeepApart, Host!Collide,
                                 Host!Writers, StepsAreSound, TheFilesAgree
<1> QED BY <1>1, <1>2, <1>3, <1>4, <1>5

\* An upgrade changes the image of the environment and keeps its password.
LEMMA SetImageKeepsTheFiles ==
    ASSUME HostInv, NEW p \in Commanders,
           Host!SetImage(p)
    PROVE  HostInv'
<1> USE DEF HostInv, Host!SetImage, Host!At, Host!Goto, Host!docker, Host!TypeOK,
            StepsHaveTheirCommand, Host!Commands
<1>1. Host!TypeOK'
  <2>1. environment' \in [password : Passwords, image : Images]
    OBVIOUS
  <2> QED BY <2>1 DEF Host!Steps
<1>2. StepsHaveTheirCommand'
  BY MachineAssumption
<1>3. ASSUME ~overlapped' PROVE CommandsKeepApart'
  BY <1>3, MachineAssumption DEF CommandsKeepApart, Host!Collide, Host!Writers
<1>4. ASSUME ~overlapped' PROVE StepsAreSound'
  BY <1>4, MachineAssumption DEF CommandsKeepApart, Host!Collide, Host!Writers, StepsAreSound,
                                 TheFilesAgree
<1>5. ASSUME ~overlapped' PROVE TheFilesAgree'
  BY <1>5, MachineAssumption DEF CommandsKeepApart, Host!Collide, Host!Writers, StepsAreSound,
                                 TheFilesAgree
<1> QED BY <1>1, <1>2, <1>3, <1>4, <1>5

\* The removal of a file is noted before the first one goes.
LEMMA RemoveFileKeepsTheFiles ==
    ASSUME HostInv, NEW p \in Commanders,
           Host!RemoveFile(p)
    PROVE  HostInv'
<1> USE DEF HostInv, Host!RemoveFile, Host!At, Host!docker, Host!TypeOK, Host!Commands
<1>1. Host!TypeOK'
  BY MachineAssumption DEF Host!Steps
<1>2. StepsHaveTheirCommand'
  BY MachineAssumption DEF StepsHaveTheirCommand
<1>3. ASSUME ~overlapped' PROVE CommandsKeepApart'
  BY <1>3, MachineAssumption DEF StepsHaveTheirCommand, CommandsKeepApart, Host!Collide,
                                 Host!Writers
<1>4. ASSUME ~overlapped' PROVE StepsAreSound'
  BY <1>4, MachineAssumption DEF StepsHaveTheirCommand, CommandsKeepApart, Host!Collide,
                                 Host!Writers, StepsAreSound, TheFilesAgree
<1>5. ASSUME ~overlapped' PROVE TheFilesAgree'
  BY <1>5, MachineAssumption DEF StepsHaveTheirCommand, CommandsKeepApart, Host!Collide,
                                 Host!Writers, StepsAreSound, TheFilesAgree
<1> QED BY <1>1, <1>2, <1>3, <1>4, <1>5

\* After the removal nothing is left that could disagree.
LEMMA RemovedKeepsTheFiles ==
    ASSUME HostInv, NEW p \in Commanders,
           Host!Removed(p)
    PROVE  HostInv'
<1> USE DEF HostInv, Host!Removed, Host!At, Host!Done, Host!files, Host!docker, Host!NoCommand,
            Host!TypeOK, Host!Commands
<1>1. Host!TypeOK'
  BY MachineAssumption DEF Host!Steps
<1>2. StepsHaveTheirCommand'
  BY MachineAssumption DEF StepsHaveTheirCommand
<1>3. ASSUME ~overlapped' PROVE CommandsKeepApart'
  BY <1>3, MachineAssumption DEF StepsHaveTheirCommand, CommandsKeepApart, Host!Collide,
                                 Host!Writers
<1>4. ASSUME ~overlapped' PROVE StepsAreSound'
  BY <1>4, MachineAssumption DEF StepsHaveTheirCommand, CommandsKeepApart, Host!Collide,
                                 Host!Writers, StepsAreSound, TheFilesAgree
<1>5. ASSUME ~overlapped' PROVE TheFilesAgree'
  BY <1>5, MachineAssumption DEF StepsHaveTheirCommand, CommandsKeepApart, Host!Collide,
                                 Host!Writers, StepsAreSound, TheFilesAgree
<1> QED BY <1>1, <1>2, <1>3, <1>4, <1>5

\* An uninstallation keeps the volume or is about to remove the files.
LEMMA DownKeepsTheFiles ==
    ASSUME HostInv, NEW p \in Commanders,
           NEW erase \in BOOLEAN, Host!Down(p, IF erase THEN "erase" ELSE "down", erase)
    PROVE  HostInv'
<1> USE DEF HostInv, Host!Down, Host!At, Host!Goto, Host!Done, Host!files, Host!NoCommand,
            Host!TypeOK, StepsHaveTheirCommand, Host!Commands
<1>1. Host!TypeOK'
  <2>1. command' \in [Commanders -> [kind : Host!Commands \cup {"none"}, step : Host!Steps,
                                     image : Images \cup {Nothing}, password : Passwords \cup {Nothing}]]
    BY DEF Host!Steps
  <2> QED BY <2>1
<1>2. StepsHaveTheirCommand'
  BY MachineAssumption
<1>3. ASSUME ~overlapped' PROVE CommandsKeepApart'
  BY <1>3, MachineAssumption DEF CommandsKeepApart, Host!Collide, Host!Writers
<1>4. ASSUME ~overlapped' PROVE StepsAreSound'
  BY <1>4, MachineAssumption DEF CommandsKeepApart, Host!Collide, Host!Writers, StepsAreSound,
                                 TheFilesAgree
<1>5. ASSUME ~overlapped' PROVE TheFilesAgree'
  BY <1>5, MachineAssumption DEF CommandsKeepApart, Host!Collide, Host!Writers, StepsAreSound,
                                 TheFilesAgree
<1> QED BY <1>1, <1>2, <1>3, <1>4, <1>5

----------------------------------------------------------------------------
(* The runtime of an agent: what its registry of observers says of the work. *)

\* A call that starts a work item and has not yet a loop that observes it.
Early == {"create", "attach", "register", "look"}

\* A call that does something does it for a work item.
CallsAreNamed == \A c \in Calls : ~Runtime!At(c, "idle") => call[c].work \in Works

\* One call starts a work item, and one that stops an observer comes after the
\* end of its work.
CallsHaveTheirWork ==
    /\ \A c \in Calls :
          /\ call[c].step \in Runtime!Starting => intent[call[c].work] # "none"
          /\ Runtime!At(c, "stop") => intent[call[c].work] = "ended"
          /\ call[c].step \in Early => observer[call[c].work] = "none"
          /\ Runtime!At(c, "look") => call[c].work \in registered \cup cancelled
    /\ \A c, d \in Calls :
          /\ call[c].step \in Runtime!Starting /\ call[d].step \in Runtime!Starting
          /\ call[c].work = call[d].work
          => c = d

\* What was cancelled has ended, or its start failed; what is registered has its loop,
\* or is about to, or the loop failed.
WatchesAreSound ==
    \A w \in Works :
        /\ w \in cancelled => \/ intent[w] = "ended"
                              \/ /\ Runtime!Unwatched(w) /\ ~Runtime!Working(w, Early)
                                 /\ intent[w] # "none"
        /\ w \in registered /\ observer[w] = "none"
           => Runtime!Working(w, {"look"}) \/ "observer" \in errors \/ intent[w] = "ended"

\* Worktrees come after their work and are archived with it.
WorktreesFollowTheWork ==
    \A w \in Works :
        /\ intent[w] = "none" => worktree[w] = "none"
        /\ intent[w] = "ended" => worktree[w] \in {"none", "archived"}
        /\ worktree[w] = "archived" => intent[w] = "ended"
        /\ observer[w] # "none" => worktree[w] # "none"

\* Nothing is reported while the session lives, no request failed, and no worktree
\* was archived under its observer.
ErrorsHaveACause ==
    errors # {} => \/ session = "lost"
                   \/ trouble.failed
                   \/ \E w \in Works : worktree[w] = "archived"

\* Once it stops, the runtime owes nothing more.
RuntimeInv ==
    /\ Runtime!TypeOK /\ CallsAreNamed
    /\ process = "up" =>
          /\ CallsHaveTheirWork /\ WatchesAreSound /\ WorktreesFollowTheWork /\ ErrorsHaveACause
          /\ ObserversFollowTheWork

\* The parts of the type invariant that a step updates field by field.
CallSteps == {"idle", "create", "attach", "register", "look", "block", "stop"}
CallRecords == [step : CallSteps, work : Works \cup {NoWork}]
Troubles == [failed : BOOLEAN, adrift : SUBSET Works, unstopped : SUBSET Works]

\* The ways in which a step that concerns w adds to the trouble noted.
Worse(w) ==
    {trouble,
     [trouble EXCEPT !.failed = TRUE],
     [trouble EXCEPT !.adrift = @ \cup {w}],
     [trouble EXCEPT !.unstopped = @ \cup {w}],
     [trouble EXCEPT !.failed = TRUE, !.adrift = @ \cup {w}],
     [trouble EXCEPT !.failed = TRUE, !.unstopped = @ \cup {w}],
     [trouble EXCEPT !.failed = TRUE, !.adrift = @ \cup {w}, !.unstopped = @ \cup {w}]}

\* A call goes on to another step.
LEMMA CallGoesOn ==
    ASSUME Runtime!TypeOK, NEW c \in Calls, NEW step \in CallSteps
    PROVE  [call EXCEPT ![c].step = step] \in [Calls -> CallRecords]
<1>1. call \in [Calls -> CallRecords]
  BY DEF Runtime!TypeOK, CallRecords, CallSteps
<1>2. [call[c] EXCEPT !.step = step] \in CallRecords
  BY <1>1 DEF CallRecords
<1>3. [call EXCEPT ![c].step = step] = [call EXCEPT ![c] = [call[c] EXCEPT !.step = step]]
  BY <1>1
<1> QED BY <1>1, <1>2, <1>3

\* A call begins with a work item.
LEMMA CallBegins ==
    ASSUME Runtime!TypeOK, NEW c \in Calls, NEW step \in CallSteps, NEW w \in Works
    PROVE  [call EXCEPT ![c] = [step |-> step, work |-> w]] \in [Calls -> CallRecords]
BY DEF Runtime!TypeOK, CallRecords, CallSteps

\* A call returns.
LEMMA CallReturns ==
    ASSUME Runtime!TypeOK, NEW c \in Calls
    PROVE  /\ call \in [Calls -> CallRecords]
           /\ [call EXCEPT ![c] = Runtime!Idle] \in [Calls -> CallRecords]
BY DEF Runtime!TypeOK, CallRecords, CallSteps, Runtime!Idle

\* What went wrong stays noted.
LEMMA TroubleStays ==
    ASSUME Runtime!TypeOK, NEW w \in Works, NEW t \in Worse(w)
    PROVE  /\ t \in Troubles
           /\ trouble.adrift \subseteq t.adrift /\ trouble.unstopped \subseteq t.unstopped
<1>1. \E failed \in BOOLEAN, adrift \in {trouble.adrift, trouble.adrift \cup {w}},
         unstopped \in {trouble.unstopped, trouble.unstopped \cup {w}} :
            t = [failed |-> failed, adrift |-> adrift, unstopped |-> unstopped]
  BY DEF Runtime!TypeOK, Worse
<1> QED BY <1>1 DEF Runtime!TypeOK, Troubles

\* The calls at work on an item are so after the step of one that does not leave those
\* steps.
LEMMA WorkGoesOn ==
    ASSUME NEW c \in Calls, NEW v \in Works, NEW steps, Runtime!Working(v, steps),
           \A d \in Calls \ {c} : call'[d] = call[d],
           call[c].work = v /\ call[c].step \in steps
           => call'[c].work = v /\ call'[c].step \in steps
    PROVE  Runtime!Working(v, steps)'
BY DEF Runtime!Working

\* The calls at work on an item were so before the step of one that does not enter those
\* steps.
LEMMA WorkWasThere ==
    ASSUME NEW c \in Calls, NEW v \in Works, NEW steps, Runtime!Working(v, steps)',
           \A d \in Calls \ {c} : call'[d] = call[d],
           call'[c].work = v /\ call'[c].step \in steps
           => call[c].work = v /\ call[c].step \in steps
    PROVE  Runtime!Working(v, steps)
BY DEF Runtime!Working

\* The work item started was not there, so no other call and no observer has it.
LEMMA StartWorkKeepsTheWatch ==
    ASSUME RuntimeInv, NEW c \in Calls, NEW w \in Works, Runtime!StartWork(c, w)
    PROVE  RuntimeInv'
<1>0. /\ call' \in {[call EXCEPT ![c] = [step |-> "create", work |-> w]], call}
      /\ trouble' \in {trouble, [trouble EXCEPT !.failed = TRUE, !.adrift = @ \cup {w}]}
      /\ w \in Works
  BY DEF RuntimeInv, CallsAreNamed, Runtime!StartWork, Runtime!At, Runtime!local, Runtime!watch,
         Runtime!Idle
<1>1. Runtime!TypeOK' /\ CallsAreNamed'
  <2>1. call' \in [Calls -> CallRecords]
    BY <1>0, CallGoesOn, CallBegins, CallReturns DEF RuntimeInv, CallSteps
  <2>2. trouble' \in Troubles
    BY <1>0, TroubleStays DEF RuntimeInv, Worse
  <2>3. Runtime!TypeOK'
    BY <1>0, <2>1, <2>2 DEF RuntimeInv, Runtime!TypeOK, Runtime!StartWork, Runtime!local,
                            Runtime!watch, Runtime!Open, CallSteps, CallRecords, Troubles
  <2>4. CallsAreNamed'
    BY <1>0 DEF RuntimeInv, CallsAreNamed, Runtime!TypeOK, Runtime!StartWork, Runtime!At,
                Runtime!Idle
  <2> QED BY <2>3, <2>4
<1>2. ASSUME process' = "up" PROVE CallsHaveTheirWork'
  BY <1>2 DEF RuntimeInv, Runtime!TypeOK, Runtime!StartWork, Runtime!At, Runtime!local,
              Runtime!watch, Runtime!Idle, CallsHaveTheirWork, CallsAreNamed,
              WorktreesFollowTheWork, Early, Runtime!Starting
<1>3. ASSUME process' = "up" PROVE WatchesAreSound'
  BY <1>3, SMTT(40) DEF RuntimeInv, Runtime!TypeOK, Runtime!StartWork, Runtime!At,
                        Runtime!local, Runtime!watch, Runtime!Idle, CallsHaveTheirWork,
                        WatchesAreSound, Runtime!Unwatched, Runtime!Working, Early,
                        Runtime!Starting
<1>4. ASSUME process' = "up" PROVE WorktreesFollowTheWork'
  BY <1>4 DEF RuntimeInv, Runtime!TypeOK, Runtime!StartWork, Runtime!At, Runtime!local,
              Runtime!watch, Runtime!Idle, WorktreesFollowTheWork
<1>5. ASSUME process' = "up" PROVE ErrorsHaveACause'
  BY <1>5 DEF RuntimeInv, Runtime!TypeOK, Runtime!StartWork, Runtime!At, Runtime!local,
              Runtime!watch, Runtime!Idle, WorktreesFollowTheWork, WatchesAreSound,
              Runtime!Unwatched, ErrorsHaveACause
<1>6. ASSUME process' = "up" PROVE ObserversFollowTheWork'
  <2> SUFFICES ASSUME NEW v \in Works
               PROVE  /\ Runtime!Observed(v)' => v \in registered'
                      /\ Runtime!Observed(v)' /\ worktree'[v] = "archived"
                         => v \in trouble'.unstopped \/ Runtime!Working(v, {"stop"})'
                      /\ intent'[v] = "active"
                         => \/ Runtime!Observed(v)' \/ Runtime!Working(v, Runtime!Starting)'
                            \/ "observer" \in errors' \/ v \in trouble'.adrift
    BY DEF ObserversFollowTheWork, Runtime!ObserversFollowTheWork, Runtime!Working,
           Runtime!Observed, Runtime!Starting
  <2>0. /\ process = "up"
        /\ trouble.adrift \subseteq trouble'.adrift /\ trouble.unstopped \subseteq trouble'.unstopped
    BY <1>0, <1>6, TroubleStays DEF RuntimeInv, Worse, Runtime!StartWork, Runtime!local
  <2>a. \A d \in Calls \ {c} : call'[d] = call[d]
    BY <1>0 DEF RuntimeInv, Runtime!TypeOK
  <2>b. (Runtime!Working(v, {"stop"}) => Runtime!Working(v, {"stop"})')
    <3> SUFFICES ASSUME call[c].work = v, call[c].step = "stop"
                 PROVE  call'[c].work = v /\ call'[c].step = "stop"
      BY <2>a, WorkGoesOn
    <3> QED BY <1>0, <2>0 DEF RuntimeInv, Runtime!TypeOK, Runtime!StartWork, Runtime!At
  <2>c. (Runtime!Working(v, Runtime!Starting) => Runtime!Working(v, Runtime!Starting)')
    <3> SUFFICES ASSUME call[c].work = v, call[c].step \in Runtime!Starting
                 PROVE  call'[c].work = v /\ call'[c].step \in Runtime!Starting
      BY <2>a, WorkGoesOn DEF Runtime!Starting
    <3> QED BY <1>0, <2>0 DEF RuntimeInv, Runtime!TypeOK, Runtime!StartWork, Runtime!At,
                              Runtime!Starting
  <2>d. w \in trouble'.adrift \/ Runtime!Working(w, Runtime!Starting)'
    <3>1. CASE call' = [call EXCEPT ![c] = [step |-> "create", work |-> w]]
      BY <3>1 DEF RuntimeInv, Runtime!TypeOK, Runtime!Working, Runtime!Starting
    <3>2. CASE trouble' = [trouble EXCEPT !.failed = TRUE, !.adrift = @ \cup {w}]
      BY <3>2 DEF RuntimeInv, Runtime!TypeOK
    <3> QED BY <3>1, <3>2 DEF Runtime!StartWork
  <2>1. Runtime!Observed(v)' => v \in registered'
    BY <2>0 DEF RuntimeInv, Runtime!TypeOK, Runtime!StartWork, Runtime!At, Runtime!local,
                Runtime!watch, Runtime!Idle, CallsHaveTheirWork, ObserversFollowTheWork,
                Runtime!ObserversFollowTheWork, Runtime!Observed
  <2>2. Runtime!Observed(v)' /\ worktree'[v] = "archived"
         => v \in trouble'.unstopped \/ Runtime!Working(v, {"stop"})'
    BY <1>0, <2>0, <2>b DEF RuntimeInv, Runtime!TypeOK, Runtime!StartWork, Runtime!local,
                            Runtime!watch, ObserversFollowTheWork,
                            Runtime!ObserversFollowTheWork, Runtime!Observed
  <2>3. intent'[v] = "active"
         => \/ Runtime!Observed(v)' \/ Runtime!Working(v, Runtime!Starting)'
            \/ "observer" \in errors' \/ v \in trouble'.adrift
    BY <2>0, <2>c, <2>d DEF RuntimeInv, Runtime!TypeOK, Runtime!StartWork, Runtime!local,
                            Runtime!watch, CallsHaveTheirWork, WatchesAreSound,
                            ObserversFollowTheWork, Runtime!ObserversFollowTheWork,
                            Runtime!Observed, Runtime!Unwatched
  <2> QED BY <2>1, <2>2, <2>3
<1> QED BY <1>1, <1>2, <1>3, <1>4, <1>5, <1>6 DEF RuntimeInv, ObserversFollowTheWork

\* The start goes on or marks the work blocked.
LEMMA CreateWorktreeKeepsTheWatch ==
    ASSUME RuntimeInv, NEW c \in Calls, Runtime!CreateWorktree(c)
    PROVE  RuntimeInv'
<1>0. /\ call' \in {[call EXCEPT ![c].step = "attach"], [call EXCEPT ![c].step = "block"]}
      /\ trouble' \in {trouble, [trouble EXCEPT !.failed = TRUE]}
      /\ call[c].work \in Works
  BY MachineAssumption DEF RuntimeInv, CallsAreNamed, Runtime!CreateWorktree, Runtime!Goto,
                           Runtime!At, Runtime!Fails, Runtime!remote, Runtime!local,
                           Runtime!watch, Runtime!Idle
<1>1. Runtime!TypeOK' /\ CallsAreNamed'
  <2>1. call' \in [Calls -> CallRecords]
    <3>1. /\ [call EXCEPT ![c].step = "attach"] \in [Calls -> CallRecords]
          /\ [call EXCEPT ![c].step = "block"] \in [Calls -> CallRecords]
      BY CallGoesOn DEF RuntimeInv, CallSteps
    <3> QED BY <1>0, <3>1, CallReturns DEF RuntimeInv
  <2>2. trouble' \in Troubles
    BY <1>0, TroubleStays DEF RuntimeInv, Worse
  <2>3. Runtime!TypeOK'
    BY <1>0, <2>1, <2>2 DEF RuntimeInv, Runtime!TypeOK, Runtime!CreateWorktree, Runtime!remote,
                            Runtime!local, Runtime!watch, CallSteps, CallRecords, Troubles
  <2>4. CallsAreNamed'
    BY <1>0 DEF RuntimeInv, CallsAreNamed, Runtime!TypeOK, Runtime!CreateWorktree, Runtime!At,
                Runtime!Idle
  <2> QED BY <2>3, <2>4
<1>2. ASSUME process' = "up" PROVE CallsHaveTheirWork'
  BY <1>2, SMTT(40) DEF RuntimeInv, Runtime!TypeOK, Runtime!CreateWorktree, Runtime!Goto,
                        Runtime!At, Runtime!Fails, Runtime!remote, Runtime!local, Runtime!watch,
                        Runtime!Idle, CallsHaveTheirWork, CallsAreNamed, WorktreesFollowTheWork,
                        Early, Runtime!Starting
<1>3. ASSUME process' = "up" PROVE WatchesAreSound'
  BY <1>3 DEF RuntimeInv, Runtime!TypeOK, Runtime!CreateWorktree, Runtime!Goto, Runtime!At,
              Runtime!Fails, Runtime!remote, Runtime!local, Runtime!watch, Runtime!Idle,
              CallsHaveTheirWork, WatchesAreSound, Runtime!Unwatched, Runtime!Working, Early,
              Runtime!Starting
<1>4. ASSUME process' = "up" PROVE WorktreesFollowTheWork'
  BY <1>4 DEF RuntimeInv, Runtime!TypeOK, Runtime!CreateWorktree, Runtime!Goto, Runtime!At,
              Runtime!Fails, Runtime!remote, Runtime!local, Runtime!watch, Runtime!Idle,
              WorktreesFollowTheWork
<1>5. ASSUME process' = "up" PROVE ErrorsHaveACause'
  BY <1>5 DEF RuntimeInv, Runtime!TypeOK, Runtime!CreateWorktree, Runtime!Goto, Runtime!At,
              Runtime!Fails, Runtime!remote, Runtime!local, Runtime!watch, Runtime!Idle,
              WorktreesFollowTheWork, WatchesAreSound, Runtime!Unwatched, ErrorsHaveACause
<1>6. ASSUME process' = "up" PROVE ObserversFollowTheWork'
  <2> SUFFICES ASSUME NEW v \in Works
               PROVE  /\ Runtime!Observed(v)' => v \in registered'
                      /\ Runtime!Observed(v)' /\ worktree'[v] = "archived"
                         => v \in trouble'.unstopped \/ Runtime!Working(v, {"stop"})'
                      /\ intent'[v] = "active"
                         => \/ Runtime!Observed(v)' \/ Runtime!Working(v, Runtime!Starting)'
                            \/ "observer" \in errors' \/ v \in trouble'.adrift
    BY DEF ObserversFollowTheWork, Runtime!ObserversFollowTheWork, Runtime!Working,
           Runtime!Observed, Runtime!Starting
  <2>0. /\ process = "up"
        /\ trouble.adrift \subseteq trouble'.adrift /\ trouble.unstopped \subseteq trouble'.unstopped
    BY <1>0, <1>6, TroubleStays DEF RuntimeInv, Worse, Runtime!CreateWorktree, Runtime!local
  <2>a. \A d \in Calls \ {c} : call'[d] = call[d]
    BY <1>0 DEF RuntimeInv, Runtime!TypeOK
  <2>b. (Runtime!Working(v, {"stop"}) => Runtime!Working(v, {"stop"})')
    <3> SUFFICES ASSUME call[c].work = v, call[c].step = "stop"
                 PROVE  call'[c].work = v /\ call'[c].step = "stop"
      BY <2>a, WorkGoesOn
    <3> QED BY <1>0, <2>0 DEF RuntimeInv, Runtime!TypeOK, Runtime!CreateWorktree, Runtime!At
  <2>c. (Runtime!Working(v, Runtime!Starting) => Runtime!Working(v, Runtime!Starting)')
    <3> SUFFICES ASSUME call[c].work = v, call[c].step \in Runtime!Starting
                 PROVE  call'[c].work = v /\ call'[c].step \in Runtime!Starting
      BY <2>a, WorkGoesOn DEF Runtime!Starting
    <3> QED BY <1>0, <2>0 DEF RuntimeInv, Runtime!TypeOK, Runtime!CreateWorktree, Runtime!At,
                              Runtime!Starting
  <2>1. Runtime!Observed(v)' => v \in registered'
    BY <2>0 DEF RuntimeInv, Runtime!TypeOK, Runtime!CreateWorktree, Runtime!Goto, Runtime!At,
                Runtime!Fails, Runtime!remote, Runtime!local, Runtime!watch, Runtime!Idle,
                CallsHaveTheirWork, ObserversFollowTheWork, Runtime!ObserversFollowTheWork,
                Runtime!Observed
  <2>2. Runtime!Observed(v)' /\ worktree'[v] = "archived"
         => v \in trouble'.unstopped \/ Runtime!Working(v, {"stop"})'
    BY <1>0, <2>0, <2>b DEF RuntimeInv, Runtime!TypeOK, Runtime!CreateWorktree, Runtime!remote,
                            Runtime!local, Runtime!watch, ObserversFollowTheWork,
                            Runtime!ObserversFollowTheWork, Runtime!Observed
  <2>3. intent'[v] = "active"
         => \/ Runtime!Observed(v)' \/ Runtime!Working(v, Runtime!Starting)'
            \/ "observer" \in errors' \/ v \in trouble'.adrift
    BY <1>0, <2>0, <2>c DEF RuntimeInv, Runtime!TypeOK, Runtime!CreateWorktree, Runtime!remote,
                            Runtime!local, Runtime!watch, CallsHaveTheirWork, WatchesAreSound,
                            ObserversFollowTheWork, Runtime!ObserversFollowTheWork,
                            Runtime!Observed, Runtime!Unwatched
  <2> QED BY <2>1, <2>2, <2>3
<1> QED BY <1>1, <1>2, <1>3, <1>4, <1>5, <1>6 DEF RuntimeInv, ObserversFollowTheWork

\* The work item has its worktree, or the start marks it blocked.
LEMMA AttachWorktreeKeepsTheWatch ==
    ASSUME RuntimeInv, NEW c \in Calls, Runtime!AttachWorktree(c)
    PROVE  RuntimeInv'
<1>0. /\ call' \in {[call EXCEPT ![c].step = "register"], [call EXCEPT ![c].step = "block"]}
      /\ trouble' \in {trouble, [trouble EXCEPT !.failed = TRUE]}
      /\ call[c].work \in Works
  BY MachineAssumption DEF RuntimeInv, CallsAreNamed, Runtime!AttachWorktree, Runtime!Goto,
                           Runtime!At, Runtime!Fails, Runtime!local, Runtime!watch,
                           Runtime!Idle, Runtime!Attachable, Runtime!Open
<1>1. Runtime!TypeOK' /\ CallsAreNamed'
  <2>1. call' \in [Calls -> CallRecords]
    <3>1. /\ [call EXCEPT ![c].step = "register"] \in [Calls -> CallRecords]
          /\ [call EXCEPT ![c].step = "block"] \in [Calls -> CallRecords]
      BY CallGoesOn DEF RuntimeInv, CallSteps
    <3> QED BY <1>0, <3>1, CallReturns DEF RuntimeInv
  <2>2. trouble' \in Troubles
    BY <1>0, TroubleStays DEF RuntimeInv, Worse
  <2>3. Runtime!TypeOK'
    BY <1>0, <2>1, <2>2 DEF RuntimeInv, Runtime!TypeOK, Runtime!AttachWorktree, Runtime!local,
                            Runtime!watch, Runtime!Attachable, Runtime!Open, CallSteps,
                            CallRecords, Troubles
  <2>4. CallsAreNamed'
    BY <1>0 DEF RuntimeInv, CallsAreNamed, Runtime!TypeOK, Runtime!AttachWorktree, Runtime!At,
                Runtime!Idle
  <2> QED BY <2>3, <2>4
<1>2. ASSUME process' = "up" PROVE CallsHaveTheirWork'
  BY <1>2 DEF RuntimeInv, Runtime!TypeOK, Runtime!AttachWorktree, Runtime!Goto, Runtime!At,
              Runtime!Fails, Runtime!local, Runtime!watch, Runtime!Idle, Runtime!Attachable,
              Runtime!Open, CallsHaveTheirWork, CallsAreNamed, WorktreesFollowTheWork, Early,
              Runtime!Starting
<1>3. ASSUME process' = "up" PROVE WatchesAreSound'
  BY <1>3 DEF RuntimeInv, Runtime!TypeOK, Runtime!AttachWorktree, Runtime!Goto, Runtime!At,
              Runtime!Fails, Runtime!local, Runtime!watch, Runtime!Idle, Runtime!Attachable,
              Runtime!Open, CallsHaveTheirWork, WatchesAreSound, Runtime!Unwatched,
              Runtime!Working, Early, Runtime!Starting
<1>4. ASSUME process' = "up" PROVE WorktreesFollowTheWork'
  BY <1>4 DEF RuntimeInv, Runtime!TypeOK, Runtime!AttachWorktree, Runtime!Goto, Runtime!At,
              Runtime!Fails, Runtime!local, Runtime!watch, Runtime!Idle, Runtime!Attachable,
              Runtime!Open, WorktreesFollowTheWork
<1>5. ASSUME process' = "up" PROVE ErrorsHaveACause'
  BY <1>5 DEF RuntimeInv, Runtime!TypeOK, Runtime!AttachWorktree, Runtime!Goto, Runtime!At,
              Runtime!Fails, Runtime!local, Runtime!watch, Runtime!Idle, Runtime!Attachable,
              Runtime!Open, WorktreesFollowTheWork, WatchesAreSound, Runtime!Unwatched,
              ErrorsHaveACause
<1>6. ASSUME process' = "up" PROVE ObserversFollowTheWork'
  <2> SUFFICES ASSUME NEW v \in Works
               PROVE  /\ Runtime!Observed(v)' => v \in registered'
                      /\ Runtime!Observed(v)' /\ worktree'[v] = "archived"
                         => v \in trouble'.unstopped \/ Runtime!Working(v, {"stop"})'
                      /\ intent'[v] = "active"
                         => \/ Runtime!Observed(v)' \/ Runtime!Working(v, Runtime!Starting)'
                            \/ "observer" \in errors' \/ v \in trouble'.adrift
    BY DEF ObserversFollowTheWork, Runtime!ObserversFollowTheWork, Runtime!Working,
           Runtime!Observed, Runtime!Starting
  <2>0. /\ process = "up"
        /\ trouble.adrift \subseteq trouble'.adrift /\ trouble.unstopped \subseteq trouble'.unstopped
    BY <1>0, <1>6, TroubleStays DEF RuntimeInv, Worse, Runtime!AttachWorktree, Runtime!local
  <2>a. \A d \in Calls \ {c} : call'[d] = call[d]
    BY <1>0 DEF RuntimeInv, Runtime!TypeOK
  <2>b. (Runtime!Working(v, {"stop"}) => Runtime!Working(v, {"stop"})')
    <3> SUFFICES ASSUME call[c].work = v, call[c].step = "stop"
                 PROVE  call'[c].work = v /\ call'[c].step = "stop"
      BY <2>a, WorkGoesOn
    <3> QED BY <1>0, <2>0 DEF RuntimeInv, Runtime!TypeOK, Runtime!AttachWorktree, Runtime!At
  <2>c. (Runtime!Working(v, Runtime!Starting) => Runtime!Working(v, Runtime!Starting)')
    <3> SUFFICES ASSUME call[c].work = v, call[c].step \in Runtime!Starting
                 PROVE  call'[c].work = v /\ call'[c].step \in Runtime!Starting
      BY <2>a, WorkGoesOn DEF Runtime!Starting
    <3> QED BY <1>0, <2>0 DEF RuntimeInv, Runtime!TypeOK, Runtime!AttachWorktree, Runtime!At,
                              Runtime!Starting
  <2>1. Runtime!Observed(v)' => v \in registered'
    BY <2>0 DEF RuntimeInv, Runtime!TypeOK, Runtime!AttachWorktree, Runtime!Goto, Runtime!At,
                Runtime!Fails, Runtime!local, Runtime!watch, Runtime!Idle, Runtime!Attachable,
                Runtime!Open, CallsHaveTheirWork, ObserversFollowTheWork,
                Runtime!ObserversFollowTheWork, Runtime!Observed
  <2>2. Runtime!Observed(v)' /\ worktree'[v] = "archived"
         => v \in trouble'.unstopped \/ Runtime!Working(v, {"stop"})'
    BY <1>0, <2>0, <2>b DEF RuntimeInv, Runtime!TypeOK, Runtime!AttachWorktree, Runtime!local,
                            Runtime!watch, Runtime!Attachable, Runtime!Open,
                            ObserversFollowTheWork, Runtime!ObserversFollowTheWork,
                            Runtime!Observed
  <2>3. intent'[v] = "active"
         => \/ Runtime!Observed(v)' \/ Runtime!Working(v, Runtime!Starting)'
            \/ "observer" \in errors' \/ v \in trouble'.adrift
    BY <1>0, <2>0, <2>c DEF RuntimeInv, Runtime!TypeOK, Runtime!AttachWorktree, Runtime!local,
                            Runtime!watch, Runtime!Attachable, Runtime!Open, CallsHaveTheirWork,
                            WatchesAreSound, ObserversFollowTheWork,
                            Runtime!ObserversFollowTheWork, Runtime!Observed, Runtime!Unwatched
  <2> QED BY <2>1, <2>2, <2>3
<1> QED BY <1>1, <1>2, <1>3, <1>4, <1>5, <1>6 DEF RuntimeInv, ObserversFollowTheWork

\* An observer is registered before its first look.
LEMMA RegisterObserverKeepsTheWatch ==
    ASSUME RuntimeInv, NEW c \in Calls, Runtime!RegisterObserver(c)
    PROVE  RuntimeInv'
<1>0. /\ call' = [call EXCEPT ![c].step = "look"]
      /\ trouble' = trouble
      /\ call[c].work \in Works
  BY MachineAssumption DEF RuntimeInv, CallsAreNamed, Runtime!RegisterObserver, Runtime!Goto,
                           Runtime!At, Runtime!remote, Runtime!local, Runtime!Idle
<1>1. Runtime!TypeOK' /\ CallsAreNamed'
  <2>1. call' \in [Calls -> CallRecords]
    BY <1>0, CallGoesOn, CallBegins, CallReturns DEF RuntimeInv, CallSteps
  <2>2. trouble' \in Troubles
    BY <1>0, TroubleStays DEF RuntimeInv, Worse
  <2>3. Runtime!TypeOK'
    BY <1>0, <2>1, <2>2 DEF RuntimeInv, Runtime!TypeOK, Runtime!RegisterObserver,
                            Runtime!remote, Runtime!local, CallSteps, CallRecords, Troubles
  <2>4. CallsAreNamed'
    BY <1>0 DEF RuntimeInv, CallsAreNamed, Runtime!TypeOK, Runtime!RegisterObserver, Runtime!At,
                Runtime!Idle
  <2> QED BY <2>3, <2>4
<1>2. ASSUME process' = "up" PROVE CallsHaveTheirWork'
  BY <1>2 DEF RuntimeInv, Runtime!TypeOK, Runtime!RegisterObserver, Runtime!Goto, Runtime!At,
              Runtime!remote, Runtime!local, Runtime!Idle, CallsHaveTheirWork, CallsAreNamed,
              WorktreesFollowTheWork, Early, Runtime!Starting
<1>3. ASSUME process' = "up" PROVE WatchesAreSound'
  BY <1>3 DEF RuntimeInv, Runtime!TypeOK, Runtime!RegisterObserver, Runtime!Goto, Runtime!At,
              Runtime!remote, Runtime!local, Runtime!Idle, CallsHaveTheirWork, WatchesAreSound,
              Runtime!Unwatched, Runtime!Working, Early, Runtime!Starting
<1>4. ASSUME process' = "up" PROVE WorktreesFollowTheWork'
  BY <1>4 DEF RuntimeInv, Runtime!TypeOK, Runtime!RegisterObserver, Runtime!Goto, Runtime!At,
              Runtime!remote, Runtime!local, Runtime!Idle, WorktreesFollowTheWork
<1>5. ASSUME process' = "up" PROVE ErrorsHaveACause'
  BY <1>5 DEF RuntimeInv, Runtime!TypeOK, Runtime!RegisterObserver, Runtime!Goto, Runtime!At,
              Runtime!remote, Runtime!local, Runtime!Idle, WorktreesFollowTheWork,
              WatchesAreSound, Runtime!Unwatched, ErrorsHaveACause
<1>6. ASSUME process' = "up" PROVE ObserversFollowTheWork'
  <2> SUFFICES ASSUME NEW v \in Works
               PROVE  /\ Runtime!Observed(v)' => v \in registered'
                      /\ Runtime!Observed(v)' /\ worktree'[v] = "archived"
                         => v \in trouble'.unstopped \/ Runtime!Working(v, {"stop"})'
                      /\ intent'[v] = "active"
                         => \/ Runtime!Observed(v)' \/ Runtime!Working(v, Runtime!Starting)'
                            \/ "observer" \in errors' \/ v \in trouble'.adrift
    BY DEF ObserversFollowTheWork, Runtime!ObserversFollowTheWork, Runtime!Working,
           Runtime!Observed, Runtime!Starting
  <2>0. /\ process = "up"
        /\ trouble.adrift \subseteq trouble'.adrift /\ trouble.unstopped \subseteq trouble'.unstopped
    BY <1>0, <1>6, TroubleStays DEF RuntimeInv, Worse, Runtime!RegisterObserver, Runtime!local
  <2>a. \A d \in Calls \ {c} : call'[d] = call[d]
    BY <1>0 DEF RuntimeInv, Runtime!TypeOK
  <2>b. (Runtime!Working(v, {"stop"}) => Runtime!Working(v, {"stop"})')
    <3> SUFFICES ASSUME call[c].work = v, call[c].step = "stop"
                 PROVE  call'[c].work = v /\ call'[c].step = "stop"
      BY <2>a, WorkGoesOn
    <3> QED BY <1>0, <2>0 DEF RuntimeInv, Runtime!TypeOK, Runtime!RegisterObserver, Runtime!At
  <2>c. (Runtime!Working(v, Runtime!Starting) => Runtime!Working(v, Runtime!Starting)')
    <3> SUFFICES ASSUME call[c].work = v, call[c].step \in Runtime!Starting
                 PROVE  call'[c].work = v /\ call'[c].step \in Runtime!Starting
      BY <2>a, WorkGoesOn DEF Runtime!Starting
    <3> QED BY <1>0, <2>0 DEF RuntimeInv, Runtime!TypeOK, Runtime!RegisterObserver, Runtime!At,
                              Runtime!Starting
  <2>1. Runtime!Observed(v)' => v \in registered'
    BY <2>0 DEF RuntimeInv, Runtime!TypeOK, Runtime!RegisterObserver, Runtime!Goto, Runtime!At,
                Runtime!remote, Runtime!local, Runtime!Idle, CallsHaveTheirWork,
                ObserversFollowTheWork, Runtime!ObserversFollowTheWork, Runtime!Observed
  <2>2. Runtime!Observed(v)' /\ worktree'[v] = "archived"
         => v \in trouble'.unstopped \/ Runtime!Working(v, {"stop"})'
    BY <1>0, <2>0, <2>b DEF RuntimeInv, Runtime!TypeOK, Runtime!RegisterObserver,
                            Runtime!remote, Runtime!local, ObserversFollowTheWork,
                            Runtime!ObserversFollowTheWork, Runtime!Observed
  <2>3. intent'[v] = "active"
         => \/ Runtime!Observed(v)' \/ Runtime!Working(v, Runtime!Starting)'
            \/ "observer" \in errors' \/ v \in trouble'.adrift
    BY <1>0, <2>0, <2>c DEF RuntimeInv, Runtime!TypeOK, Runtime!RegisterObserver,
                            Runtime!remote, Runtime!local, CallsHaveTheirWork, WatchesAreSound,
                            ObserversFollowTheWork, Runtime!ObserversFollowTheWork,
                            Runtime!Observed, Runtime!Unwatched
  <2> QED BY <2>1, <2>2, <2>3
<1> QED BY <1>1, <1>2, <1>3, <1>4, <1>5, <1>6 DEF RuntimeInv, ObserversFollowTheWork

\* After the first look the observer has its loop, or is cancelled and forgotten and the
\* work is being blocked.
LEMMA FirstLookKeepsTheWatch ==
    ASSUME RuntimeInv, NEW c \in Calls, Runtime!FirstLook(c)
    PROVE  RuntimeInv'
<1>0. /\ call' \in {[call EXCEPT ![c] = Runtime!Idle], [call EXCEPT ![c].step = "block"]}
      /\ trouble' \in {trouble, [trouble EXCEPT !.failed = TRUE]}
      /\ call[c].work \in Works
  BY MachineAssumption DEF RuntimeInv, CallsAreNamed, Runtime!FirstLook, Runtime!Goto,
                           Runtime!Return, Runtime!At, Runtime!Fails, Runtime!remote,
                           Runtime!local, Runtime!Idle, Runtime!Accepted, Runtime!Observable
<1>1. Runtime!TypeOK' /\ CallsAreNamed'
  <2>1. call' \in [Calls -> CallRecords]
    <3>1. [call EXCEPT ![c].step = "block"] \in [Calls -> CallRecords]
      BY CallGoesOn DEF RuntimeInv, CallSteps
    <3> QED BY <1>0, <3>1, CallReturns DEF RuntimeInv
  <2>2. trouble' \in Troubles
    BY <1>0, TroubleStays DEF RuntimeInv, Worse
  <2>3. Runtime!TypeOK'
    BY <1>0, <2>1, <2>2 DEF RuntimeInv, Runtime!TypeOK, Runtime!FirstLook, Runtime!remote,
                            Runtime!local, Runtime!Accepted, Runtime!Observable, CallSteps,
                            CallRecords, Troubles
  <2>4. CallsAreNamed'
    BY <1>0 DEF RuntimeInv, CallsAreNamed, Runtime!TypeOK, Runtime!FirstLook, Runtime!At,
                Runtime!Idle
  <2> QED BY <2>3, <2>4
<1>2. ASSUME process' = "up" PROVE CallsHaveTheirWork'
  BY <1>2, SMTT(40) DEF RuntimeInv, Runtime!TypeOK, Runtime!FirstLook, Runtime!Goto,
                        Runtime!Return, Runtime!At, Runtime!Fails, Runtime!remote,
                        Runtime!local, Runtime!Idle, Runtime!Accepted, Runtime!Observable,
                        CallsHaveTheirWork, CallsAreNamed, WorktreesFollowTheWork, Early,
                        Runtime!Starting
<1>3. ASSUME process' = "up" PROVE WatchesAreSound'
  <2> SUFFICES ASSUME NEW v \in Works
               PROVE  /\ v \in cancelled' => \/ intent'[v] = "ended"
                                              \/ /\ Runtime!Unwatched(v)' /\ ~Runtime!Working(v, Early)'
                                                 /\ intent'[v] # "none"
                      /\ v \in registered' /\ observer'[v] = "none"
                         => \/ Runtime!Working(v, {"look"})' \/ "observer" \in errors'
                            \/ intent'[v] = "ended"
    BY DEF WatchesAreSound, Early, Runtime!Working, Runtime!Unwatched
  <2>0. process = "up"
    BY <1>3 DEF Runtime!FirstLook, Runtime!local
  <2>a. \A d \in Calls \ {c} : call'[d] = call[d]
    BY <1>0 DEF RuntimeInv, Runtime!TypeOK
  <2>b. /\ call[c].step = "look" /\ call'[c].step \in {"idle", "block"}
        /\ \A d \in Calls \ {c} : call[d].work = call[c].work => call[d].step \notin Runtime!Starting
    BY <1>0, <2>0 DEF RuntimeInv, Runtime!TypeOK, Runtime!FirstLook, Runtime!At, Runtime!Idle,
                      CallsHaveTheirWork, Runtime!Starting
  <2>c. CASE v = call[c].work
    <3>1. ~Runtime!Working(v, Early)'
      BY <2>a, <2>b, <2>c DEF Runtime!Working, Early, Runtime!Starting
    <3>2. v \in cancelled => intent[v] = "ended"
      BY <2>0, <2>b, <2>c DEF RuntimeInv, WatchesAreSound, Runtime!Working, Early
    <3>3. observer[v] = "none" /\ intent[v] # "none"
      BY <2>0, <2>b, <2>c DEF RuntimeInv, CallsHaveTheirWork, Early, Runtime!Starting
    <3> QED BY <1>0, <2>c, <3>1, <3>2, <3>3
            DEF RuntimeInv, Runtime!TypeOK, Runtime!FirstLook, Runtime!Unwatched, Runtime!remote
  <2>d. CASE v # call[c].work
    <3>1. Runtime!Working(v, Early)' => Runtime!Working(v, Early)
      BY <2>a, <2>b, WorkWasThere DEF Early
    <3>2. Runtime!Working(v, {"look"}) => Runtime!Working(v, {"look"})'
      BY <2>a, <2>d, WorkGoesOn
    <3> QED BY <1>0, <2>0, <2>d, <3>1, <3>2
            DEF RuntimeInv, Runtime!TypeOK, Runtime!FirstLook, Runtime!Unwatched,
                Runtime!remote, Runtime!local, WatchesAreSound
  <2> QED BY <2>c, <2>d
<1>4. ASSUME process' = "up" PROVE WorktreesFollowTheWork'
  BY <1>4 DEF RuntimeInv, Runtime!TypeOK, Runtime!FirstLook, Runtime!Goto, Runtime!Return,
              Runtime!At, Runtime!Fails, Runtime!remote, Runtime!local, Runtime!Idle,
              Runtime!Accepted, Runtime!Observable, WorktreesFollowTheWork
<1>5. ASSUME process' = "up" PROVE ErrorsHaveACause'
  BY <1>5 DEF RuntimeInv, Runtime!TypeOK, Runtime!FirstLook, Runtime!Goto, Runtime!Return,
              Runtime!At, Runtime!Fails, Runtime!remote, Runtime!local, Runtime!Idle,
              Runtime!Accepted, Runtime!Observable, WorktreesFollowTheWork, WatchesAreSound,
              Runtime!Unwatched, ErrorsHaveACause
<1>6. ASSUME process' = "up" PROVE ObserversFollowTheWork'
  <2> SUFFICES ASSUME NEW v \in Works
               PROVE  /\ Runtime!Observed(v)' => v \in registered'
                      /\ Runtime!Observed(v)' /\ worktree'[v] = "archived"
                         => v \in trouble'.unstopped \/ Runtime!Working(v, {"stop"})'
                      /\ intent'[v] = "active"
                         => \/ Runtime!Observed(v)' \/ Runtime!Working(v, Runtime!Starting)'
                            \/ "observer" \in errors' \/ v \in trouble'.adrift
    BY DEF ObserversFollowTheWork, Runtime!ObserversFollowTheWork, Runtime!Working,
           Runtime!Observed, Runtime!Starting
  <2>0. /\ process = "up"
        /\ trouble.adrift \subseteq trouble'.adrift /\ trouble.unstopped \subseteq trouble'.unstopped
    BY <1>0, <1>6, TroubleStays DEF RuntimeInv, Worse, Runtime!FirstLook, Runtime!local
  <2>a. \A d \in Calls \ {c} : call'[d] = call[d]
    BY <1>0 DEF RuntimeInv, Runtime!TypeOK
  <2>b. (Runtime!Working(v, {"stop"}) => Runtime!Working(v, {"stop"})')
    <3> SUFFICES ASSUME call[c].work = v, call[c].step = "stop"
                 PROVE  call'[c].work = v /\ call'[c].step = "stop"
      BY <2>a, WorkGoesOn
    <3> QED BY <1>0, <2>0 DEF RuntimeInv, Runtime!TypeOK, Runtime!FirstLook, Runtime!At
  <2>c. \/ v = call[c].work
        \/ (Runtime!Working(v, Runtime!Starting) => Runtime!Working(v, Runtime!Starting)')
    <3> SUFFICES ASSUME call[c].work = v, call[c].step \in Runtime!Starting, v # call[c].work
                 PROVE  call'[c].work = v /\ call'[c].step \in Runtime!Starting
      BY <2>a, WorkGoesOn DEF Runtime!Starting
    <3> QED BY <1>0, <2>0 DEF RuntimeInv, Runtime!TypeOK, Runtime!FirstLook, Runtime!At,
                              Runtime!Starting
  <2>1. Runtime!Observed(v)' => v \in registered'
    BY <2>0 DEF RuntimeInv, Runtime!TypeOK, Runtime!FirstLook, Runtime!Goto, Runtime!Return,
                Runtime!At, Runtime!Fails, Runtime!remote, Runtime!local, Runtime!Idle,
                Runtime!Accepted, Runtime!Observable, CallsHaveTheirWork,
                ObserversFollowTheWork, Runtime!ObserversFollowTheWork, Runtime!Observed
  <2>2. Runtime!Observed(v)' /\ worktree'[v] = "archived"
         => v \in trouble'.unstopped \/ Runtime!Working(v, {"stop"})'
    BY <1>0, <2>0, <2>b DEF RuntimeInv, Runtime!TypeOK, Runtime!FirstLook, Runtime!remote,
                            Runtime!local, Runtime!Accepted, Runtime!Observable,
                            ObserversFollowTheWork, Runtime!ObserversFollowTheWork,
                            Runtime!Observed
  <2>3. intent'[v] = "active"
         => \/ Runtime!Observed(v)' \/ Runtime!Working(v, Runtime!Starting)'
            \/ "observer" \in errors' \/ v \in trouble'.adrift
    <3>1. CASE v # call[c].work
      BY <1>0, <2>0, <2>c, <3>1 DEF RuntimeInv, Runtime!TypeOK, Runtime!FirstLook,
                                    Runtime!remote, Runtime!local, ObserversFollowTheWork,
                                    Runtime!ObserversFollowTheWork, Runtime!Observed
    <3>2. CASE v = call[c].work
      <4>1. v \in cancelled => intent[v] = "ended"
        BY <2>0, <3>2 DEF RuntimeInv, WatchesAreSound, Runtime!FirstLook, Runtime!At,
                          Runtime!Working, Early
      <4>2. call' = [call EXCEPT ![c].step = "block"] => Runtime!Working(v, Runtime!Starting)'
        BY <3>2 DEF RuntimeInv, Runtime!TypeOK, Runtime!Working, Runtime!Starting
      <4> QED BY <1>0, <3>2, <4>1, <4>2
                 DEF RuntimeInv, Runtime!TypeOK, Runtime!FirstLook, Runtime!Goto,
                     Runtime!remote, Runtime!Observed
    <3> QED BY <3>1, <3>2
  <2> QED BY <2>1, <2>2, <2>3
<1> QED BY <1>1, <1>2, <1>3, <1>4, <1>5, <1>6 DEF RuntimeInv, ObserversFollowTheWork

\* Work that cannot be marked blocked is adrift.
LEMMA MarkWorkBlockedKeepsTheWatch ==
    ASSUME RuntimeInv, NEW c \in Calls, Runtime!MarkWorkBlocked(c)
    PROVE  RuntimeInv'
<1>0. /\ call' = [call EXCEPT ![c] = Runtime!Idle]
      /\ trouble' \in {trouble, [trouble EXCEPT !.adrift = @ \cup {call[c].work}],
                       [trouble EXCEPT !.failed = TRUE, !.adrift = @ \cup {call[c].work}]}
      /\ call[c].work \in Works
  BY MachineAssumption DEF RuntimeInv, CallsAreNamed, Runtime!MarkWorkBlocked, Runtime!Return,
                           Runtime!At, Runtime!local, Runtime!watch, Runtime!Idle,
                           Runtime!Blockable
<1>1. Runtime!TypeOK' /\ CallsAreNamed'
  <2>1. call' \in [Calls -> CallRecords]
    BY <1>0, CallGoesOn, CallBegins, CallReturns DEF RuntimeInv, CallSteps
  <2>2. trouble' \in Troubles
    BY <1>0, TroubleStays DEF RuntimeInv, Worse
  <2>3. Runtime!TypeOK'
    BY <1>0, <2>1, <2>2 DEF RuntimeInv, Runtime!TypeOK, Runtime!MarkWorkBlocked, Runtime!local,
                            Runtime!watch, Runtime!Blockable, Runtime!Open, CallSteps,
                            CallRecords, Troubles
  <2>4. CallsAreNamed'
    BY <1>0 DEF RuntimeInv, CallsAreNamed, Runtime!TypeOK, Runtime!MarkWorkBlocked, Runtime!At,
                Runtime!Idle
  <2> QED BY <2>3, <2>4
<1>2. ASSUME process' = "up" PROVE CallsHaveTheirWork'
  <2>1. /\ process = "up" /\ call'[c].step = "idle" /\ \A d \in Calls \ {c} : call'[d] = call[d]
        /\ UNCHANGED <<registered, cancelled, observer>>
    BY <1>0, <1>2 DEF RuntimeInv, Runtime!TypeOK, Runtime!MarkWorkBlocked, Runtime!Idle,
                      Runtime!watch, Runtime!local
  <2>2. \A v \in Works : /\ intent[v] # "none" => intent'[v] # "none"
                         /\ intent[v] = "ended" => intent'[v] = "ended"
    BY <1>0 DEF RuntimeInv, Runtime!TypeOK, Runtime!MarkWorkBlocked, Runtime!Blockable
  <2>3. \A d \in Calls : call[d].step # "idle" => call[d].work \in Works
    BY DEF RuntimeInv, CallsAreNamed, Runtime!At
  <2> QED BY <2>1, <2>2, <2>3 DEF RuntimeInv, CallsHaveTheirWork, Runtime!Starting, Runtime!At,
                                  Early
<1>3. ASSUME process' = "up" PROVE WatchesAreSound'
  BY <1>3 DEF RuntimeInv, Runtime!TypeOK, Runtime!MarkWorkBlocked, Runtime!Return, Runtime!At,
              Runtime!local, Runtime!watch, Runtime!Idle, Runtime!Blockable, CallsHaveTheirWork,
              WatchesAreSound, Runtime!Unwatched, Runtime!Working, Early, Runtime!Starting
<1>4. ASSUME process' = "up" PROVE WorktreesFollowTheWork'
  BY <1>4 DEF RuntimeInv, Runtime!TypeOK, Runtime!MarkWorkBlocked, Runtime!Return, Runtime!At,
              Runtime!local, Runtime!watch, Runtime!Idle, Runtime!Blockable,
              WorktreesFollowTheWork
<1>5. ASSUME process' = "up" PROVE ErrorsHaveACause'
  BY <1>5 DEF RuntimeInv, Runtime!TypeOK, Runtime!MarkWorkBlocked, Runtime!Return, Runtime!At,
              Runtime!local, Runtime!watch, Runtime!Idle, Runtime!Blockable,
              WorktreesFollowTheWork, WatchesAreSound, Runtime!Unwatched, ErrorsHaveACause
<1>6. ASSUME process' = "up" PROVE ObserversFollowTheWork'
  <2> SUFFICES ASSUME NEW v \in Works
               PROVE  /\ Runtime!Observed(v)' => v \in registered'
                      /\ Runtime!Observed(v)' /\ worktree'[v] = "archived"
                         => v \in trouble'.unstopped \/ Runtime!Working(v, {"stop"})'
                      /\ intent'[v] = "active"
                         => \/ Runtime!Observed(v)' \/ Runtime!Working(v, Runtime!Starting)'
                            \/ "observer" \in errors' \/ v \in trouble'.adrift
    BY DEF ObserversFollowTheWork, Runtime!ObserversFollowTheWork, Runtime!Working,
           Runtime!Observed, Runtime!Starting
  <2>0. /\ process = "up"
        /\ trouble.adrift \subseteq trouble'.adrift /\ trouble.unstopped \subseteq trouble'.unstopped
    BY <1>0, <1>6, TroubleStays DEF RuntimeInv, Worse, Runtime!MarkWorkBlocked, Runtime!local
  <2>a. \A d \in Calls \ {c} : call'[d] = call[d]
    BY <1>0 DEF RuntimeInv, Runtime!TypeOK
  <2>b. (Runtime!Working(v, {"stop"}) => Runtime!Working(v, {"stop"})')
    <3> SUFFICES ASSUME call[c].work = v, call[c].step = "stop"
                 PROVE  call'[c].work = v /\ call'[c].step = "stop"
      BY <2>a, WorkGoesOn
    <3> QED BY <1>0, <2>0 DEF RuntimeInv, Runtime!TypeOK, Runtime!MarkWorkBlocked, Runtime!At
  <2>c. \/ v = call[c].work
        \/ (Runtime!Working(v, Runtime!Starting) => Runtime!Working(v, Runtime!Starting)')
    <3> SUFFICES ASSUME call[c].work = v, call[c].step \in Runtime!Starting, v # call[c].work
                 PROVE  call'[c].work = v /\ call'[c].step \in Runtime!Starting
      BY <2>a, WorkGoesOn DEF Runtime!Starting
    <3> QED BY <1>0, <2>0 DEF RuntimeInv, Runtime!TypeOK, Runtime!MarkWorkBlocked, Runtime!At,
                              Runtime!Starting
  <2>1. Runtime!Observed(v)' => v \in registered'
    BY <2>0 DEF RuntimeInv, Runtime!TypeOK, Runtime!MarkWorkBlocked, Runtime!Return, Runtime!At,
                Runtime!local, Runtime!watch, Runtime!Idle, Runtime!Blockable,
                CallsHaveTheirWork, ObserversFollowTheWork, Runtime!ObserversFollowTheWork,
                Runtime!Observed
  <2>2. Runtime!Observed(v)' /\ worktree'[v] = "archived"
         => v \in trouble'.unstopped \/ Runtime!Working(v, {"stop"})'
    BY <1>0, <2>0, <2>b DEF RuntimeInv, Runtime!TypeOK, Runtime!MarkWorkBlocked, Runtime!local,
                            Runtime!watch, Runtime!Blockable, ObserversFollowTheWork,
                            Runtime!ObserversFollowTheWork, Runtime!Observed
  <2>3. intent'[v] = "active"
         => \/ Runtime!Observed(v)' \/ Runtime!Working(v, Runtime!Starting)'
            \/ "observer" \in errors' \/ v \in trouble'.adrift
    <3>1. CASE v # call[c].work
      BY <1>0, <2>0, <2>c, <3>1 DEF RuntimeInv, Runtime!TypeOK, Runtime!MarkWorkBlocked,
                                    Runtime!watch, Runtime!local, ObserversFollowTheWork,
                                    Runtime!ObserversFollowTheWork, Runtime!Observed
    <3>2. CASE v = call[c].work
      <4>1. CASE intent' = [intent EXCEPT ![v] = "blocked"]
        BY <4>1 DEF RuntimeInv, Runtime!TypeOK
      <4>2. CASE trouble' = [trouble EXCEPT !.adrift = @ \cup {v}]
        BY <4>2 DEF RuntimeInv, Runtime!TypeOK
      <4>3. CASE trouble' = [trouble EXCEPT !.failed = TRUE, !.adrift = @ \cup {v}]
        BY <4>3 DEF RuntimeInv, Runtime!TypeOK
      <4> QED BY <3>2, <4>1, <4>2, <4>3 DEF Runtime!MarkWorkBlocked
    <3> QED BY <3>1, <3>2
  <2> QED BY <2>1, <2>2, <2>3
<1> QED BY <1>1, <1>2, <1>3, <1>4, <1>5, <1>6 DEF RuntimeInv, ObserversFollowTheWork

\* An observer is stopped after the end of its work, unless the list of work fails.
LEMMA StopObserverKeepsTheWatch ==
    ASSUME RuntimeInv, NEW c \in Calls, Runtime!StopObserver(c)
    PROVE  RuntimeInv'
<1>0. /\ call' = [call EXCEPT ![c] = Runtime!Idle]
      /\ trouble' \in {trouble, [trouble EXCEPT !.failed = TRUE, !.unstopped = @ \cup {call[c].work}]}
      /\ call[c].work \in Works
  BY MachineAssumption DEF RuntimeInv, CallsAreNamed, Runtime!StopObserver, Runtime!Return,
                           Runtime!At, Runtime!remote, Runtime!local, Runtime!Idle
<1>1. Runtime!TypeOK' /\ CallsAreNamed'
  <2>1. call' \in [Calls -> CallRecords]
    BY <1>0, CallGoesOn, CallBegins, CallReturns DEF RuntimeInv, CallSteps
  <2>2. trouble' \in Troubles
    BY <1>0, TroubleStays DEF RuntimeInv, Worse
  <2>3. Runtime!TypeOK'
    BY <1>0, <2>1, <2>2 DEF RuntimeInv, Runtime!TypeOK, Runtime!StopObserver, Runtime!remote,
                            Runtime!local, CallSteps, CallRecords, Troubles
  <2>4. CallsAreNamed'
    BY <1>0 DEF RuntimeInv, CallsAreNamed, Runtime!TypeOK, Runtime!StopObserver, Runtime!At,
                Runtime!Idle
  <2> QED BY <2>3, <2>4
<1>2. ASSUME process' = "up" PROVE CallsHaveTheirWork'
  BY <1>2 DEF RuntimeInv, Runtime!TypeOK, Runtime!StopObserver, Runtime!Return, Runtime!At,
              Runtime!remote, Runtime!local, Runtime!Idle, CallsHaveTheirWork, CallsAreNamed,
              WorktreesFollowTheWork, Early, Runtime!Starting
<1>3. ASSUME process' = "up" PROVE WatchesAreSound'
  BY <1>3 DEF RuntimeInv, Runtime!TypeOK, Runtime!StopObserver, Runtime!Return, Runtime!At,
              Runtime!remote, Runtime!local, Runtime!Idle, CallsHaveTheirWork, WatchesAreSound,
              Runtime!Unwatched, Runtime!Working, Early, Runtime!Starting
<1>4. ASSUME process' = "up" PROVE WorktreesFollowTheWork'
  BY <1>4 DEF RuntimeInv, Runtime!TypeOK, Runtime!StopObserver, Runtime!Return, Runtime!At,
              Runtime!remote, Runtime!local, Runtime!Idle, WorktreesFollowTheWork
<1>5. ASSUME process' = "up" PROVE ErrorsHaveACause'
  BY <1>5 DEF RuntimeInv, Runtime!TypeOK, Runtime!StopObserver, Runtime!Return, Runtime!At,
              Runtime!remote, Runtime!local, Runtime!Idle, WorktreesFollowTheWork,
              WatchesAreSound, Runtime!Unwatched, ErrorsHaveACause
<1>6. ASSUME process' = "up" PROVE ObserversFollowTheWork'
  <2> SUFFICES ASSUME NEW v \in Works
               PROVE  /\ Runtime!Observed(v)' => v \in registered'
                      /\ Runtime!Observed(v)' /\ worktree'[v] = "archived"
                         => v \in trouble'.unstopped \/ Runtime!Working(v, {"stop"})'
                      /\ intent'[v] = "active"
                         => \/ Runtime!Observed(v)' \/ Runtime!Working(v, Runtime!Starting)'
                            \/ "observer" \in errors' \/ v \in trouble'.adrift
    BY DEF ObserversFollowTheWork, Runtime!ObserversFollowTheWork, Runtime!Working,
           Runtime!Observed, Runtime!Starting
  <2>0. /\ process = "up"
        /\ trouble.adrift \subseteq trouble'.adrift /\ trouble.unstopped \subseteq trouble'.unstopped
    BY <1>0, <1>6, TroubleStays DEF RuntimeInv, Worse, Runtime!StopObserver, Runtime!local
  <2>a. \A d \in Calls \ {c} : call'[d] = call[d]
    BY <1>0 DEF RuntimeInv, Runtime!TypeOK
  <2>b. v = call[c].work \/ (Runtime!Working(v, {"stop"}) => Runtime!Working(v, {"stop"})')
    <3> SUFFICES ASSUME call[c].work = v, call[c].step = "stop", v # call[c].work
                 PROVE  call'[c].work = v /\ call'[c].step = "stop"
      BY <2>a, WorkGoesOn
    <3> QED BY <1>0, <2>0 DEF RuntimeInv, Runtime!TypeOK, Runtime!StopObserver, Runtime!At
  <2>c. (Runtime!Working(v, Runtime!Starting) => Runtime!Working(v, Runtime!Starting)')
    <3> SUFFICES ASSUME call[c].work = v, call[c].step \in Runtime!Starting
                 PROVE  call'[c].work = v /\ call'[c].step \in Runtime!Starting
      BY <2>a, WorkGoesOn DEF Runtime!Starting
    <3> QED BY <1>0, <2>0 DEF RuntimeInv, Runtime!TypeOK, Runtime!StopObserver, Runtime!At,
                              Runtime!Starting
  <2>1. Runtime!Observed(v)' => v \in registered'
    BY <2>0 DEF RuntimeInv, Runtime!TypeOK, Runtime!StopObserver, Runtime!Return, Runtime!At,
                Runtime!remote, Runtime!local, Runtime!Idle, CallsHaveTheirWork,
                ObserversFollowTheWork, Runtime!ObserversFollowTheWork, Runtime!Observed
  <2>2. Runtime!Observed(v)' /\ worktree'[v] = "archived"
         => v \in trouble'.unstopped \/ Runtime!Working(v, {"stop"})'
    <3>1. CASE v # call[c].work
      BY <1>0, <2>0, <2>b, <3>1 DEF RuntimeInv, Runtime!TypeOK, Runtime!StopObserver,
                                    Runtime!remote, ObserversFollowTheWork,
                                    Runtime!ObserversFollowTheWork, Runtime!Observed
    <3>2. CASE v = call[c].work
      <4>1. Runtime!Observed(v) => v \in registered
        BY <2>0, <1>0 DEF RuntimeInv, ObserversFollowTheWork, Runtime!ObserversFollowTheWork
      <4>2. CASE trouble' = [trouble EXCEPT !.failed = TRUE, !.unstopped = @ \cup {v}]
        BY <4>2 DEF RuntimeInv, Runtime!TypeOK
      <4>3. CASE worktree[v] = "none"
        BY <3>2, <4>3 DEF Runtime!StopObserver, Runtime!remote
      <4>4. CASE /\ registered' = registered \ {v}
                 /\ cancelled' = IF v \in registered THEN cancelled \cup {v} ELSE cancelled
        BY <4>1, <4>4 DEF Runtime!StopObserver, Runtime!Observed
      <4> QED BY <3>2, <4>2, <4>3, <4>4 DEF Runtime!StopObserver
    <3> QED BY <3>1, <3>2
  <2>3. intent'[v] = "active"
         => \/ Runtime!Observed(v)' \/ Runtime!Working(v, Runtime!Starting)'
            \/ "observer" \in errors' \/ v \in trouble'.adrift
    BY <1>0, <2>0, <2>c DEF RuntimeInv, Runtime!TypeOK, Runtime!StopObserver, Runtime!remote,
                            Runtime!local, CallsHaveTheirWork, WatchesAreSound,
                            ObserversFollowTheWork, Runtime!ObserversFollowTheWork,
                            Runtime!Observed, Runtime!Unwatched
  <2> QED BY <2>1, <2>2, <2>3
<1> QED BY <1>1, <1>2, <1>3, <1>4, <1>5, <1>6 DEF RuntimeInv, ObserversFollowTheWork

\* Ended work has its observer stopped next; resumed work that is not observed is adrift.
LEMMA UpdateWorkKeepsTheWatch ==
    ASSUME RuntimeInv, NEW c \in Calls, NEW w \in Works, NEW to \in Runtime!Open \cup {"ended"},
           Runtime!UpdateWork(c, w, to)
    PROVE  RuntimeInv'
<1>0. /\ call' \in {[call EXCEPT ![c] = [step |-> "stop", work |-> w]], call}
      /\ trouble' \in {trouble, [trouble EXCEPT !.adrift = @ \cup {w}],
                       [trouble EXCEPT !.failed = TRUE, !.adrift = @ \cup {w}, !.unstopped = @ \cup {w}]}
      /\ w \in Works
  BY DEF RuntimeInv, CallsAreNamed, Runtime!UpdateWork, Runtime!At, Runtime!local,
         Runtime!watch, Runtime!Idle, Runtime!SetStatus, Runtime!ValidTransition, Runtime!Open
<1>1. Runtime!TypeOK' /\ CallsAreNamed'
  <2>1. call' \in [Calls -> CallRecords]
    BY <1>0, CallGoesOn, CallBegins, CallReturns DEF RuntimeInv, CallSteps
  <2>2. trouble' \in Troubles
    BY <1>0, TroubleStays DEF RuntimeInv, Worse
  <2>3. Runtime!TypeOK'
    BY <1>0, <2>1, <2>2 DEF RuntimeInv, Runtime!TypeOK, Runtime!UpdateWork, Runtime!local,
                            Runtime!watch, Runtime!SetStatus, Runtime!ValidTransition,
                            Runtime!Open, CallSteps, CallRecords, Troubles
  <2>4. CallsAreNamed'
    BY <1>0 DEF RuntimeInv, CallsAreNamed, Runtime!TypeOK, Runtime!UpdateWork, Runtime!At,
                Runtime!Idle
  <2> QED BY <2>3, <2>4
<1>2. ASSUME process' = "up" PROVE CallsHaveTheirWork'
  BY <1>2 DEF RuntimeInv, Runtime!TypeOK, Runtime!UpdateWork, Runtime!At, Runtime!local,
              Runtime!watch, Runtime!Idle, Runtime!SetStatus, Runtime!ValidTransition,
              Runtime!Open, CallsHaveTheirWork, CallsAreNamed, WorktreesFollowTheWork, Early,
              Runtime!Starting
<1>3. ASSUME process' = "up" PROVE WatchesAreSound'
  <2> SUFFICES ASSUME NEW v \in Works
               PROVE  /\ v \in cancelled' => \/ intent'[v] = "ended"
                                              \/ /\ Runtime!Unwatched(v)' /\ ~Runtime!Working(v, Early)'
                                                 /\ intent'[v] # "none"
                      /\ v \in registered' /\ observer'[v] = "none"
                         => \/ Runtime!Working(v, {"look"})' \/ "observer" \in errors'
                            \/ intent'[v] = "ended"
    BY DEF WatchesAreSound, Early, Runtime!Working, Runtime!Unwatched
  <2>0. process = "up"
    BY <1>3 DEF Runtime!UpdateWork, Runtime!local
  <2>a. \A d \in Calls \ {c} : call'[d] = call[d]
    BY <1>0 DEF RuntimeInv, Runtime!TypeOK
  <2>b. call[c].step = "idle" /\ call'[c].step \in {"idle", "stop"}
    BY <1>0 DEF RuntimeInv, Runtime!TypeOK, Runtime!UpdateWork, Runtime!At
  <2>1. Runtime!Working(v, Early)' => Runtime!Working(v, Early)
    BY <2>a, <2>b, WorkWasThere DEF Early
  <2>2. Runtime!Working(v, {"look"}) => Runtime!Working(v, {"look"})'
    BY <2>a, <2>b, WorkGoesOn
  <2>3. (intent[v] = "ended" => intent'[v] = "ended") /\ (intent[v] # "none" => intent'[v] # "none")
    <3>1. /\ intent' = [intent EXCEPT ![w] = to] /\ intent[w] \notin {"none", "ended"} /\ to # "none"
      BY DEF Runtime!UpdateWork, Runtime!SetStatus, Runtime!ValidTransition, Runtime!Open
    <3>2. intent \in [Works -> Runtime!Open \cup {"none", "ended"}]
      BY DEF RuntimeInv, Runtime!TypeOK
    <3> QED BY <3>1, <3>2
  <2> QED BY <2>0, <2>1, <2>2, <2>3
          DEF RuntimeInv, Runtime!UpdateWork, Runtime!Unwatched, Runtime!watch, Runtime!local,
              WatchesAreSound
<1>4. ASSUME process' = "up" PROVE WorktreesFollowTheWork'
  BY <1>4 DEF RuntimeInv, Runtime!TypeOK, Runtime!UpdateWork, Runtime!At, Runtime!local,
              Runtime!watch, Runtime!Idle, Runtime!SetStatus, Runtime!ValidTransition,
              Runtime!Open, WorktreesFollowTheWork
<1>5. ASSUME process' = "up" PROVE ErrorsHaveACause'
  BY <1>5 DEF RuntimeInv, Runtime!TypeOK, Runtime!UpdateWork, Runtime!At, Runtime!local,
              Runtime!watch, Runtime!Idle, Runtime!SetStatus, Runtime!ValidTransition,
              Runtime!Open, WorktreesFollowTheWork, WatchesAreSound, Runtime!Unwatched,
              ErrorsHaveACause
<1>6. ASSUME process' = "up" PROVE ObserversFollowTheWork'
  <2> SUFFICES ASSUME NEW v \in Works
               PROVE  /\ Runtime!Observed(v)' => v \in registered'
                      /\ Runtime!Observed(v)' /\ worktree'[v] = "archived"
                         => v \in trouble'.unstopped \/ Runtime!Working(v, {"stop"})'
                      /\ intent'[v] = "active"
                         => \/ Runtime!Observed(v)' \/ Runtime!Working(v, Runtime!Starting)'
                            \/ "observer" \in errors' \/ v \in trouble'.adrift
    BY DEF ObserversFollowTheWork, Runtime!ObserversFollowTheWork, Runtime!Working,
           Runtime!Observed, Runtime!Starting
  <2>0. /\ process = "up"
        /\ trouble.adrift \subseteq trouble'.adrift /\ trouble.unstopped \subseteq trouble'.unstopped
    BY <1>0, <1>6, TroubleStays DEF RuntimeInv, Worse, Runtime!UpdateWork, Runtime!local
  <2>a. \A d \in Calls \ {c} : call'[d] = call[d]
    BY <1>0 DEF RuntimeInv, Runtime!TypeOK
  <2>b. (Runtime!Working(v, {"stop"}) => Runtime!Working(v, {"stop"})')
    <3> SUFFICES ASSUME call[c].work = v, call[c].step = "stop"
                 PROVE  call'[c].work = v /\ call'[c].step = "stop"
      BY <2>a, WorkGoesOn
    <3> QED BY <1>0, <2>0 DEF RuntimeInv, Runtime!TypeOK, Runtime!UpdateWork, Runtime!At
  <2>c. (Runtime!Working(v, Runtime!Starting) => Runtime!Working(v, Runtime!Starting)')
    <3> SUFFICES ASSUME call[c].work = v, call[c].step \in Runtime!Starting
                 PROVE  call'[c].work = v /\ call'[c].step \in Runtime!Starting
      BY <2>a, WorkGoesOn DEF Runtime!Starting
    <3> QED BY <1>0, <2>0 DEF RuntimeInv, Runtime!TypeOK, Runtime!UpdateWork, Runtime!At,
                              Runtime!Starting
  <2>1. Runtime!Observed(v)' => v \in registered'
    BY <2>0 DEF RuntimeInv, Runtime!TypeOK, Runtime!UpdateWork, Runtime!At, Runtime!local,
                Runtime!watch, Runtime!Idle, Runtime!SetStatus, Runtime!ValidTransition,
                Runtime!Open, CallsHaveTheirWork, ObserversFollowTheWork,
                Runtime!ObserversFollowTheWork, Runtime!Observed
  <2>2. Runtime!Observed(v)' /\ worktree'[v] = "archived"
         => v \in trouble'.unstopped \/ Runtime!Working(v, {"stop"})'
    <3>1. CASE worktree[v] = "archived"
      BY <1>0, <2>0, <2>b, <3>1 DEF RuntimeInv, Runtime!UpdateWork, Runtime!watch,
                                    ObserversFollowTheWork, Runtime!ObserversFollowTheWork,
                                    Runtime!Observed
    <3>2. CASE worktree[v] # "archived" /\ worktree'[v] = "archived"
      <4>1. v = w /\ to = "ended"
        BY <3>2 DEF RuntimeInv, Runtime!TypeOK, Runtime!UpdateWork, Runtime!SetStatus
      <4>2. CASE call' = [call EXCEPT ![c] = [step |-> "stop", work |-> w]]
        BY <4>1, <4>2 DEF RuntimeInv, Runtime!TypeOK, Runtime!Working
      <4>3. CASE trouble' = [trouble EXCEPT !.failed = TRUE, !.adrift = @ \cup {w}, !.unstopped = @ \cup {w}]
        BY <4>1, <4>3 DEF RuntimeInv, Runtime!TypeOK
      <4> QED BY <4>1, <4>2, <4>3 DEF Runtime!UpdateWork
    <3> QED BY <3>1, <3>2
  <2>3. intent'[v] = "active"
         => \/ Runtime!Observed(v)' \/ Runtime!Working(v, Runtime!Starting)'
            \/ "observer" \in errors' \/ v \in trouble'.adrift
    <3>1. CASE intent[v] = "active"
      BY <2>0, <2>c, <3>1 DEF RuntimeInv, Runtime!UpdateWork, Runtime!watch, Runtime!local,
                              ObserversFollowTheWork, Runtime!ObserversFollowTheWork,
                              Runtime!Observed
    <3>2. CASE intent[v] # "active" /\ intent'[v] = "active"
      <4>1. v = w /\ to = "active" /\ intent[w] = "blocked"
        BY <3>2 DEF RuntimeInv, Runtime!TypeOK, Runtime!UpdateWork, Runtime!SetStatus,
                    Runtime!ValidTransition
      <4>1a. CASE Runtime!Working(w, Runtime!Starting)
        BY <2>c, <4>1, <4>1a
      <4>2. CASE Runtime!Unwatched(w) /\ ~Runtime!Working(w, Runtime!Starting)
        <5>1. CASE trouble' = [trouble EXCEPT !.adrift = @ \cup {w}]
          BY <4>1, <5>1 DEF RuntimeInv, Runtime!TypeOK
        <5>2. CASE trouble' = [trouble EXCEPT !.failed = TRUE, !.adrift = @ \cup {w}, !.unstopped = @ \cup {w}]
          BY <4>1, <5>2 DEF RuntimeInv, Runtime!TypeOK
        <5> QED BY <4>1, <4>2, <5>1, <5>2 DEF Runtime!UpdateWork
      <4>3. CASE ~Runtime!Unwatched(w) /\ observer[w] # "none"
        BY <2>0, <4>1, <4>3 DEF RuntimeInv, WatchesAreSound, Runtime!Unwatched,
                                Runtime!Observed, Runtime!UpdateWork, Runtime!watch
      <4>4. CASE w \in registered /\ observer[w] = "none"
        <5>1. Runtime!Working(w, {"look"}) => Runtime!Working(w, Runtime!Starting)
          BY DEF Runtime!Working, Runtime!Starting
        <5> QED BY <2>0, <2>c, <4>1, <4>4, <5>1
                   DEF RuntimeInv, WatchesAreSound, Runtime!UpdateWork, Runtime!local
      <4> QED BY <4>1a, <4>2, <4>3, <4>4 DEF Runtime!Unwatched
    <3> QED BY <3>1, <3>2
  <2> QED BY <2>1, <2>2, <2>3
<1> QED BY <1>1, <1>2, <1>3, <1>4, <1>5, <1>6 DEF RuntimeInv, ObserversFollowTheWork

\* Another session's end of the work leaves the observer unstopped, and that is noted.
LEMMA EndElsewhereKeepsTheWatch ==
    ASSUME RuntimeInv, NEW w \in Works, Runtime!EndElsewhere(w)
    PROVE  RuntimeInv'
<1> USE DEF RuntimeInv, Runtime!TypeOK, Runtime!EndElsewhere, Runtime!local, Runtime!watch,
            Runtime!SetStatus, Runtime!ValidTransition, Runtime!Open
<1>1. Runtime!TypeOK' /\ CallsAreNamed'
  BY DEF CallsAreNamed, Runtime!At
<1>2. ASSUME process' = "up" PROVE CallsHaveTheirWork'
  BY <1>2 DEF Runtime!At, CallsHaveTheirWork, CallsAreNamed, WorktreesFollowTheWork, Early,
              Runtime!Starting
<1>3. ASSUME process' = "up" PROVE WatchesAreSound'
  BY <1>3 DEF Runtime!At, CallsHaveTheirWork, WatchesAreSound, Runtime!Unwatched,
              Runtime!Working, Early, Runtime!Starting
<1>4. ASSUME process' = "up" PROVE WorktreesFollowTheWork'
  BY <1>4 DEF WorktreesFollowTheWork
<1>5. ASSUME process' = "up" PROVE ErrorsHaveACause'
  BY <1>5 DEF WorktreesFollowTheWork, WatchesAreSound, Runtime!Unwatched, ErrorsHaveACause
<1>6. ASSUME process' = "up" PROVE ObserversFollowTheWork'
  BY <1>6 DEF Runtime!At, CallsHaveTheirWork, WatchesAreSound, WorktreesFollowTheWork,
              ObserversFollowTheWork, Runtime!ObserversFollowTheWork, Runtime!Unwatched,
              Runtime!Observed, Runtime!Working, Runtime!Starting, Early
<1> QED BY <1>1, <1>2, <1>3, <1>4, <1>5, <1>6 DEF ObserversFollowTheWork

\* A loop that goes to look is still a loop.
LEMMA TickKeepsTheWatch ==
    ASSUME RuntimeInv, NEW w \in Works, Runtime!Tick(w)
    PROVE  RuntimeInv'
<1> USE DEF RuntimeInv, Runtime!TypeOK, Runtime!Tick, Runtime!remote, Runtime!local
<1>1. Runtime!TypeOK' /\ CallsAreNamed'
  BY DEF CallsAreNamed, Runtime!At
<1>2. ASSUME process' = "up" PROVE CallsHaveTheirWork'
  BY <1>2 DEF Runtime!At, CallsHaveTheirWork, CallsAreNamed, WorktreesFollowTheWork, Early,
              Runtime!Starting
<1>3. ASSUME process' = "up" PROVE WatchesAreSound'
  BY <1>3 DEF Runtime!At, CallsHaveTheirWork, WatchesAreSound, Runtime!Unwatched,
              Runtime!Working, Early, Runtime!Starting
<1>4. ASSUME process' = "up" PROVE WorktreesFollowTheWork'
  BY <1>4 DEF WorktreesFollowTheWork
<1>5. ASSUME process' = "up" PROVE ErrorsHaveACause'
  BY <1>5 DEF WorktreesFollowTheWork, WatchesAreSound, Runtime!Unwatched, ErrorsHaveACause
<1>6. ASSUME process' = "up" PROVE ObserversFollowTheWork'
  BY <1>6 DEF Runtime!At, CallsHaveTheirWork, WatchesAreSound, WorktreesFollowTheWork,
              ObserversFollowTheWork, Runtime!ObserversFollowTheWork, Runtime!Unwatched,
              Runtime!Observed, Runtime!Working, Runtime!Starting, Early
<1> QED BY <1>1, <1>2, <1>3, <1>4, <1>5, <1>6 DEF ObserversFollowTheWork

\* A look that fails is reported, and has a cause.
LEMMA LookKeepsTheWatch ==
    ASSUME RuntimeInv, NEW w \in Works, Runtime!Look(w)
    PROVE  RuntimeInv'
<1> USE DEF RuntimeInv, Runtime!TypeOK, Runtime!Look, Runtime!Fails, Runtime!remote,
            Runtime!Accepted, Runtime!Observable, Runtime!Report
<1>1. Runtime!TypeOK' /\ CallsAreNamed'
  BY DEF CallsAreNamed, Runtime!At
<1>2. ASSUME process' = "up" PROVE CallsHaveTheirWork'
  BY <1>2 DEF Runtime!At, CallsHaveTheirWork, CallsAreNamed, WorktreesFollowTheWork, Early,
              Runtime!Starting
<1>3. ASSUME process' = "up" PROVE WatchesAreSound'
  BY <1>3 DEF Runtime!At, CallsHaveTheirWork, WatchesAreSound, Runtime!Unwatched,
              Runtime!Working, Early, Runtime!Starting
<1>4. ASSUME process' = "up" PROVE WorktreesFollowTheWork'
  BY <1>4 DEF WorktreesFollowTheWork
<1>5. ASSUME process' = "up" PROVE ErrorsHaveACause'
  BY <1>5 DEF WorktreesFollowTheWork, WatchesAreSound, Runtime!Unwatched, ErrorsHaveACause
<1>6. ASSUME process' = "up" PROVE ObserversFollowTheWork'
  BY <1>6 DEF Runtime!At, CallsHaveTheirWork, WatchesAreSound, WorktreesFollowTheWork,
              ObserversFollowTheWork, Runtime!ObserversFollowTheWork, Runtime!Unwatched,
              Runtime!Observed, Runtime!Working, Runtime!Starting, Early
<1> QED BY <1>1, <1>2, <1>3, <1>4, <1>5, <1>6 DEF ObserversFollowTheWork

\* A cancelled loop ends.
LEMMA QuitKeepsTheWatch ==
    ASSUME RuntimeInv, NEW w \in Works, Runtime!Quit(w)
    PROVE  RuntimeInv'
<1> USE DEF RuntimeInv, Runtime!TypeOK, Runtime!Quit, Runtime!remote, Runtime!local
<1>1. Runtime!TypeOK' /\ CallsAreNamed'
  BY DEF CallsAreNamed, Runtime!At
<1>2. ASSUME process' = "up" PROVE CallsHaveTheirWork'
  BY <1>2 DEF Runtime!At, CallsHaveTheirWork, CallsAreNamed, WorktreesFollowTheWork, Early,
              Runtime!Starting
<1>3. ASSUME process' = "up" PROVE WatchesAreSound'
  BY <1>3 DEF Runtime!At, CallsHaveTheirWork, WatchesAreSound, Runtime!Unwatched,
              Runtime!Working, Early, Runtime!Starting
<1>4. ASSUME process' = "up" PROVE WorktreesFollowTheWork'
  BY <1>4 DEF WorktreesFollowTheWork
<1>5. ASSUME process' = "up" PROVE ErrorsHaveACause'
  BY <1>5 DEF WorktreesFollowTheWork, WatchesAreSound, Runtime!Unwatched, ErrorsHaveACause
<1>6. ASSUME process' = "up" PROVE ObserversFollowTheWork'
  BY <1>6 DEF Runtime!At, CallsHaveTheirWork, WatchesAreSound, WorktreesFollowTheWork,
              ObserversFollowTheWork, Runtime!ObserversFollowTheWork, Runtime!Unwatched,
              Runtime!Observed, Runtime!Working, Runtime!Starting, Early
<1> QED BY <1>1, <1>2, <1>3, <1>4, <1>5, <1>6 DEF ObserversFollowTheWork

\* A heartbeat fails when the session is lost or a request failed.
LEMMA LoopFailsKeepsTheWatch ==
    ASSUME RuntimeInv, NEW l \in Runtime!Loops, Runtime!LoopFails(l)
    PROVE  RuntimeInv'
<1> USE DEF RuntimeInv, Runtime!TypeOK, Runtime!LoopFails, Runtime!Fails, Runtime!remote,
            Runtime!watch, Runtime!Report, Runtime!Loops
<1>1. Runtime!TypeOK' /\ CallsAreNamed'
  BY DEF CallsAreNamed, Runtime!At
<1>2. ASSUME process' = "up" PROVE CallsHaveTheirWork'
  BY <1>2 DEF Runtime!At, CallsHaveTheirWork, CallsAreNamed, WorktreesFollowTheWork, Early,
              Runtime!Starting
<1>3. ASSUME process' = "up" PROVE WatchesAreSound'
  BY <1>3 DEF Runtime!At, CallsHaveTheirWork, WatchesAreSound, Runtime!Unwatched,
              Runtime!Working, Early, Runtime!Starting
<1>4. ASSUME process' = "up" PROVE WorktreesFollowTheWork'
  BY <1>4 DEF WorktreesFollowTheWork
<1>5. ASSUME process' = "up" PROVE ErrorsHaveACause'
  BY <1>5 DEF WorktreesFollowTheWork, WatchesAreSound, Runtime!Unwatched, ErrorsHaveACause
<1>6. ASSUME process' = "up" PROVE ObserversFollowTheWork'
  BY <1>6, SMTT(40) DEF Runtime!At, CallsHaveTheirWork, WatchesAreSound, WorktreesFollowTheWork,
                        ObserversFollowTheWork, Runtime!ObserversFollowTheWork,
                        Runtime!Unwatched, Runtime!Observed, Runtime!Working, Runtime!Starting,
                        Early
<1> QED BY <1>1, <1>2, <1>3, <1>4, <1>5, <1>6 DEF ObserversFollowTheWork

\* A lost session is a cause.
LEMMA LoseSessionKeepsTheWatch ==
    ASSUME RuntimeInv, Runtime!LoseSession
    PROVE  RuntimeInv'
<1> USE DEF RuntimeInv, Runtime!TypeOK, Runtime!LoseSession, Runtime!local, Runtime!watch
<1>1. Runtime!TypeOK' /\ CallsAreNamed'
  BY DEF CallsAreNamed, Runtime!At
<1>2. ASSUME process' = "up" PROVE CallsHaveTheirWork'
  BY <1>2 DEF Runtime!At, CallsHaveTheirWork, CallsAreNamed, WorktreesFollowTheWork, Early,
              Runtime!Starting
<1>3. ASSUME process' = "up" PROVE WatchesAreSound'
  BY <1>3 DEF Runtime!At, CallsHaveTheirWork, WatchesAreSound, Runtime!Unwatched,
              Runtime!Working, Early, Runtime!Starting
<1>4. ASSUME process' = "up" PROVE WorktreesFollowTheWork'
  BY <1>4 DEF WorktreesFollowTheWork
<1>5. ASSUME process' = "up" PROVE ErrorsHaveACause'
  BY <1>5 DEF WorktreesFollowTheWork, WatchesAreSound, Runtime!Unwatched, ErrorsHaveACause
<1>6. ASSUME process' = "up" PROVE ObserversFollowTheWork'
  BY <1>6 DEF Runtime!At, CallsHaveTheirWork, WatchesAreSound, WorktreesFollowTheWork,
              ObserversFollowTheWork, Runtime!ObserversFollowTheWork, Runtime!Unwatched,
              Runtime!Observed, Runtime!Working, Runtime!Starting, Early
<1> QED BY <1>1, <1>2, <1>3, <1>4, <1>5, <1>6 DEF ObserversFollowTheWork

\* The client leaves.
LEMMA LeaveKeepsTheWatch ==
    ASSUME RuntimeInv, Runtime!Leave
    PROVE  RuntimeInv'
<1> USE DEF RuntimeInv, Runtime!TypeOK, Runtime!Leave, Runtime!remote, Runtime!watch
<1>1. Runtime!TypeOK' /\ CallsAreNamed'
  BY DEF CallsAreNamed, Runtime!At
<1>2. ASSUME process' = "up" PROVE CallsHaveTheirWork'
  BY <1>2 DEF Runtime!At, CallsHaveTheirWork, CallsAreNamed, WorktreesFollowTheWork, Early,
              Runtime!Starting
<1>3. ASSUME process' = "up" PROVE WatchesAreSound'
  BY <1>3 DEF Runtime!At, CallsHaveTheirWork, WatchesAreSound, Runtime!Unwatched,
              Runtime!Working, Early, Runtime!Starting
<1>4. ASSUME process' = "up" PROVE WorktreesFollowTheWork'
  BY <1>4 DEF WorktreesFollowTheWork
<1>5. ASSUME process' = "up" PROVE ErrorsHaveACause'
  BY <1>5 DEF WorktreesFollowTheWork, WatchesAreSound, Runtime!Unwatched, ErrorsHaveACause
<1>6. ASSUME process' = "up" PROVE ObserversFollowTheWork'
  BY <1>6 DEF Runtime!At, CallsHaveTheirWork, WatchesAreSound, WorktreesFollowTheWork,
              ObserversFollowTheWork, Runtime!ObserversFollowTheWork, Runtime!Unwatched,
              Runtime!Observed, Runtime!Working, Runtime!Starting, Early
<1> QED BY <1>1, <1>2, <1>3, <1>4, <1>5, <1>6 DEF ObserversFollowTheWork

\* The runtime stops, and owes nothing more.
LEMMA StopKeepsTheWatch ==
    ASSUME RuntimeInv, Runtime!Stop
    PROVE  RuntimeInv'
<1> USE DEF RuntimeInv, Runtime!TypeOK, Runtime!Stop, Runtime!remote, Runtime!watch
<1>1. Runtime!TypeOK' /\ CallsAreNamed'
  BY DEF CallsAreNamed, Runtime!At
<1>2. ASSUME process' = "up" PROVE CallsHaveTheirWork'
  BY <1>2 DEF Runtime!At, CallsHaveTheirWork, CallsAreNamed, WorktreesFollowTheWork, Early,
              Runtime!Starting
<1>3. ASSUME process' = "up" PROVE WatchesAreSound'
  BY <1>3 DEF Runtime!At, CallsHaveTheirWork, WatchesAreSound, Runtime!Unwatched,
              Runtime!Working, Early, Runtime!Starting
<1>4. ASSUME process' = "up" PROVE WorktreesFollowTheWork'
  BY <1>4 DEF WorktreesFollowTheWork
<1>5. ASSUME process' = "up" PROVE ErrorsHaveACause'
  BY <1>5 DEF WorktreesFollowTheWork, WatchesAreSound, Runtime!Unwatched, ErrorsHaveACause
<1>6. ASSUME process' = "up" PROVE ObserversFollowTheWork'
  BY <1>6 DEF Runtime!At, CallsHaveTheirWork, WatchesAreSound, WorktreesFollowTheWork,
              ObserversFollowTheWork, Runtime!ObserversFollowTheWork, Runtime!Unwatched,
              Runtime!Observed, Runtime!Working, Runtime!Starting, Early
<1> QED BY <1>1, <1>2, <1>3, <1>4, <1>5, <1>6 DEF ObserversFollowTheWork

\* The process ends.
LEMMA ExitKeepsTheWatch ==
    ASSUME RuntimeInv, Runtime!Exit
    PROVE  RuntimeInv'
<1> USE DEF RuntimeInv, Runtime!TypeOK, Runtime!Exit, Runtime!Fails, Runtime!Idle
<1>1. Runtime!TypeOK' /\ CallsAreNamed'
  BY DEF CallsAreNamed, Runtime!At
<1>2. ASSUME process' = "up" PROVE CallsHaveTheirWork'
  BY <1>2 DEF Runtime!At, CallsHaveTheirWork, CallsAreNamed, WorktreesFollowTheWork, Early,
              Runtime!Starting
<1>3. ASSUME process' = "up" PROVE WatchesAreSound'
  BY <1>3 DEF Runtime!At, CallsHaveTheirWork, WatchesAreSound, Runtime!Unwatched,
              Runtime!Working, Early, Runtime!Starting
<1>4. ASSUME process' = "up" PROVE WorktreesFollowTheWork'
  BY <1>4 DEF WorktreesFollowTheWork
<1>5. ASSUME process' = "up" PROVE ErrorsHaveACause'
  BY <1>5 DEF WorktreesFollowTheWork, WatchesAreSound, Runtime!Unwatched, ErrorsHaveACause
<1>6. ASSUME process' = "up" PROVE ObserversFollowTheWork'
  BY <1>6 DEF Runtime!At, CallsHaveTheirWork, WatchesAreSound, WorktreesFollowTheWork,
              ObserversFollowTheWork, Runtime!ObserversFollowTheWork, Runtime!Unwatched,
              Runtime!Observed, Runtime!Working, Runtime!Starting, Early
<1> QED BY <1>1, <1>2, <1>3, <1>4, <1>5, <1>6 DEF ObserversFollowTheWork

----------------------------------------------------------------------------
(* The checkout: which servers a key is for. *)

\* An identity of version 1 names no server: its checkout's binding says whose it is.
OldIdentity(c) == node[c] # Absent /\ node[c].version = 1

\* What a process at each step can rely on.
Sound(m) ==
    /\ job[m].step \in {"init", "read", "write", "reconcile", "load", "ensure", "present"}
       => job[m].host \in Hosts
    /\ job[m].step \in {"init", "read", "write", "reconcile"} =>
          /\ job[m].checkout \in Checkout!Checkouts
          /\ job[m].checkout = Tree => binding[Tree] # Absent /\ ~Checkout!Copying
    /\ job[m].step \in {"read", "write", "reconcile"} => binding[job[m].checkout] # Absent
    /\ job[m].step \in {"write", "reconcile"} => held[job[m].checkout] = m
    /\ Checkout!At(m, "reconcile") =>
          /\ job[m].host = binding[job[m].checkout]
          /\ job[m].rotate => job[m].checkout \in unrotated
    /\ job[m].step \in {"load", "ensure"} =>
          job[m].checkout \in Checkout!Checkouts /\ binding[job[m].checkout] # Absent
    /\ Checkout!At(m, "ensure") =>
          /\ job[m].target \in Hosts
          /\ \/ job[m].checkout = Tree /\ Checkout!Copying
             \/ OldIdentity(job[m].checkout) /\ job[m].checkout \notin unrotated
             => job[m].target = binding[job[m].checkout]
    /\ Checkout!At(m, "present") => job[m].key \in Keys /\ job[m].target \in Hosts
    /\ Checkout!At(m, "copy") => binding[Tree] # Absent

JobsAreSound == \A m \in Checkout!Machines : Sound(m)

\* An identity of version 1 is in a checkout that is bound.
OldIdentitiesAreBound == \A c \in Checkout!Checkouts : OldIdentity(c) => binding[c] # Absent

\* The servers that know a key, and those that are going to.
Home(k, h) ==
    \/ h \in presented[k]
    \/ \E c \in Checkout!Checkouts :
          /\ node[c] # Absent /\ node[c].key = k
          /\ \/ node[c].version = 2 /\ node[c].host = h
             \/ node[c].version = 1 /\ c \notin unrotated /\ binding[c] = h
    \/ \E m \in Checkout!Machines :
          \/ Checkout!At(m, "present") /\ job[m].key = k /\ job[m].target = h
          \/ /\ Checkout!At(m, "copy") /\ OldIdentity(Root) /\ node[Root].key = k
             /\ Tree \notin unrotated /\ binding[Tree] = h

\* All of them are one, unless a rebinding let the key slip.
KeysHaveOneHome ==
    \A k \in Keys \ excused : \A g, h \in Hosts : Home(k, g) /\ Home(k, h) => g = h

CheckoutInv ==
    Checkout!TypeOK /\ JobsAreSound /\ OldIdentitiesAreBound /\ KeysHaveOneHome

\* The type of the jobs, by name.
JobSteps == {"none", "init", "read", "write", "reconcile", "load", "ensure", "present", "copy"}
JobRecords ==
    [step : JobSteps, checkout : Checkout!Checkouts \cup {Absent}, host : Hosts \cup {Absent},
     rebind : BOOLEAN, rotate : BOOLEAN, key : Keys \cup {Absent}, target : Hosts \cup {Absent}]

\* A job goes on, with what it learnt at its step, or is over.
LEMMA JobGoesOn ==
    ASSUME Checkout!TypeOK, NEW m \in Checkout!Machines, NEW step \in JobSteps
    PROVE  /\ [job EXCEPT ![m].step = step] \in [Checkout!Machines -> JobRecords]
           /\ \A rotate \in BOOLEAN :
                 [job EXCEPT ![m].step = step, ![m].rotate = rotate] \in [Checkout!Machines -> JobRecords]
           /\ \A key \in Keys :
                 [job EXCEPT ![m].step = step, ![m].key = key] \in [Checkout!Machines -> JobRecords]
           /\ \A target \in Hosts :
                 [job EXCEPT ![m].step = step, ![m].target = target] \in [Checkout!Machines -> JobRecords]
           /\ [job EXCEPT ![m] = Checkout!NoJob] \in [Checkout!Machines -> JobRecords]
<1>1. job \in [Checkout!Machines -> JobRecords]
  BY DEF Checkout!TypeOK, JobRecords, JobSteps
<1>2. \A r \in JobRecords : [job EXCEPT ![m] = r] \in [Checkout!Machines -> JobRecords]
  BY <1>1
<1>3. /\ [job EXCEPT ![m].step = step] = [job EXCEPT ![m] = [job[m] EXCEPT !.step = step]]
      /\ \A rotate : [job EXCEPT ![m].step = step, ![m].rotate = rotate]
                     = [job EXCEPT ![m] = [job[m] EXCEPT !.step = step, !.rotate = rotate]]
      /\ \A key : [job EXCEPT ![m].step = step, ![m].key = key]
                  = [job EXCEPT ![m] = [job[m] EXCEPT !.step = step, !.key = key]]
      /\ \A target : [job EXCEPT ![m].step = step, ![m].target = target]
                     = [job EXCEPT ![m] = [job[m] EXCEPT !.step = step, !.target = target]]
  BY <1>1
<1>4. /\ [job[m] EXCEPT !.step = step] \in JobRecords
      /\ \A rotate \in BOOLEAN : [job[m] EXCEPT !.step = step, !.rotate = rotate] \in JobRecords
      /\ \A key \in Keys : [job[m] EXCEPT !.step = step, !.key = key] \in JobRecords
      /\ \A target \in Hosts : [job[m] EXCEPT !.step = step, !.target = target] \in JobRecords
      /\ Checkout!NoJob \in JobRecords
  BY <1>1 DEF JobRecords, JobSteps, Checkout!NoJob
<1> HIDE DEF JobRecords
<1> QED BY <1>2, <1>3, <1>4

\* The identity a checkout gets is for this server, under the key it has or one that nothing
\* knows.
LEMMA IdentityIsKeptOrNew ==
    ASSUME Checkout!TypeOK, NEW c \in Checkout!Checkouts, NEW h \in Hosts, NEW rotate \in
           BOOLEAN,
           NEW identity \in Checkout!Ensured(c, h, rotate)
    PROVE  /\ identity \in Checkout!Identities
           /\ identity.version = 2 /\ identity.host = h /\ identity.key \in Keys
           /\ \/ /\ node[c] # Absent /\ ~rotate /\ identity.key = node[c].key
                 /\ node[c].version = 1 \/ node[c].host = h
              \/ Checkout!Unused(identity.key)
<1>1. \A k \in Checkout!NewKeys : k \in Keys /\ Checkout!Unused(k)
  <2> DEFINE unused == {k \in Keys : Checkout!Unused(k)}
  <2>1. unused # {} => (CHOOSE k \in unused : TRUE) \in unused
    OBVIOUS
  <2>2. Checkout!NewKeys = IF unused = {} THEN {} ELSE {CHOOSE k \in unused : TRUE}
    BY DEF Checkout!NewKeys
  <2>3. \A k \in Checkout!NewKeys : k \in unused
    <3> HIDE DEF unused
    <3> QED BY <2>1, <2>2
  <2> QED BY <2>3
<1>2. CASE node[c] # Absent /\ ~rotate /\ (node[c].version = 1 \/ node[c].host = h)
  <2>1. identity = [version |-> 2, key |-> node[c].key, host |-> h]
    BY <1>2 DEF Checkout!Ensured
  <2>2. node[c].key \in Keys
    BY <1>2 DEF Checkout!TypeOK, Checkout!Identities
  <2> QED BY <1>2, <2>1, <2>2 DEF Checkout!Identities
<1>3. CASE ~(node[c] # Absent /\ ~rotate /\ (node[c].version = 1 \/ node[c].host = h))
  <2>1. PICK k \in Checkout!NewKeys : identity = [version |-> 2, key |-> k, host |-> h]
    BY <1>3 DEF Checkout!Ensured
  <2> QED BY <1>1, <2>1 DEF Checkout!Identities
<1> QED BY <1>2, <1>3

\* A key that nothing knows has no home.
LEMMA UnusedHasNoHome ==
    ASSUME CheckoutInv, NEW k \in Keys, Checkout!Unused(k)
    PROVE  /\ presented[k] = {}
           /\ \A c \in Checkout!Checkouts : node[c] # Absent => node[c].key # k
           /\ \A m \in Checkout!Machines : job[m].key # k
BY DEF Checkout!Unused

\* Homes stay unique when every key keeps its own or gets one.
LEMMA HomesStayUnique ==
    ASSUME KeysHaveOneHome, excused \subseteq excused',
           \A k \in Keys \ excused' : \/ \A g \in Hosts : Home(k, g)' => Home(k, g)
                                      \/ \E h \in Hosts : \A g \in Hosts : Home(k, g)' => g = h
    PROVE  KeysHaveOneHome'
BY DEF KeysHaveOneHome

\* A connection begins with a server.
LEMMA ConnectKeepsTheHomes ==
    ASSUME CheckoutInv, NEW m \in Connectors, NEW c \in Checkout!Checkouts, NEW h \in Hosts,
           NEW rebind \in BOOLEAN, Checkout!Connect(m, c, h, rebind)
    PROVE  CheckoutInv'
<1> USE DEF CheckoutInv, JobsAreSound, Sound, Checkout!TypeOK, Checkout!Checkouts,
            Checkout!Connect, Checkout!Copying, Checkout!At, Checkout!NoJob, Checkout!Machines
<1>1. Checkout!TypeOK'
  BY MachineAssumption
<1>2. JobsAreSound'
  BY MachineAssumption DEF OldIdentitiesAreBound, OldIdentity
<1>3. OldIdentitiesAreBound'
  BY MachineAssumption DEF OldIdentitiesAreBound, OldIdentity
<1>4. KeysHaveOneHome'
  <2>1. \A k \in Keys \ excused', g \in Hosts : Home(k, g)' => Home(k, g)
    BY MachineAssumption DEF OldIdentitiesAreBound, OldIdentity, Home
  <2>2. excused \subseteq excused'
    OBVIOUS
  <2> QED BY <2>1, <2>2 DEF KeysHaveOneHome
<1> QED BY <1>1, <1>2, <1>3, <1>4

\* A first binding is that of a checkout whose identity, if it has one, names its server.
LEMMA EnsureConfigKeepsTheHomes ==
    ASSUME CheckoutInv, NEW m \in Checkout!Machines, Checkout!EnsureConfig(m)
    PROVE  CheckoutInv'
<1>1. Checkout!TypeOK'
  <2>1. job' \in [Checkout!Machines -> JobRecords]
    <3>1. job' \in {[job EXCEPT ![m].step = "read"], [job EXCEPT ![m] = Checkout!NoJob]}
      BY DEF Checkout!EnsureConfig, Checkout!Goto, Checkout!Quit
    <3>2. [job EXCEPT ![m].step = "read"] \in [Checkout!Machines -> JobRecords]
      BY JobGoesOn DEF CheckoutInv, JobSteps
    <3>3. [job EXCEPT ![m] = Checkout!NoJob] \in [Checkout!Machines -> JobRecords]
      BY JobGoesOn DEF CheckoutInv, JobSteps
    <3> QED BY <3>1, <3>2, <3>3
  <2>2. binding' \in [Checkout!Checkouts -> Hosts \cup {Absent}]
    BY DEF CheckoutInv, JobsAreSound, Sound, Checkout!TypeOK, Checkout!EnsureConfig,
           Checkout!Where, Checkout!At
  <2> QED BY <2>1, <2>2 DEF CheckoutInv, Checkout!TypeOK, Checkout!EnsureConfig, Checkout!Where, JobRecords, JobSteps
<1>2. JobsAreSound'
  BY MachineAssumption DEF CheckoutInv, JobsAreSound, Sound, OldIdentitiesAreBound,
                           Checkout!TypeOK, Checkout!Checkouts, Checkout!EnsureConfig,
                           Checkout!Where, Checkout!Copying, Checkout!At, Checkout!Goto,
                           Checkout!Quit, Checkout!NoJob, OldIdentity
<1>3. OldIdentitiesAreBound'
  BY MachineAssumption DEF CheckoutInv, JobsAreSound, Sound, OldIdentitiesAreBound,
                           Checkout!TypeOK, Checkout!Checkouts, Checkout!EnsureConfig,
                           Checkout!Where, Checkout!At, Checkout!Goto,
                           Checkout!Quit, Checkout!NoJob, OldIdentity
<1>4. KeysHaveOneHome'
  <2>1. \A k \in Keys \ excused', g \in Hosts : Home(k, g)' => Home(k, g)
    BY MachineAssumption DEF CheckoutInv, JobsAreSound, Sound, OldIdentitiesAreBound,
                             Checkout!TypeOK, Checkout!Checkouts, Checkout!EnsureConfig,
                             Checkout!Where, Checkout!At, Checkout!Goto,
                             Checkout!Quit, Checkout!NoJob, OldIdentity, Home
  <2>2. excused \subseteq excused'
    BY DEF Checkout!EnsureConfig
  <2> QED BY <2>1, <2>2 DEF CheckoutInv, KeysHaveOneHome
<1> QED BY <1>1, <1>2, <1>3, <1>4 DEF CheckoutInv

\* Who goes on to write or to reconcile holds the lock of the configuration.
LEMMA ReadConfigKeepsTheHomes ==
    ASSUME CheckoutInv, NEW m \in Checkout!Machines, Checkout!ReadConfig(m)
    PROVE  CheckoutInv'
<1>0. \/ /\ job' = [job EXCEPT ![m] = Checkout!NoJob] /\ held' = held
         \/ /\ held' = [held EXCEPT ![job[m].checkout] = m]
            /\ \/ /\ job' = [job EXCEPT ![m].step = "write", ![m].rotate = TRUE]
                  /\ binding[job[m].checkout] # job[m].host
               \/ /\ job' = [job EXCEPT ![m].step = "reconcile", ![m].rotate = FALSE]
                  /\ binding[job[m].checkout] = job[m].host
  BY DEF Checkout!ReadConfig, Checkout!Quit, Checkout!Where
<1>1. Checkout!TypeOK'
  <2>1. job' \in [Checkout!Machines -> JobRecords]
    <3>1. [job EXCEPT ![m].step = "write", ![m].rotate = TRUE] \in [Checkout!Machines -> JobRecords]
      BY JobGoesOn DEF CheckoutInv, JobSteps
    <3>2. [job EXCEPT ![m].step = "reconcile", ![m].rotate = FALSE] \in [Checkout!Machines -> JobRecords]
      BY JobGoesOn DEF CheckoutInv, JobSteps
    <3>3. [job EXCEPT ![m] = Checkout!NoJob] \in [Checkout!Machines -> JobRecords]
      BY JobGoesOn DEF CheckoutInv, JobSteps
    <3> QED BY <1>0, <3>1, <3>2, <3>3
  <2>2. held' \in [Checkout!Checkouts -> Checkout!Machines \cup {Absent}]
    BY <1>0 DEF CheckoutInv, Checkout!TypeOK
  <2> QED BY <2>1, <2>2 DEF CheckoutInv, Checkout!TypeOK, Checkout!ReadConfig, Checkout!Where, JobRecords, JobSteps
<1>2. JobsAreSound'
  <2> DEFINE c == job[m].checkout
  <2>1. /\ held[c] = Absent /\ UNCHANGED <<binding, node, unrotated>> /\ job[m].step = "read"
        /\ c \in Checkout!Checkouts
    BY DEF CheckoutInv, JobsAreSound, Sound, Checkout!ReadConfig, Checkout!At,
           Checkout!Where
  <2>2. \A l \in Checkout!Machines : job[l].step \in {"write", "reconcile"} => job[l].checkout # c
    BY <2>1, MachineAssumption DEF CheckoutInv, JobsAreSound, Sound, Checkout!Machines
  <2>3. \A l \in Checkout!Machines \ {m} : job'[l] = job[l]
    BY <1>0 DEF CheckoutInv, Checkout!TypeOK
  <2>4. \/ job'[m].step = "none"
        \/ /\ job'[m].step = "write" /\ job'[m].host = job[m].host /\ job'[m].checkout = c
           /\ held'[c] = m
        \/ /\ job'[m].step = "reconcile" /\ job'[m].host = job[m].host /\ job'[m].checkout = c
           /\ held'[c] = m /\ ~job'[m].rotate /\ binding[c] = job[m].host
    BY <1>0, <2>1 DEF CheckoutInv, Checkout!TypeOK, Checkout!NoJob
  <2>5. \A d \in Checkout!Checkouts \ {c} : held'[d] = held[d]
    BY <1>0, <2>1 DEF CheckoutInv, Checkout!TypeOK
  <2>6. Checkout!Copying' => Checkout!Copying
    BY <2>3, <2>4 DEF Checkout!Copying, Checkout!At
  <2> HIDE DEF c
  <2>7. /\ job[m].host \in Hosts /\ binding[c] # Absent
        /\ c = Tree => binding[Tree] # Absent /\ ~Checkout!Copying
    BY <2>1 DEF CheckoutInv, JobsAreSound, Sound, c
  <2> SUFFICES ASSUME NEW l \in Checkout!Machines
               PROVE  Sound(l)'
    BY DEF JobsAreSound
  <2>8. CASE l = m
    BY <2>1, <2>4, <2>6, <2>7, <2>8 DEF Sound, Checkout!At
  <2>9. CASE l # m
    BY <2>1, <2>2, <2>3, <2>5, <2>6, <2>9
       DEF CheckoutInv, JobsAreSound, Sound, Checkout!At, OldIdentity
  <2> QED BY <2>8, <2>9
<1>3. OldIdentitiesAreBound'
  BY MachineAssumption DEF CheckoutInv, JobsAreSound, Sound, OldIdentitiesAreBound,
                           Checkout!TypeOK, Checkout!Checkouts, Checkout!ReadConfig,
                           Checkout!Where, Checkout!At, Checkout!Quit,
                           Checkout!NoJob, OldIdentity
<1>4. KeysHaveOneHome'
  <2>1. \A k \in Keys \ excused', g \in Hosts : Home(k, g)' => Home(k, g)
    <3>1. /\ UNCHANGED <<binding, node, presented, unrotated>>
          /\ \A l \in Checkout!Machines :
                job'[l].step \in {"present", "copy"} => job'[l] = job[l]
      BY <1>0 DEF CheckoutInv, Checkout!TypeOK, Checkout!ReadConfig, Checkout!Where, Checkout!NoJob
    <3> QED BY <3>1 DEF Home, OldIdentity, Checkout!At
  <2>2. excused \subseteq excused'
    BY DEF Checkout!ReadConfig
  <2> QED BY <2>1, <2>2 DEF CheckoutInv, KeysHaveOneHome
<1> QED BY <1>1, <1>2, <1>3, <1>4 DEF CheckoutInv

\* A rebound checkout awaits its rotation, so its old identity has no home there.
LEMMA WriteConfigKeepsTheHomes ==
    ASSUME CheckoutInv, NEW m \in Checkout!Machines, Checkout!WriteConfig(m)
    PROVE  CheckoutInv'
<1> USE DEF CheckoutInv, JobsAreSound, Sound, Checkout!TypeOK, Checkout!Checkouts,
            Checkout!WriteConfig, Checkout!Where, Checkout!Copying, Checkout!At, Checkout!Goto
<1>1. Checkout!TypeOK'
  BY MachineAssumption
<1>2. JobsAreSound'
  BY MachineAssumption DEF OldIdentitiesAreBound, OldIdentity
<1>3. OldIdentitiesAreBound'
  BY MachineAssumption DEF OldIdentitiesAreBound, OldIdentity
<1>4. KeysHaveOneHome'
  <2>1. \A k \in Keys \ excused', g \in Hosts : Home(k, g)' => Home(k, g)
    BY MachineAssumption DEF OldIdentitiesAreBound, OldIdentity, Home
  <2>2. excused \subseteq excused'
    OBVIOUS
  <2> QED BY <2>1, <2>2 DEF KeysHaveOneHome
<1> QED BY <1>1, <1>2, <1>3, <1>4

\* The reconciled identity has a new key, or the key it had where it was at home.
LEMMA ReconcileKeepsTheHomes ==
    ASSUME CheckoutInv, NEW m \in Checkout!Machines, Checkout!Reconcile(m)
    PROVE  CheckoutInv'
<1> DEFINE c == job[m].checkout
<1>1. /\ job[m].step = "reconcile" /\ job[m].host \in Hosts /\ job[m].host = binding[c]
      /\ job[m].rotate \in BOOLEAN /\ (job[m].rotate => c \in unrotated)
      /\ held[c] = m /\ c \in Checkout!Checkouts /\ binding[c] # Absent
      /\ c = Tree => ~Checkout!Copying
  BY DEF CheckoutInv, JobsAreSound, Sound, Checkout!TypeOK, Checkout!Reconcile, Checkout!At
<1>2. /\ job' = [job EXCEPT ![m] = Checkout!NoJob] /\ UNCHANGED <<binding, presented>>
      /\ held' = [d \in Checkout!Checkouts |-> IF held[d] = m THEN Absent ELSE held[d]]
      /\ unrotated' = unrotated \ {c}
      /\ excused' = excused \cup (IF job[m].rotate THEN {} ELSE Checkout!Slipped(c))
  BY DEF Checkout!Reconcile, Checkout!Quit, Checkout!Free, Checkout!Where
<1>3. \/ node[c] = Absent /\ node' = node
      \/ /\ node[c] # Absent
         /\ \E identity \in Checkout!Ensured(c, job[m].host, job[m].rotate) :
               node' = [node EXCEPT ![c] = identity]
  BY DEF Checkout!Reconcile, Checkout!Where
<1> HIDE DEF c
<1>4. \/ node[c] = Absent /\ node' = node
      \/ \E identity \in Checkout!Identities :
            /\ node[c] # Absent /\ node' = [node EXCEPT ![c] = identity]
            /\ identity.version = 2 /\ identity.host = job[m].host /\ identity.key \in Keys
            /\ \/ /\ ~job[m].rotate /\ identity.key = node[c].key
                  /\ node[c].version = 1 \/ node[c].host = job[m].host
               \/ Checkout!Unused(identity.key)
  BY <1>1, <1>3, IdentityIsKeptOrNew DEF CheckoutInv
<1>5. \A d \in Checkout!Checkouts : OldIdentity(d)' => OldIdentity(d) /\ d # c
  BY <1>1, <1>4 DEF CheckoutInv, Checkout!TypeOK, OldIdentity
<1>6. Checkout!TypeOK'
  <2>1. job' \in [Checkout!Machines -> JobRecords]
    BY <1>2, JobGoesOn DEF CheckoutInv, JobSteps
  <2>2. held' \in [Checkout!Checkouts -> Checkout!Machines \cup {Absent}]
    BY <1>2 DEF CheckoutInv, Checkout!TypeOK
  <2>3. node' \in [Checkout!Checkouts -> Checkout!Identities \cup {Absent}]
    BY <1>1, <1>4 DEF CheckoutInv, Checkout!TypeOK
  <2>4. Checkout!Slipped(c) \subseteq Keys
    BY <1>1 DEF CheckoutInv, Checkout!TypeOK, Checkout!Slipped, Checkout!Identities
  <2> QED BY <1>2, <2>1, <2>2, <2>3, <2>4 DEF CheckoutInv, Checkout!TypeOK, JobRecords, JobSteps
<1>7. JobsAreSound'
  <2>1. /\ job'[m].step = "none" /\ \A l \in Checkout!Machines \ {m} : job'[l] = job[l]
    BY <1>2 DEF CheckoutInv, Checkout!TypeOK, Checkout!NoJob
  <2>2. \A l \in Checkout!Machines \ {m} :
           job[l].step \in {"write", "reconcile"} => job[l].checkout # c
    BY <1>1 DEF CheckoutInv, JobsAreSound, Sound
  <2>3. /\ \A d \in Checkout!Checkouts : held[d] # m => held'[d] = held[d]
        /\ \A d \in Checkout!Checkouts : d \in unrotated' <=> d \in unrotated /\ d # c
    BY <1>2 DEF CheckoutInv, Checkout!TypeOK
  <2>4. Checkout!Copying' => Checkout!Copying
    BY <2>1 DEF Checkout!Copying, Checkout!At
  <2> SUFFICES ASSUME NEW l \in Checkout!Machines \ {m}
               PROVE  Sound(l)'
    BY <2>1 DEF JobsAreSound, Sound, Checkout!At
  <2>5. Sound(l) /\ job'[l] = job[l]
    BY <2>1 DEF CheckoutInv, JobsAreSound
  <2> QED BY <1>2, <1>5, <2>2, <2>3, <2>4, <2>5 DEF Sound, Checkout!At, OldIdentity
<1>8. OldIdentitiesAreBound'
  BY <1>2, <1>5 DEF CheckoutInv, OldIdentitiesAreBound
<1>9. KeysHaveOneHome'
  <2>0. /\ \A l \in Checkout!Machines \ {m} : job'[l] = job[l]
        /\ job'[m].step = "none" /\ Tree # Root
        /\ c = Tree => \A l \in Checkout!Machines : job'[l].step # "copy"
    BY <1>1, <1>2, MachineAssumption DEF CheckoutInv, Checkout!TypeOK, Checkout!NoJob,
                                         Checkout!Copying, Checkout!At
  <2> SUFFICES ASSUME NEW k \in Keys \ excused'
               PROVE  \/ \A g \in Hosts : Home(k, g)' => Home(k, g)
                      \/ \E h \in Hosts : \A g \in Hosts : Home(k, g)' => g = h
    BY <1>2, HomesStayUnique DEF CheckoutInv
  <2>1. CASE node' = node
    BY <1>2, <1>5, <2>0, <2>1 DEF Home, Checkout!At, OldIdentity
  <2>2. ASSUME NEW identity \in Checkout!Identities, node[c] # Absent,
               node' = [node EXCEPT ![c] = identity],
               identity.version = 2, identity.host = job[m].host, identity.key \in Keys,
               \/ /\ ~job[m].rotate /\ identity.key = node[c].key
                  /\ node[c].version = 1 \/ node[c].host = job[m].host
               \/ Checkout!Unused(identity.key)
        PROVE  \/ \A g \in Hosts : Home(k, g)' => Home(k, g)
               \/ \E h \in Hosts : \A g \in Hosts : Home(k, g)' => g = h
    <3>0. node'[c] = identity /\ \A d \in Checkout!Checkouts \ {c} : node'[d] = node[d]
      BY <1>1, <2>2 DEF CheckoutInv, Checkout!TypeOK
    <3>1. CASE identity.key # k
      BY <1>2, <1>5, <2>0, <3>0, <3>1 DEF Home, Checkout!At, OldIdentity, Checkout!Checkouts
    <3>2. CASE identity.key = k /\ Checkout!Unused(k)
      <4>1. \A g \in Hosts : Home(k, g)' => g = job[m].host
        BY <1>2, <1>5, <2>0, <2>2, <3>0, <3>2, UnusedHasNoHome
           DEF Home, Checkout!At, OldIdentity, Checkout!Checkouts
      <4> QED BY <1>1, <4>1
    <3>3. CASE /\ identity.key = k /\ ~job[m].rotate /\ node[c].key = k
               /\ node[c].version = 1 \/ node[c].host = job[m].host
      <4>1. Home(k, job[m].host)
        <5>1. CASE node[c].version = 1
          <6>1. c \notin unrotated
            BY <1>2, <2>2, <3>3, <5>1 DEF Checkout!Slipped
          <6> QED BY <1>1, <2>2, <3>3, <5>1, <6>1 DEF Home
        <5>2. CASE node[c].version # 1
          <6>1. node[c].version = 2 /\ node[c].host = job[m].host
            BY <1>1, <2>2, <3>3, <5>2 DEF CheckoutInv, Checkout!TypeOK, Checkout!Identities
          <6> QED BY <1>1, <2>2, <3>3, <6>1 DEF Home
        <5> QED BY <5>1, <5>2
      <4>2. \A g \in Hosts : Home(k, g)' => Home(k, g) \/ g = job[m].host
        BY <1>2, <1>5, <2>0, <2>2, <3>0 DEF Home, Checkout!At, OldIdentity, Checkout!Checkouts
      <4> QED BY <4>1, <4>2
    <3> QED BY <2>2, <3>1, <3>2, <3>3
  <2> QED BY <1>4, <2>1, <2>2
<1> QED BY <1>6, <1>7, <1>8, <1>9 DEF CheckoutInv

\* A runtime begins with the server of its login.
LEMMA RunKeepsTheHomes ==
    ASSUME CheckoutInv, NEW m \in Runtimes, NEW c \in Checkout!Checkouts, Checkout!Run(m, c)
    PROVE  CheckoutInv'
<1> USE DEF CheckoutInv, JobsAreSound, Sound, Checkout!TypeOK, Checkout!Checkouts, Checkout!Run,
            Checkout!Copying, Checkout!At, Checkout!NoJob, Checkout!Machines
<1>1. Checkout!TypeOK'
  BY MachineAssumption
<1>2. JobsAreSound'
  BY MachineAssumption DEF OldIdentitiesAreBound, OldIdentity
<1>3. OldIdentitiesAreBound'
  BY MachineAssumption DEF OldIdentitiesAreBound, OldIdentity
<1>4. KeysHaveOneHome'
  <2>1. \A k \in Keys \ excused', g \in Hosts : Home(k, g)' => Home(k, g)
    BY MachineAssumption DEF OldIdentitiesAreBound, OldIdentity, Home
  <2>2. excused \subseteq excused'
    OBVIOUS
  <2> QED BY <2>1, <2>2 DEF KeysHaveOneHome
<1> QED BY <1>1, <1>2, <1>3, <1>4

\* A runtime takes the server of its node from the binding as it is now.
LEMMA LoadAgainKeepsTheHomes ==
    ASSUME CheckoutInv, NEW m \in Checkout!Machines, Checkout!LoadAgain(m)
    PROVE  CheckoutInv'
<1>1. Checkout!TypeOK'
  <2>1. binding[job[m].checkout] \in Hosts
    BY DEF CheckoutInv, JobsAreSound, Sound, Checkout!TypeOK, Checkout!LoadAgain, Checkout!At
  <2>2. job' \in [Checkout!Machines -> JobRecords]
    BY <2>1, JobGoesOn DEF CheckoutInv, Checkout!LoadAgain, Checkout!Where,
                           JobSteps
  <2> QED BY <2>2 DEF CheckoutInv, Checkout!TypeOK, Checkout!LoadAgain,
                      JobRecords, JobSteps
<1>2. JobsAreSound'
  BY MachineAssumption DEF CheckoutInv, JobsAreSound, Sound, OldIdentitiesAreBound,
                           Checkout!TypeOK, Checkout!Checkouts, Checkout!LoadAgain,
                           Checkout!Copying, Checkout!At, Checkout!Where, Checkout!NoJob,
                           OldIdentity
<1>3. OldIdentitiesAreBound'
  BY MachineAssumption DEF CheckoutInv, JobsAreSound, Sound, OldIdentitiesAreBound,
                           Checkout!TypeOK, Checkout!Checkouts, Checkout!LoadAgain, Checkout!At, Checkout!Where, Checkout!NoJob,
                           OldIdentity
<1>4. KeysHaveOneHome'
  <2>1. \A k \in Keys \ excused', g \in Hosts : Home(k, g)' => Home(k, g)
    BY MachineAssumption DEF CheckoutInv, JobsAreSound, Sound, OldIdentitiesAreBound,
                             Checkout!TypeOK, Checkout!Checkouts, Checkout!LoadAgain, Checkout!At, Checkout!Where, Checkout!NoJob,
                             OldIdentity, Home
  <2>2. excused \subseteq excused'
    BY DEF Checkout!LoadAgain
  <2> QED BY <2>1, <2>2 DEF CheckoutInv, KeysHaveOneHome
<1> QED BY <1>1, <1>2, <1>3, <1>4 DEF CheckoutInv

\* The node has a new key, or the key it had where it was at home, unless it slips.
LEMMA EnsureNodeKeepsTheHomes ==
    ASSUME CheckoutInv, NEW m \in Checkout!Machines, Checkout!EnsureNode(m)
    PROVE  CheckoutInv'
<1> DEFINE c == job[m].checkout
           h == job[m].target
<1>1. /\ job[m].step = "ensure" /\ c \in Checkout!Checkouts /\ h \in Hosts
      /\ OldIdentity(c) /\ c \notin unrotated => h = binding[c]
      /\ job[m].host \in Hosts /\ binding[c] # Absent
  BY DEF CheckoutInv, JobsAreSound, Sound, Checkout!TypeOK, Checkout!EnsureNode, Checkout!At
<1>2. /\ UNCHANGED <<binding, held, presented, unrotated>>
      /\ excused' = excused \cup Checkout!Slipped(c)
  BY DEF Checkout!EnsureNode, Checkout!Where
<1>3. PICK identity \in Checkout!Ensured(c, h, FALSE) :
         /\ node' = [node EXCEPT ![c] = identity]
         /\ job' = [job EXCEPT ![m].step = "present", ![m].key = identity.key]
  BY DEF Checkout!EnsureNode, Checkout!Where
<1>4. /\ identity \in Checkout!Identities
      /\ identity.version = 2 /\ identity.host = h /\ identity.key \in Keys
      /\ \/ /\ node[c] # Absent /\ identity.key = node[c].key
            /\ node[c].version = 1 \/ node[c].host = h
         \/ Checkout!Unused(identity.key)
  <2>1. Checkout!TypeOK /\ c \in Checkout!Checkouts /\ h \in Hosts /\ FALSE \in BOOLEAN
    BY <1>1 DEF CheckoutInv
  <2> HIDE DEF c, h
  <2>2. /\ identity \in Checkout!Identities
        /\ identity.version = 2 /\ identity.host = h /\ identity.key \in Keys
        /\ \/ /\ node[c] # Absent /\ ~FALSE /\ identity.key = node[c].key
              /\ node[c].version = 1 \/ node[c].host = h
           \/ Checkout!Unused(identity.key)
    BY <2>1, IdentityIsKeptOrNew, Zenon
  <2> QED BY <2>2
<1> HIDE DEF c, h
<1>5. /\ node'[c] = identity /\ \A d \in Checkout!Checkouts \ {c} : node'[d] = node[d]
      /\ \A d \in Checkout!Checkouts : OldIdentity(d)' => OldIdentity(d) /\ node'[d] = node[d]
  BY <1>1, <1>3, <1>4 DEF CheckoutInv, Checkout!TypeOK, OldIdentity
<1>6. /\ job'[m] = [job[m] EXCEPT !.step = "present", !.key = identity.key]
      /\ \A l \in Checkout!Machines \ {m} : job'[l] = job[l]
  BY <1>3 DEF CheckoutInv, Checkout!TypeOK
<1>7. /\ job'[m].step = "present" /\ job'[m].key = identity.key /\ job'[m].target = h
      /\ job'[m].host = job[m].host
  BY <1>6 DEF CheckoutInv, Checkout!TypeOK, h
<1>8. Checkout!TypeOK'
  <2>1. job' \in [Checkout!Machines -> JobRecords]
    BY <1>3, <1>4, JobGoesOn DEF CheckoutInv, JobSteps
  <2>2. node' \in [Checkout!Checkouts -> Checkout!Identities \cup {Absent}]
    BY <1>1, <1>3, <1>4 DEF CheckoutInv, Checkout!TypeOK
  <2>3. Checkout!Slipped(c) \subseteq Keys
    BY <1>1 DEF CheckoutInv, Checkout!TypeOK, Checkout!Slipped, Checkout!Identities
  <2> QED BY <1>2, <2>1, <2>2, <2>3 DEF CheckoutInv, Checkout!TypeOK, JobRecords, JobSteps
<1>9. JobsAreSound'
  <2>1. \A d \in Checkout!Checkouts : OldIdentity(d)' => OldIdentity(d)
    BY <1>5
  <2> SUFFICES ASSUME NEW l \in Checkout!Machines
               PROVE  Sound(l)'
    BY DEF JobsAreSound
  <2>0. Checkout!Copying' => Checkout!Copying
    BY <1>6, <1>7 DEF Checkout!Copying, Checkout!At
  <2>2. CASE l = m
    BY <1>1, <1>4, <1>7, <2>2 DEF Sound, Checkout!At
  <2>3. CASE l # m
    BY <1>2, <1>6, <2>0, <2>1, <2>3 DEF CheckoutInv, JobsAreSound, Sound, Checkout!At
  <2> QED BY <2>2, <2>3
<1>10. OldIdentitiesAreBound'
  BY <1>2, <1>5 DEF CheckoutInv, OldIdentitiesAreBound
<1>11. KeysHaveOneHome'
  <2> SUFFICES ASSUME NEW k \in Keys \ excused'
               PROVE  \/ \A g \in Hosts : Home(k, g)' => Home(k, g)
                      \/ \E g \in Hosts : \A f \in Hosts : Home(k, f)' => f = g
    BY <1>2, HomesStayUnique DEF CheckoutInv
  <2>0. Root \in Checkout!Checkouts
    BY DEF Checkout!Checkouts
  <2>1. \A g \in Hosts : Home(k, g)' => Home(k, g) \/ (identity.key = k /\ g = h)
    <3> SUFFICES ASSUME NEW g \in Hosts, Home(k, g)', ~(identity.key = k /\ g = h)
                 PROVE  Home(k, g)
      OBVIOUS
    <3>1. CASE g \in presented'[k]
      BY <1>2, <3>1 DEF Home
    <3>2. ASSUME NEW d \in Checkout!Checkouts, node'[d] # Absent, node'[d].key = k,
                 \/ node'[d].version = 2 /\ node'[d].host = g
                 \/ node'[d].version = 1 /\ d \notin unrotated /\ binding[d] = g
          PROVE  Home(k, g)
      <4>1. d # c
        BY <1>4, <1>5, <3>2
      <4> QED BY <1>5, <3>2, <4>1 DEF Home
    <3>3. ASSUME NEW l \in Checkout!Machines, job'[l].step = "present", job'[l].key = k,
                 job'[l].target = g
          PROVE  Home(k, g)
      <4>1. l # m
        BY <1>7, <3>3
      <4> QED BY <1>6, <3>3, <4>1 DEF Home, Checkout!At
    <3>4. ASSUME NEW l \in Checkout!Machines, job'[l].step = "copy", OldIdentity(Root)',
                 node'[Root].key = k,
                 Tree \notin unrotated, binding[Tree] = g
          PROVE  Home(k, g)
      <4>1. l # m
        BY <1>7, <3>4
      <4> QED BY <1>5, <1>6, <2>0, <3>4, <4>1 DEF Home, Checkout!At
    <3> QED BY <1>2, <3>1, <3>2, <3>3, <3>4 DEF Home, Checkout!At
  <2>2. CASE identity.key # k
    BY <2>1, <2>2
  <2>3. CASE identity.key = k /\ Checkout!Unused(k)
    <3>1. \A g \in Hosts : ~Home(k, g)
      BY <2>0, <2>3, UnusedHasNoHome DEF Home, OldIdentity
    <3> QED BY <1>1, <2>1, <3>1
  <2>4. CASE /\ identity.key = k /\ node[c] # Absent /\ node[c].key = k
             /\ node[c].version = 1 \/ node[c].host = h
    <3>1. CASE node[c].version = 1
      <4>1. c \notin unrotated
        BY <1>2, <2>4, <3>1 DEF Checkout!Slipped
      <4>2. Home(k, h)
        BY <1>1, <2>4, <3>1, <4>1 DEF Home, OldIdentity
      <4> QED BY <2>1, <4>2
    <3>2. CASE node[c].version # 1
      <4>1. node[c].version = 2 /\ node[c].host = h
        BY <1>1, <2>4, <3>2 DEF CheckoutInv, Checkout!TypeOK, Checkout!Identities
      <4>2. Home(k, h)
        BY <1>1, <2>4, <4>1 DEF Home
      <4> QED BY <2>1, <4>2
    <3> QED BY <3>1, <3>2
  <2> QED BY <1>4, <2>2, <2>3, <2>4
<1> QED BY <1>8, <1>9, <1>10, <1>11 DEF CheckoutInv

\* A key goes to the server it is for, unless the binding changed under the runtime.
LEMMA PresentKeepsTheHomes ==
    ASSUME CheckoutInv, NEW m \in Checkout!Machines, Checkout!Present(m)
    PROVE  CheckoutInv'
<1> USE DEF CheckoutInv, JobsAreSound, Sound, Checkout!TypeOK, Checkout!Checkouts,
            Checkout!Present, Checkout!Copying, Checkout!At, Checkout!Quit, Checkout!NoJob
<1>1. Checkout!TypeOK'
  BY MachineAssumption
<1>2. JobsAreSound'
  BY MachineAssumption DEF OldIdentitiesAreBound, OldIdentity
<1>3. OldIdentitiesAreBound'
  BY MachineAssumption DEF OldIdentitiesAreBound, OldIdentity
<1>4. KeysHaveOneHome'
  <2>1. \A k \in Keys \ excused', g \in Hosts : Home(k, g)' => Home(k, g)
    BY MachineAssumption DEF OldIdentitiesAreBound, OldIdentity, Home
  <2>2. excused \subseteq excused'
    OBVIOUS
  <2> QED BY <2>1, <2>2 DEF KeysHaveOneHome
<1> QED BY <1>1, <1>2, <1>3, <1>4

\* A copy of the binding awaits the rotation that its original awaits.
LEMMA CopyConfigKeepsTheHomes ==
    ASSUME CheckoutInv, NEW m \in Checkout!Machines, Checkout!CopyConfig(m)
    PROVE  CheckoutInv'
<1> USE DEF CheckoutInv, JobsAreSound, Sound, Checkout!TypeOK, Checkout!Checkouts,
            Checkout!CopyConfig, Checkout!Copying, Checkout!At, Checkout!NoJob
<1>1. Checkout!TypeOK'
  BY MachineAssumption
<1>2. JobsAreSound'
  BY MachineAssumption DEF OldIdentitiesAreBound, OldIdentity
<1>3. OldIdentitiesAreBound'
  BY MachineAssumption DEF OldIdentitiesAreBound, OldIdentity
<1>4. KeysHaveOneHome'
  <2>1. \A k \in Keys \ excused', g \in Hosts : Home(k, g)' => Home(k, g)
    BY MachineAssumption DEF OldIdentitiesAreBound, OldIdentity, Home
  <2>2. excused \subseteq excused'
    OBVIOUS
  <2> QED BY <2>1, <2>2 DEF KeysHaveOneHome
<1> QED BY <1>1, <1>2, <1>3, <1>4

\* A copied identity is at home where its original is.
LEMMA CopyNodeKeepsTheHomes ==
    ASSUME CheckoutInv, NEW m \in Checkout!Machines, Checkout!CopyNode(m)
    PROVE  CheckoutInv'
<1> USE DEF CheckoutInv, JobsAreSound, Sound, Checkout!TypeOK, Checkout!Checkouts,
            Checkout!CopyNode, Checkout!Copying, Checkout!At, Checkout!Quit, Checkout!NoJob
<1>1. Checkout!TypeOK'
  BY MachineAssumption
<1>2. JobsAreSound'
  BY MachineAssumption DEF OldIdentitiesAreBound, OldIdentity
<1>3. OldIdentitiesAreBound'
  BY MachineAssumption DEF OldIdentitiesAreBound, OldIdentity
<1>4. KeysHaveOneHome'
  <2>1. \A k \in Keys \ excused', g \in Hosts : Home(k, g)' => Home(k, g)
    BY MachineAssumption DEF OldIdentitiesAreBound, OldIdentity, Home
  <2>2. excused \subseteq excused'
    OBVIOUS
  <2> QED BY <2>1, <2>2 DEF KeysHaveOneHome
<1> QED BY <1>1, <1>2, <1>3, <1>4

\* A process that dies leaves the files as they are.
LEMMA AbortKeepsTheHomes ==
    ASSUME CheckoutInv, NEW m \in Checkout!Machines, Checkout!Abort(m)
    PROVE  CheckoutInv'
<1> USE DEF CheckoutInv, JobsAreSound, Sound, Checkout!TypeOK, Checkout!Checkouts,
            Checkout!Abort, Checkout!Copying, Checkout!At, Checkout!Quit, Checkout!Free,
            Checkout!NoJob
<1>1. Checkout!TypeOK'
  BY MachineAssumption
<1>2. JobsAreSound'
  BY MachineAssumption DEF OldIdentitiesAreBound, OldIdentity
<1>3. OldIdentitiesAreBound'
  BY MachineAssumption DEF OldIdentitiesAreBound, OldIdentity
<1>4. KeysHaveOneHome'
  <2>1. \A k \in Keys \ excused', g \in Hosts : Home(k, g)' => Home(k, g)
    BY MachineAssumption DEF OldIdentitiesAreBound, OldIdentity, Home
  <2>2. excused \subseteq excused'
    OBVIOUS
  <2> QED BY <2>1, <2>2 DEF KeysHaveOneHome
<1> QED BY <1>1, <1>2, <1>3, <1>4

----------------------------------------------------------------------------
(* The theorems about the machine. *)

\* The installation starts without files.
LEMMA FilesStart == Host!Init => HostInv
<1> SUFFICES ASSUME Host!Init PROVE HostInv
  OBVIOUS
<1>1. \A p \in Commanders :
         /\ command[p] = Host!NoCommand
         /\ command[p].kind = "none" /\ command[p].step = "none"
  BY DEF Host!Init, Host!NoCommand
<1>2. Host!TypeOK
  BY DEF Host!Init, Host!TypeOK, Host!NoCommand, Host!Commands, Host!Steps
<1>3. StepsHaveTheirCommand /\ StepsAreSound
  BY <1>1 DEF StepsHaveTheirCommand, StepsAreSound, Host!At
<1>4. CommandsKeepApart /\ TheFilesAgree
  BY <1>1 DEF Host!Init, CommandsKeepApart, TheFilesAgree, Host!Collide, Host!Writers
<1> QED BY <1>2, <1>3, <1>4 DEF HostInv

\* Every step of the server manager keeps the invariant of its files.
LEMMA FilesStep ==
    ASSUME HostInv, [Host!ServerNext]_(Host!vars) PROVE HostInv'
<1>1. CASE UNCHANGED Host!vars
  BY <1>1 DEF Host!vars, HostInv, Host!TypeOK, StepsHaveTheirCommand, CommandsKeepApart,
              StepsAreSound, TheFilesAgree, Host!At
<1>2. ASSUME NEW p \in Commanders, NEW image \in Images,
             NEW kind \in {"install", "force", "upgrade"}, Host!Begin(p, kind, image)
      PROVE  HostInv'
  BY <1>2, BeginKeepsTheFiles DEF Host!Commands
<1>3. ASSUME NEW p \in Commanders, NEW kind \in {"start", "stop", "down", "erase"},
             Host!Begin(p, kind, Nothing)
      PROVE  HostInv'
  BY <1>3, BeginKeepsTheFiles DEF Host!Commands
<1>4. ASSUME NEW p \in Commanders, Host!Down(p, "down", FALSE) \/ Host!Down(p, "erase", TRUE)
      PROVE  HostInv'
  <2>1. /\ Host!Down(p, "down", FALSE) => Host!Down(p, IF FALSE THEN "erase" ELSE "down", FALSE)
        /\ Host!Down(p, "erase", TRUE) => Host!Down(p, IF TRUE THEN "erase" ELSE "down", TRUE)
    BY DEF Host!Down
  <2>2. FALSE \in BOOLEAN /\ TRUE \in BOOLEAN
    OBVIOUS
  <2>3. CASE Host!Down(p, "down", FALSE)
    BY <2>1, <2>2, <2>3, DownKeepsTheFiles, Zenon
  <2>4. CASE Host!Down(p, "erase", TRUE)
    BY <2>1, <2>2, <2>4, DownKeepsTheFiles, Zenon
  <2> QED BY <1>4, <2>3, <2>4
<1>5. ASSUME NEW p \in Commanders,
             \/ Host!Interrupt(p) \/ Host!ChooseSecrets(p) \/ Host!WriteCompose(p)
             \/ Host!WriteEnvironment(p) \/ Host!WriteRecord(p) \/ Host!Up(p) \/ Host!Start(p)
             \/ Host!Stop(p) \/ Host!BackUp(p) \/ Host!SetImage(p) \/ Host!RemoveFile(p)
             \/ Host!Removed(p)
      PROVE  HostInv'
  BY <1>5, InterruptKeepsTheFiles, ChooseSecretsKeepsTheFiles, WriteComposeKeepsTheFiles,
     WriteEnvironmentKeepsTheFiles, WriteRecordKeepsTheFiles, UpKeepsTheFiles,
     StartKeepsTheFiles, StopKeepsTheFiles, BackUpKeepsTheFiles, SetImageKeepsTheFiles,
     RemoveFileKeepsTheFiles, RemovedKeepsTheFiles
<1> QED BY <1>1, <1>2, <1>3, <1>4, <1>5 DEF Host!ServerNext

\* The runtime starts with its session and without work.
LEMMA WatchStarts == Runtime!Init => RuntimeInv
<1> SUFFICES ASSUME Runtime!Init PROVE RuntimeInv
  OBVIOUS
<1>1. Runtime!TypeOK /\ CallsAreNamed
  BY DEF Runtime!Init, Runtime!TypeOK, CallsAreNamed, Runtime!Idle, Runtime!At, Runtime!Loops,
         Runtime!Open
<1>2. CallsHaveTheirWork /\ WatchesAreSound /\ WorktreesFollowTheWork /\ ErrorsHaveACause
  BY DEF Runtime!Init, CallsHaveTheirWork, WatchesAreSound, WorktreesFollowTheWork,
         ErrorsHaveACause, Runtime!Idle, Runtime!At, Runtime!Starting, Early
<1>3. ObserversFollowTheWork
  BY DEF Runtime!Init, ObserversFollowTheWork, Runtime!ObserversFollowTheWork, Runtime!Observed
<1> QED BY <1>1, <1>2, <1>3 DEF RuntimeInv

\* Every step of the runtime keeps the invariant of its observers.
LEMMA WatchStep ==
    ASSUME RuntimeInv, [Runtime!RuntimeNext]_(Runtime!vars) PROVE RuntimeInv'
<1>1. CASE UNCHANGED Runtime!vars
  BY <1>1 DEF Runtime!vars, RuntimeInv, Runtime!TypeOK, CallsAreNamed, CallsHaveTheirWork,
              WatchesAreSound, WorktreesFollowTheWork, ErrorsHaveACause, ObserversFollowTheWork,
              Runtime!ObserversFollowTheWork, Runtime!Observed, Runtime!Unwatched,
              Runtime!Working, Runtime!At
<1>2. CASE \E c \in Calls, w \in Works : Runtime!StartWork(c, w)
  BY <1>2, StartWorkKeepsTheWatch
<1>3. CASE \E c \in Calls :
              \/ Runtime!CreateWorktree(c) \/ Runtime!AttachWorktree(c)
              \/ Runtime!RegisterObserver(c) \/ Runtime!FirstLook(c)
              \/ Runtime!MarkWorkBlocked(c) \/ Runtime!StopObserver(c)
  BY <1>3, CreateWorktreeKeepsTheWatch, AttachWorktreeKeepsTheWatch,
     RegisterObserverKeepsTheWatch, FirstLookKeepsTheWatch, MarkWorkBlockedKeepsTheWatch,
     StopObserverKeepsTheWatch
<1>4. CASE \E c \in Calls, w \in Works, to \in Runtime!Open \cup {"ended"} :
              Runtime!UpdateWork(c, w, to)
  BY <1>4, UpdateWorkKeepsTheWatch
<1>5. CASE \E w \in Works :
              \/ Runtime!EndElsewhere(w) \/ Runtime!Tick(w) \/ Runtime!Look(w)
              \/ Runtime!Quit(w)
  BY <1>5, EndElsewhereKeepsTheWatch, TickKeepsTheWatch, LookKeepsTheWatch, QuitKeepsTheWatch
<1>6. CASE \E l \in Runtime!Loops : Runtime!LoopFails(l)
  BY <1>6, LoopFailsKeepsTheWatch
<1>7. CASE Runtime!LoseSession \/ Runtime!Leave \/ Runtime!Stop \/ Runtime!Exit
  BY <1>7, LoseSessionKeepsTheWatch, LeaveKeepsTheWatch, StopKeepsTheWatch, ExitKeepsTheWatch
<1> QED BY <1>1, <1>2, <1>3, <1>4, <1>5, <1>6, <1>7 DEF Runtime!RuntimeNext

\* A clone was never connected, or knows one server under one key.
LEMMA HomesStart == Checkout!Init => CheckoutInv
<1> SUFFICES ASSUME Checkout!Init PROVE CheckoutInv
  OBVIOUS
<1>1. /\ \A m \in Checkout!Machines : job[m] = Checkout!NoJob /\ job[m].step = "none"
      /\ unrotated = {} /\ excused = {} /\ Root \in Checkout!Checkouts
  BY DEF Checkout!Init, Checkout!NoJob, Checkout!Checkouts
<1>2. JobsAreSound
  BY <1>1 DEF JobsAreSound, Sound, Checkout!At
<1>3. Checkout!NoJob \in JobRecords
  BY DEF Checkout!NoJob, JobRecords, JobSteps
<1>4. job \in [Checkout!Machines -> JobRecords]
  BY <1>3 DEF Checkout!Init
<1>5. CASE /\ binding = [c \in Checkout!Checkouts |-> Absent]
           /\ node = [c \in Checkout!Checkouts |-> Absent]
           /\ presented = [k \in Keys |-> {}]
  <2>1. Checkout!TypeOK
    BY <1>4, <1>5 DEF Checkout!Init, Checkout!TypeOK, JobRecords, JobSteps
  <2>2. OldIdentitiesAreBound
    BY <1>5 DEF OldIdentitiesAreBound, OldIdentity
  <2>3. KeysHaveOneHome
    BY <1>1, <1>5 DEF KeysHaveOneHome, Home, Checkout!At
  <2> QED BY <1>2, <2>1, <2>2, <2>3 DEF CheckoutInv
<1>6. ASSUME NEW h \in Hosts, NEW k \in Keys,
             binding = [c \in Checkout!Checkouts |-> IF c = Root THEN h ELSE Absent],
             node = [c \in Checkout!Checkouts |->
                       IF c = Root THEN [version |-> 1, key |-> k, host |-> Absent] ELSE Absent],
             presented = [l \in Keys |-> IF l = k THEN {h} ELSE {}]
      PROVE  CheckoutInv
  <2> DEFINE identity == [version |-> 1, key |-> k, host |-> Absent]
  <2>1. identity \in Checkout!Identities /\ identity.key = k /\ identity.version = 1
    BY DEF Checkout!Identities
  <2> HIDE DEF identity
  <2>2. /\ \A c \in Checkout!Checkouts : node[c] = IF c = Root THEN identity ELSE Absent
        /\ \A c \in Checkout!Checkouts : binding[c] = IF c = Root THEN h ELSE Absent
        /\ \A l \in Keys : presented[l] = IF l = k THEN {h} ELSE {}
    BY <1>6 DEF identity
  <2>3. Checkout!TypeOK
    <3>1. node \in [Checkout!Checkouts -> Checkout!Identities \cup {Absent}]
      BY <1>6, <2>1 DEF identity
    <3>2. binding \in [Checkout!Checkouts -> Hosts \cup {Absent}]
      BY <1>6
    <3>3. presented \in [Keys -> SUBSET Hosts]
      BY <1>6
    <3> QED BY <1>1, <1>4, <3>1, <3>2, <3>3 DEF Checkout!Init, Checkout!TypeOK, JobRecords,
                                                JobSteps
  <2>4. OldIdentitiesAreBound
    BY <1>1, <2>2, MachineAssumption DEF OldIdentitiesAreBound, OldIdentity
  <2>5. \A l \in Keys, g \in Hosts : Home(l, g) => g = h
    BY <1>1, <2>1, <2>2 DEF Home, Checkout!At
  <2> QED BY <1>2, <2>3, <2>4, <2>5 DEF CheckoutInv, KeysHaveOneHome
<1> QED BY <1>5, <1>6 DEF Checkout!Init

\* Every step on the checkout keeps the invariant of its keys.
LEMMA HomesStep ==
    ASSUME CheckoutInv, [Checkout!BindingNext]_(Checkout!vars) PROVE CheckoutInv'
<1>1. CASE UNCHANGED Checkout!vars
  BY <1>1 DEF Checkout!vars, CheckoutInv, Checkout!TypeOK, JobsAreSound, Sound,
              Checkout!Copying, OldIdentitiesAreBound, KeysHaveOneHome, Home, OldIdentity, Checkout!At
<1>2. CASE \E m \in Checkout!Machines, c \in Checkout!Checkouts, h \in Hosts, rebind \in BOOLEAN :
              m \in Connectors /\ Checkout!Connect(m, c, h, rebind)
  BY <1>2, ConnectKeepsTheHomes
<1>3. CASE \E m \in Checkout!Machines :
              \/ Checkout!EnsureConfig(m) \/ Checkout!ReadConfig(m) \/ Checkout!WriteConfig(m)
              \/ Checkout!Reconcile(m) \/ Checkout!LoadAgain(m) \/ Checkout!EnsureNode(m)
              \/ Checkout!Present(m) \/ Checkout!CopyConfig(m) \/ Checkout!CopyNode(m)
              \/ Checkout!Abort(m)
  BY <1>3, EnsureConfigKeepsTheHomes, ReadConfigKeepsTheHomes, WriteConfigKeepsTheHomes,
     ReconcileKeepsTheHomes, LoadAgainKeepsTheHomes, EnsureNodeKeepsTheHomes,
     PresentKeepsTheHomes, CopyConfigKeepsTheHomes, CopyNodeKeepsTheHomes, AbortKeepsTheHomes
<1>4. CASE \E m \in Checkout!Machines, c \in Checkout!Checkouts :
              m \in Runtimes /\ Checkout!Run(m, c)
  BY <1>4, RunKeepsTheHomes
<1> QED BY <1>1, <1>2, <1>3, <1>4 DEF Checkout!BindingNext

----------------------------------------------------------------------------
(* The theorems. *)

\* Whatever runs on the machine, each of its four parts behaves as its own
\* specification says: no step of one disturbs another.
LEMMA PartsKeepTheirSpecifications ==
    MachineSpec => /\ ProfileSpec /\ Runtime!RuntimeSpec
                   /\ Checkout!BindingSpec /\ Host!ServerSpec
<1>1. MachineInit => Init /\ Runtime!Init /\ Checkout!Init /\ Host!Init
  BY DEF MachineInit
<1>2. [MachineNext]_<<part, loginVars, runtimeVars, checkoutVars, serverVars>>
      => /\ [ProfileNext]_vars
         /\ [Runtime!RuntimeNext]_(Runtime!vars)
         /\ [Checkout!BindingNext]_(Checkout!vars)
         /\ [Host!ServerNext]_(Host!vars)
  BY DEF MachineNext, loginVars, runtimeVars, checkoutVars, serverVars, Runtime!vars,
         Checkout!vars, Host!vars
<1> QED
  BY <1>1, <1>2, PTL DEF MachineSpec, ProfileSpec, Runtime!RuntimeSpec, Checkout!BindingSpec,
                         Host!ServerSpec

\* The logins of a machine agree with its credentials: see RegistryAndStoreAgree.
THEOREM MachineKnowsWhoIsLoggedIn == MachineSpec => []WhoIsLoggedIn
BY PartsKeepTheirSpecifications, RegistryAndStoreAgree, PTL

\* As long as no two commands that write the files of the local server meet, and none
\* meets the removal of its data, wherever each of them stops, the password in
\* .env opens the volume, an installation on record is complete unless its
\* removal was interrupted, and the image on record is the one the next start runs
\* unless a command stopped between its two writes (internal/localserver).
THEOREM InstallationsAreComplete == MachineSpec => []TheRecordIsTrue
<1>1. Host!Init => HostInv
  BY FilesStart
<1>2. HostInv /\ [Host!ServerNext]_(Host!vars) => HostInv'
  BY FilesStep
<1>3. HostInv => TheRecordIsTrue
  BY DEF HostInv, TheFilesAgree, TheRecordIsTrue, Host!TheRecordIsTrue
<1> QED BY <1>1, <1>2, <1>3, PartsKeepTheirSpecifications, PTL DEF Host!ServerSpec

\* The invariant of the runtime of an agent, for any number of work items and calls.
THEOREM RuntimeIsSound == MachineSpec => []RuntimeInv
<1>1. Runtime!Init => RuntimeInv
  BY WatchStarts
<1>2. RuntimeInv /\ [Runtime!RuntimeNext]_(Runtime!vars) => RuntimeInv'
  BY WatchStep
<1> QED BY <1>1, <1>2, PartsKeepTheirSpecifications, PTL DEF Runtime!RuntimeSpec

\* As long as the runtime is up, every observer can be stopped by name, one whose
\* worktree was archived is being stopped unless another session ended the work or a
\* request failed, and active work is observed or it is known why not
\* (cmd/pact/mcp.go).
THEOREM ActiveWorkIsObserved == MachineSpec => []ObserversFollowTheWork
<1>1. RuntimeInv => ObserversFollowTheWork
  BY DEF RuntimeInv, ObserversFollowTheWork, Runtime!ObserversFollowTheWork
<1> QED BY <1>1, RuntimeIsSound, PTL

\* The runtime stops only when its client left, its session is lost, a request
\* failed, or a worktree was archived under its observer.
THEOREM RuntimeServes == MachineSpec => ServesWhileAllIsWell
<1>1. RuntimeInv /\ [Runtime!RuntimeNext]_(Runtime!vars)
      => [ process = "up" /\ process' # "up"
           => \/ ~client
              \/ session = "lost"
              \/ trouble.failed
              \/ \E w \in Works : worktree[w] = "archived" ]_(Runtime!vars)
  <2> SUFFICES ASSUME RuntimeInv, Runtime!RuntimeNext, process = "up", process' # "up"
               PROVE  \/ ~client
                      \/ session = "lost"
                      \/ trouble.failed
                      \/ \E w \in Works : worktree[w] = "archived"
    BY DEF Runtime!vars
  <2>1. Runtime!Stop
    BY DEF Runtime!RuntimeNext, Runtime!StartWork, Runtime!CreateWorktree,
           Runtime!AttachWorktree, Runtime!RegisterObserver, Runtime!FirstLook,
           Runtime!MarkWorkBlocked, Runtime!UpdateWork, Runtime!StopObserver,
           Runtime!EndElsewhere, Runtime!Tick, Runtime!Look, Runtime!Quit, Runtime!LoopFails,
           Runtime!LoseSession, Runtime!Leave, Runtime!Exit, Runtime!local
  <2> QED BY <2>1 DEF Runtime!Stop, RuntimeInv, ErrorsHaveACause
<1> QED
  BY <1>1, RuntimeIsSound, PartsKeepTheirSpecifications, PTL
     DEF Runtime!RuntimeSpec, ServesWhileAllIsWell, Runtime!ServesWhileAllIsWell

\* A node key is presented to one server only, whatever connects, runs, copies and
\* crashes meet, unless a rebinding overtook a runtime between its two reads of the
\* binding or a key of version 1 was adopted before the rotation it awaited
\* (internal/localproject).
THEOREM KeysAreForOneServer == MachineSpec => []OneServerPerKey
<1>1. Checkout!Init => CheckoutInv
  BY HomesStart
<1>2. CheckoutInv /\ [Checkout!BindingNext]_(Checkout!vars) => CheckoutInv'
  BY HomesStep
<1>3. CheckoutInv => OneServerPerKey
  BY DEF CheckoutInv, Checkout!TypeOK, KeysHaveOneHome, Home, OneServerPerKey,
         Checkout!OneServerPerKey
<1> QED BY <1>1, <1>2, <1>3, PartsKeepTheirSpecifications, PTL DEF Checkout!BindingSpec
=============================================================================
