--------------------------- MODULE LocalBindings ---------------------------
(***************************************************************************)
(* A checkout and its server: .pact/config.json binds the checkout to one  *)
(* server, .pact/node.json holds the key by which that server knows this   *)
(* machine (internal/localproject, internal/worktree, cmd/pact).           *)
(*                                                                         *)
(* pact connect rebinds a checkout, or a worktree that was made from it,   *)
(* under a lock of its config.json and then reconciles its node under a    *)
(* lock of its own; a runtime reads the binding without a lock, twice; a   *)
(* new worktree gets copies of both files one after the other.             *)
(*                                                                         *)
(* The commands replace a file in one rename.  The copies of a worktree    *)
(* are written in place: a file cut short there is one that no command can *)
(* read, as if it were absent, and a copy that fails takes the worktree    *)
(* away again, which is left out.  A process may die or fail between two   *)
(* steps.  Projects, names and remotes are left out.                       *)
(***************************************************************************)
EXTENDS FiniteSets

CONSTANTS Root, Tree,  \* the checkout, and a worktree made from it
          Hosts,       \* servers
          Keys,
          Connectors, Runtimes,  \* processes that connect, and that run or copy
          Absent

Machines == Connectors \cup Runtimes

VARIABLES binding,    \* config.json of each checkout: its server
          node,       \* node.json: the key and, since version 2, its server
          held,       \* the process that holds config.json.lock
          job,        \* what each process is doing
          presented,  \* the servers each key was presented to
          unrotated,  \* checkouts rebound, whose node was not yet reconciled
          excused     \* keys that a rebinding under way, or cut short, let slip

vars == <<binding, node, held, job, presented, unrotated, excused>>

Checkouts == {Root, Tree}
NoJob == [step |-> "none", checkout |-> Absent, host |-> Absent, rebind |-> FALSE,
          rotate |-> FALSE, key |-> Absent, target |-> Absent]
Identities == [version : {1}, key : Keys, host : {Absent}]
              \cup [version : {2}, key : Keys, host : Hosts]

TypeOK ==
    /\ binding \in [Checkouts -> Hosts \cup {Absent}]
    /\ node \in [Checkouts -> Identities \cup {Absent}]
    /\ held \in [Checkouts -> Machines \cup {Absent}]
    /\ job \in [Machines ->
          [step : {"none", "init", "read", "write", "reconcile", "load", "ensure",
                   "present", "copy"},
           checkout : Checkouts \cup {Absent}, host : Hosts \cup {Absent},
           rebind : BOOLEAN, rotate : BOOLEAN, key : Keys \cup {Absent},
           target : Hosts \cup {Absent}]]
    /\ presented \in [Keys -> SUBSET Hosts]
    /\ unrotated \subseteq Checkouts
    /\ excused \subseteq Keys

\* A clone that was never connected, or one that an earlier version of the
\* program used with a server, whichever, under a key, whichever.
Init ==
    /\ held = [c \in Checkouts |-> Absent]
    /\ job = [m \in Machines |-> NoJob]
    /\ unrotated = {}
    /\ excused = {}
    /\ \/ /\ binding = [c \in Checkouts |-> Absent]
          /\ node = [c \in Checkouts |-> Absent]
          /\ presented = [k \in Keys |-> {}]
       \/ \E h \in Hosts, k \in Keys :
             /\ binding = [c \in Checkouts |-> IF c = Root THEN h ELSE Absent]
             /\ node = [c \in Checkouts |->
                          IF c = Root THEN [version |-> 1, key |-> k, host |-> Absent]
                          ELSE Absent]
             /\ presented = [l \in Keys |-> IF l = k THEN {h} ELSE {}]

At(m, step) == job[m].step = step
Where(m) == job[m].checkout
Goto(m, step) == job' = [job EXCEPT ![m].step = step]
Quit(m) == job' = [job EXCEPT ![m] = NoJob]
Free(m) == held' = [c \in Checkouts |-> IF held[c] = m THEN Absent ELSE held[c]]

Unused(k) ==
    /\ presented[k] = {}
    /\ \A c \in Checkouts : node[c] = Absent \/ node[c].key # k
    /\ \A m \in Machines : job[m].key # k

\* newUUID: one unused key stands for any other.
NewKeys == LET unused == {k \in Keys : Unused(k)}
           IN IF unused = {} THEN {} ELSE {CHOOSE k \in unused : TRUE}

-----------------------------------------------------------------------------
(* The node identity. *)

\* As it is without the comparison of servers.
AnyServer(c, h, rotate) ==
    IF node[c] = Absent \/ rotate
    THEN {[version |-> 2, key |-> k, host |-> h] : k \in NewKeys}
    ELSE {[version |-> 2, key |-> node[c].key, host |-> h]}

\* A version 1 identity is adopted unless it is to be rotated; one of this server
\* is kept unless it is; any other gives way to a new key.
Ensured(c, h, rotate) ==
    IF node[c] # Absent /\ ~rotate /\ (node[c].version = 1 \/ node[c].host = h)
    THEN {[version |-> 2, key |-> node[c].key, host |-> h]}
    ELSE {[version |-> 2, key |-> k, host |-> h] : k \in NewKeys}

\* An identity adopted while its checkout awaits a rotation keeps the key that
\* another server knows.
Slipped(c) ==
    IF node[c] # Absent /\ node[c].version = 1 /\ c \in unrotated THEN {node[c].key} ELSE {}

-----------------------------------------------------------------------------
(* pact connect. *)

Copying == \E m \in Machines : At(m, "copy")

\* FindRoot: the checkout it is called in, which a worktree is once it was made.
Connect(m, c, h, rebind) ==
    /\ At(m, "none")
    /\ c = Root \/ (binding[c] # Absent /\ ~Copying)
    /\ job' = [job EXCEPT ![m] = [NoJob EXCEPT !.step = "init", !.checkout = c,
                                               !.host = h, !.rebind = rebind]]
    /\ UNCHANGED <<binding, node, held, presented, unrotated, excused>>

\* ensureLocalConfig, under the lock of its own: a first configuration names the
\* server, an existing one is not changed.
EnsureConfig(m) ==
    /\ At(m, "init") /\ held[Where(m)] = Absent
    /\ IF binding[Where(m)] = Absent
       THEN binding' = [binding EXCEPT ![Where(m)] = job[m].host] /\ Goto(m, "read")
       ELSE /\ UNCHANGED binding
            /\ IF binding[Where(m)] = job[m].host \/ job[m].rebind THEN Goto(m, "read") ELSE Quit(m)
    /\ UNCHANGED <<node, held, presented, unrotated, excused>>

\* bind: the lock, and the comparison with what is there.
ReadConfig(m) ==
    /\ At(m, "read") /\ held[Where(m)] = Absent
    /\ LET changed == binding[Where(m)] # job[m].host IN
       IF changed /\ ~job[m].rebind
       THEN Quit(m) /\ UNCHANGED held
       ELSE /\ held' = [held EXCEPT ![Where(m)] = m]
            /\ job' = [job EXCEPT ![m].step = IF changed THEN "write" ELSE "reconcile",
                                  ![m].rotate = changed]
    /\ UNCHANGED <<binding, node, presented, unrotated, excused>>

WriteConfig(m) ==
    /\ At(m, "write")
    /\ binding' = [binding EXCEPT ![Where(m)] = job[m].host]
    /\ unrotated' = unrotated \cup {Where(m)}
    /\ Goto(m, "reconcile")
    /\ UNCHANGED <<node, held, presented, excused>>

\* As it is when the node is never rotated on purpose.
ReconcileOnly(m) ==
    /\ At(m, "reconcile")
    /\ IF node[Where(m)] = Absent THEN UNCHANGED node
       ELSE \E identity \in Ensured(Where(m), job[m].host, FALSE) :
               node' = [node EXCEPT ![Where(m)] = identity]
    /\ excused' = excused \cup (IF job[m].rotate THEN {} ELSE Slipped(Where(m)))
    /\ unrotated' = unrotated \ {Where(m)}
    /\ Quit(m) /\ Free(m)
    /\ UNCHANGED <<binding, presented>>

\* reconcileExistingNodeIdentity: without a node there is nothing to reconcile.
Reconcile(m) ==
    /\ At(m, "reconcile")
    /\ IF node[Where(m)] = Absent THEN UNCHANGED node
       ELSE \E identity \in Ensured(Where(m), job[m].host, job[m].rotate) :
               node' = [node EXCEPT ![Where(m)] = identity]
    /\ excused' = excused \cup (IF job[m].rotate THEN {} ELSE Slipped(Where(m)))
    /\ unrotated' = unrotated \ {Where(m)}
    /\ Quit(m) /\ Free(m)
    /\ UNCHANGED <<binding, presented>>

-----------------------------------------------------------------------------
(* pact agent run, pact node run and pact mcp serve. *)

\* LoadBinding, for the login.
Run(m, c) ==
    /\ At(m, "none") /\ binding[c] # Absent
    /\ job' = [job EXCEPT ![m] = [NoJob EXCEPT !.step = "load", !.checkout = c,
                                               !.host = binding[c]]]
    /\ UNCHANGED <<binding, node, held, presented, unrotated, excused>>

\* EnsureNodeIdentity loads the binding itself, before it takes the node's lock.
LoadAgain(m) ==
    /\ At(m, "load")
    /\ job' = [job EXCEPT ![m].step = "ensure", ![m].target = binding[Where(m)]]
    /\ UNCHANGED <<binding, node, held, presented, unrotated, excused>>

EnsureNode(m) ==
    /\ At(m, "ensure")
    /\ \E identity \in Ensured(Where(m), job[m].target, FALSE) :
          /\ node' = [node EXCEPT ![Where(m)] = identity]
          /\ job' = [job EXCEPT ![m].step = "present", ![m].key = identity.key]
    /\ excused' = excused \cup Slipped(Where(m))
    /\ UNCHANGED <<binding, held, presented, unrotated>>

\* StartAgentSession goes to the server of the login.
Present(m) ==
    /\ At(m, "present")
    /\ presented' = [presented EXCEPT ![job[m].key] = @ \cup {job[m].host}]
    /\ excused' = IF job[m].host # job[m].target THEN excused \cup {job[m].key} ELSE excused
    /\ Quit(m)
    /\ UNCHANGED <<binding, node, held, unrotated>>

-----------------------------------------------------------------------------
(* copyLocalRuntime: the two files of a new worktree, the second if there is one. *)

CopyConfig(m) ==
    /\ At(m, "none") /\ binding[Root] # Absent
    /\ binding[Tree] = Absent /\ ~Copying
    /\ binding' = [binding EXCEPT ![Tree] = binding[Root]]
    /\ unrotated' = IF Root \in unrotated THEN unrotated \cup {Tree} ELSE unrotated
    /\ job' = [job EXCEPT ![m] = [NoJob EXCEPT !.step = "copy", !.checkout = Tree]]
    /\ UNCHANGED <<node, held, presented, excused>>

CopyNode(m) ==
    /\ At(m, "copy")
    /\ node' = [node EXCEPT ![Tree] = node[Root]]
    /\ Quit(m)
    /\ UNCHANGED <<binding, held, presented, unrotated, excused>>

-----------------------------------------------------------------------------
\* The process dies, or a write fails before the file is replaced; when it fails
\* after that, it is the death of the next step.
Abort(m) ==
    /\ ~At(m, "none")
    /\ Quit(m) /\ Free(m)
    /\ UNCHANGED <<binding, node, presented, unrotated, excused>>

BindingNext ==
    \E m \in Machines :
       \/ \E c \in Checkouts, h \in Hosts, rebind \in BOOLEAN :
             m \in Connectors /\ Connect(m, c, h, rebind)
       \/ EnsureConfig(m) \/ ReadConfig(m) \/ WriteConfig(m) \/ Reconcile(m)
       \/ \E c \in Checkouts : m \in Runtimes /\ Run(m, c)
       \/ LoadAgain(m) \/ EnsureNode(m) \/ Present(m)
       \/ m \in Runtimes /\ CopyConfig(m)
       \/ CopyNode(m) \/ Abort(m)

BindingSpec == Init /\ [][BindingNext]_vars

-----------------------------------------------------------------------------
\* A machine is known to each server by a key of its own: whatever connects,
\* runs, copies and crashes meet, a node key is presented to two servers only
\* when a rebinding overtook a runtime between its two reads of the binding, or
\* a key of version 1 was adopted before the rebinding that was to rotate it
\* had ended ("rotates only when the server changes", README.md:431).
OneServerPerKey ==
    \A k \in Keys \ excused : \A g, h \in presented[k] : g = h
=============================================================================
