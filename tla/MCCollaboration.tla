--------------------------- MODULE MCCollaboration ---------------------------
(* Groups of commands that touch the same rows; every three of a group run together. *)
EXTENDS Collaboration, TLC

CONSTANTS p1, p2, w1, a1, a2, a3, s1, s2, u1, u2, k1, k2, q1, q2, q3

Call(kind, key) ==
  [kind |-> kind, key |-> key, by |-> u1, project |-> None, workspace |-> None, projects |-> {},
   room |-> None, reply |-> FALSE, mention |-> None, record |-> None, status |-> "proposed",
   version |-> 0, other |-> None, resource |-> None, session |-> None]

Move(p, w) == [Call("workspace.attach", k1) EXCEPT !.workspace = w, !.projects = {p}]
MakeWorkspace(w, ps) == [Call("workspace.create", k1) EXCEPT !.workspace = w, !.projects = ps]
MakeProject(key, by, w) ==
  [Call("project.create", key) EXCEPT !.by = by, !.project = p2, !.workspace = w]
MakeRoom(key, w) == [Call("room.create", key) EXCEPT !.workspace = w, !.room = "r"]
Post(key, replies, to) ==
  [Call("room.message.create", key) EXCEPT !.workspace = p1, !.room = "general",
                                           !.reply = replies, !.mention = to]
Propose(key, a, r) == [Call("knowledge.record.create", key) EXCEPT !.record = a, !.resource = r]
Cite(key) == [Call("knowledge.resource.create", key) EXCEPT !.resource = "doc"]
Review(key, a, to, seen, b) ==
  [Call("knowledge.record.status", key) EXCEPT !.record = a, !.status = to, !.version = seen,
                                               !.other = b]
Compile(key, s) == [Call("context.compile", key) EXCEPT !.project = p1, !.session = s]
Work(key, s) == [Call("work.start", key) EXCEPT !.project = p1, !.session = s]

World(h, shared, proposed, accepted, teams) ==
  {[cmd |-> (q1 :> t[1]) @@ (q2 :> t[2]) @@ (q3 :> t[3]), home |-> h,
    shared |-> shared, proposed |-> proposed, accepted |-> accepted] : t \in teams}

\* Every two, or three, of some calls; the same call twice is a client that tries again.
Nothing == Call("workspace.attach", k1)
Twos(calls) == {<<calls[i], calls[j], Nothing>> :
                  <<i, j>> \in {t \in (DOMAIN calls) \X (DOMAIN calls) : t[1] <= t[2]}}
Threes(calls) == {<<calls[i], calls[j], calls[k]>> :
                    <<i, j, k>> \in {t \in (DOMAIN calls) \X (DOMAIN calls) \X (DOMAIN calls) :
                                       t[1] <= t[2] /\ t[2] <= t[3]}}

Both(h1, h2) == (p1 :> h1) @@ (p2 :> h2)

TheScenarios ==
  \* Both projects in the default workspace of p1, and an empty shared one.
  World(Both(p1, p1), {w1}, {}, {},
        Threes(<<Move(p1, w1), Move(p2, p2)>>)
          \cup Twos(<<Move(p1, w1), Move(p2, w1), Move(p2, p2), Move(p1, p2)>>))
  \cup World(Both(p1, p2), {}, {}, {},
        Twos(<<MakeWorkspace(w1, {p1, p2}), Move(p1, p2), Move(p2, p1), Move(p2, w1)>>))
  \* A project about to be created, in its default or in somebody else's workspace.
  \cup World(Both(p1, None), {w1}, {}, {},
        Threes(<<MakeProject(k1, u1, None), MakeProject(k1, u2, None), MakeProject(k1, u1, p1)>>)
          \cup Twos(<<MakeProject(k1, u1, p1), MakeProject(k2, u1, p1), Move(p1, w1), MakeRoom(k1, p1)>>))
  \cup World(Both(p1, None), {}, {}, {},
        Threes(<<Post(k1, FALSE, u2), Post(k2, TRUE, u2)>>)
          \cup Twos(<<Post(k2, FALSE, u2), Post(k2, TRUE, u2), MakeRoom(k1, p1), MakeRoom(k2, p1)>>))
  \* Reviews of records that supersede each other.
  \cup World(Both(p1, None), {}, {a2}, {a1},
        Threes(<<Review(k1, a1, "superseded", 2, a2), Review(k2, a2, "accepted", 1, None),
                 Review(k2, a2, "superseded", 2, a1), Review(k1, a1, "disputed", 2, None)>>)
          \cup Twos(<<Review(k1, a1, "superseded", 2, a2), Review(k2, a1, "revoked", 2, None),
                     Review("k3", a2, "revoked", 1, None), Review("k3", a1, "accepted", 3, None)>>))
  \cup World(Both(p1, None), {}, {}, {a1, a2},
        Threes(<<Review(k1, a1, "superseded", 2, a2), Review(k2, a2, "superseded", 2, a1),
                 Review("k3", a2, "revoked", 2, None)>>))
  \cup World(Both(p1, None), {}, {}, {a1},
        Threes(<<Cite(k1), Cite(k2), Propose(k1, a2, "doc"), Propose(k2, a3, None)>>))
  \* Packs, work and a move of the same project.
  \cup World(Both(p1, None), {w1}, {}, {},
        Threes(<<Compile(k1, None), Compile(k2, s1)>>)
          \cup Twos(<<Compile(k2, s1), Compile("k3", s1), Work(k1, s1), Work("k3", s2), Move(p1, w1)>>))
=============================================================================
