------------------------------ MODULE Accounts ------------------------------
(***************************************************************************)
(* People of one organization: accounts, roles, invitations, web sessions  *)
(* and devices (internal/authn, internal/useradmin, internal/access and    *)
(* the HTTP handlers in front of them).                                    *)
(*                                                                         *)
(* A request is authenticated first and carries the role its caller had    *)
(* then; the services read more before the transaction that acts.  The     *)
(* steps of a request, of a login and of an exchange are actions of their  *)
(* own wherever another actor can come between them.  A transaction is one *)
(* step when its locks make it one; UpdateUser is two, because the owners  *)
(* it counts are not locked.                                               *)
(*                                                                         *)
(* An email stands for the person who reads it.  A row that nothing looks  *)
(* at any more (a revoked session, a consumed code, an answered            *)
(* invitation) is gone, and its slot can be used again.  Left out: times - *)
(* what is past its time is what nobody uses any more, and the writes an   *)
(* expiry causes are actions - and the failures and the lock of a login,   *)
(* which only refuse it.                                                   *)
(***************************************************************************)
EXTENDS Naturals, FiniteSets

CONSTANTS People,
          Requests, Logins, Sessions, Devices, Invitations,
          GrantedRoles,  \* the project roles that callers ask for
          None

OrgRank == [none |-> 0, member |-> 1, admin |-> 2, owner |-> 3]
ProjectRank == [none |-> 0, viewer |-> 1, contributor |-> 2, maintainer |-> 3, owner |-> 4]
OrgRoles == DOMAIN OrgRank \ {"none"}
Administrators == {"owner", "admin"}

ASSUME AccountsAssumption ==
    /\ None \notin People \cup Sessions
    /\ GrantedRoles \subseteq DOMAIN ProjectRank \ {"none"}

VARIABLES account,     \* local_accounts with their actors and organization roles
          grant,       \* project_memberships of one project
          session,     \* web_sessions
          device,      \* device_authorizations and the credential each became
          invitation,
          login,       \* logins between reading the account and writing to it
          request      \* authenticated requests

vars == <<account, grant, session, device, invitation, login, request>>

Free == [state |-> "free"]
Account == [status : {"absent", "active", "disabled"}, role : DOMAIN OrgRank]
Session == [state : {"active"}, who : People]
Device == [state : {"pending"}, who : {None}]
          \cup [state : {"approved", "exchanging", "connected"}, who : People]
Invitation == [state : {"pending"}, email : People, org : OrgRoles, project : DOMAIN ProjectRank]
Login == [state : {"read"}, who : People]
Change == [role : OrgRoles, status : {"active", "disabled"}]
Request == [state : {"open", "managing", "project", "accepting", "updating"},
            who : People, role : OrgRoles, browser : Sessions \cup {None},
            about : People \cup {None}, seen : DOMAIN ProjectRank,
            change : Change \cup {Free}]

TypeOK ==
    /\ account \in [People -> Account]
    /\ grant \in [People -> DOMAIN ProjectRank]
    /\ session \in [Sessions -> Session \cup {Free}]
    /\ device \in [Devices -> Device \cup {Free}]
    /\ invitation \in [Invitations -> Invitation \cup {Free}]
    /\ login \in [Logins -> Login \cup {Free}]
    /\ request \in [Requests -> Request \cup {Free}]
    /\ \A p \in People : account[p].status = "absent" <=> account[p].role = "none"

Init ==
    /\ account = [p \in People |-> [status |-> "absent", role |-> "none"]]
    /\ grant = [p \in People |-> "none"]
    /\ session = [s \in Sessions |-> Free]
    /\ device = [d \in Devices |-> Free]
    /\ invitation = [i \in Invitations |-> Free]
    /\ login = [l \in Logins |-> Free]
    /\ request = [q \in Requests |-> Free]

Higher(rank, a, b) == IF rank[a] >= rank[b] THEN a ELSE b

----------------------------------------------------------------------------
(* Signing in and out *)

\* A slot that no request refers to.
NewSession(s, p) ==
    /\ session[s] = Free
    /\ \A q \in Requests : request[q] # Free => request[q].browser # s
    /\ session' = [session EXCEPT ![s] = [state |-> "active", who |-> p]]

\* Everything a new person consists of, in one transaction.
NewAccount(p, role) ==
    account' = [account EXCEPT ![p] = [status |-> "active", role |-> role]]

\* UpdateUser holds the account row and the membership of its target.
RowFree(p) == \A q \in Requests : request[q].state = "updating" => request[q].about # p

SetupComplete == \E p \in People : account[p].status = "active" /\ account[p].role \in Administrators

\* Setup and CreateOwner, under the advisory lock "pact-setup".
Setup(p, s) ==
    /\ ~SetupComplete
    /\ account[p].status = "absent"
    /\ NewAccount(p, "owner")
    /\ NewSession(s, p)
    /\ UNCHANGED <<grant, device, invitation, login, request>>

MayLogIn(p) == account[p].status = "active"

\* Login reads the account without a lock, then verifies the password.
ReadAccount(l, p) ==
    /\ login[l] = Free
    /\ MayLogIn(p)
    /\ login' = [login EXCEPT ![l] = [state |-> "read", who |-> p]]
    /\ UNCHANGED <<account, grant, session, device, invitation, request>>

\* RecordFailedLogin: the caller is refused.
WrongPassword(l) ==
    /\ login[l].state = "read"
    /\ login' = [login EXCEPT ![l] = Free]
    /\ UNCHANGED <<account, grant, session, device, invitation, request>>

\* CreateWebSession without looking at the account again.
OpenSessionAsRead(l, s) ==
    /\ login[l].state = "read"
    /\ NewSession(s, login[l].who)
    /\ login' = [login EXCEPT ![l] = Free]
    /\ UNCHANGED <<account, grant, device, invitation, request>>

\* CreateWebSession: locks the account and reads its status again.
RightPassword(l, s) ==
    /\ login[l].state = "read"
    /\ RowFree(login[l].who)
    /\ account[login[l].who].status = "active"
    /\ NewSession(s, login[l].who)
    /\ login' = [login EXCEPT ![l] = Free]
    /\ UNCHANGED <<account, grant, device, invitation, request>>

\* LogoutWeb.
LogOut(s) ==
    /\ session[s].state = "active"
    /\ session' = [session EXCEPT ![s] = Free]
    /\ UNCHANGED <<account, grant, device, invitation, login, request>>

----------------------------------------------------------------------------
(* Requests *)

Opened(p, s) == [state |-> "open", who |-> p, role |-> account[p].role, browser |-> s,
                 about |-> None, seen |-> "none", change |-> Free]

\* requireAuth with the session cookie.
AuthenticateWeb(q, s) ==
    /\ request[q] = Free
    /\ session[s].state = "active"
    /\ account[session[s].who].status = "active"
    /\ request' = [request EXCEPT ![q] = Opened(session[s].who, s)]
    /\ UNCHANGED <<account, grant, session, device, invitation, login>>

\* requireAuth with a bearer credential.
AuthenticateDevice(q, d) ==
    /\ request[q] = Free
    /\ device[d].state = "connected"
    /\ account[device[d].who].status = "active"
    /\ request' = [request EXCEPT ![q] = Opened(device[d].who, None)]
    /\ UNCHANGED <<account, grant, session, device, invitation, login>>

Finished(q) == request' = [request EXCEPT ![q] = Free]

\* Any request may end with an error before its last transaction commits.
Refused(q) ==
    /\ request[q] # Free
    /\ Finished(q)
    /\ UNCHANGED <<account, grant, session, device, invitation, login>>

Revoked(rows, p, state) == [x \in DOMAIN rows |->
    IF rows[x] # Free /\ rows[x].state = state /\ rows[x].who = p THEN Free ELSE rows[x]]

\* ChangePassword: everything else of the person is signed out.
ChangePassword(q) ==
    LET p == request[q].who
        s == request[q].browser
    IN  /\ request[q].state = "open"
        /\ s # None
        /\ account[p].status = "active"
        /\ RowFree(p)
        /\ session' = [Revoked(session, p, "active") EXCEPT ![s] = session[s]]
        /\ device' = Revoked(device, p, "connected")
        /\ Finished(q)
        /\ UNCHANGED <<account, grant, invitation, login>>

BeginDevice(d) ==
    /\ device[d] = Free
    /\ device' = [device EXCEPT ![d] = [state |-> "pending", who |-> None]]
    /\ UNCHANGED <<account, grant, session, invitation, login, request>>

ApproveDevice(q, d) ==
    /\ request[q].state = "open"
    /\ request[q].browser # None
    /\ device[d].state = "pending"
    /\ device' = [device EXCEPT ![d].state = "approved", ![d].who = request[q].who]
    /\ Finished(q)
    /\ UNCHANGED <<account, grant, session, invitation, login>>

\* ExchangeDevice locks the code, but reads the account without a lock.
BeginExchange(d) ==
    /\ device[d].state = "approved"
    /\ account[device[d].who].status = "active"
    /\ device' = [device EXCEPT ![d].state = "exchanging"]
    /\ UNCHANGED <<account, grant, session, invitation, login, request>>

\* The credential is inserted and the code consumed in one commit.
FinishExchange(d) ==
    /\ device[d].state = "exchanging"
    /\ device' = [device EXCEPT ![d].state = "connected"]
    /\ UNCHANGED <<account, grant, session, invitation, login, request>>

\* An exchange that fails leaves the code approved.
AbandonExchange(d) ==
    /\ device[d].state = "exchanging"
    /\ device' = [device EXCEPT ![d].state = "approved"]
    /\ UNCHANGED <<account, grant, session, invitation, login, request>>

\* An exchange finds the code past its time.
ExpireDevice(d) ==
    /\ device[d].state \in {"pending", "approved"}
    /\ device' = [device EXCEPT ![d] = Free]
    /\ UNCHANGED <<account, grant, session, invitation, login, request>>

RevokeDevice(d) ==
    /\ device[d].state = "connected"
    /\ device' = [device EXCEPT ![d] = Free]
    /\ UNCHANGED <<account, grant, session, invitation, login, request>>

----------------------------------------------------------------------------
(* User administration: from a browser, under one advisory lock *)

\* Without the advisory lock.
AnybodyAdministers == Requests # {}

NobodyAdministers == \A q \in Requests : request[q].state # "updating"

\* webAdministrator and requireAdministrator.
InOffice(q) ==
    /\ request[q].state = "open"
    /\ request[q].browser # None
    /\ request[q].role \in Administrators

\* authorizeAdministrator: the caller's own row, read again in the transaction.
FreshRole(q) == account[request[q].who].role

\* The role at authentication is enough.
AdministratorAtEntry(q) == request[q].role \in Administrators

StillAdministrator(q) ==
    /\ account[request[q].who].status = "active"
    /\ FreshRole(q) \in Administrators

\* authorizeTarget.
MayManage(role, p) == role = "owner" \/ (role = "admin" /\ account[p].role = "member")

\* The services look at the target with the caller's role at authentication.
LookUp(q, p) ==
    /\ InOffice(q)
    /\ account[p].status # "absent"
    /\ MayManage(request[q].role, p)
    /\ request' = [request EXCEPT ![q].state = "managing", ![q].about = p]
    /\ UNCHANGED <<account, grant, session, device, invitation, login>>

Target(q) ==
    /\ request[q].state = "managing"
    /\ StillAdministrator(q)
    /\ MayManage(FreshRole(q), request[q].about)

Owners == {p \in People : account[p].role = "owner" /\ account[p].status = "active"}

\* An owner loses role or account only while another active one is counted.
KeepsAnOwner(p, change) ==
    account[p].role = "owner" /\ change # [role |-> "owner", status |-> "active"]
        => Cardinality(Owners) > 1

\* UpdateUser up to its writes.  A field that is not given keeps its value.
LockTarget(q, change) ==
    LET p == request[q].about
    IN  /\ NobodyAdministers
        /\ Target(q)
        /\ change.role = account[p].role \/ change.role = "member" \/ request[q].role = "owner"
        /\ p = request[q].who => change = [role |-> account[p].role, status |-> "active"]
        /\ KeepsAnOwner(p, change)
        /\ request' = [request EXCEPT ![q].state = "updating", ![q].change = change]
        /\ UNCHANGED <<account, grant, session, device, invitation, login>>

\* revokeUserAccess; the agent sessions it closes are in Coordination.
SignedOut(p) ==
    /\ session' = Revoked(session, p, "active")
    /\ device' = Revoked(device, p, "connected")

\* The rows UpdateUser writes.
UpdateUser(q) ==
    LET p == request[q].about
        change == request[q].change
    IN  /\ request[q].state = "updating"
        /\ account' = [account EXCEPT ![p] = [status |-> change.status, role |-> change.role]]
        /\ IF change.status = "disabled" /\ account[p].status # "disabled"
           THEN SignedOut(p) ELSE UNCHANGED <<session, device>>
        /\ Finished(q)
        /\ UNCHANGED <<grant, invitation, login>>

RevokeUserSessions(q) ==
    /\ NobodyAdministers
    /\ Target(q)
    /\ request[q].about # request[q].who
    /\ SignedOut(request[q].about)
    /\ Finished(q)
    /\ UNCHANGED <<account, grant, invitation, login>>

\* Owners and administrators have every project; only members get roles.
SetProjectPermission(q, role) ==
    LET p == request[q].about
    IN  /\ NobodyAdministers
        /\ Target(q)
        /\ account[p].role = "member"
        /\ account[p].status = "active"
        /\ grant' = [grant EXCEPT ![p] = role]
        /\ Finished(q)
        /\ UNCHANGED <<account, session, device, invitation, login>>

RemoveProjectPermission(q) ==
    LET p == request[q].about
    IN  /\ NobodyAdministers
        /\ Target(q)
        /\ account[p].role = "member"
        /\ grant[p] # "none"
        /\ grant' = [grant EXCEPT ![p] = "none"]
        /\ Finished(q)
        /\ UNCHANGED <<account, session, device, invitation, login>>

----------------------------------------------------------------------------
(* Invitations *)

Pending(p) == {x \in Invitations : invitation[x] # Free /\ invitation[x].email = p}

\* invitations_pending_email_uq: one for an address, after what was found expired.
Replace(i, row) ==
    /\ invitation[i] = Free \/ i \in Pending(row.email)
    /\ invitation' = [x \in Invitations |->
          IF x = i THEN row ELSE IF x \in Pending(row.email) THEN Free ELSE invitation[x]]

MayOffer(role, org) == org # "member" => role = "owner"

\* useradmin: the organization's invitations, for people without an account.
\* The roles one may offer are checked with both roles of the caller.
CreateUserInvitation(q, i, p, org, project) ==
    /\ NobodyAdministers
    /\ InOffice(q)
    /\ MayOffer(request[q].role, org)
    /\ StillAdministrator(q)
    /\ MayOffer(FreshRole(q), org)
    /\ org # "member" => project = "none"
    /\ account[p].status = "absent"
    /\ Replace(i, [state |-> "pending", email |-> p, org |-> org, project |-> project])
    /\ Finished(q)
    /\ UNCHANGED <<account, grant, session, device, login>>

RevokeUserInvitation(q, i) ==
    /\ NobodyAdministers
    /\ InOffice(q)
    /\ StillAdministrator(q)
    /\ invitation[i].state = "pending"
    /\ MayOffer(FreshRole(q), invitation[i].org)
    /\ invitation' = [invitation EXCEPT ![i] = Free]
    /\ Finished(q)
    /\ UNCHANGED <<account, grant, session, device, login>>

\* access.Service.ProjectRole: administrators own every project.
ProjectRole(role, given) == IF role \in Administrators THEN "owner" ELSE given

\* The project role is read before the invitation is inserted.
ReadProjectRole(q) ==
    /\ request[q].state = "open"
    /\ request' = [request EXCEPT ![q].state = "project",
                                  ![q].seen = ProjectRole(request[q].role, grant[request[q].who])]
    /\ UNCHANGED <<account, grant, session, device, invitation, login>>

MayInviteAnyone(q, org, project) == request[q].seen \in {"owner", "maintainer"}

\* Who may offer what; a project owner is offered the organization too.
MayInvite(q, org, project) ==
    /\ request[q].seen \in {"owner", "maintainer"}
    /\ org = (IF project = "owner" THEN "owner" ELSE "member")
    /\ project = "owner" => request[q].role = "owner"
    /\ request[q].seen = "maintainer" => project # "maintainer"

\* access: a project's invitations; only expired ones of the project are marked.
CreateProjectInvitation(q, i, p, org, project) ==
    /\ request[q].state = "project"
    /\ project # "none"
    /\ MayInvite(q, org, project)
    /\ \A x \in Pending(p) : invitation[x].project # "none"
    /\ Replace(i, [state |-> "pending", email |-> p, org |-> org, project |-> project])
    /\ Finished(q)
    /\ UNCHANGED <<account, grant, session, device, login>>

RevokeProjectInvitation(q, i) ==
    /\ request[q].state = "open"
    /\ invitation[i].state = "pending"
    /\ \/ request[q].role \in Administrators
       \/ invitation[i].project # "none" /\ grant[request[q].who] \in {"owner", "maintainer"}
    /\ invitation' = [invitation EXCEPT ![i] = Free]
    /\ Finished(q)
    /\ UNCHANGED <<account, grant, session, device, login>>

\* upsertMemberships: memberships only rise.
Grant(p, i) ==
    grant' = [grant EXCEPT ![p] = Higher(ProjectRank, @, invitation[i].project)]

\* lockInvitation.
Redeemable(i) == invitation[i].state = "pending"

Consume(i) == invitation' = [invitation EXCEPT ![i] = Free]

\* RegisterInvitation: a new account for the address that was invited.
RegisterInvitation(i, s) ==
    LET p == invitation[i].email
    IN  /\ Redeemable(i)
        /\ account[p].status = "absent"
        /\ NewAccount(p, invitation[i].org)
        /\ Grant(p, i)
        /\ Consume(i)
        /\ NewSession(s, p)
        /\ UNCHANGED <<device, login, request>>

\* AcceptInvitation reads the caller's account before it locks the invitation.
BeginAccept(q) ==
    /\ request[q].state = "open"
    /\ account[request[q].who].status = "active"
    /\ request' = [request EXCEPT ![q].state = "accepting"]
    /\ UNCHANGED <<account, grant, session, device, invitation, login>>

AcceptInvitation(q, i) ==
    LET p == request[q].who
    IN  /\ request[q].state = "accepting"
        /\ Redeemable(i)
        /\ invitation[i].email = p
        /\ RowFree(p)
        /\ account' = [account EXCEPT ![p].role = Higher(OrgRank, @, invitation[i].org)]
        /\ Grant(p, i)
        /\ Consume(i)
        /\ Finished(q)
        /\ UNCHANGED <<session, device, login>>

----------------------------------------------------------------------------
SignIn ==
    \/ \E p \in People, s \in Sessions : Setup(p, s)
    \/ \E l \in Logins, p \in People : ReadAccount(l, p)
    \/ \E l \in Logins : WrongPassword(l)
    \/ \E l \in Logins, s \in Sessions : RightPassword(l, s)
    \/ \E s \in Sessions : LogOut(s)
    \/ \E q \in Requests, s \in Sessions : AuthenticateWeb(q, s)
    \/ \E q \in Requests, d \in Devices : AuthenticateDevice(q, d)
    \/ \E q \in Requests : Refused(q)
    \/ \E q \in Requests : ChangePassword(q)

Connect ==
    \/ \E d \in Devices : BeginDevice(d)
    \/ \E q \in Requests, d \in Devices : ApproveDevice(q, d)
    \/ \E d \in Devices : BeginExchange(d)
    \/ \E d \in Devices : FinishExchange(d)
    \/ \E d \in Devices : AbandonExchange(d)
    \/ \E d \in Devices : ExpireDevice(d)
    \/ \E d \in Devices : RevokeDevice(d)

Administer ==
    \/ \E q \in Requests, p \in People : LookUp(q, p)
    \/ \E q \in Requests, change \in Change : LockTarget(q, change)
    \/ \E q \in Requests : UpdateUser(q)
    \/ \E q \in Requests : RevokeUserSessions(q)
    \/ \E q \in Requests, role \in GrantedRoles : SetProjectPermission(q, role)
    \/ \E q \in Requests : RemoveProjectPermission(q)

Invite ==
    \/ \E q \in Requests, i \in Invitations, p \in People, org \in OrgRoles,
          project \in GrantedRoles \cup {"none"} :
            CreateUserInvitation(q, i, p, org, project)
    \/ \E q \in Requests, i \in Invitations : RevokeUserInvitation(q, i)
    \/ \E q \in Requests : ReadProjectRole(q)
    \/ \E q \in Requests, i \in Invitations, p \in People, org \in OrgRoles,
          project \in GrantedRoles :
            CreateProjectInvitation(q, i, p, org, project)
    \/ \E q \in Requests, i \in Invitations : RevokeProjectInvitation(q, i)
    \/ \E i \in Invitations, s \in Sessions : RegisterInvitation(i, s)
    \/ \E q \in Requests : BeginAccept(q)
    \/ \E q \in Requests, i \in Invitations : AcceptInvitation(q, i)

Next == SignIn \/ Connect \/ Administer \/ Invite

Spec == Init /\ [][Next]_vars

----------------------------------------------------------------------------
\* Once the organization is set up somebody can always administer it: two owners who
\* take each other's role or account away at the same time do not both succeed, and
\* Setup never opens again (useradmin UpdateUser, its count under the advisory lock).
AlwaysAnOwner == (\E p \in People : account[p].status # "absent") => Owners # {}

\* A disabled person has no web session, whatever logins and registrations were under way
\* when the account was disabled (revokeUserAccess against CreateWebSession).
SignedOutStaysOut ==
    \A s \in Sessions : session[s] # Free => account[session[s].who].status = "active"

PresentRights ==
    \A q \in Requests :
        request[q] # Free /\ request[q].state \in {"managing", "updating"}
           /\ request'[q] = Free /\ <<account', grant'>> # <<account, grant>>
        => LET caller == account[request[q].who]
           IN  /\ caller.status = "active"
               /\ \/ caller.role = "owner"
                  \/ caller.role = "admin" /\ account[request[q].about].role = "member"

\* An administrator who changes a person's account or role is, when the rows are written,
\* active and still entitled to manage that person as he now is; the check is made in an
\* earlier step, and only the locks keep everybody's roles as they were (useradmin
\* UpdateUser, authorizeAdministrator, authorizeTarget).
ActsWithPresentRights == [][PresentRights]_vars

\* A role p gained comes from an invitation that this step accepts, for this person.
FromInvitation(p) ==
    \E i \in Invitations :
        /\ invitation[i] # Free /\ invitation[i].email = p
        /\ invitation'[i] = Free
        /\ account'[p].role = Higher(OrgRank, account[p].role, invitation[i].org)
        /\ grant'[p] = Higher(ProjectRank, grant[p], invitation[i].project)

RoleExplained(p) ==
    account'[p].role # account[p].role =>
        \/ Owners = {} /\ account'[p].role = "owner"
        \/ FromInvitation(p)
        \/ \E q \in Requests : /\ request[q] # Free /\ request[q].about = p
                               /\ request[q].role = "owner" \/ account'[p].role = "member"

GrantExplained(p) ==
    grant'[p] # grant[p] =>
        \/ FromInvitation(p)
        \/ \E q \in Requests : /\ request[q] # Free /\ request[q].about = p
                               /\ request[q].role \in Administrators

OfferExplained(i) ==
    invitation'[i] # Free /\ invitation'[i] # invitation[i] /\ invitation'[i].org # "member" =>
        \E q \in Requests : /\ request[q] # Free /\ request'[q] = Free
                            /\ request[q].role = "owner"

\* Roles change in three ways only: Setup, an invitation that was pending, addressed to
\* this person and is used up in the same step (never lowering anything), or an
\* administrator; and the organization's higher roles are given by, or offered in
\* invitations of, somebody who was an owner when the request was authenticated.
RolesAreExplained ==
    [][/\ \A p \in People : RoleExplained(p) /\ GrantExplained(p)
       /\ \A i \in Invitations : OfferExplained(i)]_vars
=============================================================================
