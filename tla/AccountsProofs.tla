--------------------------- MODULE AccountsProofs ---------------------------
(***************************************************************************)
(* An organization never loses its last active owner, a disabled person is *)
(* never signed in, and roles only change for the reasons the code gives,  *)
(* for any number of people, requests, logins, sessions and invitations.   *)
(***************************************************************************)
EXTENDS Accounts, TLAPS

\* Whoever made a request has an account, and whom it is about, too.
CallersExist ==
    \A q \in Requests : request[q] # Free => account[request[q].who].status # "absent"

TargetsExist ==
    \A q \in Requests : request[q].state \in {"managing", "updating"} =>
        /\ request[q].about \in People
        /\ account[request[q].about].status # "absent"
        /\ request[q].role \in Administrators

\* What an administrator read under the lock is still so.
UpdatesAgree ==
    \A q \in Requests : request[q].state = "updating" =>
        /\ request[q].change \in Change
        /\ account[request[q].who].status = "active"
        /\ account[request[q].who].role = "owner"
           \/ (account[request[q].who].role = "admin" /\ account[request[q].about].role = "member")
        /\ \/ request[q].change.role = account[request[q].about].role
           \/ request[q].change.role = "member"
           \/ request[q].role = "owner"
        /\ request[q].about = request[q].who =>
              request[q].change = [role |-> account[request[q].about].role, status |-> "active"]

OneUpdates ==
    \A q, r \in Requests :
        request[q].state = "updating" /\ request[r].state = "updating" => q = r

RequestsAgree == CallersExist /\ TargetsExist /\ UpdatesAgree /\ OneUpdates

\* Nobody is named anywhere before the organization has an owner.
Founded ==
    /\ AlwaysAnOwner
    /\ \A i \in Invitations : invitation[i] # Free => Owners # {}
    /\ \A l \in Logins : login[l] # Free => account[login[l].who].status # "absent"
    /\ \A d \in Devices : device[d].state \in {"approved", "exchanging", "connected"} =>
          account[device[d].who].status # "absent"

AccountsInv == TypeOK /\ RequestsAgree /\ Founded /\ SignedOutStaysOut

----------------------------------------------------------------------------
(* The helpers. *)

\* A higher role is one of the two.
LEMMA HigherIsOne ==
    ASSUME NEW rank, NEW a, NEW b
    PROVE  Higher(rank, a, b) \in {a, b}
BY DEF Higher

\* Accepting an invitation never makes an owner something less, nor a person nobody.
LEMMA HigherKeepsOwner ==
    ASSUME NEW a \in DOMAIN OrgRank, NEW b \in OrgRoles
    PROVE  /\ Higher(OrgRank, a, b) \in OrgRoles
           /\ a = "owner" => Higher(OrgRank, a, b) = "owner"
           /\ a = "none" => Higher(OrgRank, a, b) = b
           /\ a = "admin" => Higher(OrgRank, a, b) \in Administrators
BY DEF Higher, OrgRank, OrgRoles, Administrators

\* Revoking rows keeps or frees each of them.
LEMMA RevokedRows ==
    ASSUME NEW rows, NEW p, NEW state, NEW x \in DOMAIN rows
    PROVE  /\ DOMAIN Revoked(rows, p, state) = DOMAIN rows
           /\ Revoked(rows, p, state)[x] \in {rows[x], Free}
           /\ rows[x] # Free /\ rows[x].state = state /\ rows[x].who = p
                => Revoked(rows, p, state)[x] = Free
BY DEF Revoked

----------------------------------------------------------------------------
LEMMA InitAccounts == Init => AccountsInv
<1>. SUFFICES ASSUME Init PROVE AccountsInv
  OBVIOUS
<1>1. TypeOK
  BY DEF Init, TypeOK, Account, OrgRank, ProjectRank
<1>2. RequestsAgree /\ Founded /\ SignedOutStaysOut
  BY DEF Init, RequestsAgree, CallersExist, TargetsExist, UpdatesAgree, OneUpdates, Founded, AlwaysAnOwner, SignedOutStaysOut, Free
<1>. QED
  BY <1>1, <1>2 DEF AccountsInv

----------------------------------------------------------------------------
(* The types. *)

LEMMA TypeStep == AccountsInv /\ [Next]_vars => TypeOK'
<1>. SUFFICES ASSUME AccountsInv, [Next]_vars PROVE TypeOK'
  OBVIOUS
<1>. USE AccountsAssumption DEF AccountsInv, TypeOK, Free
<1>1. ASSUME NEW p \in People, NEW s \in Sessions, Setup(p, s) PROVE TypeOK'
  BY <1>1 DEF Setup, NewAccount, NewSession, Session, Login, Request, Device, Account, Invitation, ProjectRank, OrgRank, OrgRoles
<1>2. ASSUME NEW l \in Logins, NEW p \in People, ReadAccount(l, p) PROVE TypeOK'
  BY <1>2 DEF ReadAccount, MayLogIn, Session, Login, Request, Device, Account, Invitation, ProjectRank, OrgRank, OrgRoles
<1>3. ASSUME NEW l \in Logins, WrongPassword(l) PROVE TypeOK'
  BY <1>3 DEF WrongPassword, Session, Login, Request, Device, Account, Invitation, ProjectRank, OrgRank, OrgRoles
<1>4. ASSUME NEW l \in Logins, NEW s \in Sessions, RightPassword(l, s) PROVE TypeOK'
  BY <1>4 DEF RightPassword, NewSession, Session, Login, Request, Device, Account, Invitation, ProjectRank, OrgRank, OrgRoles
<1>5. ASSUME NEW s \in Sessions, LogOut(s) PROVE TypeOK'
  BY <1>5 DEF LogOut, Session, Login, Request, Device, Account, Invitation, ProjectRank, OrgRank, OrgRoles
<1>6. ASSUME NEW q \in Requests, NEW s \in Sessions, AuthenticateWeb(q, s) PROVE TypeOK'
  BY <1>6 DEF AuthenticateWeb, Opened, Session, Login, Request, Device, Account, Invitation, ProjectRank, OrgRank, OrgRoles
<1>7. ASSUME NEW q \in Requests, NEW d \in Devices, AuthenticateDevice(q, d) PROVE TypeOK'
  BY <1>7 DEF AuthenticateDevice, Opened, Session, Login, Request, Device, Account, Invitation, ProjectRank, OrgRank, OrgRoles
<1>8. ASSUME NEW q \in Requests, Refused(q) PROVE TypeOK'
  BY <1>8 DEF Refused, Finished, Session, Login, Request, Device, Account, Invitation, ProjectRank, OrgRank, OrgRoles
<1>9. ASSUME NEW q \in Requests, ChangePassword(q) PROVE TypeOK'
  BY <1>9 DEF ChangePassword, Finished, Revoked, Session, Login, Request, Device, Account, Invitation, ProjectRank, OrgRank, OrgRoles
<1>10. ASSUME NEW d \in Devices, BeginDevice(d) PROVE TypeOK'
  BY <1>10 DEF BeginDevice, Session, Login, Request, Device, Account, Invitation, ProjectRank, OrgRank, OrgRoles
<1>11. ASSUME NEW q \in Requests, NEW d \in Devices, ApproveDevice(q, d) PROVE TypeOK'
  BY <1>11 DEF ApproveDevice, Finished, Session, Login, Request, Device, Account, Invitation, ProjectRank, OrgRank, OrgRoles
<1>12. ASSUME NEW d \in Devices, BeginExchange(d) PROVE TypeOK'
  BY <1>12 DEF BeginExchange, Session, Login, Request, Device, Account, Invitation, ProjectRank, OrgRank, OrgRoles
<1>13. ASSUME NEW d \in Devices, FinishExchange(d) PROVE TypeOK'
  BY <1>13 DEF FinishExchange, Session, Login, Request, Device, Account, Invitation, ProjectRank, OrgRank, OrgRoles
<1>14. ASSUME NEW d \in Devices, AbandonExchange(d) PROVE TypeOK'
  BY <1>14 DEF AbandonExchange, Session, Login, Request, Device, Account, Invitation, ProjectRank, OrgRank, OrgRoles
<1>15. ASSUME NEW d \in Devices, ExpireDevice(d) PROVE TypeOK'
  BY <1>15 DEF ExpireDevice, Session, Login, Request, Device, Account, Invitation, ProjectRank, OrgRank, OrgRoles
<1>16. ASSUME NEW d \in Devices, RevokeDevice(d) PROVE TypeOK'
  BY <1>16 DEF RevokeDevice, Session, Login, Request, Device, Account, Invitation, ProjectRank, OrgRank, OrgRoles
<1>17. ASSUME NEW q \in Requests, NEW p \in People, LookUp(q, p) PROVE TypeOK'
  <2>1. request[q] \in Request
    BY <1>17 DEF LookUp, InOffice
  <2>2. [request[q] EXCEPT !.state = "managing", !.about = p] \in Request
    BY <2>1 DEF Request, ProjectRank, OrgRank, OrgRoles
  <2>. QED
    BY <1>17, <2>2 DEF LookUp, InOffice
<1>18. ASSUME NEW q \in Requests, NEW change \in Change, LockTarget(q, change) PROVE TypeOK'
  <2>1. request[q] \in Request
    BY <1>18 DEF LockTarget, Target
  <2>2. [request[q] EXCEPT !.state = "updating", !.change = change] \in Request
    BY <2>1, ZenonT(40) DEF Request, ProjectRank, OrgRank, OrgRoles
  <2>. QED
    BY <1>18, <2>2 DEF LockTarget
<1>19. ASSUME NEW q \in Requests, UpdateUser(q) PROVE TypeOK'
  <2>1. request[q].change \in Change /\ request[q].about \in People
    BY <1>19 DEF UpdateUser, RequestsAgree, TargetsExist, UpdatesAgree
  <2>2. [status |-> request[q].change.status, role |-> request[q].change.role] \in Account
    BY <2>1 DEF Change, Account, OrgRoles, OrgRank
  <2>3. request[q].change.status # "absent" /\ request[q].change.role # "none"
    BY <2>1 DEF Change, OrgRoles
  <2>4. /\ session' \in [Sessions -> Session \cup {Free}]
        /\ device' \in [Devices -> Device \cup {Free}]
    BY <1>19 DEF UpdateUser, SignedOut, Revoked
  <2>. QED
    BY <1>19, <2>1, <2>2, <2>3, <2>4 DEF UpdateUser, Finished
<1>20. ASSUME NEW q \in Requests, RevokeUserSessions(q) PROVE TypeOK'
  BY <1>20 DEF RevokeUserSessions, Finished, SignedOut, Revoked, Session, Login, Request, Device, Account, Invitation, ProjectRank, OrgRank, OrgRoles
<1>21. ASSUME NEW q \in Requests, NEW role \in GrantedRoles, SetProjectPermission(q, role) PROVE TypeOK'
  BY <1>21 DEF SetProjectPermission, Finished, Session, Login, Request, Device, Account, Invitation, ProjectRank, OrgRank, OrgRoles
<1>22. ASSUME NEW q \in Requests, RemoveProjectPermission(q) PROVE TypeOK'
  BY <1>22 DEF RemoveProjectPermission, Finished, Session, Login, Request, Device, Account, Invitation, ProjectRank, OrgRank, OrgRoles
<1>23. ASSUME NEW q \in Requests, NEW i \in Invitations, NEW p \in People,
            NEW org \in OrgRoles, NEW project \in GrantedRoles \cup {"none"}, CreateUserInvitation(q, i, p, org, project) PROVE TypeOK'
  BY <1>23 DEF CreateUserInvitation, InOffice, MayOffer, Finished, Replace, Session, Login, Request, Device, Account, Invitation, ProjectRank, OrgRank, OrgRoles
<1>24. ASSUME NEW q \in Requests, NEW i \in Invitations, RevokeUserInvitation(q, i) PROVE TypeOK'
  BY <1>24 DEF RevokeUserInvitation, InOffice, Finished, Session, Login, Request, Device, Account, Invitation, ProjectRank, OrgRank, OrgRoles
<1>25. ASSUME NEW q \in Requests, ReadProjectRole(q) PROVE TypeOK'
  <2>1. request[q] \in Request
    BY <1>25 DEF ReadProjectRole
  <2>. DEFINE seen == ProjectRole(request[q].role, grant[request[q].who])
  <2>2. seen \in DOMAIN ProjectRank
    BY <2>1 DEF Request, ProjectRank, ProjectRole
  <2>. HIDE DEF seen
  <2>3. [request[q] EXCEPT !.state = "project", !.seen = seen] \in Request
    BY <2>1, <2>2 DEF Request
  <2>4. request' = [request EXCEPT ![q] = [request[q] EXCEPT !.state = "project", !.seen = seen]]
    BY <1>25 DEF ReadProjectRole, seen
  <2>. QED
    BY <1>25, <2>3, <2>4, ZenonT(40) DEF ReadProjectRole
<1>26. ASSUME NEW q \in Requests, NEW i \in Invitations, NEW p \in People,
            NEW org \in OrgRoles, NEW project \in GrantedRoles, CreateProjectInvitation(q, i, p, org, project) PROVE TypeOK'
  BY <1>26 DEF CreateProjectInvitation, Finished, Replace, Session, Login, Request, Device, Account, Invitation, ProjectRank, OrgRank, OrgRoles
<1>27. ASSUME NEW q \in Requests, NEW i \in Invitations, RevokeProjectInvitation(q, i) PROVE TypeOK'
  BY <1>27 DEF RevokeProjectInvitation, Finished, Session, Login, Request, Device, Account, Invitation, ProjectRank, OrgRank, OrgRoles
<1>28. ASSUME NEW i \in Invitations, NEW s \in Sessions, RegisterInvitation(i, s) PROVE TypeOK'
  <2>1. invitation[i] \in Invitation
    BY <1>28 DEF RegisterInvitation, Redeemable
  <2>2. Higher(ProjectRank, grant[invitation[i].email], invitation[i].project) \in DOMAIN ProjectRank
    BY <2>1, HigherIsOne DEF Invitation
  <2>. QED
    BY <1>28, <2>1, <2>2 DEF RegisterInvitation, Redeemable, NewAccount, NewSession, Grant, Consume, Session,
       Account, Invitation, OrgRank, OrgRoles
<1>29. ASSUME NEW q \in Requests, BeginAccept(q) PROVE TypeOK'
  <2>1. request[q] \in Request
    BY <1>29 DEF BeginAccept
  <2>2. [request[q] EXCEPT !.state = "accepting"] \in Request
    BY <2>1 DEF Request, ProjectRank, OrgRank, OrgRoles
  <2>. QED
    BY <1>29, <2>2 DEF BeginAccept
<1>30. ASSUME NEW q \in Requests, NEW i \in Invitations, AcceptInvitation(q, i) PROVE TypeOK'
  <2>1. invitation[i] \in Invitation /\ request[q] \in Request
    BY <1>30 DEF AcceptInvitation, Redeemable
  <2>0. /\ request[q].who \in People /\ invitation[i].org \in OrgRoles
        /\ invitation[i].project \in DOMAIN ProjectRank
        /\ account[request[q].who].role \in DOMAIN OrgRank
    BY <2>1 DEF Invitation, Request, Account
  <2>2. /\ Higher(ProjectRank, grant[request[q].who], invitation[i].project) \in DOMAIN ProjectRank
        /\ Higher(OrgRank, account[request[q].who].role, invitation[i].org) \in OrgRoles
    BY <2>0, HigherIsOne, HigherKeepsOwner
  <2>3. account[request[q].who].status # "absent"
    BY <1>30, <2>1 DEF AcceptInvitation, Redeemable, RequestsAgree, CallersExist
  <2>. QED
    BY <1>30, <2>1, <2>2, <2>3 DEF AcceptInvitation, Redeemable, Finished, Grant, Consume, Request, Account,
       OrgRoles, OrgRank
<1>31. CASE UNCHANGED vars
  BY <1>31 DEF vars
<1>. QED
  BY <1>1, <1>2, <1>3, <1>4, <1>5, <1>6, <1>7, <1>8, <1>9, <1>10, <1>11, <1>12, <1>13, <1>14, <1>15, <1>16, <1>17, <1>18, <1>19, <1>20, <1>21, <1>22, <1>23, <1>24, <1>25, <1>26, <1>27, <1>28, <1>29, <1>30, <1>31 DEF Next, SignIn, Connect, Administer, Invite

----------------------------------------------------------------------------
(* Requests. *)

LEMMA RequestsStep == AccountsInv /\ TypeOK' /\ [Next]_vars => RequestsAgree'
<1>. SUFFICES ASSUME AccountsInv, TypeOK', [Next]_vars PROVE RequestsAgree'
  OBVIOUS
<1>. USE AccountsAssumption DEF AccountsInv, RequestsAgree,
    CallersExist, TargetsExist, UpdatesAgree, OneUpdates
<1>1. ASSUME NEW p \in People, NEW s \in Sessions, Setup(p, s) PROVE RequestsAgree'
  BY <1>1 DEF Setup, NewAccount, NewSession, TypeOK, Free, Request, Account
<1>2. ASSUME NEW l \in Logins, NEW p \in People, ReadAccount(l, p) PROVE RequestsAgree'
  BY <1>2 DEF ReadAccount, MayLogIn, TypeOK, Free, Request, Account
<1>3. ASSUME NEW l \in Logins, WrongPassword(l) PROVE RequestsAgree'
  BY <1>3 DEF WrongPassword, TypeOK, Free, Request, Account
<1>4. ASSUME NEW l \in Logins, NEW s \in Sessions, RightPassword(l, s) PROVE RequestsAgree'
  BY <1>4 DEF RightPassword, NewSession, TypeOK, Free, Request, Account
<1>5. ASSUME NEW s \in Sessions, LogOut(s) PROVE RequestsAgree'
  BY <1>5 DEF LogOut, TypeOK, Free, Request, Account
<1>6. ASSUME NEW q \in Requests, NEW s \in Sessions, AuthenticateWeb(q, s) PROVE RequestsAgree'
  BY <1>6 DEF AuthenticateWeb, Opened, TypeOK, Free, Request, Account
<1>7. ASSUME NEW q \in Requests, NEW d \in Devices, AuthenticateDevice(q, d) PROVE RequestsAgree'
  BY <1>7, SMTT(30) DEF AuthenticateDevice, Opened, TypeOK, Free, Request, Account
<1>8. ASSUME NEW q \in Requests, Refused(q) PROVE RequestsAgree'
  BY <1>8 DEF Refused, Finished, TypeOK, Free, Request, Account
<1>9. ASSUME NEW q \in Requests, ChangePassword(q) PROVE RequestsAgree'
  BY <1>9 DEF ChangePassword, Finished, Revoked, TypeOK, Free, Request, Account
<1>10. ASSUME NEW d \in Devices, BeginDevice(d) PROVE RequestsAgree'
  BY <1>10 DEF BeginDevice, TypeOK, Free, Request, Account
<1>11. ASSUME NEW q \in Requests, NEW d \in Devices, ApproveDevice(q, d) PROVE RequestsAgree'
  BY <1>11 DEF ApproveDevice, Finished, TypeOK, Free, Request, Account
<1>12. ASSUME NEW d \in Devices, BeginExchange(d) PROVE RequestsAgree'
  BY <1>12 DEF BeginExchange, TypeOK, Free, Request, Account
<1>13. ASSUME NEW d \in Devices, FinishExchange(d) PROVE RequestsAgree'
  BY <1>13 DEF FinishExchange, TypeOK, Free, Request, Account
<1>14. ASSUME NEW d \in Devices, AbandonExchange(d) PROVE RequestsAgree'
  BY <1>14 DEF AbandonExchange, TypeOK, Free, Request, Account
<1>15. ASSUME NEW d \in Devices, ExpireDevice(d) PROVE RequestsAgree'
  BY <1>15 DEF ExpireDevice, TypeOK, Free, Request, Account
<1>16. ASSUME NEW d \in Devices, RevokeDevice(d) PROVE RequestsAgree'
  BY <1>16 DEF RevokeDevice, TypeOK, Free, Request, Account
<1>17. ASSUME NEW q \in Requests, NEW p \in People, LookUp(q, p) PROVE RequestsAgree'
  <2>1. request[q] \in Request /\ request[q].state = "open" /\ request[q].role \in Administrators
    BY <1>17 DEF LookUp, InOffice, TypeOK, Free
  <2>2. account' = account /\ account[p].status # "absent"
    BY <1>17 DEF LookUp
  <2>3. request' = [request EXCEPT ![q] = [request[q] EXCEPT !.state = "managing", !.about = p]]
    BY <1>17 DEF LookUp
  <2>4. /\ request'[q].state = "managing" /\ request'[q].about = p
        /\ request'[q].role = request[q].role /\ request'[q].who = request[q].who
        /\ request[q] # Free
    BY <2>1, <2>3 DEF Request, Free, TypeOK
  <2>5. \A r \in Requests : r # q => request'[r] = request[r]
    BY <2>3 DEF TypeOK
  <2>6. CallersExist'
    BY <2>2, <2>4, <2>5
  <2>7. TargetsExist'
    BY <2>1, <2>2, <2>4, <2>5
  <2>8. UpdatesAgree' /\ OneUpdates'
    BY <2>2, <2>4, <2>5
  <2>. QED
    BY <2>6, <2>7, <2>8
<1>18. ASSUME NEW q \in Requests, NEW change \in Change, LockTarget(q, change) PROVE RequestsAgree'
  <2>1. request[q] \in Request /\ request[q].about \in People /\ request[q].who \in People
    BY <1>18 DEF LockTarget, Target, TypeOK, Free, Request
  <2>2. \A r \in Requests : r # q => request'[r] = request[r] /\ request[r].state # "updating"
    BY <1>18 DEF LockTarget, NobodyAdministers, TypeOK
  <2>3. request'[q] = [request[q] EXCEPT !.state = "updating", !.change = change]
    BY <1>18 DEF LockTarget, TypeOK
  <2>4. /\ request'[q].who = request[q].who /\ request'[q].about = request[q].about
        /\ request'[q].role = request[q].role /\ request'[q].change = change
        /\ request'[q] # Free
    BY <2>1, <2>3, ZenonT(40) DEF Request, Free
  <2>5. account' = account /\ account[request[q].who].status = "active"
    BY <1>18 DEF LockTarget, Target, StillAdministrator
  <2>6. /\ account[request[q].who].role = "owner"
           \/ (account[request[q].who].role = "admin" /\ account[request[q].about].role = "member")
        /\ \/ change.role = account[request[q].about].role
           \/ change.role = "member"
           \/ request[q].role = "owner"
        /\ request[q].about = request[q].who =>
              change = [role |-> account[request[q].about].role, status |-> "active"]
        /\ request[q].role \in Administrators /\ account[request[q].about].status # "absent"
    <3>1. /\ Target(q) /\ request[q].state = "managing"
          /\ change.role = account[request[q].about].role \/ change.role = "member" \/ request[q].role = "owner"
          /\ request[q].about = request[q].who =>
                change = [role |-> account[request[q].about].role, status |-> "active"]
      BY <1>18 DEF LockTarget, Target
    <3>2. account[request[q].who].role = "owner"
             \/ (account[request[q].who].role = "admin" /\ account[request[q].about].role = "member")
      BY <3>1 DEF Target, FreshRole, MayManage
    <3>3. request[q].role \in Administrators /\ account[request[q].about].status # "absent"
      BY <3>1
    <3>. QED
      BY <3>1, <3>2, <3>3
  <2>7. CallersExist' /\ OneUpdates'
    BY <2>2, <2>4, <2>5, <2>6
  <2>8. TargetsExist'
    BY <2>1, <2>2, <2>4, <2>5, <2>6
  <2>9. UpdatesAgree'
    BY <2>2, <2>4, <2>5, <2>6
  <2>. QED
    BY <2>7, <2>8, <2>9
<1>19. ASSUME NEW q \in Requests, UpdateUser(q) PROVE RequestsAgree'
  <2>1. request[q].change \in Change /\ request[q].about \in People
    BY <1>19 DEF UpdateUser
  <2>2. \A r \in Requests : r # q => request'[r] = request[r] /\ request[r].state # "updating"
    BY <1>19 DEF UpdateUser, Finished, TypeOK
  <2>3. request'[q] = Free
    BY <1>19 DEF UpdateUser, Finished, TypeOK
  <2>4. \A x \in People : account[x].status # "absent" => account'[x].status # "absent"
    BY <1>19, <2>1 DEF UpdateUser, TypeOK, Change
  <2>5. \A r \in Requests : request[r] # Free => request[r].who \in People
    BY DEF TypeOK, Request
  <2>. QED
    BY <2>2, <2>3, <2>4, <2>5 DEF Free
<1>20. ASSUME NEW q \in Requests, RevokeUserSessions(q) PROVE RequestsAgree'
  BY <1>20 DEF RevokeUserSessions, Finished, SignedOut, Revoked, TypeOK, Free, Request, Account
<1>21. ASSUME NEW q \in Requests, NEW role \in GrantedRoles, SetProjectPermission(q, role) PROVE RequestsAgree'
  BY <1>21 DEF SetProjectPermission, Finished, TypeOK, Free, Request, Account
<1>22. ASSUME NEW q \in Requests, RemoveProjectPermission(q) PROVE RequestsAgree'
  BY <1>22 DEF RemoveProjectPermission, Finished, TypeOK, Free, Request, Account
<1>23. ASSUME NEW q \in Requests, NEW i \in Invitations, NEW p \in People,
            NEW org \in OrgRoles, NEW project \in GrantedRoles \cup {"none"}, CreateUserInvitation(q, i, p, org, project) PROVE RequestsAgree'
  BY <1>23 DEF CreateUserInvitation, InOffice, MayOffer, Finished, Replace, TypeOK, Free, Request, Account
<1>24. ASSUME NEW q \in Requests, NEW i \in Invitations, RevokeUserInvitation(q, i) PROVE RequestsAgree'
  BY <1>24 DEF RevokeUserInvitation, InOffice, Finished, TypeOK, Free, Request, Account
<1>25. ASSUME NEW q \in Requests, ReadProjectRole(q) PROVE RequestsAgree'
  <2>1. request[q] \in Request
    BY <1>25 DEF ReadProjectRole, TypeOK, Free
  <2>2. /\ request'[q].who = request[q].who /\ request'[q].state = "project"
        /\ \A r \in Requests : r # q => request'[r] = request[r]
    BY <1>25, <2>1 DEF ReadProjectRole, TypeOK, Request
  <2>3. account' = account /\ request[q] # Free /\ request'[q].state = "project"
    BY <1>25, <2>2 DEF ReadProjectRole, Free
  <2>. QED
    BY <2>2, <2>3
<1>26. ASSUME NEW q \in Requests, NEW i \in Invitations, NEW p \in People,
            NEW org \in OrgRoles, NEW project \in GrantedRoles, CreateProjectInvitation(q, i, p, org, project) PROVE RequestsAgree'
  BY <1>26 DEF CreateProjectInvitation, Finished, Replace, TypeOK, Free, Request, Account
<1>27. ASSUME NEW q \in Requests, NEW i \in Invitations, RevokeProjectInvitation(q, i) PROVE RequestsAgree'
  BY <1>27 DEF RevokeProjectInvitation, Finished, TypeOK, Free, Request, Account
<1>28. ASSUME NEW i \in Invitations, NEW s \in Sessions, RegisterInvitation(i, s) PROVE RequestsAgree'
  BY <1>28 DEF RegisterInvitation, Redeemable, NewAccount, NewSession, Grant, Consume, TypeOK, Free, Request, Account
<1>29. ASSUME NEW q \in Requests, BeginAccept(q) PROVE RequestsAgree'
  BY <1>29 DEF BeginAccept, TypeOK, Free, Request, Account
<1>30. ASSUME NEW q \in Requests, NEW i \in Invitations, AcceptInvitation(q, i) PROVE RequestsAgree'
  <2>1. invitation[i] \in Invitation /\ request[q] \in Request
    BY <1>30 DEF AcceptInvitation, Redeemable, TypeOK, Free
  <2>. DEFINE p == request[q].who
              raised == Higher(OrgRank, account[p].role, invitation[i].org)
  <2>2. /\ account[p].role = "owner" => raised = "owner"
        /\ account[p].role = "admin" => raised \in {"admin", "owner"}
    BY <2>1, HigherKeepsOwner DEF TypeOK, Account, Request, Invitation, Administrators
  <2>. HIDE DEF raised
  <2>3. /\ account' = [account EXCEPT ![p].role = raised] /\ RowFree(p)
        /\ \A r \in Requests : request'[r] = IF r = q THEN Free ELSE request[r]
    BY <1>30 DEF AcceptInvitation, Redeemable, Finished, raised, TypeOK
  <2>4. \A x \in People : /\ account'[x].status = account[x].status
                          /\ x # p => account'[x] = account[x]
                          /\ account[x].role = "owner" => account'[x].role = "owner"
                          /\ account[x].role = "admin" => account'[x].role \in {"admin", "owner"}
    BY <2>2, <2>3 DEF TypeOK, Account
  <2>5. \A r \in Requests : request[r] # Free => request[r].who \in People
    BY DEF TypeOK, Request
  <2>6. \A r \in Requests : request[r].state = "updating" =>
           request[r].about # p /\ request[r].about \in People
    BY <2>3 DEF RowFree
  <2>7. \A r \in Requests : request[r].state = "updating" => account'[request[r].about] = account[request[r].about]
    BY <2>4, <2>6
  <2>8. CallersExist' /\ OneUpdates'
    BY <2>3, <2>4, <2>5 DEF Free
  <2>9. TargetsExist'
    BY <2>3, <2>4, <2>7 DEF Free
  <2>10. UpdatesAgree'
    <3>1. \A r \in Requests : request'[r].state = "updating" =>
             /\ request'[r] = request[r] /\ request[r].who \in People
             /\ account'[request[r].about] = account[request[r].about]
      BY <2>3, <2>5, <2>7 DEF Free
    <3>. QED
      BY <2>4, <3>1
  <2>. QED
    BY <2>8, <2>9, <2>10
<1>31. CASE UNCHANGED vars
  BY <1>31 DEF vars
<1>. QED
  BY <1>1, <1>2, <1>3, <1>4, <1>5, <1>6, <1>7, <1>8, <1>9, <1>10, <1>11, <1>12, <1>13, <1>14, <1>15, <1>16, <1>17, <1>18, <1>19, <1>20, <1>21, <1>22, <1>23, <1>24, <1>25, <1>26, <1>27, <1>28, <1>29, <1>30, <1>31 DEF Next, SignIn, Connect, Administer, Invite

----------------------------------------------------------------------------
(* The owners. *)

LEMMA FoundedStep == AccountsInv /\ TypeOK' /\ [Next]_vars => Founded'
<1>. SUFFICES ASSUME AccountsInv, TypeOK', [Next]_vars PROVE Founded'
  OBVIOUS
<1>. USE AccountsAssumption DEF AccountsInv, Founded, RequestsAgree,
    CallersExist, TargetsExist, UpdatesAgree, OneUpdates
<1>1. ASSUME NEW p \in People, NEW s \in Sessions, Setup(p, s) PROVE Founded'
  BY <1>1 DEF Setup, NewAccount, NewSession, TypeOK, Free, AlwaysAnOwner, Owners, Account
<1>2. ASSUME NEW l \in Logins, NEW p \in People, ReadAccount(l, p) PROVE Founded'
  BY <1>2 DEF ReadAccount, MayLogIn, TypeOK, Free, AlwaysAnOwner, Owners, Account
<1>3. ASSUME NEW l \in Logins, WrongPassword(l) PROVE Founded'
  BY <1>3 DEF WrongPassword, TypeOK, Free, AlwaysAnOwner, Owners, Account
<1>4. ASSUME NEW l \in Logins, NEW s \in Sessions, RightPassword(l, s) PROVE Founded'
  BY <1>4 DEF RightPassword, NewSession, TypeOK, Free, AlwaysAnOwner, Owners, Account
<1>5. ASSUME NEW s \in Sessions, LogOut(s) PROVE Founded'
  BY <1>5 DEF LogOut, TypeOK, Free, AlwaysAnOwner, Owners, Account
<1>6. ASSUME NEW q \in Requests, NEW s \in Sessions, AuthenticateWeb(q, s) PROVE Founded'
  BY <1>6 DEF AuthenticateWeb, Opened, TypeOK, Free, AlwaysAnOwner, Owners, Account
<1>7. ASSUME NEW q \in Requests, NEW d \in Devices, AuthenticateDevice(q, d) PROVE Founded'
  BY <1>7 DEF AuthenticateDevice, Opened, TypeOK, Free, AlwaysAnOwner, Owners, Account
<1>8. ASSUME NEW q \in Requests, Refused(q) PROVE Founded'
  BY <1>8 DEF Refused, Finished, TypeOK, Free, AlwaysAnOwner, Owners, Account
<1>9. ASSUME NEW q \in Requests, ChangePassword(q) PROVE Founded'
  BY <1>9 DEF ChangePassword, Finished, Revoked, TypeOK, Free, AlwaysAnOwner, Owners, Account
<1>10. ASSUME NEW d \in Devices, BeginDevice(d) PROVE Founded'
  BY <1>10 DEF BeginDevice, TypeOK, Free, AlwaysAnOwner, Owners, Account
<1>11. ASSUME NEW q \in Requests, NEW d \in Devices, ApproveDevice(q, d) PROVE Founded'
  <2>1. request[q] # Free /\ device[d] # Free
    BY <1>11 DEF ApproveDevice, Free
  <2>2. account[request[q].who].status # "absent"
    BY <2>1 DEF RequestsAgree
  <2>3. device' = [device EXCEPT ![d] = [device[d] EXCEPT !.state = "approved", !.who = request[q].who]]
    BY <1>11 DEF ApproveDevice
  <2>4. device[d] \in Device
    BY <2>1 DEF TypeOK
  <2>5. /\ device'[d].who = request[q].who
        /\ \A e \in Devices : e # d => device'[e] = device[e]
    BY <2>3, <2>4 DEF TypeOK, Device
  <2>. QED
    <3>1. UNCHANGED <<account, invitation, login>>
      BY <1>11 DEF ApproveDevice
    <3>2. \A e \in Devices : device'[e].state \in {"approved", "exchanging", "connected"} =>
             account[device'[e].who].status # "absent"
      BY <2>2, <2>5
    <3>. QED
      BY <3>1, <3>2 DEF AlwaysAnOwner, Owners
<1>12. ASSUME NEW d \in Devices, BeginExchange(d) PROVE Founded'
  BY <1>12 DEF BeginExchange, TypeOK, Free, AlwaysAnOwner, Owners, Account
<1>13. ASSUME NEW d \in Devices, FinishExchange(d) PROVE Founded'
  BY <1>13 DEF FinishExchange, TypeOK, Free, AlwaysAnOwner, Owners, Account
<1>14. ASSUME NEW d \in Devices, AbandonExchange(d) PROVE Founded'
  BY <1>14 DEF AbandonExchange, TypeOK, Free, AlwaysAnOwner, Owners, Account
<1>15. ASSUME NEW d \in Devices, ExpireDevice(d) PROVE Founded'
  BY <1>15 DEF ExpireDevice, TypeOK, Free, AlwaysAnOwner, Owners, Account
<1>16. ASSUME NEW d \in Devices, RevokeDevice(d) PROVE Founded'
  BY <1>16 DEF RevokeDevice, TypeOK, Free, AlwaysAnOwner, Owners, Account
<1>17. ASSUME NEW q \in Requests, NEW p \in People, LookUp(q, p) PROVE Founded'
  BY <1>17 DEF LookUp, InOffice, Administrators, TypeOK, Free, AlwaysAnOwner, Owners, Account
<1>18. ASSUME NEW q \in Requests, NEW change \in Change, LockTarget(q, change) PROVE Founded'
  BY <1>18 DEF LockTarget, NobodyAdministers, Target, StillAdministrator, FreshRole, MayManage, Administrators, TypeOK, Free, AlwaysAnOwner, Owners, Account
<1>19. ASSUME NEW q \in Requests, UpdateUser(q) PROVE Founded'
  <2>. DEFINE p == request[q].about
              c == request[q].who
  <2>1. /\ request[q].change \in Change /\ p \in People /\ request[q] \in Request /\ c \in People
        /\ account[p].status # "absent"
    <3>1. request[q].state = "updating"
      BY <1>19 DEF UpdateUser
    <3>2. request[q] \in Request
      BY <3>1 DEF TypeOK, Free
    <3>. QED
      BY <3>1, <3>2 DEF Request
  <2>2. account' = [account EXCEPT ![p] = [status |-> request[q].change.status,
                                           role |-> request[q].change.role]]
    BY <1>19 DEF UpdateUser
  <2>3. Owners' # {}
    <3>1. CASE p = c
      <4>1. account'[p] = account[p]
        <5>1. /\ request[q].change = [role |-> account[p].role, status |-> "active"]
              /\ account[p].status = "active"
          BY <1>19, <3>1 DEF UpdateUser
        <5>2. account[p] \in Account
          BY <2>1 DEF TypeOK
        <5>3. account[p] = [status |-> account[p].status, role |-> account[p].role]
          BY <5>2 DEF Account
        <5>. QED
          BY <2>1, <2>2, <5>1, <5>3 DEF TypeOK
      <4>2. \A x \in People : account'[x] = account[x]
        BY <2>2, <4>1 DEF TypeOK
      <4>. QED
        BY <2>1, <4>2 DEF AlwaysAnOwner, Owners
    <3>2. CASE account[c].role = "owner" /\ p # c
      <4>0. account[c].status = "active"
        BY <1>19 DEF UpdateUser
      <4>1. c \in Owners'
        BY <2>1, <2>2, <3>2, <4>0 DEF Owners, TypeOK
      <4>. QED
        BY <4>1
    <3>3. CASE account[p].role = "member"
      <4>1. PICK o \in Owners : TRUE
        BY <2>1 DEF AlwaysAnOwner
      <4>2. o \in Owners'
        BY <2>2, <3>3, <4>1 DEF Owners, TypeOK
      <4>. QED
        BY <4>2
    <3>. QED
      BY <1>19, <3>1, <3>2, <3>3 DEF UpdateUser, RequestsAgree
  <2>4. \A x \in People : account[x].status # "absent" => account'[x].status # "absent"
    BY <2>1, <2>2 DEF TypeOK, Change
  <2>5. \A l \in Logins : login'[l] = login[l] /\ (login[l] # Free => login[l].who \in People)
    BY <1>19 DEF UpdateUser, TypeOK, Login
  <2>6. \A d \in Devices :
           /\ device'[d] \in {device[d], Free}
           /\ device[d].state \in {"approved", "exchanging", "connected"} => device[d].who \in People
    <3>1. \A d \in Devices : device[d].state \in {"approved", "exchanging", "connected"}
                               => device[d].who \in People
      BY DEF TypeOK, Device, Free
    <3>2. \A d \in Devices : device'[d] \in {device[d], Free}
      BY <1>19 DEF UpdateUser, SignedOut, Revoked, TypeOK
    <3>. QED
      BY <3>1, <3>2
  <2>. QED
    BY <1>19, <2>3, <2>4, <2>5, <2>6 DEF UpdateUser, AlwaysAnOwner, Free
<1>20. ASSUME NEW q \in Requests, RevokeUserSessions(q) PROVE Founded'
  BY <1>20 DEF RevokeUserSessions, Finished, SignedOut, Revoked, TypeOK, Free, AlwaysAnOwner, Owners, Account
<1>21. ASSUME NEW q \in Requests, NEW role \in GrantedRoles, SetProjectPermission(q, role) PROVE Founded'
  BY <1>21 DEF SetProjectPermission, Finished, TypeOK, Free, AlwaysAnOwner, Owners, Account
<1>22. ASSUME NEW q \in Requests, RemoveProjectPermission(q) PROVE Founded'
  BY <1>22 DEF RemoveProjectPermission, Finished, TypeOK, Free, AlwaysAnOwner, Owners, Account
<1>23. ASSUME NEW q \in Requests, NEW i \in Invitations, NEW p \in People,
            NEW org \in OrgRoles, NEW project \in GrantedRoles \cup {"none"}, CreateUserInvitation(q, i, p, org, project) PROVE Founded'
  <2>1. request[q] # Free /\ UNCHANGED <<account, device, login>>
    BY <1>23 DEF CreateUserInvitation, InOffice, MayOffer, Free
  <2>2. account[request[q].who].status # "absent" /\ request[q].who \in People
    BY <2>1 DEF RequestsAgree, TypeOK, Request
  <2>. QED
    BY <2>1, <2>2 DEF AlwaysAnOwner, Owners
<1>24. ASSUME NEW q \in Requests, NEW i \in Invitations, RevokeUserInvitation(q, i) PROVE Founded'
  BY <1>24 DEF RevokeUserInvitation, InOffice, Finished, TypeOK, Free, AlwaysAnOwner, Owners, Account
<1>25. ASSUME NEW q \in Requests, ReadProjectRole(q) PROVE Founded'
  BY <1>25 DEF ReadProjectRole, TypeOK, Free, AlwaysAnOwner, Owners, Account
<1>26. ASSUME NEW q \in Requests, NEW i \in Invitations, NEW p \in People,
            NEW org \in OrgRoles, NEW project \in GrantedRoles, CreateProjectInvitation(q, i, p, org, project) PROVE Founded'
  <2>1. request[q] # Free /\ UNCHANGED <<account, device, login>>
    BY <1>26 DEF CreateProjectInvitation, Free
  <2>2. account[request[q].who].status # "absent" /\ request[q].who \in People
    BY <2>1 DEF RequestsAgree, TypeOK, Request
  <2>. QED
    BY <2>1, <2>2 DEF AlwaysAnOwner, Owners
<1>27. ASSUME NEW q \in Requests, NEW i \in Invitations, RevokeProjectInvitation(q, i) PROVE Founded'
  BY <1>27 DEF RevokeProjectInvitation, Finished, TypeOK, Free, AlwaysAnOwner, Owners, Account
<1>28. ASSUME NEW i \in Invitations, NEW s \in Sessions, RegisterInvitation(i, s) PROVE Founded'
  BY <1>28 DEF RegisterInvitation, Redeemable, NewAccount, NewSession, Grant, Consume, TypeOK, Free, AlwaysAnOwner, Owners, Account
<1>29. ASSUME NEW q \in Requests, BeginAccept(q) PROVE Founded'
  BY <1>29 DEF BeginAccept, TypeOK, Free, AlwaysAnOwner, Owners, Account
<1>30. ASSUME NEW q \in Requests, NEW i \in Invitations, AcceptInvitation(q, i) PROVE Founded'
  <2>1. invitation[i] \in Invitation /\ request[q] \in Request
    BY <1>30 DEF AcceptInvitation, Redeemable, TypeOK, Free
  <2>. DEFINE p == request[q].who
              raised == Higher(OrgRank, account[p].role, invitation[i].org)
  <2>2. account[p].role = "owner" => raised = "owner"
    BY <2>1, HigherKeepsOwner DEF TypeOK, Account, Request, Invitation
  <2>. HIDE DEF raised
  <2>3. account' = [account EXCEPT ![p].role = raised]
    BY <1>30 DEF AcceptInvitation, Redeemable, raised
  <2>4. \A x \in People : /\ account'[x].status = account[x].status
                          /\ account[x].role = "owner" => account'[x].role = "owner"
    BY <2>2, <2>3 DEF TypeOK, Account
  <2>5. Owners \subseteq Owners'
    BY <2>4 DEF Owners
  <2>6. Owners # {}
    BY <1>30, <2>1 DEF AcceptInvitation, Redeemable, Free
  <2>. QED
    BY <1>30, <2>4, <2>5, <2>6 DEF AcceptInvitation, Redeemable, AlwaysAnOwner, TypeOK, Login, Device, Free
<1>31. CASE UNCHANGED vars
  BY <1>31 DEF vars, Owners, AlwaysAnOwner
<1>. QED
  BY <1>1, <1>2, <1>3, <1>4, <1>5, <1>6, <1>7, <1>8, <1>9, <1>10, <1>11, <1>12, <1>13, <1>14, <1>15, <1>16, <1>17, <1>18, <1>19, <1>20, <1>21, <1>22, <1>23, <1>24, <1>25, <1>26, <1>27, <1>28, <1>29, <1>30, <1>31 DEF Next, SignIn, Connect, Administer, Invite

----------------------------------------------------------------------------
(* The sessions. *)

LEMMA SignedOutStep == AccountsInv /\ TypeOK' /\ [Next]_vars => SignedOutStaysOut'
<1>. SUFFICES ASSUME AccountsInv, TypeOK', [Next]_vars PROVE SignedOutStaysOut'
  OBVIOUS
<1>. USE AccountsAssumption DEF AccountsInv, SignedOutStaysOut, RequestsAgree,
    CallersExist, TargetsExist, UpdatesAgree, OneUpdates
<1>1. ASSUME NEW p \in People, NEW s \in Sessions, Setup(p, s) PROVE SignedOutStaysOut'
  BY <1>1 DEF Setup, NewAccount, NewSession, TypeOK, Free, Session
<1>2. ASSUME NEW l \in Logins, NEW p \in People, ReadAccount(l, p) PROVE SignedOutStaysOut'
  BY <1>2 DEF ReadAccount, MayLogIn, TypeOK, Free, Session
<1>3. ASSUME NEW l \in Logins, WrongPassword(l) PROVE SignedOutStaysOut'
  BY <1>3 DEF WrongPassword, TypeOK, Free, Session
<1>4. ASSUME NEW l \in Logins, NEW s \in Sessions, RightPassword(l, s) PROVE SignedOutStaysOut'
  BY <1>4 DEF RightPassword, NewSession, TypeOK, Free, Session
<1>5. ASSUME NEW s \in Sessions, LogOut(s) PROVE SignedOutStaysOut'
  BY <1>5 DEF LogOut, TypeOK, Free, Session
<1>6. ASSUME NEW q \in Requests, NEW s \in Sessions, AuthenticateWeb(q, s) PROVE SignedOutStaysOut'
  BY <1>6 DEF AuthenticateWeb, Opened, TypeOK, Free, Session
<1>7. ASSUME NEW q \in Requests, NEW d \in Devices, AuthenticateDevice(q, d) PROVE SignedOutStaysOut'
  BY <1>7 DEF AuthenticateDevice, Opened, TypeOK, Free, Session
<1>8. ASSUME NEW q \in Requests, Refused(q) PROVE SignedOutStaysOut'
  BY <1>8 DEF Refused, Finished, TypeOK, Free, Session
<1>9. ASSUME NEW q \in Requests, ChangePassword(q) PROVE SignedOutStaysOut'
  <2>1. /\ account' = account
        /\ session' = [Revoked(session, request[q].who, "active") EXCEPT ![request[q].browser] = session[request[q].browser]]
    BY <1>9 DEF ChangePassword
  <2>2. DOMAIN session = Sessions
    BY DEF TypeOK
  <2>3. ASSUME NEW s \in Sessions PROVE session'[s] = session[s] \/ session'[s] = Free
    BY <2>1, <2>2 DEF Revoked
  <2>. QED
    BY <2>1, <2>3
<1>10. ASSUME NEW d \in Devices, BeginDevice(d) PROVE SignedOutStaysOut'
  BY <1>10 DEF BeginDevice, TypeOK, Free, Session
<1>11. ASSUME NEW q \in Requests, NEW d \in Devices, ApproveDevice(q, d) PROVE SignedOutStaysOut'
  BY <1>11 DEF ApproveDevice, Finished, TypeOK, Free, Session
<1>12. ASSUME NEW d \in Devices, BeginExchange(d) PROVE SignedOutStaysOut'
  BY <1>12 DEF BeginExchange, TypeOK, Free, Session
<1>13. ASSUME NEW d \in Devices, FinishExchange(d) PROVE SignedOutStaysOut'
  BY <1>13 DEF FinishExchange, TypeOK, Free, Session
<1>14. ASSUME NEW d \in Devices, AbandonExchange(d) PROVE SignedOutStaysOut'
  BY <1>14 DEF AbandonExchange, TypeOK, Free, Session
<1>15. ASSUME NEW d \in Devices, ExpireDevice(d) PROVE SignedOutStaysOut'
  BY <1>15 DEF ExpireDevice, TypeOK, Free, Session
<1>16. ASSUME NEW d \in Devices, RevokeDevice(d) PROVE SignedOutStaysOut'
  BY <1>16 DEF RevokeDevice, TypeOK, Free, Session
<1>17. ASSUME NEW q \in Requests, NEW p \in People, LookUp(q, p) PROVE SignedOutStaysOut'
  BY <1>17 DEF LookUp, InOffice, Administrators, TypeOK, Free, Session
<1>18. ASSUME NEW q \in Requests, NEW change \in Change, LockTarget(q, change) PROVE SignedOutStaysOut'
  BY <1>18 DEF LockTarget, NobodyAdministers, Target, StillAdministrator, FreshRole, MayManage, Administrators, TypeOK, Free, Session
<1>19. ASSUME NEW q \in Requests, UpdateUser(q) PROVE SignedOutStaysOut'
  <2>. DEFINE p == request[q].about
  <2>1. request[q].change \in Change /\ p \in People
    BY <1>19 DEF UpdateUser, RequestsAgree
  <2>2. account' = [account EXCEPT ![p] = [status |-> request[q].change.status,
                                           role |-> request[q].change.role]]
    BY <1>19 DEF UpdateUser
  <2>3. \A s \in Sessions : session[s] # Free => session[s].state = "active" /\ session[s].who \in People
    BY DEF TypeOK, Session
  <2>4. CASE request[q].change.status = "active"
    <3>1. \A x \in People : account[x].status = "active" => account'[x].status = "active"
      BY <2>2, <2>4 DEF TypeOK
    <3>2. session' = session
      BY <1>19, <2>4 DEF UpdateUser
    <3>. QED
      BY <2>3, <3>1, <3>2
  <2>5. CASE account[p].status = "disabled"
    <3>1. \A x \in People : account[x].status = "active" => account'[x].status = "active"
      BY <2>2, <2>5 DEF TypeOK
    <3>2. session' = session
      BY <1>19, <2>5 DEF UpdateUser
    <3>. QED
      BY <2>3, <3>1, <3>2
  <2>6. CASE request[q].change.status = "disabled" /\ account[p].status # "disabled"
    <3>1. session' = Revoked(session, p, "active")
      BY <1>19, <2>6 DEF UpdateUser, SignedOut
    <3>2. \A s \in Sessions : session'[s] # Free => session'[s] = session[s] /\ session[s].who # p
      BY <2>3, <3>1 DEF Revoked, TypeOK
    <3>. QED
      BY <2>2, <2>3, <3>2 DEF TypeOK
  <2>. QED
    BY <2>1, <2>4, <2>5, <2>6 DEF Change
<1>20. ASSUME NEW q \in Requests, RevokeUserSessions(q) PROVE SignedOutStaysOut'
  BY <1>20 DEF RevokeUserSessions, Finished, SignedOut, Revoked, TypeOK, Free, Session
<1>21. ASSUME NEW q \in Requests, NEW role \in GrantedRoles, SetProjectPermission(q, role) PROVE SignedOutStaysOut'
  BY <1>21 DEF SetProjectPermission, Finished, TypeOK, Free, Session
<1>22. ASSUME NEW q \in Requests, RemoveProjectPermission(q) PROVE SignedOutStaysOut'
  BY <1>22 DEF RemoveProjectPermission, Finished, TypeOK, Free, Session
<1>23. ASSUME NEW q \in Requests, NEW i \in Invitations, NEW p \in People,
            NEW org \in OrgRoles, NEW project \in GrantedRoles \cup {"none"}, CreateUserInvitation(q, i, p, org, project) PROVE SignedOutStaysOut'
  BY <1>23 DEF CreateUserInvitation, InOffice, MayOffer, Finished, Replace, TypeOK, Free, Session
<1>24. ASSUME NEW q \in Requests, NEW i \in Invitations, RevokeUserInvitation(q, i) PROVE SignedOutStaysOut'
  BY <1>24 DEF RevokeUserInvitation, InOffice, Finished, TypeOK, Free, Session
<1>25. ASSUME NEW q \in Requests, ReadProjectRole(q) PROVE SignedOutStaysOut'
  BY <1>25 DEF ReadProjectRole, TypeOK, Free, Session
<1>26. ASSUME NEW q \in Requests, NEW i \in Invitations, NEW p \in People,
            NEW org \in OrgRoles, NEW project \in GrantedRoles, CreateProjectInvitation(q, i, p, org, project) PROVE SignedOutStaysOut'
  BY <1>26 DEF CreateProjectInvitation, Finished, Replace, TypeOK, Free, Session
<1>27. ASSUME NEW q \in Requests, NEW i \in Invitations, RevokeProjectInvitation(q, i) PROVE SignedOutStaysOut'
  BY <1>27 DEF RevokeProjectInvitation, Finished, TypeOK, Free, Session
<1>28. ASSUME NEW i \in Invitations, NEW s \in Sessions, RegisterInvitation(i, s) PROVE SignedOutStaysOut'
  BY <1>28 DEF RegisterInvitation, Redeemable, NewAccount, NewSession, Grant, Consume, TypeOK, Free, Session
<1>29. ASSUME NEW q \in Requests, BeginAccept(q) PROVE SignedOutStaysOut'
  BY <1>29 DEF BeginAccept, TypeOK, Free, Session
<1>30. ASSUME NEW q \in Requests, NEW i \in Invitations, AcceptInvitation(q, i) PROVE SignedOutStaysOut'
  BY <1>30 DEF AcceptInvitation, Redeemable, Finished, Grant, Consume, TypeOK, Free, Session
<1>31. CASE UNCHANGED vars
  BY <1>31 DEF vars
<1>. QED
  BY <1>1, <1>2, <1>3, <1>4, <1>5, <1>6, <1>7, <1>8, <1>9, <1>10, <1>11, <1>12, <1>13, <1>14, <1>15, <1>16, <1>17, <1>18, <1>19, <1>20, <1>21, <1>22, <1>23, <1>24, <1>25, <1>26, <1>27, <1>28, <1>29, <1>30, <1>31, ZenonT(40) DEF Next, SignIn, Connect, Administer, Invite

----------------------------------------------------------------------------
LEMMA AccountsStep == AccountsInv /\ [Next]_vars => AccountsInv'
BY TypeStep, RequestsStep, FoundedStep, SignedOutStep DEF AccountsInv

LEMMA AccountsInvariant == Spec => []AccountsInv
BY InitAccounts, AccountsStep, PTL DEF Spec

\* Every row of the accounts is one the tables admit.
THEOREM TypeCorrect == Spec => []TypeOK
<1>1. AccountsInv => TypeOK
  BY DEF AccountsInv
<1>. QED
  BY <1>1, AccountsInvariant, PTL

\* Once the organization is set up it has an active owner, however the requests of its
\* administrators interleave.
THEOREM OwnerRemains == Spec => []AlwaysAnOwner
<1>1. AccountsInv => AlwaysAnOwner
  BY DEF AccountsInv, Founded
<1>. QED
  BY <1>1, AccountsInvariant, PTL

\* No login, registration or setup leaves a session of a disabled person.
THEOREM DisabledIsSignedOut == Spec => []SignedOutStaysOut
<1>1. AccountsInv => SignedOutStaysOut
  BY DEF AccountsInv
<1>. QED
  BY <1>1, AccountsInvariant, PTL

----------------------------------------------------------------------------
(* What a step may do. *)

LEMMA RightsStep == AccountsInv /\ Next => PresentRights
<1>. SUFFICES ASSUME AccountsInv, Next PROVE PresentRights
  OBVIOUS
<1>. USE DEF AccountsInv, PresentRights
<1>1. CASE UNCHANGED <<account, grant>>
  BY <1>1
<1>2. ASSUME NEW p \in People, NEW s \in Sessions, Setup(p, s) PROVE PresentRights
  BY <1>2 DEF Setup, TypeOK, Free
<1>3. ASSUME NEW q \in Requests, UpdateUser(q) PROVE PresentRights
  <2>1. \A r \in Requests : request'[r] = IF r = q THEN Free ELSE request[r]
    BY <1>3 DEF UpdateUser, Finished, TypeOK
  <2>2. /\ account[request[q].who].status = "active"
        /\ \/ account[request[q].who].role = "owner"
           \/ (account[request[q].who].role = "admin" /\ account[request[q].about].role = "member")
    BY <1>3 DEF UpdateUser, RequestsAgree, UpdatesAgree
  <2>. QED
    BY <2>1, <2>2
<1>4. ASSUME NEW q \in Requests, NEW role \in GrantedRoles, SetProjectPermission(q, role) PROVE PresentRights
  BY <1>4 DEF SetProjectPermission, Finished, Target, StillAdministrator, FreshRole, MayManage, TypeOK, Free
<1>5. ASSUME NEW q \in Requests, RemoveProjectPermission(q) PROVE PresentRights
  BY <1>5 DEF RemoveProjectPermission, Finished, Target, StillAdministrator, FreshRole, MayManage, TypeOK, Free
<1>6. ASSUME NEW i \in Invitations, NEW s \in Sessions, RegisterInvitation(i, s) PROVE PresentRights
  BY <1>6 DEF RegisterInvitation, Redeemable, TypeOK, Free
<1>7. ASSUME NEW q \in Requests, NEW i \in Invitations, AcceptInvitation(q, i) PROVE PresentRights
  BY <1>7 DEF AcceptInvitation, Redeemable, Finished, TypeOK, Free
<1>. QED
  BY <1>1, <1>2, <1>3, <1>4, <1>5, <1>6, <1>7 DEF Next, SignIn, Connect, Administer, Invite,
     ReadAccount, WrongPassword, LogOut, AuthenticateWeb, AuthenticateDevice, Refused, ChangePassword, BeginDevice, ApproveDevice, BeginExchange, FinishExchange, AbandonExchange, ExpireDevice, RevokeDevice, LookUp, LockTarget, RevokeUserSessions, CreateUserInvitation, RevokeUserInvitation, ReadProjectRole, CreateProjectInvitation, RevokeProjectInvitation, BeginAccept, RightPassword

LEMMA ExplainedStep ==
    ASSUME AccountsInv, Next
    PROVE  /\ \A p \in People : RoleExplained(p) /\ GrantExplained(p)
           /\ \A i \in Invitations : OfferExplained(i)
<1>. USE DEF AccountsInv, RoleExplained, GrantExplained, OfferExplained
<1>. DEFINE Explained == /\ \A p \in People : RoleExplained(p) /\ GrantExplained(p)
                        /\ \A i \in Invitations : OfferExplained(i)
<1>1. CASE UNCHANGED <<account, grant, invitation>>
  BY <1>1
<1>2. ASSUME NEW p \in People, NEW s \in Sessions, Setup(p, s) PROVE Explained
  BY <1>2 DEF Setup, NewAccount, SetupComplete, Owners, Administrators, TypeOK, Free
<1>3. ASSUME NEW q \in Requests, UpdateUser(q) PROVE Explained
  <2>1. /\ \/ request[q].change.role = account[request[q].about].role
           \/ request[q].change.role = "member"
           \/ request[q].role = "owner"
        /\ request[q] # Free /\ request[q].about \in People
    <3>1. request[q].state = "updating"
      BY <1>3 DEF UpdateUser
    <3>2. request[q] # Free /\ request[q].about \in People
      BY <3>1 DEF RequestsAgree, TargetsExist, Free
    <3>3. \/ request[q].change.role = account[request[q].about].role
          \/ request[q].change.role = "member"
          \/ request[q].role = "owner"
      BY <3>1 DEF RequestsAgree, UpdatesAgree
    <3>. QED
      BY <3>2, <3>3
  <2>2. /\ account'[request[q].about].role = request[q].change.role
        /\ \A p \in People : p # request[q].about => account'[p] = account[p]
        /\ UNCHANGED <<grant, invitation>>
    BY <1>3, <2>1 DEF UpdateUser, TypeOK
  <2>3. \A p \in People : RoleExplained(p)
    BY <2>1, <2>2
  <2>. QED
    BY <2>2, <2>3
<1>4. ASSUME NEW q \in Requests, NEW role \in GrantedRoles, SetProjectPermission(q, role) PROVE Explained
  BY <1>4 DEF SetProjectPermission, Target, RequestsAgree, TargetsExist, TypeOK, Free
<1>5. ASSUME NEW q \in Requests, RemoveProjectPermission(q) PROVE Explained
  BY <1>5 DEF RemoveProjectPermission, Target, RequestsAgree, TargetsExist, TypeOK, Free
<1>6. ASSUME NEW q \in Requests, NEW i \in Invitations, NEW p \in People,
            NEW org \in OrgRoles, NEW project \in GrantedRoles \cup {"none"}, CreateUserInvitation(q, i, p, org, project) PROVE Explained
  BY <1>6 DEF CreateUserInvitation, InOffice, MayOffer, Finished, Replace, TypeOK, Free
<1>7. ASSUME NEW q \in Requests, NEW i \in Invitations, RevokeUserInvitation(q, i) PROVE Explained
  BY <1>7 DEF RevokeUserInvitation, InOffice, TypeOK, Free
<1>8. ASSUME NEW q \in Requests, NEW i \in Invitations, NEW p \in People,
            NEW org \in OrgRoles, NEW project \in GrantedRoles, CreateProjectInvitation(q, i, p, org, project) PROVE Explained
  BY <1>8 DEF CreateProjectInvitation, Finished, Replace, MayInvite, TypeOK, Free
<1>9. ASSUME NEW q \in Requests, NEW i \in Invitations, RevokeProjectInvitation(q, i) PROVE Explained
  BY <1>9 DEF RevokeProjectInvitation, TypeOK, Free
<1>10. ASSUME NEW i \in Invitations, NEW s \in Sessions, RegisterInvitation(i, s) PROVE Explained
  BY <1>10 DEF RegisterInvitation, Redeemable, NewAccount, Grant, Consume, FromInvitation, Invitation, Higher, OrgRank, OrgRoles, TypeOK, Free
<1>11. ASSUME NEW q \in Requests, NEW i \in Invitations, AcceptInvitation(q, i) PROVE Explained
  BY <1>11 DEF AcceptInvitation, Redeemable, Grant, Consume, FromInvitation, Invitation, TypeOK, Free
<1>. QED
  BY <1>1, <1>2, <1>3, <1>4, <1>5, <1>6, <1>7, <1>8, <1>9, <1>10, <1>11 DEF Next, SignIn, Connect, Administer, Invite,
     ReadAccount, WrongPassword, RightPassword, LogOut, AuthenticateWeb, AuthenticateDevice, Refused, ChangePassword, BeginDevice, ApproveDevice, BeginExchange, FinishExchange, AbandonExchange, ExpireDevice, RevokeDevice, LookUp, LockTarget, RevokeUserSessions, ReadProjectRole, BeginAccept

\* Whoever changes somebody's account or role is an administrator at that moment and may
\* manage that person as he now is.
THEOREM RightsArePresent == Spec => ActsWithPresentRights
<1>1. AccountsInv /\ [Next]_vars => [PresentRights]_vars
  BY RightsStep
<1>. QED
  BY <1>1, AccountsInvariant, PTL DEF Spec, ActsWithPresentRights

\* Every change of a role, and every offer of a high one, has one of the code's reasons.
THEOREM RolesExplained == Spec => RolesAreExplained
<1>1. AccountsInv /\ [Next]_vars =>
        [/\ \A p \in People : RoleExplained(p) /\ GrantExplained(p)
         /\ \A i \in Invitations : OfferExplained(i)]_vars
  BY ExplainedStep
<1>. QED
  BY <1>1, AccountsInvariant, PTL DEF Spec, RolesAreExplained

=============================================================================
