------------------------------ MODULE GitHubApp ------------------------------
(***************************************************************************)
(* The organization's GitHub App: installations and the repositories they  *)
(* grant, kept up to date by webhook deliveries and by connection attempts *)
(* of people, and the installation tokens cached in the server's memory.   *)
(*                                                                         *)
(* GitHub is outside: it sends the deliveries in any order, once, again or *)
(* never, and answers what is true when it is asked.  A delivery is        *)
(* recorded before it is worked on, and one that is recorded is not worked *)
(* on again.  An installation is fetched in two calls before its row is    *)
(* written, so what is written may be older than what is there.            *)
(***************************************************************************)
EXTENDS Integers, FiniteSets

CONSTANTS Installations, Repositories,
          InstallationOf,  \* the installation that can grant a repository
          Deliveries,      \* ids of webhook deliveries
          Attempts,        \* connection attempts, by their state parameter
          Stories,         \* where a behaviour starts and how often what is outside may act
          None

VARIABLES account,      \* GitHub: the status of an installation
          granted,      \* GitHub: the repositories it grants
          epoch,        \* GitHub: tokens of an earlier epoch are void
          up,           \* whether GitHub answers
          installation, \* integrations.github_installations: status
          available,    \* integrations.github_repositories: status
          delivery,     \* integrations.github_webhook_deliveries
          attempt,      \* integrations.github_connection_attempts
          work,         \* where the server is with a delivery or an attempt, and what it fetched
          tokens,       \* Service.tokens: the epoch of the token cached for a repository
          overtaken,    \* history: fetches under way when a deletion was written
          late,         \* history: installations written from such a fetch
          left          \* what is left of the budget

appVars == <<account, granted, epoch, up, installation, available, delivery, attempt,
             work, tokens, overtaken, late, left>>
hubVars == <<account, granted, epoch, up>>
rowVars == <<installation, available, delivery, attempt>>

\* How many pushes, outages, changes of an installation, crashes, requests,
\* connections and attachments a behaviour may have.
Budget == [push: Nat, outage: Nat, app: Nat, crash: Nat, request: Nat, connect: Nat, attach: Nat]

\* A story starts before the App is installed, or with every repository granted,
\* with or without a primary repository, and on a server that is set to
\* synchronize by itself or on one that is not.
Story == [left: Budget, status: {"absent", "active"}, root: Repositories \cup {None}, scheduled: BOOLEAN]

ASSUME GitHubAppAssumption ==
  /\ InstallationOf \in [Repositories -> Installations]
  /\ Stories \subseteq Story
  /\ Deliveries \cap Attempts = {}
  /\ None \notin Nat \cup Installations

Events == {"created", "suspend", "unsuspend", "deleted", "installation_repositories"}
Unsent == [status |-> "unsent", event |-> "created", inst |-> None]
DeliveryType == [status: {"unsent", "sent", "processing", "processed", "failed"},
                 event: Events, inst: Installations \cup {None}]
AttemptType == [status: {"none", "pending", "completed"}, inst: Installations \cup {None}]

Jobs == Deliveries \cup Attempts
Rest == [at |-> "rest", inst |-> None, seen |-> "active", list |-> {}]
WorkType == [at: {"rest", "clear", "write", "verify", "get", "list", "upsert", "forget", "done", "fail"},
             inst: Installations \cup {None}, seen: {"active", "suspended"},
             list: SUBSET Repositories]

Spend(what) == left[what] > 0 /\ left' = [left EXCEPT ![what] = @ - 1]

-----------------------------------------------------------------------------
(* GitHub. *)

\* Ids are interchangeable: any one that was not used yet.
Fresh == CHOOSE d \in Deliveries : delivery[d] = Unsent

\* A person or GitHub changes an installation, and GitHub prepares a delivery.
Change(d, i, event) ==
  /\ Spend("app")
  /\ delivery[d] = Unsent /\ d = Fresh
  /\ \/ event = "created" /\ account[i] = "absent"
     \/ event = "suspend" /\ account[i] = "active"
     \/ event = "unsuspend" /\ account[i] = "suspended"
     \/ event = "deleted" /\ account[i] \in {"active", "suspended"}
     \/ event = "installation_repositories" /\ account[i] = "active"
  /\ account' = [account EXCEPT ![i] = CASE event = "suspend" -> "suspended"
                                         [] event = "deleted" -> "deleted"
                                         [] OTHER -> "active"]
  /\ epoch' = [epoch EXCEPT ![i] = IF event \in {"suspend", "deleted"} THEN @ + 1 ELSE @]
  /\ \E g \in SUBSET {r \in Repositories : InstallationOf[r] = i} :
       /\ event \notin {"created", "installation_repositories"} => g = granted[i]
       /\ granted' = [granted EXCEPT ![i] = g]
  /\ delivery' = [delivery EXCEPT ![d] = [status |-> "sent", event |-> event, inst |-> i]]
  /\ UNCHANGED <<up, installation, available, attempt, work, tokens, overtaken, late>>

Outage ==
  /\ up /\ Spend("outage")
  /\ up' = FALSE
  /\ UNCHANGED <<account, granted, epoch, rowVars, work, tokens, overtaken, late>>

Recovery ==
  /\ ~up
  /\ up' = TRUE
  /\ UNCHANGED <<account, granted, epoch, rowVars, work, tokens, overtaken, late, left>>

\* A token that GitHub accepts.
Accepted(i, t) == account[i] = "active" /\ t = epoch[i]

-----------------------------------------------------------------------------
(* Webhook deliveries. *)

At(j, step) == work' = [work EXCEPT ![j].at = step]

\* HandleWebhook: the delivery is recorded, unless it was before.
BeginDelivery(d) ==
  /\ delivery[d].status = "sent"
  /\ delivery' = [delivery EXCEPT ![d].status = "processing"]
  /\ work' = [work EXCEPT ![d] = [Rest EXCEPT !.at = "clear", !.inst = delivery[d].inst]]
  /\ UNCHANGED <<hubVars, installation, available, attempt, tokens, overtaken, late, left>>

\* clearTokenCache, then what the event asks for.
ClearTokens(d) ==
  /\ work[d].at = "clear"
  /\ tokens' = [r \in Repositories |-> None]
  /\ At(d, IF delivery[d].event \in {"suspend", "deleted"} THEN "write" ELSE "get")
  /\ UNCHANGED <<hubVars, rowVars, overtaken, late, left>>

\* Mutant: the repositories of an installation keep their status.
WriteOnlyTheInstallation(i, s) ==
  /\ installation' = [installation EXCEPT ![i] = s]
  /\ UNCHANGED available

\* The status of an installation and, with it, of its repositories.
WriteStatus(i, s) ==
  /\ installation' = [installation EXCEPT ![i] = s]
  /\ available' = [r \in Repositories |->
                     IF InstallationOf[r] # i \/ available[r] = "absent" THEN available[r]
                     ELSE IF s = "deleted" THEN "removed" ELSE "unavailable"]

\* UpdateInstallationStatus: an installation nobody has written yet is not found.
UpdateInstallationStatus(d) ==
  /\ work[d].at = "write"
  /\ LET i == work[d].inst
         s == IF delivery[d].event = "deleted" THEN "deleted" ELSE "suspended"
     IN  IF installation[i] = "absent"
         THEN At(d, "fail") /\ UNCHANGED <<installation, available, overtaken>>
         ELSE /\ At(d, "done")
              /\ WriteStatus(i, s)
              /\ overtaken' = IF s = "deleted"
                              THEN overtaken \cup {j \in Jobs : work[j].inst = i /\ work[j].at \in {"list", "upsert"}}
                              ELSE overtaken
  /\ UNCHANGED <<hubVars, delivery, attempt, tokens, late, left>>

CompleteDelivery(d) ==
  /\ work[d].at \in {"done", "fail"}
  /\ delivery' = [delivery EXCEPT ![d].status = IF work[d].at = "done" THEN "processed" ELSE "failed"]
  /\ work' = [work EXCEPT ![d] = Rest]
  /\ UNCHANGED <<hubVars, installation, available, attempt, tokens, overtaken, late, left>>

-----------------------------------------------------------------------------
(* syncInstallation, for a delivery or for an attempt. *)

\* GetInstallation: an installation that is gone is not found.
GetInstallation(j) ==
  /\ work[j].at = "get"
  /\ IF up /\ account[work[j].inst] \in {"active", "suspended"}
     THEN work' = [work EXCEPT ![j].at = "list", ![j].seen = account[work[j].inst]]
     ELSE At(j, "fail")
  /\ UNCHANGED <<hubVars, rowVars, tokens, overtaken, late, left>>

\* ListRepositories needs a token of its own, which a suspended installation does not get.
ListRepositories(j) ==
  /\ work[j].at = "list"
  /\ IF up /\ account[work[j].inst] = "active"
     THEN work' = [work EXCEPT ![j].at = "upsert", ![j].list = granted[work[j].inst]]
     ELSE At(j, "fail")
  /\ UNCHANGED <<hubVars, rowVars, tokens, overtaken, late, left>>

\* The row becomes what was fetched, whatever it was.
UpsertInstallation(j) ==
  /\ work[j].at = "upsert"
  /\ LET i == work[j].inst IN
       /\ installation' = [installation EXCEPT ![i] = work[j].seen]
       /\ available' = [r \in Repositories |->
                          IF r \in work[j].list
                          THEN IF work[j].seen = "active" THEN "active" ELSE "unavailable"
                          ELSE IF InstallationOf[r] = i /\ available[r] # "absent" THEN "removed"
                               ELSE available[r]]
       /\ late' = IF j \in overtaken THEN late \cup {i} ELSE late
  /\ At(j, "forget")
  /\ UNCHANGED <<hubVars, delivery, attempt, tokens, overtaken, left>>

ForgetTokens(j) ==
  /\ work[j].at = "forget"
  /\ tokens' = [r \in Repositories |-> None]
  /\ At(j, "done")
  /\ UNCHANGED <<hubVars, rowVars, overtaken, late, left>>

-----------------------------------------------------------------------------
(* Connection attempts. *)

Connect(a) ==
  /\ attempt[a].status = "none"
  /\ Spend("connect")
  /\ attempt' = [attempt EXCEPT ![a].status = "pending"]
  /\ UNCHANGED <<hubVars, installation, available, delivery, work, tokens, overtaken, late>>

\* SetAttemptInstallation: a pending attempt is bound to one installation for good.
BeginUserAuthorization(a, i) ==
  /\ attempt[a] = [status |-> "pending", inst |-> None]
  /\ attempt' = [attempt EXCEPT ![a].inst = i]
  /\ UNCHANGED <<hubVars, installation, available, delivery, work, tokens, overtaken, late, left>>

\* ConsumeAttempt: an attempt is consumed before it is known to succeed.
CompleteConnection(a) ==
  /\ attempt[a].status = "pending" /\ attempt[a].inst # None
  /\ attempt' = [attempt EXCEPT ![a].status = "completed"]
  /\ work' = [work EXCEPT ![a] = [Rest EXCEPT !.at = "verify", !.inst = attempt[a].inst]]
  /\ UNCHANGED <<hubVars, installation, available, delivery, tokens, overtaken, late, left>>

\* ExchangeCode and GetUserInstallation: the person may see the installation or not.
VerifyUser(a, may) ==
  /\ work[a].at = "verify"
  /\ At(a, IF up /\ may THEN "get" ELSE "fail")
  /\ UNCHANGED <<hubVars, rowVars, tokens, overtaken, late, left>>

EndConnection(a) ==
  /\ work[a].at \in {"done", "fail"}
  /\ work' = [work EXCEPT ![a] = Rest]
  /\ UNCHANGED <<hubVars, rowVars, tokens, overtaken, late, left>>

-----------------------------------------------------------------------------
(* Tokens for fetching: see RepositorySync for the requests that use them. *)

\* InstallationForRepository
Authorized(r) == available[r] = "active" /\ installation[InstallationOf[r]] = "active"

\* Mutant: a token is reused whatever its age.
ReuseToken(r) == FALSE /\ tokens[r] # None /\ UNCHANGED appVars

\* A token is not reused from a minute before it expires.
TokenExpires(r) ==
  /\ tokens[r] # None
  /\ tokens' = [tokens EXCEPT ![r] = None]
  /\ UNCHANGED <<hubVars, rowVars, work, overtaken, late, left>>

StepOfDelivery(d) ==
  \/ BeginDelivery(d) \/ ClearTokens(d) \/ UpdateInstallationStatus(d) \/ CompleteDelivery(d)

StepOfFetch(j) == GetInstallation(j) \/ ListRepositories(j) \/ UpsertInstallation(j) \/ ForgetTokens(j)

StepOfAttempt(a) ==
  \/ Connect(a) \/ (\E i \in Installations : BeginUserAuthorization(a, i)) \/ CompleteConnection(a)
  \/ (\E may \in BOOLEAN : VerifyUser(a, may)) \/ EndConnection(a)

AppStep ==
  \/ \E d \in Deliveries : StepOfDelivery(d)
  \/ \E d \in Deliveries, i \in Installations, e \in Events : Change(d, i, e)
  \/ \E j \in Jobs : StepOfFetch(j)
  \/ \E a \in Attempts : StepOfAttempt(a)
  \/ Outage \/ Recovery
  \/ \E r \in Repositories : TokenExpires(r)

InitApp(story) ==
  /\ left = story.left
  /\ account = [i \in Installations |-> story.status]
  /\ installation = [i \in Installations |-> story.status]
  /\ available = [r \in Repositories |-> story.status]
  /\ granted = [i \in Installations |->
                  {r \in Repositories : story.status = "active" /\ InstallationOf[r] = i}]
  /\ epoch = [i \in Installations |-> 0]
  /\ up = TRUE
  /\ delivery = [d \in Deliveries |-> Unsent]
  /\ attempt = [a \in Attempts |-> [status |-> "none", inst |-> None]]
  /\ work = [j \in Jobs |-> Rest]
  /\ tokens = [r \in Repositories |-> None]
  /\ overtaken = {} /\ late = {}

-----------------------------------------------------------------------------
AppTypeOK ==
  /\ account \in [Installations -> {"absent", "active", "suspended", "deleted"}]
  /\ granted \in [Installations -> SUBSET Repositories]
  /\ epoch \in [Installations -> Nat]
  /\ up \in BOOLEAN
  /\ installation \in [Installations -> {"absent", "active", "suspended", "deleted"}]
  /\ available \in [Repositories -> {"absent", "active", "unavailable", "removed"}]
  /\ delivery \in [Deliveries -> DeliveryType]
  /\ attempt \in [Attempts -> AttemptType]
  /\ work \in [Jobs -> WorkType]
  /\ tokens \in [Repositories -> Nat \cup {None}]
  /\ overtaken \subseteq Jobs
  /\ late \subseteq Installations
  /\ left \in Budget
=============================================================================
