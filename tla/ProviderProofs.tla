--------------------------- MODULE ProviderProofs ---------------------------
(***************************************************************************)
(* What PACT knows of its repositories is told the same everywhere, and a  *)
(* processed deletion of an installation is undone only by a fetch it      *)
(* overtook, for any number of installations, repositories, deliveries,    *)
(* attempts and requests, and whatever the budgets are.                    *)
(***************************************************************************)
EXTENDS RepositorySync, TLAPS

Own(i) == {r \in Repositories : InstallationOf[r] = i}

\* What is being worked on has an installation, and a delivery is worked on once.
WorkFits ==
  /\ \A j \in Jobs : work[j].at # "rest" => work[j].inst \in Installations
  /\ \A d \in Deliveries :
       /\ delivery[d].status # "unsent" => delivery[d].inst \in Installations
       /\ work[d].at # "rest" => delivery[d].status = "processing" /\ work[d].inst = delivery[d].inst
       /\ work[d].at # "rest" /\ delivery[d].event = "deleted" =>
            work[d].at \in {"clear", "write", "done", "fail"}

\* An installation grants repositories that are its own.
GrantsAreItsOwn ==
  /\ \A i \in Installations : granted[i] \subseteq Own(i)
  /\ \A j \in Jobs : work[j].at = "upsert" => work[j].list \subseteq Own(work[j].inst)

Fetched(j) == work[j].at \in {"list", "upsert"}

\* A deletion that was written: who fetched the installation before is known.
Written(d) ==
  /\ delivery[d].event = "deleted"
  /\ delivery[d].status = "processed" \/ work[d].at = "done"

DeletionsHold ==
  \A d \in Deliveries :
    /\ delivery[d].status # "unsent" /\ delivery[d].event = "deleted" => account[delivery[d].inst] = "deleted"
    /\ Written(d) =>
         /\ installation[delivery[d].inst] # "active" \/ delivery[d].inst \in late
         /\ \A j \in Jobs : Fetched(j) /\ work[j].inst = delivery[d].inst => j \in overtaken

ActiveOfActive == \A r \in Repositories : available[r] = "active" => installation[InstallationOf[r]] = "active"

AppInv == AppTypeOK /\ WorkFits /\ GrantsAreItsOwn /\ DeletionsHold /\ ActiveOfActive

\* A synchronization under way has a repository, and a key when a person asked for it.
Fits(q, w) ==
  /\ w.at \notin {"idle", "off", "next", "ended"} => w.repo \in Repositories
  /\ w.at \notin {"idle", "off", "next", "ended"} /\ q # Runner => w.key \in Keys
  /\ w.at = "store" => w.token \in Nat
  /\ w.at = "revision" => w.branch \in Branches
  /\ w.at \in {"begin", "apply"} /\ w.error = None => w.branch \in Branches /\ w.revision \in Revisions
  /\ w.at = "apply" => w.error = None
  /\ w.at \notin {"begin", "record"} => w.error = None
  /\ w.at = "record" => w.error \in Codes

JobsFit == \A q \in Syncs : Fits(q, job[q])

SyncTypeOK ==
  /\ remote \in [Repositories -> [branch: Branches, tip: [Branches -> Nat]]]
  /\ attached \in [Repositories -> Branches \cup {None}]
  /\ root \in Repositories \cup {None}
  /\ canonical \in Revisions \cup {None}
  /\ state \in [Repositories -> StateType]
  /\ told \in [Repositories -> ToldType]
  /\ stored \in [Keys -> Repositories \cup {None}]
  /\ attaching \in [repo: Repositories, primary: BOOLEAN, found: BOOLEAN] \cup {None}
  /\ job \in [Syncs -> JobType]
  /\ begun \subseteq Syncs \X Syncs

SyncInv == SyncTypeOK /\ JobsFit /\ OneTruth

IInv == AppInv /\ SyncInv

-----------------------------------------------------------------------------
(* Helpers. *)

Costs == {"push", "outage", "app", "crash", "request", "connect", "attach"}

LEMMA SpendType ==
  ASSUME left \in Budget, NEW what \in Costs, Spend(what)
  PROVE  left' \in Budget
BY DEF Budget, Spend, Costs

\* The steps of a delivery or an attempt change where it is.
LEMMA WorkAt ==
  ASSUME work \in [Jobs -> WorkType], NEW j \in Jobs,
         NEW s \in {"clear", "write", "verify", "get", "list", "upsert", "forget", "done", "fail"},
         At(j, s)
  PROVE  /\ work' \in [Jobs -> WorkType]
         /\ work'[j].at = s /\ work'[j].inst = work[j].inst
         /\ work'[j].list = work[j].list /\ work'[j].seen = work[j].seen
         /\ \A k \in Jobs : k # j => work'[k] = work[k]
BY DEF At, WorkType

LEMMA SeenType ==
  ASSUME NEW w \in WorkType, NEW s \in {"active", "suspended"},
         NEW v, v = [w EXCEPT !.at = "list", !.seen = s]
  PROVE  v \in WorkType /\ v.at = "list" /\ v.inst = w.inst
BY DEF WorkType

LEMMA RestType == Rest \in WorkType /\ Rest.at = "rest"
BY DEF Rest, WorkType

\* None of this reads more of the App than its rows and what is in hand.
AppKept == UNCHANGED <<hubVars, rowVars, work, overtaken, late>>

LEMMA KeptKeeps ==
  ASSUME AppInv, AppKept, left' \in Budget, tokens' \in [Repositories -> Nat \cup {None}]
  PROVE  AppInv'
BY DEF AppInv, AppKept, hubVars, rowVars, AppTypeOK, WorkFits, GrantsAreItsOwn, DeletionsHold,
       ActiveOfActive, Written, Fetched, Own

-----------------------------------------------------------------------------
(* Steps of the App. *)

\* A step of the job j that leaves the rows alone and gives it nothing it had not
\* fetched: the work keeps fitting, and nobody fetches what was deleted.
LEMMA JobStep ==
  ASSUME AppInv, RepositorySyncAssumption, GitHubAppAssumption,
         NEW j \in Jobs, work[j].at # "rest",
         work' \in [Jobs -> WorkType], \A k \in Jobs : k # j => work'[k] = work[k],
         work'[j].at # "rest", work'[j].inst = work[j].inst,
         work'[j].at = "list" => work[j].at = "get" /\ account[work[j].inst] # "deleted",
         work'[j].at = "upsert" => work[j].at = "list" /\ work'[j].list \subseteq Own(work[j].inst),
         work'[j].at = "done" => work[j].at = "forget",
         work[j].at \in {"clear", "get", "list", "forget", "verify"},
         work[j].at = "clear" => j \in Deliveries /\
             work'[j].at = IF delivery[j].event \in {"suspend", "deleted"} THEN "write" ELSE "get",
         tokens' \in [Repositories -> Nat \cup {None}],
         UNCHANGED <<hubVars, rowVars, overtaken, late, left>>
  PROVE  AppInv'
<1>. USE DEF AppInv, hubVars, rowVars
<1>1. AppTypeOK'
  BY DEF AppTypeOK
<1>2. WorkFits'
  BY DEF AppTypeOK, WorkFits, Jobs
<1>3. GrantsAreItsOwn'
  BY DEF AppTypeOK, GrantsAreItsOwn, Own
<1>4. ASSUME NEW d \in Deliveries PROVE Written(d)' => Written(d)
  <2>1. CASE d = j
    BY <2>1 DEF Written, WorkFits, Jobs
  <2>2. CASE d # j
    BY <2>2 DEF Written, Jobs
  <2>. QED
    BY <2>1, <2>2
<1>5. ASSUME NEW d \in Deliveries, Written(d)', NEW k \in Jobs, Fetched(k)', work'[k].inst = delivery'[d].inst
      PROVE  k \in overtaken'
  <2>1. Written(d) /\ delivery[d].status # "unsent"
    BY <1>4, <1>5 DEF Written, WorkFits, Jobs, AppTypeOK
  <2>2. account[delivery[d].inst] = "deleted"
    BY <2>1 DEF Written, DeletionsHold
  <2>3. CASE k = j
    <3>1. work[j].inst = delivery[d].inst
      BY <1>5, <2>3
    <3>2. Fetched(j)
      BY <1>5, <2>2, <2>3, <3>1 DEF Fetched
    <3>. QED
      BY <2>1, <2>3, <3>1, <3>2 DEF DeletionsHold
  <2>4. CASE k # j
    BY <1>5, <2>1, <2>4 DEF Fetched, DeletionsHold
  <2>. QED
    BY <2>3, <2>4
<1>6. DeletionsHold'
  BY <1>4, <1>5 DEF DeletionsHold
<1>7. ActiveOfActive'
  BY DEF ActiveOfActive
<1>. QED
  BY <1>1, <1>2, <1>3, <1>6, <1>7

LEMMA ClearTokensKeeps ==
  ASSUME AppInv, RepositorySyncAssumption, GitHubAppAssumption, NEW d \in Deliveries, ClearTokens(d)
  PROVE  AppInv'
<1>1. d \in Jobs /\ work \in [Jobs -> WorkType]
  BY DEF AppInv, AppTypeOK, Jobs
<1>2. At(d, IF delivery[d].event \in {"suspend", "deleted"} THEN "write" ELSE "get")
  BY DEF ClearTokens
<1>3. /\ work' \in [Jobs -> WorkType] /\ work'[d].inst = work[d].inst
      /\ \A k \in Jobs : k # d => work'[k] = work[k]
      /\ work'[d].at = IF delivery[d].event \in {"suspend", "deleted"} THEN "write" ELSE "get"
  BY <1>1, <1>2, WorkAt
<1>4. tokens' \in [Repositories -> Nat \cup {None}]
  BY DEF ClearTokens
<1>5. work[d].at = "clear" /\ UNCHANGED <<hubVars, rowVars, overtaken, late, left>>
  BY DEF ClearTokens
<1>6. work'[d].at = "write" \/ work'[d].at = "get"
  BY <1>3
<1>7. work'[d].at \notin {"rest", "list", "upsert", "done"}
  BY <1>6
<1>. QED
  BY <1>1, <1>3, <1>4, <1>5, <1>7, JobStep

LEMMA GetKeeps ==
  ASSUME AppInv, RepositorySyncAssumption, GitHubAppAssumption, NEW j \in Jobs, GetInstallation(j)
  PROVE  AppInv'
<1>1. work \in [Jobs -> WorkType] /\ work[j].inst \in Installations
      /\ account \in [Installations -> {"absent", "active", "suspended", "deleted"}]
  BY DEF AppInv, AppTypeOK, WorkFits, GetInstallation
<1>2. tokens' \in [Repositories -> Nat \cup {None}]
  BY DEF GetInstallation, AppInv, AppTypeOK
<1>3. CASE up /\ account[work[j].inst] \in {"active", "suspended"}
  <2>. DEFINE v == [work[j] EXCEPT !.at = "list", !.seen = account[work[j].inst]]
  <2>1. work' = [work EXCEPT ![j] = v]
    BY <1>1, <1>3 DEF GetInstallation
  <2>2. v \in WorkType /\ v.at = "list" /\ v.inst = work[j].inst
    <3>1. work[j] \in WorkType /\ account[work[j].inst] \in {"active", "suspended"}
      BY <1>1, <1>3
    <3>. QED
      BY <3>1, SeenType
  <2>. HIDE DEF v
  <2>3. /\ work' \in [Jobs -> WorkType] /\ work'[j].inst = work[j].inst /\ work'[j].at = "list"
        /\ \A k \in Jobs : k # j => work'[k] = work[k]
    BY <1>1, <2>1, <2>2
  <2>. QED
    BY <1>2, <1>3, <2>3, JobStep DEF GetInstallation
<1>4. CASE ~(up /\ account[work[j].inst] \in {"active", "suspended"})
  <2>1. At(j, "fail")
    BY <1>4 DEF GetInstallation
  <2>2. /\ work' \in [Jobs -> WorkType] /\ work'[j].inst = work[j].inst /\ work'[j].at = "fail"
        /\ \A k \in Jobs : k # j => work'[k] = work[k]
    BY <1>1, <2>1, WorkAt
  <2>. QED
    BY <1>2, <2>2, JobStep DEF GetInstallation
<1>. QED
  BY <1>3, <1>4

LEMMA ListKeeps ==
  ASSUME AppInv, RepositorySyncAssumption, GitHubAppAssumption, NEW j \in Jobs, ListRepositories(j)
  PROVE  AppInv'
<1>1. work \in [Jobs -> WorkType] /\ work[j].inst \in Installations
      /\ granted[work[j].inst] \subseteq Own(work[j].inst) /\ granted[work[j].inst] \subseteq Repositories
  BY DEF AppInv, AppTypeOK, WorkFits, GrantsAreItsOwn, ListRepositories, Own
<1>2. tokens' \in [Repositories -> Nat \cup {None}]
  BY DEF ListRepositories, AppInv, AppTypeOK
<1>3. CASE up /\ account[work[j].inst] = "active"
  <2>. DEFINE v == [work[j] EXCEPT !.at = "upsert", !.list = granted[work[j].inst]]
  <2>1. work' = [work EXCEPT ![j] = v]
    BY <1>1, <1>3 DEF ListRepositories
  <2>2. v \in WorkType /\ v.at = "upsert" /\ v.inst = work[j].inst /\ v.list = granted[work[j].inst]
    <3>. DEFINE g == granted[work[j].inst]
    <3>1. work[j] \in WorkType /\ g \subseteq Repositories
      BY <1>1
    <3>2. v = [work[j] EXCEPT !.at = "upsert", !.list = g]
      OBVIOUS
    <3>. HIDE DEF v, g
    <3>3. v \in WorkType /\ v.at = "upsert" /\ v.inst = work[j].inst /\ v.list = g
      BY <3>1, <3>2 DEF WorkType
    <3>. QED
      BY <3>3 DEF g
  <2>. HIDE DEF v
  <2>3. /\ work' \in [Jobs -> WorkType] /\ work'[j].inst = work[j].inst /\ work'[j].at = "upsert"
        /\ work'[j].list = granted[work[j].inst]
        /\ \A k \in Jobs : k # j => work'[k] = work[k]
    BY <1>1, <2>1, <2>2
  <2>. QED
    BY <1>1, <1>2, <1>3, <2>3, JobStep DEF ListRepositories
<1>4. CASE ~(up /\ account[work[j].inst] = "active")
  <2>1. At(j, "fail")
    BY <1>4 DEF ListRepositories
  <2>2. /\ work' \in [Jobs -> WorkType] /\ work'[j].inst = work[j].inst /\ work'[j].at = "fail"
        /\ \A k \in Jobs : k # j => work'[k] = work[k]
    BY <1>1, <2>1, WorkAt
  <2>. QED
    BY <1>2, <2>2, JobStep DEF ListRepositories
<1>. QED
  BY <1>3, <1>4

LEMMA ForgetKeeps ==
  ASSUME AppInv, RepositorySyncAssumption, GitHubAppAssumption, NEW j \in Jobs, ForgetTokens(j)
  PROVE  AppInv'
<1>1. work \in [Jobs -> WorkType]
  BY DEF AppInv, AppTypeOK
<1>2. /\ work' \in [Jobs -> WorkType] /\ work'[j].inst = work[j].inst /\ work'[j].at = "done"
      /\ \A k \in Jobs : k # j => work'[k] = work[k]
  BY <1>1, WorkAt DEF ForgetTokens
<1>3. tokens' \in [Repositories -> Nat \cup {None}]
  BY DEF ForgetTokens
<1>. QED
  BY <1>2, <1>3, JobStep DEF ForgetTokens

LEMMA VerifyKeeps ==
  ASSUME AppInv, RepositorySyncAssumption, GitHubAppAssumption,
         NEW a \in Attempts, NEW may \in BOOLEAN, VerifyUser(a, may)
  PROVE  AppInv'
<1>1. work \in [Jobs -> WorkType] /\ a \in Jobs
  BY DEF AppInv, AppTypeOK, Jobs
<1>2. /\ work' \in [Jobs -> WorkType] /\ work'[a].inst = work[a].inst /\ work'[a].at \in {"get", "fail"}
      /\ \A k \in Jobs : k # a => work'[k] = work[k]
  <2>1. CASE up /\ may
    BY <1>1, <2>1, WorkAt DEF VerifyUser
  <2>2. CASE ~(up /\ may)
    BY <1>1, <2>2, WorkAt DEF VerifyUser
  <2>. QED
    BY <2>1, <2>2
<1>3. tokens' \in [Repositories -> Nat \cup {None}]
  BY DEF VerifyUser, AppInv, AppTypeOK
<1>. QED
  BY <1>1, <1>2, <1>3, JobStep DEF VerifyUser

-----------------------------------------------------------------------------
(* Steps that write rows, or that GitHub takes. *)

LEMMA ChangeKeeps ==
  ASSUME AppInv, GitHubAppAssumption,
         NEW d \in Deliveries, NEW i \in Installations, NEW e \in Events, Change(d, i, e)
  PROVE  AppInv'
<1>. USE DEF AppInv
<1>1. left' \in Budget
  BY SpendType DEF Change, Costs, AppTypeOK
<1>2. PICK g \in SUBSET {r \in Repositories : InstallationOf[r] = i} : granted' = [granted EXCEPT ![i] = g]
  BY DEF Change
<1>3. delivery' = [delivery EXCEPT ![d] = [status |-> "sent", event |-> e, inst |-> i]]
  BY DEF Change
<1>4. /\ account' \in [Installations -> {"absent", "active", "suspended", "deleted"}]
      /\ \A k \in Installations : account[k] = "deleted" => account'[k] = "deleted"
      /\ e = "deleted" => account'[i] = "deleted"
  BY DEF Change, AppTypeOK, Events
<1>5. epoch' \in [Installations -> Nat]
  BY DEF Change, AppTypeOK
<1>6. delivery' \in [Deliveries -> DeliveryType]
  BY <1>3 DEF AppTypeOK, DeliveryType
<1>7. delivery[d].status = "unsent" /\ delivery'[d].status = "sent" /\ delivery'[d].event = e /\ delivery'[d].inst = i
  BY <1>3 DEF Change, Unsent, AppTypeOK
<1>8. \A f \in Deliveries : f # d => delivery'[f] = delivery[f]
  BY <1>3 DEF AppTypeOK
<1>9. UNCHANGED <<up, installation, available, attempt, work, tokens, overtaken, late>>
  BY DEF Change
<1>10. AppTypeOK'
  BY <1>1, <1>2, <1>4, <1>5, <1>6, <1>9 DEF AppTypeOK
<1>11. work[d].at = "rest"
  BY <1>7 DEF WorkFits
<1>12. WorkFits'
  BY <1>7, <1>8, <1>9, <1>11 DEF WorkFits
<1>13. GrantsAreItsOwn'
  BY <1>2, <1>9 DEF GrantsAreItsOwn, Own, AppTypeOK
<1>14. \A f \in Deliveries : Written(f)' => f # d /\ Written(f)
  BY <1>7, <1>8, <1>9, <1>11 DEF Written
<1>15. DeletionsHold'
  BY <1>4, <1>7, <1>8, <1>9, <1>14 DEF DeletionsHold, Fetched, WorkFits
<1>16. ActiveOfActive'
  BY <1>9 DEF ActiveOfActive
<1>. QED
  BY <1>10, <1>12, <1>13, <1>15, <1>16

LEMMA OutageKeeps == ASSUME AppInv, Outage \/ Recovery PROVE AppInv'
<1>1. left' \in Budget /\ up' \in BOOLEAN
  BY SpendType DEF Outage, Recovery, Costs, AppInv, AppTypeOK
<1>2. UNCHANGED <<account, granted, epoch, rowVars, work, tokens, overtaken, late>>
  BY DEF Outage, Recovery
<1>. QED
  BY <1>1, <1>2 DEF AppInv, rowVars, AppTypeOK, WorkFits, GrantsAreItsOwn, DeletionsHold,
       ActiveOfActive, Written, Fetched, Own

LEMMA BeginDeliveryKeeps ==
  ASSUME AppInv, GitHubAppAssumption, NEW d \in Deliveries, BeginDelivery(d)
  PROVE  AppInv'
<1>. USE DEF AppInv
<1>1. /\ work' = [work EXCEPT ![d] = [Rest EXCEPT !.at = "clear", !.inst = delivery[d].inst]]
      /\ delivery' = [delivery EXCEPT ![d] = [delivery[d] EXCEPT !.status = "processing"]]
      /\ UNCHANGED <<hubVars, installation, available, attempt, tokens, overtaken, late, left>>
      /\ delivery[d].status = "sent" /\ d \in Jobs
  BY DEF BeginDelivery, Jobs
<1>2. delivery[d].inst \in Installations
  BY <1>1 DEF WorkFits
<1>3. /\ delivery' \in [Deliveries -> DeliveryType]
      /\ delivery'[d].status = "processing" /\ delivery'[d].event = delivery[d].event
      /\ delivery'[d].inst = delivery[d].inst
      /\ \A f \in Deliveries : f # d => delivery'[f] = delivery[f]
  BY <1>1 DEF AppTypeOK, DeliveryType
<1>4. /\ work' \in [Jobs -> WorkType] /\ work'[d].at = "clear" /\ work'[d].inst = delivery[d].inst
      /\ \A k \in Jobs : k # d => work'[k] = work[k]
  BY <1>1, <1>2 DEF AppTypeOK, WorkType, Rest
<1>5. AppTypeOK'
  BY <1>1, <1>3, <1>4 DEF AppTypeOK, hubVars
<1>6. WorkFits'
  BY <1>1, <1>2, <1>3, <1>4 DEF WorkFits, Jobs
<1>7. GrantsAreItsOwn'
  BY <1>1, <1>4 DEF GrantsAreItsOwn, Own, hubVars
<1>8. \A f \in Deliveries : Written(f)' => f # d /\ Written(f)
  BY <1>3, <1>4 DEF Written, Jobs
<1>9. \A k \in Jobs : Fetched(k)' => Fetched(k) /\ work'[k] = work[k]
  BY <1>4 DEF Fetched
<1>10. DeletionsHold'
  <2>1. UNCHANGED <<account, installation, late, overtaken>>
    BY <1>1 DEF hubVars
  <2>2. ASSUME NEW f \in Deliveries
        PROVE  /\ delivery'[f].status # "unsent" => delivery[f].status # "unsent"
               /\ delivery'[f].event = delivery[f].event /\ delivery'[f].inst = delivery[f].inst
    <3>1. CASE f = d
      BY <1>1, <1>3, <3>1
    <3>2. CASE f # d
      BY <1>3, <3>2
    <3>. QED
      BY <3>1, <3>2
  <2>3. ASSUME NEW f \in Deliveries, delivery'[f].status # "unsent", delivery'[f].event = "deleted"
        PROVE  account'[delivery'[f].inst] = "deleted"
    BY <2>1, <2>2, <2>3 DEF DeletionsHold
  <2>4. ASSUME NEW f \in Deliveries, Written(f)'
        PROVE  /\ installation'[delivery'[f].inst] # "active" \/ delivery'[f].inst \in late'
               /\ \A j \in Jobs : Fetched(j)' /\ work'[j].inst = delivery'[f].inst => j \in overtaken'
    <3>1. Written(f)
      BY <1>8, <2>4
    <3>. QED
      BY <1>9, <2>1, <2>2, <3>1 DEF DeletionsHold
  <2>. QED
    BY <2>3, <2>4 DEF DeletionsHold
<1>11. ActiveOfActive'
  BY <1>1 DEF ActiveOfActive
<1>. QED
  BY <1>5, <1>6, <1>7, <1>10, <1>11

\* A status that is not active leaves no repository of the installation active.
LEMMA StatusWritten ==
  ASSUME AppTypeOK, ActiveOfActive, GitHubAppAssumption, NEW i \in Installations,
         NEW s \in {"suspended", "deleted"}, WriteStatus(i, s)
  PROVE  /\ installation' \in [Installations -> {"absent", "active", "suspended", "deleted"}]
         /\ available' \in [Repositories -> {"absent", "active", "unavailable", "removed"}]
         /\ installation'[i] # "active"
         /\ \A k \in Installations : k # i => installation'[k] = installation[k]
         /\ ActiveOfActive'
<1>1. installation' = [installation EXCEPT ![i] = s]
  BY DEF WriteStatus
<1>2. available' \in [Repositories -> {"absent", "active", "unavailable", "removed"}]
  BY DEF WriteStatus, AppTypeOK
<1>3. \A r \in Repositories : available'[r] = "active" => InstallationOf[r] # i /\ available[r] = "active"
  <2>. TAKE r \in Repositories
  <2>1. available'[r] = IF InstallationOf[r] # i \/ available[r] = "absent" THEN available[r]
                        ELSE IF s = "deleted" THEN "removed" ELSE "unavailable"
    BY DEF WriteStatus
  <2>. QED
    BY <2>1
<1>. QED
  BY <1>1, <1>2, <1>3 DEF AppTypeOK, ActiveOfActive, GitHubAppAssumption

LEMMA UpdateStatusKeeps ==
  ASSUME AppInv, GitHubAppAssumption, NEW d \in Deliveries, UpdateInstallationStatus(d)
  PROVE  AppInv'
<1>. USE DEF AppInv
<1>. DEFINE i == work[d].inst
            s == IF delivery[d].event = "deleted" THEN "deleted" ELSE "suspended"
<1>1. /\ work[d].at = "write" /\ d \in Jobs /\ work \in [Jobs -> WorkType]
      /\ UNCHANGED <<hubVars, delivery, attempt, tokens, late, left>>
  BY DEF UpdateInstallationStatus, Jobs, AppTypeOK
<1>2. i \in Installations /\ i = delivery[d].inst /\ delivery[d].status = "processing"
  BY <1>1 DEF WorkFits
<1>3. CASE installation[i] = "absent"
  <2>1. At(d, "fail") /\ UNCHANGED <<installation, available, overtaken>>
    BY <1>3 DEF UpdateInstallationStatus
  <2>2. /\ work' \in [Jobs -> WorkType] /\ work'[d].at = "fail" /\ work'[d].inst = i
        /\ \A k \in Jobs : k # d => work'[k] = work[k]
    BY <1>1, <2>1, WorkAt
  <2>3. AppTypeOK'
    BY <1>1, <2>1, <2>2 DEF AppTypeOK, hubVars
  <2>4. WorkFits'
    BY <1>1, <1>2, <2>2 DEF WorkFits, Jobs
  <2>5. GrantsAreItsOwn'
    BY <1>1, <2>2 DEF GrantsAreItsOwn, Own, hubVars
  <2>6. \A f \in Deliveries : Written(f)' => Written(f)
    BY <1>1, <2>2 DEF Written, Jobs
  <2>7. \A k \in Jobs : Fetched(k)' => Fetched(k) /\ work'[k] = work[k]
    BY <2>2 DEF Fetched
  <2>8. DeletionsHold'
    BY <1>1, <2>1, <2>6, <2>7 DEF DeletionsHold, hubVars
  <2>9. ActiveOfActive'
    BY <2>1 DEF ActiveOfActive
  <2>. QED
    BY <2>3, <2>4, <2>5, <2>8, <2>9
<1>4. CASE installation[i] # "absent"
  <2>1. /\ At(d, "done") /\ WriteStatus(i, s)
        /\ overtaken' = IF s = "deleted"
                        THEN overtaken \cup {j \in Jobs : work[j].inst = i /\ work[j].at \in {"list", "upsert"}}
                        ELSE overtaken
    BY <1>4 DEF UpdateInstallationStatus
  <2>2. /\ work' \in [Jobs -> WorkType] /\ work'[d].at = "done" /\ work'[d].inst = i
        /\ \A k \in Jobs : k # d => work'[k] = work[k]
    BY <1>1, <2>1, WorkAt
  <2>3. /\ installation' \in [Installations -> {"absent", "active", "suspended", "deleted"}]
        /\ available' \in [Repositories -> {"absent", "active", "unavailable", "removed"}]
        /\ installation'[i] # "active"
        /\ \A k \in Installations : k # i => installation'[k] = installation[k]
        /\ ActiveOfActive'
    <3>1. s \in {"suspended", "deleted"}
      OBVIOUS
    <3>. HIDE DEF i, s
    <3>. QED
      BY <1>2, <2>1, <3>1, StatusWritten
  <2>4. overtaken \subseteq overtaken' /\ overtaken' \subseteq Jobs
    BY <2>1 DEF AppTypeOK
  <2>5. AppTypeOK'
    BY <1>1, <2>2, <2>3, <2>4 DEF AppTypeOK, hubVars
  <2>6. WorkFits'
    BY <1>1, <1>2, <2>2 DEF WorkFits, Jobs
  <2>7. GrantsAreItsOwn'
    BY <1>1, <2>2 DEF GrantsAreItsOwn, Own, hubVars
  <2>8. \A k \in Jobs : Fetched(k)' => Fetched(k) /\ work'[k] = work[k]
    BY <2>2 DEF Fetched
  <2>9. ASSUME NEW f \in Deliveries, Written(f)'
        PROVE  /\ installation'[delivery'[f].inst] # "active" \/ delivery'[f].inst \in late'
               /\ \A j \in Jobs : Fetched(j)' /\ work'[j].inst = delivery'[f].inst => j \in overtaken'
    <3>1. CASE f = d
      <4>1. s = "deleted" /\ delivery'[f].inst = i
        BY <1>1, <1>2, <2>9, <3>1 DEF Written
      <4>2. ASSUME NEW j \in Jobs, Fetched(j)', work'[j].inst = delivery'[f].inst PROVE j \in overtaken'
        BY <2>1, <2>8, <4>1, <4>2 DEF Fetched
      <4>. QED
        BY <2>3, <4>1, <4>2
    <3>2. CASE f # d
      <4>1. Written(f) /\ delivery' = delivery /\ late' = late
        BY <1>1, <2>2, <2>9, <3>2 DEF Written, Jobs
      <4>2. installation'[delivery[f].inst] # "active" \/ delivery[f].inst \in late
        BY <2>3, <4>1, <1>2 DEF DeletionsHold, AppTypeOK, WorkFits, Written
      <4>3. ASSUME NEW j \in Jobs, Fetched(j)', work'[j].inst = delivery'[f].inst PROVE j \in overtaken'
        BY <2>4, <2>8, <4>1, <4>3 DEF DeletionsHold
      <4>. QED
        BY <4>1, <4>2, <4>3
    <3>. QED
      BY <3>1, <3>2
  <2>10. DeletionsHold'
    BY <1>1, <2>9 DEF DeletionsHold, hubVars
  <2>. QED
    BY <2>3, <2>5, <2>6, <2>7, <2>10
<1>. QED
  BY <1>3, <1>4

\* A job that ends leaves nothing behind but the status of its delivery.
LEMMA EndOfJob ==
  ASSUME AppInv, NEW j \in Jobs, work' = [work EXCEPT ![j] = Rest],
         \A f \in Deliveries : delivery'[f] = delivery[f] \/ (f = j /\ work[j].at \in {"done", "fail"}
             /\ delivery'[f] = [delivery[f] EXCEPT !.status = IF work[j].at = "done" THEN "processed" ELSE "failed"]),
         delivery' \in [Deliveries -> DeliveryType],
         UNCHANGED <<hubVars, installation, available, attempt, tokens, overtaken, late, left>>
  PROVE  AppInv'
<1>. USE DEF AppInv
<1>1. /\ work' \in [Jobs -> WorkType] /\ work'[j].at = "rest"
      /\ \A k \in Jobs : k # j => work'[k] = work[k]
  BY RestType DEF AppTypeOK
<1>2. ASSUME NEW f \in Deliveries
      PROVE  /\ delivery'[f].event = delivery[f].event /\ delivery'[f].inst = delivery[f].inst
             /\ delivery'[f].status # "unsent" => delivery[f].status # "unsent"
             /\ delivery'[f].status = "processed" =>
                  delivery[f].status = "processed" \/ (f = j /\ work[j].at = "done")
             /\ delivery'[f] = delivery[f] \/ f = j
  <2>1. CASE delivery'[f] = delivery[f]
    BY <2>1
  <2>2. CASE /\ f = j /\ work[j].at \in {"done", "fail"}
             /\ delivery'[f] = [delivery[f] EXCEPT !.status = IF work[j].at = "done" THEN "processed" ELSE "failed"]
    <3>1. delivery[f].status = "processing" /\ delivery[f] \in DeliveryType
      BY <2>2 DEF WorkFits, AppTypeOK
    <3>. QED
      BY <2>2, <3>1 DEF DeliveryType
  <2>. QED
    BY <2>1, <2>2
<1>3. AppTypeOK'
  BY <1>1 DEF AppTypeOK, hubVars
<1>4. WorkFits'
  BY <1>1, <1>2 DEF WorkFits, Jobs
<1>5. GrantsAreItsOwn'
  BY <1>1 DEF GrantsAreItsOwn, Own, hubVars
<1>6. ASSUME NEW f \in Deliveries, Written(f)' PROVE Written(f)
  BY <1>1, <1>2, <1>6 DEF Written, Jobs
<1>7. \A k \in Jobs : Fetched(k)' => Fetched(k) /\ work'[k] = work[k]
  BY <1>1 DEF Fetched
<1>8. DeletionsHold'
  BY <1>2, <1>6, <1>7 DEF DeletionsHold, hubVars
<1>9. ActiveOfActive'
  BY DEF ActiveOfActive
<1>. QED
  BY <1>3, <1>4, <1>5, <1>8, <1>9

LEMMA CompleteDeliveryKeeps ==
  ASSUME AppInv, GitHubAppAssumption, NEW d \in Deliveries, CompleteDelivery(d)
  PROVE  AppInv'
<1>. DEFINE st == IF work[d].at = "done" THEN "processed" ELSE "failed"
<1>1. /\ delivery' = [delivery EXCEPT ![d] = [delivery[d] EXCEPT !.status = st]]
      /\ work' = [work EXCEPT ![d] = Rest] /\ d \in Jobs /\ work[d].at \in {"done", "fail"}
      /\ UNCHANGED <<hubVars, installation, available, attempt, tokens, overtaken, late, left>>
  BY DEF CompleteDelivery, Jobs
<1>2. delivery' \in [Deliveries -> DeliveryType]
  BY <1>1, SMTT(30) DEF AppInv, AppTypeOK, DeliveryType
<1>3. \A f \in Deliveries : delivery'[f] = delivery[f] \/ (f = d /\ delivery'[f] = [delivery[f] EXCEPT !.status = st])
  BY <1>1 DEF AppInv, AppTypeOK
<1>. QED
  BY <1>1, <1>2, <1>3, EndOfJob

LEMMA EndConnectionKeeps ==
  ASSUME AppInv, GitHubAppAssumption, NEW a \in Attempts, EndConnection(a)
  PROVE  AppInv'
<1>1. a \in Jobs /\ delivery' = delivery /\ delivery' \in [Deliveries -> DeliveryType]
  BY DEF EndConnection, rowVars, Jobs, AppInv, AppTypeOK
<1>. QED
  BY <1>1, EndOfJob DEF EndConnection, rowVars

LEMMA UpsertKeeps ==
  ASSUME AppInv, GitHubAppAssumption, NEW j \in Jobs, UpsertInstallation(j)
  PROVE  AppInv'
<1>. USE DEF AppInv
<1>. DEFINE i == work[j].inst
            v == work[j].seen
            g == work[j].list
<1>1. /\ work[j].at = "upsert" /\ At(j, "forget") /\ work \in [Jobs -> WorkType]
      /\ UNCHANGED <<hubVars, delivery, attempt, tokens, overtaken, left>>
      /\ installation' = [installation EXCEPT ![i] = v]
      /\ late' = IF j \in overtaken THEN late \cup {i} ELSE late
  BY DEF UpsertInstallation, AppTypeOK
<1>2. \A r \in Repositories : available'[r] =
        IF r \in g THEN IF v = "active" THEN "active" ELSE "unavailable"
        ELSE IF InstallationOf[r] = i /\ available[r] # "absent" THEN "removed" ELSE available[r]
  BY DEF UpsertInstallation
<1>3. i \in Installations /\ v \in {"active", "suspended"} /\ g \subseteq Own(i)
  BY <1>1 DEF WorkFits, GrantsAreItsOwn, WorkType
<1>4. /\ work' \in [Jobs -> WorkType] /\ work'[j].at = "forget" /\ work'[j].inst = i
      /\ \A k \in Jobs : k # j => work'[k] = work[k]
  BY <1>1, WorkAt
<1>5. available' \in [Repositories -> {"absent", "active", "unavailable", "removed"}]
  BY <1>3 DEF UpsertInstallation, AppTypeOK
<1>6. /\ installation' \in [Installations -> {"absent", "active", "suspended", "deleted"}]
      /\ installation'[i] = v /\ \A k \in Installations : k # i => installation'[k] = installation[k]
  BY <1>1, <1>3 DEF AppTypeOK
<1>7. late \subseteq late' /\ late' \subseteq Installations /\ (j \in overtaken => i \in late')
  BY <1>1, <1>3 DEF AppTypeOK
<1>8. AppTypeOK'
  BY <1>1, <1>4, <1>5, <1>6, <1>7 DEF AppTypeOK, hubVars
<1>9. WorkFits'
  <2>1. \A d \in Deliveries : delivery[d].event = "deleted" => d # j
    BY <1>1 DEF WorkFits
  <2>. QED
    BY <1>1, <1>3, <1>4, <2>1 DEF WorkFits, Jobs
<1>10. GrantsAreItsOwn'
  BY <1>1, <1>4 DEF GrantsAreItsOwn, Own, hubVars
<1>11. \A k \in Jobs : Fetched(k)' => Fetched(k) /\ work'[k] = work[k]
  BY <1>4 DEF Fetched
<1>12. ASSUME NEW f \in Deliveries, Written(f)' PROVE Written(f)
  BY <1>1, <1>4, <1>12 DEF Written, Jobs
<1>13. ASSUME NEW f \in Deliveries, Written(f)'
       PROVE  installation'[delivery'[f].inst] # "active" \/ delivery'[f].inst \in late'
  <2>1. Written(f) /\ delivery'[f].inst = delivery[f].inst /\ delivery[f].inst \in Installations
    BY <1>1, <1>12, <1>13 DEF Written, WorkFits, Jobs, AppTypeOK
  <2>2. CASE delivery[f].inst = i
    <3>1. j \in overtaken
      BY <1>1, <2>1, <2>2 DEF DeletionsHold, Fetched
    <3>. QED
      BY <1>7, <2>1, <2>2, <3>1
  <2>3. CASE delivery[f].inst # i
    BY <1>6, <1>7, <2>1, <2>3 DEF DeletionsHold
  <2>. QED
    BY <2>2, <2>3
<1>14. DeletionsHold'
  BY <1>1, <1>11, <1>12, <1>13 DEF DeletionsHold, hubVars
<1>15. ActiveOfActive'
  <2>. SUFFICES ASSUME NEW r \in Repositories, available'[r] = "active"
                PROVE  installation'[InstallationOf[r]] = "active"
    BY DEF ActiveOfActive
  <2>1. CASE r \in g
    BY <1>2, <1>3, <1>6, <2>1 DEF Own
  <2>2. CASE r \notin g
    BY <1>2, <1>6, <2>2 DEF ActiveOfActive, GitHubAppAssumption
  <2>. QED
    BY <2>1, <2>2
<1>. QED
  BY <1>8, <1>9, <1>10, <1>14, <1>15

-----------------------------------------------------------------------------
(* Connection attempts, tokens, a crash. *)

\* The status of an attempt matters to nobody else.
LEMMA AttemptKeeps ==
  ASSUME AppInv, attempt' \in [Attempts -> AttemptType], left' \in Budget,
         UNCHANGED <<hubVars, installation, available, delivery, work, tokens, overtaken, late>>
  PROVE  AppInv'
BY DEF AppInv, hubVars, AppTypeOK, WorkFits, GrantsAreItsOwn, DeletionsHold, ActiveOfActive,
       Written, Fetched, Own

LEMMA ConnectKeeps ==
  ASSUME AppInv, NEW a \in Attempts,
         Connect(a) \/ \E i \in Installations : BeginUserAuthorization(a, i)
  PROVE  AppInv'
<1>1. CASE Connect(a)
  <2>1. attempt' \in [Attempts -> AttemptType] /\ left' \in Budget
    BY <1>1, SpendType DEF Connect, AppInv, AppTypeOK, AttemptType, Costs
  <2>. QED
    BY <1>1, <2>1, AttemptKeeps DEF Connect
<1>2. ASSUME NEW i \in Installations, BeginUserAuthorization(a, i) PROVE AppInv'
  <2>1. attempt' \in [Attempts -> AttemptType] /\ left' \in Budget
    BY <1>2 DEF BeginUserAuthorization, AppInv, AppTypeOK, AttemptType
  <2>. QED
    BY <1>2, <2>1, AttemptKeeps DEF BeginUserAuthorization
<1>. QED
  BY <1>1, <1>2

LEMMA CompleteConnectionKeeps ==
  ASSUME AppInv, GitHubAppAssumption, NEW a \in Attempts, CompleteConnection(a)
  PROVE  AppInv'
<1>. USE DEF AppInv
<1>1. /\ work' = [work EXCEPT ![a] = [Rest EXCEPT !.at = "verify", !.inst = attempt[a].inst]]
      /\ attempt' = [attempt EXCEPT ![a].status = "completed"] /\ a \in Jobs /\ a \notin Deliveries
      /\ attempt[a].inst # None
      /\ UNCHANGED <<hubVars, installation, available, delivery, tokens, overtaken, late, left>>
  BY DEF CompleteConnection, Jobs, GitHubAppAssumption
<1>2. attempt[a].inst \in Installations /\ attempt' \in [Attempts -> AttemptType]
  BY <1>1 DEF AppTypeOK, AttemptType
<1>3. /\ work' \in [Jobs -> WorkType] /\ work'[a].at = "verify" /\ work'[a].inst = attempt[a].inst
      /\ \A k \in Jobs : k # a => work'[k] = work[k]
  BY <1>1, <1>2 DEF AppTypeOK, WorkType, Rest
<1>4. AppTypeOK'
  BY <1>1, <1>2, <1>3 DEF AppTypeOK, hubVars
<1>5. WorkFits'
  BY <1>1, <1>2, <1>3 DEF WorkFits, Jobs
<1>6. GrantsAreItsOwn'
  BY <1>1, <1>3 DEF GrantsAreItsOwn, Own, hubVars
<1>7. \A k \in Jobs : Fetched(k)' => Fetched(k) /\ work'[k] = work[k]
  BY <1>3 DEF Fetched
<1>8. \A f \in Deliveries : Written(f)' => Written(f)
  BY <1>1, <1>3 DEF Written, Jobs
<1>9. DeletionsHold'
  BY <1>1, <1>7, <1>8 DEF DeletionsHold, hubVars
<1>10. ActiveOfActive'
  BY <1>1 DEF ActiveOfActive
<1>. QED
  BY <1>4, <1>5, <1>6, <1>9, <1>10

LEMMA TokenExpiresKeeps == ASSUME AppInv, NEW r \in Repositories, TokenExpires(r) PROVE AppInv'
<1>1. AppKept /\ left' \in Budget /\ tokens' \in [Repositories -> Nat \cup {None}]
  BY DEF TokenExpires, AppInv, AppTypeOK, AppKept
<1>. QED
  BY <1>1, KeptKeeps

\* What the server's process had in hand is gone with it.
LEMMA CrashKeepsTheApp == ASSUME AppInv, Crash PROVE AppInv'
<1>. USE DEF AppInv
<1>1. /\ work' = [j \in Jobs |-> Rest] /\ tokens' = [r \in Repositories |-> None] /\ left' \in Budget
      /\ UNCHANGED <<hubVars, rowVars, overtaken, late>>
  BY SpendType DEF Crash, Costs, AppTypeOK
<1>2. work' \in [Jobs -> WorkType] /\ \A j \in Jobs : work'[j].at = "rest"
  BY <1>1, RestType
<1>3. AppTypeOK'
  BY <1>1, <1>2 DEF AppTypeOK, hubVars, rowVars
<1>4. WorkFits' /\ GrantsAreItsOwn' /\ ActiveOfActive'
  BY <1>1, <1>2 DEF WorkFits, GrantsAreItsOwn, ActiveOfActive, Own, hubVars, rowVars, Jobs
<1>5. DeletionsHold'
  BY <1>1, <1>2 DEF DeletionsHold, Written, Fetched, hubVars, rowVars, Jobs
<1>. QED
  BY <1>3, <1>4, <1>5

LEMMA AppStepKeeps ==
  ASSUME AppInv, GitHubAppAssumption, RepositorySyncAssumption, AppStep
  PROVE  AppInv'
<1>1. ASSUME NEW d \in Deliveries, StepOfDelivery(d) PROVE AppInv'
  BY <1>1, BeginDeliveryKeeps, ClearTokensKeeps, UpdateStatusKeeps, CompleteDeliveryKeeps DEF StepOfDelivery
<1>2. ASSUME NEW j \in Jobs, StepOfFetch(j) PROVE AppInv'
  BY <1>2, GetKeeps, ListKeeps, UpsertKeeps, ForgetKeeps DEF StepOfFetch
<1>3. ASSUME NEW a \in Attempts, StepOfAttempt(a) PROVE AppInv'
  BY <1>3, ConnectKeeps, CompleteConnectionKeeps, VerifyKeeps, EndConnectionKeeps DEF StepOfAttempt
<1>. QED
  BY <1>1, <1>2, <1>3, ChangeKeeps, OutageKeeps, TokenExpiresKeeps DEF AppStep

LEMMA InitAppHolds == ASSUME GitHubAppAssumption, NEW story \in Stories, InitApp(story) PROVE AppInv
<1>1. story \in Story
  BY DEF GitHubAppAssumption
<1>2. story.left \in Budget /\ story.status \in {"absent", "active"}
  BY <1>1 DEF Story
<1>3. work = [j \in Jobs |-> Rest] /\ work \in [Jobs -> WorkType] /\ \A j \in Jobs : work[j].at = "rest"
  BY RestType DEF InitApp
<1>4. delivery \in [Deliveries -> DeliveryType] /\ \A d \in Deliveries : delivery[d].status = "unsent"
  BY DEF InitApp, DeliveryType, Unsent, Events
<1>5. attempt \in [Attempts -> AttemptType]
  BY DEF InitApp, AttemptType
<1>6. AppTypeOK
  BY <1>2, <1>3, <1>4, <1>5 DEF InitApp, AppTypeOK
<1>7. WorkFits /\ GrantsAreItsOwn /\ DeletionsHold
  BY <1>3, <1>4 DEF InitApp, WorkFits, GrantsAreItsOwn, DeletionsHold, Written, Own, Jobs
<1>8. ActiveOfActive
  BY <1>2 DEF InitApp, ActiveOfActive, GitHubAppAssumption
<1>. QED
  BY <1>6, <1>7, <1>8 DEF AppInv

-----------------------------------------------------------------------------
(* A synchronization goes on: only its own job changes. *)

LEMMA JobMoves ==
  ASSUME SyncInv, NEW q \in Syncs, NEW w \in JobType, Fits(q, w), job' = [job EXCEPT ![q] = w],
         begun' \subseteq Syncs \X Syncs, UNCHANGED <<remote, attaching, syncRows>>
  PROVE  SyncInv'
<1>1. SyncTypeOK'
  BY DEF SyncInv, SyncTypeOK, syncRows
<1>2. JobsFit'
  <2>1. \A p \in Syncs : job'[p] = IF p = q THEN w ELSE job[p]
    BY DEF SyncInv, SyncTypeOK
  <2>2. JobsFit
    BY DEF SyncInv
  <2>. HIDE DEF Syncs
  <2>. QED
    BY <2>1, <2>2 DEF JobsFit
<1>3. OneTruth'
  BY DEF SyncInv, OneTruth, syncRows
<1>. QED
  BY <1>1, <1>2, <1>3 DEF SyncInv

LEMMA IdleFits ==
  ASSUME RepositorySyncAssumption, NEW q \in Syncs, NEW todo \in SUBSET Repositories
  PROVE  /\ Idle \in JobType /\ Fits(q, Idle)
         /\ Rounding(todo) \in JobType /\ Fits(q, Rounding(todo))
         /\ [Idle EXCEPT !.at = "ended"] \in JobType /\ Fits(q, [Idle EXCEPT !.at = "ended"])
         /\ Unstarted \in JobType /\ Fits(q, Unstarted)
BY DEF Idle, Unstarted, Rounding, JobType, Fits

\* The steps of a synchronization that say where it goes, or with what.
LEMMA Going ==
  ASSUME SyncInv, RepositorySyncAssumption, NEW q \in Syncs,
         NEW step \in {"lookup", "cache", "request", "branch", "ended"}, Goto(q, step),
         job[q].at \in {"replay", "lookup", "cache", "request", "store"},
         UNCHANGED begun, Quietly
  PROVE  SyncInv'
<1>1. job \in [Syncs -> JobType] /\ Fits(q, job[q]) /\ begun \subseteq Syncs \X Syncs
  BY DEF SyncInv, SyncTypeOK, JobsFit
<1>. DEFINE w == [job[q] EXCEPT !.at = step]
<1>2. w \in JobType /\ job[q].error = None
  BY <1>1 DEF JobType, Fits
<1>3. Fits(q, w)
  BY <1>1, <1>2 DEF JobType, Fits
<1>4. job' = [job EXCEPT ![q] = w]
  BY <1>1 DEF Goto
<1>. HIDE DEF w
<1>. QED
  BY <1>1, <1>2, <1>3, <1>4, JobMoves DEF Quietly, syncRows

LEMMA FailingKeeps ==
  ASSUME SyncInv, RepositorySyncAssumption, NEW q \in Syncs, NEW code \in Codes, Failing(q, code),
         job[q].at \in {"lookup", "request", "branch", "revision"}, UNCHANGED begun, Quietly
  PROVE  SyncInv'
<1>1. job \in [Syncs -> JobType] /\ job[q] \in JobType /\ Fits(q, job[q]) /\ begun \subseteq Syncs \X Syncs
  BY DEF SyncInv, SyncTypeOK, JobsFit
<1>. DEFINE w == [job[q] EXCEPT !.at = "begin", !.error = code]
<1>2. job' = [job EXCEPT ![q] = w]
  BY <1>1 DEF Failing
<1>3. w \in JobType
  BY <1>1 DEF JobType
<1>4. w.at = "begin" /\ w.error = code /\ w.repo = job[q].repo /\ w.key = job[q].key
  BY <1>1 DEF JobType
<1>5. Fits(q, w)
  <2>1. code # None
    BY DEF RepositorySyncAssumption
  <2>. HIDE DEF w
  <2>. QED
    BY <1>1, <1>4, <2>1 DEF Fits
<1>. HIDE DEF w
<1>. QED
  BY <1>1, <1>2, <1>3, <1>5, JobMoves DEF Quietly, syncRows

LEMMA LookUpKeeps ==
  ASSUME SyncInv, RepositorySyncAssumption, NEW q \in Syncs,
         ReplayResult(q) \/ LookUpInstallation(q) \/ (ReadCache(q) /\ tokens[job[q].repo] = None)
  PROVE  SyncInv'
<1>1. CASE ReplayResult(q)
  <2>1. \E step \in {"lookup", "ended"} : Goto(q, step)
    BY <1>1 DEF ReplayResult
  <2>. QED
    BY <1>1, <2>1, Going DEF ReplayResult
<1>2. CASE LookUpInstallation(q)
  <2>1. Goto(q, "cache") \/ Failing(q, "credentials_unavailable")
    BY <1>2 DEF LookUpInstallation
  <2>2. job[q].at = "lookup" /\ UNCHANGED begun /\ Quietly /\ "credentials_unavailable" \in Codes
    BY <1>2 DEF LookUpInstallation, Codes
  <2>. QED
    BY <2>1, <2>2, Going, FailingKeeps
<1>3. CASE ReadCache(q) /\ tokens[job[q].repo] = None
  BY <1>3, Going DEF ReadCache
<1>. QED
  BY <1>1, <1>2, <1>3

LEMMA TokenKeeps ==
  ASSUME SyncInv, AppTypeOK, RepositorySyncAssumption, GitHubAppAssumption, NEW q \in Syncs,
         (ReadCache(q) /\ tokens[job[q].repo] # None) \/ RequestToken(q) \/ StoreToken(q)
  PROVE  SyncInv'
<1>1. /\ job \in [Syncs -> JobType] /\ job[q] \in JobType /\ Fits(q, job[q])
      /\ begun \subseteq Syncs \X Syncs
  BY DEF SyncInv, SyncTypeOK, JobsFit
<1>2. job[q].repo \in Repositories /\ UNCHANGED begun /\ Quietly
  BY <1>1 DEF ReadCache, RequestToken, StoreToken, Fits
<1>3. CASE ReadCache(q) /\ tokens[job[q].repo] # None
  <2>. DEFINE w == [job[q] EXCEPT !.at = "branch", !.token = tokens[job[q].repo]]
  <2>1. job' = [job EXCEPT ![q] = w] /\ job[q].at = "cache"
    BY <1>1, <1>3 DEF ReadCache
  <2>2. tokens[job[q].repo] \in Nat \cup {None}
    BY <1>2 DEF AppTypeOK
  <2>3. w \in JobType
    BY <1>1, <2>2 DEF JobType
  <2>4. w.at = "branch" /\ w.error = job[q].error /\ w.repo = job[q].repo /\ w.key = job[q].key
    BY <1>1 DEF JobType
  <2>. HIDE DEF w
  <2>5. Fits(q, w)
    BY <1>1, <2>1, <2>4 DEF Fits
  <2>. QED
    BY <1>1, <1>2, <2>1, <2>3, <2>5, JobMoves DEF Quietly, syncRows
<1>4. CASE RequestToken(q)
  <2>. DEFINE i == InstallationOf[job[q].repo]
              w == [job[q] EXCEPT !.at = "store", !.token = epoch[i]]
  <2>1. job[q].at = "request" /\ (job' = [job EXCEPT ![q] = w] \/ Failing(q, "credentials_unavailable"))
    BY <1>1, <1>4 DEF RequestToken
  <2>2. CASE Failing(q, "credentials_unavailable")
    BY <1>2, <2>1, <2>2, FailingKeeps DEF Codes
  <2>3. CASE job' = [job EXCEPT ![q] = w]
    <3>1. epoch[i] \in Nat
      BY <1>2 DEF AppTypeOK, GitHubAppAssumption
    <3>2. w \in JobType
      BY <1>1, <3>1 DEF JobType
    <3>3. w.at = "store" /\ w.token = epoch[i] /\ w.error = job[q].error /\ w.repo = job[q].repo /\ w.key = job[q].key
      BY <1>1 DEF JobType
    <3>. HIDE DEF w, i
    <3>4. Fits(q, w)
      BY <1>1, <2>1, <3>1, <3>3 DEF Fits
    <3>. QED
      BY <1>1, <1>2, <2>3, <3>2, <3>4, JobMoves DEF Quietly, syncRows
  <2>. QED
    BY <2>1, <2>2, <2>3
<1>5. CASE StoreToken(q)
  BY <1>2, <1>5, Going DEF StoreToken
<1>. QED
  BY <1>3, <1>4, <1>5

LEMMA FetchKeeps ==
  ASSUME SyncInv, RepositorySyncAssumption, NEW q \in Syncs, FetchBranch(q) \/ FetchRevision(q)
  PROVE  SyncInv'
<1>1. /\ job \in [Syncs -> JobType] /\ job[q] \in JobType /\ Fits(q, job[q])
      /\ begun \subseteq Syncs \X Syncs
      /\ remote \in [Repositories -> [branch: Branches, tip: [Branches -> Nat]]]
  BY DEF SyncInv, SyncTypeOK, JobsFit
<1>2. job[q].repo \in Repositories /\ UNCHANGED begun /\ Quietly /\ Code \in Codes
  BY <1>1 DEF FetchBranch, FetchRevision, Fits, Code, Codes
<1>3. CASE FetchBranch(q)
  <2>. DEFINE b == remote[job[q].repo].branch
              w == [job[q] EXCEPT !.at = "revision", !.branch = b]
  <2>1. job[q].at = "branch" /\ (job' = [job EXCEPT ![q] = w] \/ Failing(q, Code))
    BY <1>1, <1>3 DEF FetchBranch
  <2>2. CASE Failing(q, Code)
    BY <1>2, <2>1, <2>2, FailingKeeps
  <2>3. CASE job' = [job EXCEPT ![q] = w]
    <3>1. b \in Branches
      BY <1>1, <1>2
    <3>2. w \in JobType
      BY <1>1, <3>1 DEF JobType
    <3>3. w.at = "revision" /\ w.branch = b /\ w.error = job[q].error /\ w.repo = job[q].repo /\ w.key = job[q].key
      BY <1>1 DEF JobType
    <3>. HIDE DEF w, b
    <3>4. Fits(q, w)
      BY <1>1, <2>1, <3>1, <3>3 DEF Fits
    <3>. QED
      BY <1>1, <1>2, <2>3, <3>2, <3>4, JobMoves DEF Quietly, syncRows
  <2>. QED
    BY <2>1, <2>2, <2>3
<1>4. CASE FetchRevision(q)
  <2>. DEFINE v == <<job[q].branch, remote[job[q].repo].tip[job[q].branch]>>
              w == [job[q] EXCEPT !.at = "begin", !.revision = v]
  <2>1. job[q].at = "revision" /\ (job' = [job EXCEPT ![q] = w] \/ Failing(q, Code))
    BY <1>1, <1>4 DEF FetchRevision
  <2>2. CASE Failing(q, Code)
    BY <1>2, <2>1, <2>2, FailingKeeps
  <2>3. CASE job' = [job EXCEPT ![q] = w]
    <3>1. job[q].branch \in Branches
      BY <1>1, <2>1 DEF Fits
    <3>2. v \in Revisions
      BY <1>1, <1>2, <3>1 DEF Revisions
    <3>. HIDE DEF v
    <3>3. w \in JobType
      BY <1>1, <3>2 DEF JobType
    <3>4. /\ w.at = "begin" /\ w.revision = v /\ w.branch = job[q].branch
          /\ w.error = job[q].error /\ w.repo = job[q].repo /\ w.key = job[q].key
      BY <1>1 DEF JobType
    <3>. HIDE DEF w
    <3>5. Fits(q, w)
      BY <1>1, <2>1, <3>1, <3>2, <3>4 DEF Fits
    <3>. QED
      BY <1>1, <1>2, <2>3, <3>3, <3>5, JobMoves DEF Quietly, syncRows
  <2>. QED
    BY <2>1, <2>2, <2>3
<1>. QED
  BY <1>3, <1>4

LEMMA BeginKeeps ==
  ASSUME SyncInv, RepositorySyncAssumption, NEW q \in Syncs, Begin(q)
  PROVE  SyncInv'
<1>1. /\ job \in [Syncs -> JobType] /\ job[q] \in JobType /\ Fits(q, job[q])
      /\ begun \subseteq Syncs \X Syncs
  BY DEF SyncInv, SyncTypeOK, JobsFit
<1>. DEFINE step == IF job[q].error = None THEN "apply" ELSE "record"
            w == [job[q] EXCEPT !.at = step]
<1>2. job' = [job EXCEPT ![q] = w] /\ job[q].at = "begin" /\ Quietly
  BY <1>1 DEF Begin, Goto
<1>3. begun' \subseteq Syncs \X Syncs
  BY <1>1 DEF Begin
<1>4. w \in JobType /\ w.at = step /\ w.error = job[q].error /\ w.repo = job[q].repo
      /\ w.key = job[q].key /\ w.branch = job[q].branch /\ w.revision = job[q].revision
  BY <1>1 DEF JobType
<1>5. job[q].error \in Codes \cup {None}
  BY <1>1 DEF JobType
<1>. HIDE DEF w
<1>6. Fits(q, w)
  BY <1>1, <1>2, <1>4, <1>5 DEF Fits
<1>. QED
  BY <1>1, <1>2, <1>3, <1>4, <1>6, JobMoves DEF Quietly, syncRows

LEMMA StartKeeps ==
  ASSUME SyncInv, RepositorySyncAssumption, NEW q \in Syncs,
         \/ Tick
         \/ \E r \in Repositories : NextRepository(r)
         \/ \E r \in Repositories, k \in Keys : q \in Requests /\ Ask(q, r, k)
  PROVE  SyncInv'
<1>1. /\ job \in [Syncs -> JobType] /\ Runner \in Syncs /\ begun \subseteq Syncs \X Syncs
      /\ job[Runner] \in JobType /\ Fits(Runner, job[Runner])
  BY DEF SyncInv, SyncTypeOK, Syncs, JobsFit
<1>2. CASE Tick
  <2>. DEFINE w == [job[Runner] EXCEPT !.at = "next", !.todo = Attached]
  <2>1. job' = [job EXCEPT ![Runner] = w] /\ job[Runner].at = "idle"
    BY <1>1, <1>2 DEF Tick
  <2>2. w \in JobType
    BY <1>1 DEF JobType, Attached
  <2>3. w.at = "next" /\ w.error = job[Runner].error
    BY <1>1 DEF JobType
  <2>. HIDE DEF w
  <2>4. Fits(Runner, w)
    BY <1>1, <2>1, <2>3 DEF Fits
  <2>. QED
    BY <1>1, <1>2, <2>1, <2>2, <2>4, JobMoves DEF Tick, Quietly, syncRows
<1>3. ASSUME NEW r \in Repositories, NextRepository(r) PROVE SyncInv'
  <2>. DEFINE w == [Idle EXCEPT !.at = "lookup", !.repo = r, !.todo = job[Runner].todo \ {r}]
  <2>1. job' = [job EXCEPT ![Runner] = w]
    BY <1>1, <1>3 DEF NextRepository
  <2>2. job[Runner].todo \subseteq Repositories
    BY <1>1 DEF JobType
  <2>3. w \in JobType /\ w.at = "lookup" /\ w.error = None /\ w.repo = r
    BY <2>2 DEF JobType, Idle
  <2>. HIDE DEF w
  <2>4. Fits(Runner, w)
    BY <2>3 DEF Fits
  <2>. QED
    BY <1>1, <1>3, <2>1, <2>3, <2>4, JobMoves DEF NextRepository, Quietly, syncRows
<1>4. ASSUME NEW r \in Repositories, NEW k \in Keys, q \in Requests, Ask(q, r, k) PROVE SyncInv'
  <2>. DEFINE w == [Idle EXCEPT !.at = "replay", !.repo = r, !.key = k]
  <2>1. job' = [job EXCEPT ![q] = w]
    BY <1>1, <1>4 DEF Ask
  <2>2. w \in JobType /\ w.at = "replay" /\ w.error = None /\ w.repo = r /\ w.key = k
    BY DEF JobType, Idle
  <2>. HIDE DEF w
  <2>3. Fits(q, w)
    BY <2>2 DEF Fits
  <2>. QED
    BY <1>1, <1>4, <2>1, <2>2, <2>3, JobMoves DEF Ask, Quietly, syncRows
<1>. QED
  BY <1>2, <1>3, <1>4

-----------------------------------------------------------------------------
(* The steps that write. *)

\* One that ends leaves the others where they are.
LEMMA LeaveFits ==
  ASSUME SyncTypeOK, JobsFit, RepositorySyncAssumption, NEW q \in Syncs, NEW success \in BOOLEAN, Leave(q, success)
  PROVE  job' \in [Syncs -> JobType] /\ JobsFit' /\ begun' \subseteq Syncs \X Syncs
<1>1. begun' \subseteq Syncs \X Syncs
  BY DEF Leave, SyncTypeOK
<1>2. job \in [Syncs -> JobType] /\ job[q].todo \in SUBSET Repositories
  BY DEF SyncTypeOK, JobType
<1>3. ASSUME NEW p \in Syncs PROVE job'[p] \in JobType /\ Fits(p, job'[p])
  <2>1. job[p] \in JobType /\ Fits(p, job[p])
    BY <1>2 DEF JobsFit
  <2>2. CASE p = q
    <3>1. job'[p] = Rounding(job[q].todo) \/ job'[p] = [Idle EXCEPT !.at = "ended"]
      BY <2>2 DEF Leave
    <3>. QED
      BY <1>2, <3>1, IdleFits
  <2>3. CASE p # q
    <3>1. job'[p] = job[p] \/ \E refused \in BOOLEAN : job'[p] = [job[p] EXCEPT !.refused = refused]
      <4>. DEFINE later == <<p, q>> \in begun
      <4>1. job'[p] = job[p] \/ job'[p] = [job[p] EXCEPT !.refused = later]
        BY <2>3 DEF Leave
      <4>2. later \in BOOLEAN
        OBVIOUS
      <4>. QED
        BY <4>1, <4>2
    <3>2. ASSUME NEW refused \in BOOLEAN, NEW w, w = [job[p] EXCEPT !.refused = refused]
          PROVE  w \in JobType /\ Fits(p, w)
      <4>1. w \in JobType /\ w.at = job[p].at /\ w.repo = job[p].repo /\ w.key = job[p].key
            /\ w.token = job[p].token /\ w.branch = job[p].branch /\ w.revision = job[p].revision
            /\ w.error = job[p].error
        BY <2>1, <3>2 DEF JobType
      <4>. QED
        BY <2>1, <4>1 DEF Fits
    <3>. QED
      BY <2>1, <3>1, <3>2
  <2>. QED
    BY <2>2, <2>3
<1>4. job' \in [Syncs -> JobType]
  BY <1>3 DEF Leave
<1>. QED
  BY <1>1, <1>3, <1>4 DEF JobsFit

LEMMA RepeatKeeps ==
  ASSUME SyncInv, RepositorySyncAssumption, NEW q \in Syncs, Repeat(q)
  PROVE  SyncInv'
<1>1. Leave(q, FALSE) /\ Quietly
  BY DEF Repeat
<1>2. job' \in [Syncs -> JobType] /\ JobsFit' /\ begun' \subseteq Syncs \X Syncs
  BY <1>1, LeaveFits DEF SyncInv
<1>. QED
  BY <1>1, <1>2 DEF SyncInv, SyncTypeOK, OneTruth, Quietly

\* A success leaves the repository's state, its last event and, when it is the
\* primary, the project at the revision it fetched.
LEMMA ApplyKeeps ==
  ASSUME SyncInv, RepositorySyncAssumption, NEW q \in Syncs, Apply(q)
  PROVE  SyncInv'
<1>. USE DEF SyncInv
<1>. DEFINE r == job[q].repo
            b == job[q].branch
            v == job[q].revision
            c == Changed(r, b, v)
            n == IF c THEN state[r].version + 1 ELSE state[r].version
            new == [status |-> "synced", branch |-> b, revision |-> v, error |-> None, version |-> n]
            event == [type |-> "synced", revision |-> v, error |-> None, number |-> told[r].number + 1]
<1>1. Fits(q, job[q]) /\ job[q].at = "apply"
  BY DEF JobsFit, Apply
<1>2. r \in Repositories /\ b \in Branches /\ v \in Revisions /\ (q # Runner => job[q].key \in Keys)
  BY <1>1 DEF Fits
<1>3. /\ state' = [state EXCEPT ![r] = new] /\ attached' = [attached EXCEPT ![r] = b]
      /\ canonical' = IF r = root THEN v ELSE canonical
      /\ stored' = IF q = Runner THEN stored ELSE [stored EXCEPT ![job[q].key] = r]
      /\ Leave(q, TRUE) /\ UNCHANGED <<remote, root, attaching>>
  BY <1>2 DEF Apply, SyncTypeOK
<1>4. told' = IF c THEN [told EXCEPT ![r] = event] ELSE told
  BY <1>2 DEF Apply, Tell, SyncTypeOK
<1>5. /\ state[r] \in StateType /\ state[r].version \in Nat
      /\ told[r] \in ToldType /\ told[r].number \in Nat /\ told[r].number = state[r].version
  BY <1>2 DEF SyncTypeOK, StateType, ToldType, OneTruth
<1>6. new \in StateType /\ new.status = "synced" /\ new.revision = v /\ new.version = n
  BY <1>2, <1>5 DEF StateType
<1>7. event \in ToldType /\ event.type = "synced" /\ event.revision = v /\ event.number = told[r].number + 1
  BY <1>2, <1>5 DEF ToldType
<1>8. ~c => told[r].type = "synced" /\ told[r].revision = v
  BY <1>2 DEF Changed, OneTruth
<1>. HIDE DEF new, event
<1>9. job' \in [Syncs -> JobType] /\ JobsFit' /\ begun' \subseteq Syncs \X Syncs
  BY <1>3, LeaveFits
<1>10. /\ told'[r] \in ToldType /\ told'[r].type = "synced" /\ told'[r].revision = v /\ told'[r].number = n
       /\ \A s \in Repositories : s # r => told'[s] = told[s]
  <2>1. CASE c
    BY <1>2, <1>4, <1>5, <1>7, <2>1 DEF SyncTypeOK
  <2>2. CASE ~c
    BY <1>2, <1>4, <1>5, <1>8, <2>2
  <2>. QED
    BY <2>1, <2>2
<1>11. /\ state'[r] = new /\ \A s \in Repositories : s # r => state'[s] = state[s]
       /\ state' \in [Repositories -> StateType]
  BY <1>2, <1>3, <1>6 DEF SyncTypeOK
<1>12. told' \in [Repositories -> ToldType]
  BY <1>2, <1>4, <1>7 DEF SyncTypeOK
<1>13. /\ attached' \in [Repositories -> Branches \cup {None}]
       /\ canonical' \in Revisions \cup {None}
       /\ stored' \in [Keys -> Repositories \cup {None}]
  BY <1>2, <1>3 DEF SyncTypeOK
<1>14. SyncTypeOK'
  BY <1>3, <1>9, <1>11, <1>12, <1>13 DEF SyncTypeOK
<1>15. OneTruth'
  <2>1. ASSUME root' # None, state'[root'].status = "synced" PROVE canonical' = state'[root'].revision
    <3>1. CASE r = root
      BY <1>3, <1>6, <1>11, <3>1
    <3>2. CASE r # root
      BY <1>3, <1>11, <2>1, <3>2 DEF OneTruth, SyncTypeOK
    <3>. QED
      BY <3>1, <3>2
  <2>2. ASSUME NEW s \in Repositories
        PROVE  /\ told'[s].number = state'[s].version
               /\ state'[s].status = "synced" => told'[s].type = "synced" /\ told'[s].revision = state'[s].revision
               /\ state'[s].status = "failed" => told'[s].type = "failed" /\ told'[s].error = state'[s].error
    <3>1. CASE s = r
      BY <1>6, <1>10, <1>11, <3>1
    <3>2. CASE s # r
      BY <1>10, <1>11, <3>2 DEF OneTruth
    <3>. QED
      BY <3>1, <3>2
  <2>. QED
    BY <2>1, <2>2 DEF OneTruth
<1>. QED
  BY <1>9, <1>14, <1>15

LEMMA FailureKeeps ==
  ASSUME SyncInv, RepositorySyncAssumption, NEW q \in Syncs, RecordFailure(q)
  PROVE  SyncInv'
<1>. USE DEF SyncInv
<1>. DEFINE r == job[q].repo
            e == job[q].error
            known == IF state[r].status # "never" THEN state[r].revision
                     ELSE IF r = root THEN canonical ELSE None
            b == IF state[r].status = "never" THEN attached[r] ELSE state[r].branch
            new == [status |-> "failed", error |-> e, revision |-> known, version |-> state[r].version + 1, branch |-> b]
            event == [type |-> "failed", revision |-> known, error |-> e, number |-> told[r].number + 1]
<1>1. r \in Repositories /\ e \in Codes
  BY DEF JobsFit, Fits, RecordFailure
<1>2. /\ Leave(q, FALSE) /\ UNCHANGED <<remote, root, attaching, attached, canonical, stored>>
  BY DEF RecordFailure
<1>3. \/ UNCHANGED <<state, told>>
      \/ state' = [state EXCEPT ![r] = new] /\ told' = [told EXCEPT ![r] = event]
  BY <1>1 DEF RecordFailure, Tell, SyncTypeOK
<1>4. job' \in [Syncs -> JobType] /\ JobsFit' /\ begun' \subseteq Syncs \X Syncs
  BY <1>2, LeaveFits
<1>5. CASE UNCHANGED <<state, told>>
  BY <1>2, <1>4, <1>5 DEF SyncTypeOK, OneTruth
<1>6. CASE state' = [state EXCEPT ![r] = new] /\ told' = [told EXCEPT ![r] = event]
  <2>1. /\ state[r] \in StateType /\ state[r].version \in Nat /\ attached[r] \in Branches \cup {None}
        /\ told[r] \in ToldType /\ told[r].number \in Nat /\ told[r].number = state[r].version
    BY <1>1 DEF SyncTypeOK, StateType, ToldType, OneTruth
  <2>2. known \in Revisions \cup {None} /\ b \in Branches \cup {None}
    BY <2>1 DEF SyncTypeOK, StateType
  <2>. HIDE DEF known, b
  <2>3. new \in StateType /\ new.status = "failed" /\ new.error = e /\ new.version = state[r].version + 1
    BY <1>1, <2>1, <2>2 DEF StateType
  <2>4. event \in ToldType /\ event.type = "failed" /\ event.error = e /\ event.number = told[r].number + 1
    BY <1>1, <2>1, <2>2 DEF ToldType
  <2>. HIDE DEF new, event
  <2>5. /\ state' \in [Repositories -> StateType] /\ state'[r] = new
        /\ told' \in [Repositories -> ToldType] /\ told'[r] = event
        /\ \A s \in Repositories : s # r => state'[s] = state[s] /\ told'[s] = told[s]
    BY <1>1, <1>6, <2>3, <2>4 DEF SyncTypeOK
  <2>6. SyncTypeOK'
    BY <1>2, <1>4, <2>5 DEF SyncTypeOK
  <2>7. ASSUME root' # None, state'[root'].status = "synced" PROVE canonical' = state'[root'].revision
    BY <1>2, <2>3, <2>5, <2>7 DEF OneTruth, SyncTypeOK
  <2>8. ASSUME NEW s \in Repositories
        PROVE  /\ told'[s].number = state'[s].version
               /\ state'[s].status = "synced" => told'[s].type = "synced" /\ told'[s].revision = state'[s].revision
               /\ state'[s].status = "failed" => told'[s].type = "failed" /\ told'[s].error = state'[s].error
    <3>1. CASE s = r
      BY <2>1, <2>3, <2>4, <2>5, <3>1
    <3>2. CASE s # r
      BY <2>5, <3>2 DEF OneTruth
    <3>. QED
      BY <3>1, <3>2
  <2>. QED
    BY <1>4, <2>6, <2>7, <2>8 DEF OneTruth
<1>. QED
  BY <1>3, <1>5, <1>6

\* A new primary repository brings its revision along.
LEMMA AttachKeeps ==
  ASSUME SyncInv, RepositorySyncAssumption,
         \/ AttachStep
         \/ \E r \in Repositories, primary \in BOOLEAN : LockProject(r, primary)
  PROVE  SyncInv'
<1>. USE DEF SyncInv
<1>1. ASSUME NEW r \in Repositories, NEW primary \in BOOLEAN, LockProject(r, primary) PROVE SyncInv'
  BY <1>1 DEF LockProject, SyncTypeOK, JobsFit, OneTruth, syncRows
<1>2. CASE ReadAuthorized
  <2>1. attaching' \in [repo: Repositories, primary: BOOLEAN, found: BOOLEAN] \cup {None}
    BY <1>2 DEF ReadAuthorized, SyncTypeOK
  <2>. QED
    BY <1>2, <2>1 DEF ReadAuthorized, NotAttaching, SyncTypeOK, JobsFit, OneTruth, syncRows
<1>3. ASSUME NEW b \in Branches, CommitAttach(b) PROVE SyncInv'
  <2>. DEFINE r == attaching.repo
              first == attaching.primary \/ root = None
  <2>1. r \in Repositories
    BY <1>3 DEF CommitAttach, SyncTypeOK
  <2>2. /\ attached' = [attached EXCEPT ![r] = b] /\ attaching' = None
        /\ root' = IF first THEN r ELSE root
        /\ canonical' = IF first THEN RevisionOf(r) ELSE canonical
        /\ UNCHANGED <<state, told, stored, remote, job, begun>>
    BY <1>3 DEF CommitAttach, NotAttaching
  <2>3. RevisionOf(r) \in Revisions \cup {None}
    BY <2>1 DEF RevisionOf, SyncTypeOK, StateType
  <2>4. SyncTypeOK'
    BY <2>1, <2>2, <2>3 DEF SyncTypeOK
  <2>5. ASSUME root' # None, state'[root'].status = "synced" PROVE canonical' = state'[root'].revision
    <3>1. CASE first
      BY <2>1, <2>2, <2>5, <3>1 DEF OneTruth, RevisionOf, RepositorySyncAssumption
    <3>2. CASE ~first
      BY <2>2, <2>5, <3>2 DEF OneTruth
    <3>. QED
      BY <3>1, <3>2
  <2>6. OneTruth'
    BY <2>2, <2>5 DEF OneTruth
  <2>. QED
    BY <2>2, <2>4, <2>6 DEF JobsFit
<1>. QED
  BY <1>1, <1>2, <1>3 DEF AttachStep

LEMMA PushKeeps ==
  ASSUME SyncInv, NEW r \in Repositories, NEW b \in Branches, Push(r, b)
  PROVE  SyncInv'
<1>. USE DEF SyncInv
<1>1. remote[r] \in [branch: Branches, tip: [Branches -> Nat]]
  BY DEF SyncTypeOK
<1>2. remote' \in [Repositories -> [branch: Branches, tip: [Branches -> Nat]]]
  <2>. DEFINE tip == [remote[r].tip EXCEPT ![b] = @ + 1]
              v == [remote[r] EXCEPT !.tip = tip]
              w == [remote[r] EXCEPT !.branch = b]
  <2>1. tip \in [Branches -> Nat]
    BY <1>1
  <2>2. remote' = [remote EXCEPT ![r] = v] \/ remote' = [remote EXCEPT ![r] = w]
    BY DEF Push, SyncTypeOK
  <2>. HIDE DEF tip
  <2>3. v \in [branch: Branches, tip: [Branches -> Nat]] /\ w \in [branch: Branches, tip: [Branches -> Nat]]
    BY <1>1, <2>1
  <2>. HIDE DEF v, w
  <2>. QED
    BY <2>2, <2>3 DEF SyncTypeOK
<1>. QED
  BY <1>2 DEF Push, SyncTypeOK, JobsFit, OneTruth, syncRows

LEMMA CrashKeeps == ASSUME SyncInv, RepositorySyncAssumption, Crash PROVE SyncInv'
<1>. USE DEF SyncInv
<1>1. ASSUME NEW q \in Syncs PROVE job'[q] \in JobType /\ Fits(q, job'[q])
  <2>. job[q] \in JobType /\ Fits(q, job[q])
    BY DEF SyncTypeOK, JobsFit
  <2>1. job'[q] = job[q] \/ job'[q] = Idle \/ job'[q] = [Idle EXCEPT !.at = "ended"]
    BY DEF Crash
  <2>. QED
    BY <2>1, IdleFits
<1>2. job' \in [Syncs -> JobType] /\ JobsFit'
  BY <1>1 DEF Crash, JobsFit
<1>. QED
  BY <1>2 DEF Crash, SyncTypeOK, OneTruth, syncRows

-----------------------------------------------------------------------------
(* Every step, and the theorems. *)

LEMMA SyncStepsKeepTheApp ==
  ASSUME IInv, GitHubAppAssumption, RepositorySyncAssumption, Next, ~Crash, ~(AppStep /\ UNCHANGED syncVars)
  PROVE  AppInv'
<1>. USE DEF IInv
<1>1. left \in Budget /\ tokens \in [Repositories -> Nat \cup {None}]
  BY DEF AppInv, AppTypeOK
<1>2. ASSUME UNCHANGED appVars PROVE AppInv'
  BY <1>1, <1>2, KeptKeeps DEF appVars, AppKept, hubVars, rowVars
<1>3. ASSUME NEW what \in Costs, Spend(what), UNCHANGED <<hubVars, rowVars, work, tokens, overtaken, late>>
      PROVE  AppInv'
  BY <1>1, <1>3, SpendType, KeptKeeps DEF AppKept
<1>4. ASSUME NEW q \in Syncs, SyncStep(q) PROVE AppInv'
  <2>1. CASE StoreToken(q)
    <3>1. job[q].token \in Nat
      BY <1>4, <2>1 DEF StoreToken, SyncInv, JobsFit, Fits
    <3>2. tokens' \in [Repositories -> Nat \cup {None}]
      BY <1>1, <2>1, <3>1 DEF StoreToken
    <3>. QED
      BY <1>1, <2>1, <3>2, KeptKeeps DEF StoreToken, AppKept
  <2>2. CASE ~StoreToken(q)
    <3>1. UNCHANGED appVars
      BY <1>4, <2>2 DEF SyncStep, ReplayResult, LookUpInstallation, ReadCache, RequestToken, FetchBranch,
                        FetchRevision, Begin, Repeat, Apply, RecordFailure
    <3>. QED
      BY <1>2, <3>1
  <2>. QED
    BY <2>1, <2>2
<1>5. ASSUME NEW q \in Requests, NEW r \in Repositories, NEW k \in Keys, Ask(q, r, k) PROVE AppInv'
  BY <1>3, <1>5 DEF Ask, Costs
<1>6. CASE RunnerStep
  BY <1>2, <1>4, <1>6 DEF RunnerStep, Tick, NextRepository, Syncs
<1>7. ASSUME NEW r \in Repositories, NEW b \in Branches, Push(r, b) PROVE AppInv'
  BY <1>3, <1>7 DEF Push, Costs
<1>8. ASSUME NEW r \in Repositories, NEW primary \in BOOLEAN, LockProject(r, primary) PROVE AppInv'
  BY <1>3, <1>8 DEF LockProject, Costs
<1>9. CASE AttachStep
  BY <1>2, <1>9 DEF AttachStep, ReadAuthorized, CommitAttach, NotAttaching
<1>. QED
  BY <1>4, <1>5, <1>6, <1>7, <1>8, <1>9 DEF Next, Syncs

LEMMA SyncKeeps ==
  ASSUME IInv, GitHubAppAssumption, RepositorySyncAssumption, Next
  PROVE  SyncInv'
<1>1. SyncInv /\ AppTypeOK
  BY DEF IInv, AppInv
<1>2. ASSUME UNCHANGED syncVars PROVE SyncInv'
  BY <1>1, <1>2 DEF SyncInv, SyncTypeOK, JobsFit, OneTruth, syncVars
<1>3. ASSUME NEW q \in Syncs, SyncStep(q) PROVE SyncInv'
  <2>1. CASE ReadCache(q)
    BY <1>1, <2>1, LookUpKeeps, TokenKeeps
  <2>. QED
    BY <1>1, <1>3, <2>1, LookUpKeeps, TokenKeeps, FetchKeeps, BeginKeeps, RepeatKeeps, ApplyKeeps, FailureKeeps
       DEF SyncStep
<1>4. ASSUME NEW q \in Requests, NEW r \in Repositories, NEW k \in Keys, Ask(q, r, k) PROVE SyncInv'
  BY <1>1, <1>4, StartKeeps DEF Syncs
<1>5. CASE RunnerStep
  BY <1>1, <1>3, <1>5, StartKeeps DEF RunnerStep, Syncs
<1>. QED
  BY <1>1, <1>2, <1>3, <1>4, <1>5, PushKeeps, AttachKeeps, CrashKeeps DEF Next, Syncs

LEMMA InitHolds == ASSUME GitHubAppAssumption, RepositorySyncAssumption, Init PROVE IInv
<1>1. PICK story \in Stories : InitFrom(story)
  BY DEF Init
<1>2. AppInv
  BY <1>1, InitAppHolds DEF InitFrom
<1>3. story.root \in Repositories \cup {None}
  BY DEF GitHubAppAssumption, Story
<1>. DEFINE main == CHOOSE b \in Branches : TRUE
<1>4. main \in Branches
  BY DEF RepositorySyncAssumption
<1>. HIDE DEF main
<1>5. \A q \in Syncs : job[q] \in {Idle, Unstarted}
  BY <1>1 DEF InitFrom
<1>6. JobsFit /\ job \in [Syncs -> JobType]
  BY <1>1, <1>5, IdleFits DEF InitFrom, JobsFit
<1>7. NoState \in StateType /\ Silence \in ToldType
  BY DEF NoState, StateType, Silence, ToldType
<1>8. remote \in [Repositories -> [branch: Branches, tip: [Branches -> Nat]]]
  <2>1. remote = [r \in Repositories |-> [branch |-> main, tip |-> [b \in Branches |-> 0]]]
    BY <1>1 DEF InitFrom, main
  <2>2. [b \in Branches |-> 0] \in [Branches -> Nat]
    OBVIOUS
  <2>. QED
    BY <1>4, <2>1, <2>2
<1>9. attached \in [Repositories -> Branches \cup {None}]
  <2>1. attached = [r \in Repositories |-> IF r = story.root THEN main ELSE None]
    BY <1>1 DEF InitFrom, main
  <2>. QED
    BY <1>4, <2>1
<1>10. SyncTypeOK
  BY <1>1, <1>3, <1>6, <1>7, <1>8, <1>9 DEF InitFrom, SyncTypeOK
<1>11. OneTruth
  BY <1>1, <1>3 DEF InitFrom, OneTruth, NoState, Silence
<1>. QED
  BY <1>2, <1>6, <1>10, <1>11 DEF IInv, SyncInv

LEMMA Inductive == Spec => []IInv
<1>1. Init => IInv
  BY InitHolds, GitHubAppAssumption, RepositorySyncAssumption
<1>2. IInv /\ [Next]_vars => IInv'
  <2>. SUFFICES ASSUME IInv, [Next]_vars PROVE IInv'
    OBVIOUS
  <2>1. CASE Next
    <3>1. SyncInv'
      BY <2>1, SyncKeeps, GitHubAppAssumption, RepositorySyncAssumption
    <3>2. AppInv'
      BY <2>1, SyncStepsKeepTheApp, AppStepKeeps, CrashKeepsTheApp, GitHubAppAssumption, RepositorySyncAssumption
         DEF IInv
    <3>. QED
      BY <3>1, <3>2 DEF IInv
  <2>2. CASE UNCHANGED vars
    <3>1. AppInv'
      BY <2>2, KeptKeeps DEF IInv, AppInv, AppTypeOK, vars, appVars, AppKept, hubVars, rowVars
    <3>2. SyncInv'
      BY <2>2 DEF IInv, SyncInv, SyncTypeOK, JobsFit, OneTruth, vars, syncVars
    <3>. QED
      BY <3>1, <3>2 DEF IInv
  <2>. QED
    BY <2>1, <2>2
<1>. QED
  BY <1>1, <1>2, PTL DEF Spec

(* The types of the App's and of the synchronization's state hold. *)
THEOREM TypeCorrect == Spec => []TypeOK
<1>1. IInv => TypeOK
  BY DEF IInv, AppInv, SyncInv, SyncTypeOK, TypeOK
<1>. QED
  BY <1>1, Inductive, PTL

(* The project has the revision of its primary repository, and the last event of  *)
(* a repository tells its state, whoever wrote last (apply, RecordFailure and     *)
(* Attach of repositorysync and projectrepo).                                     *)
THEOREM WhatIsKnownIsToldAlike == Spec => []OneTruth
<1>1. IInv => OneTruth
  BY DEF IInv, SyncInv
<1>. QED
  BY <1>1, Inductive, PTL

(* A repository is authorized only by an active installation, and a deletion that *)
(* was processed is undone only by a fetch it overtook (UpdateInstallationStatus  *)
(* and UpsertInstallation of githubapp).                                          *)
THEOREM DeletionsAreKept == Spec => []AuthorizationIsKept
<1>1. IInv => AuthorizationIsKept
  BY DEF IInv, AppInv, ActiveOfActive, DeletionsHold, Written, AuthorizationIsKept
<1>. QED
  BY <1>1, Inductive, PTL
=============================================================================
