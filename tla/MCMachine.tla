----------------------------- MODULE MCMachine -----------------------------
(***************************************************************************)
(* What runs on one computer: the logins it keeps, the runtime of an       *)
(* agent, the binding of a checkout, and a server of its own.  The four    *)
(* share no state; a behaviour exercises one of them and leaves the others *)
(* as they start.                                                          *)
(***************************************************************************)
EXTENDS ServerProfiles, TLC

CONSTANTS Works, Calls, NoWork,
          Root, Tree, Hosts, Keys, Connectors, Runtimes, Absent,
          Commanders, Images, Passwords, Nothing

ASSUME MachineAssumption ==
    /\ NoWork \notin Works
    /\ Root # Tree
    /\ Absent \notin Hosts \cup Keys \cup Connectors \cup Runtimes \cup {Root, Tree}
    /\ Nothing \notin Images \cup Passwords \cup [password : Passwords, image : Images]

VARIABLES part,
          session, intent, touched, worktree, process, loops, errors,
          registered, cancelled, observer, call, client, trouble,
          binding, node, held, job, presented, unrotated, excused,
          compose, environment, record, volume, running, drawn, command, overlapped, halfDone

loginVars == vars
runtimeVars == <<session, intent, touched, worktree, process, loops, errors, registered,
                 cancelled, observer, call, client, trouble>>
checkoutVars == <<binding, node, held, job, presented, unrotated, excused>>
serverVars == <<compose, environment, record, volume, running, drawn, command, overlapped,
                halfDone>>

Runtime == INSTANCE AgentRuntime
Checkout == INSTANCE LocalBindings
Host == INSTANCE LocalServer WITH torn <- halfDone

\* Servers are alike to a checkout, and so are keys: which unused one a new identity
\* takes makes no difference.
CheckoutSymmetry == Permutations(Hosts) \cup Permutations(Keys)

MachineInit ==
    /\ part \in {"logins", "runtime", "checkout", "server"}
    /\ Init /\ Runtime!Init /\ Checkout!Init /\ Host!Init
    /\ part # "checkout" => binding[Root] = Absent

MachineNext ==
    /\ UNCHANGED part
    /\ \/ /\ part = "logins" /\ ProfileNext
          /\ UNCHANGED <<runtimeVars, checkoutVars, serverVars>>
       \/ /\ part = "runtime" /\ Runtime!RuntimeNext
          /\ UNCHANGED <<loginVars, checkoutVars, serverVars>>
       \/ /\ part = "checkout" /\ Checkout!BindingNext
          /\ UNCHANGED <<loginVars, runtimeVars, serverVars>>
       \/ /\ part = "server" /\ Host!ServerNext
          /\ UNCHANGED <<loginVars, runtimeVars, checkoutVars>>

MachineSpec ==
    MachineInit /\ [][MachineNext]_<<part, loginVars, runtimeVars, checkoutVars, serverVars>>

\* Every observer follows its work: see AgentRuntime.
ObserversFollowTheWork == Runtime!ObserversFollowTheWork

\* Nothing but what ends it ends the runtime: see AgentRuntime.
ServesWhileAllIsWell == Runtime!ServesWhileAllIsWell

\* A node key is for one server: see LocalBindings.
OneServerPerKey == Checkout!OneServerPerKey

\* The record of the local server is true: see LocalServer.
TheRecordIsTrue == Host!TheRecordIsTrue
=============================================================================
