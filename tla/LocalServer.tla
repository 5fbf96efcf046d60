---------------------------- MODULE LocalServer ----------------------------
(***************************************************************************)
(* `pact server`: a PACT Server that one computer runs for itself          *)
(* (internal/localserver/manager.go), driven by the command line and by    *)
(* the desktop, with no lock between them.                                 *)
(*                                                                         *)
(* Three files describe it, each replaced in one rename: the compose file, *)
(* the environment with the database password and the image, and the       *)
(* record of the installation.  Docker holds the database volume, which    *)
(* keeps the password it was created with.  A command stops at any step:   *)
(* it fails, is interrupted or its process dies.  Ports, the setup code    *)
(* and the content of the database (backup and restore) are left out.      *)
(***************************************************************************)
EXTENDS FiniteSets

CONSTANTS Commanders,  \* processes: command lines and desktops
          Images, Passwords, Nothing

VARIABLES compose,     \* whether compose.yaml is there
          environment, \* .env
          record,      \* installation.json: the image
          volume,      \* the password of the database volume
          running,
          drawn,       \* passwords drawn so far
          command,     \* what each process is doing
          overlapped,  \* two commands met that must not
          torn         \* what an interrupted command left half done

vars == <<compose, environment, record, volume, running, drawn, command, overlapped, torn>>

files == <<compose, environment, record>>
docker == <<volume, running>>

NoCommand == [kind |-> "none", step |-> "none", image |-> Nothing, password |-> Nothing]
Commands == {"install", "force", "upgrade", "start", "stop", "down", "erase"}
Writers == {"install", "force", "upgrade", "erase"}
Steps == {"none", "install", "force", "compose", "environment", "record", "up",
          "start", "stop", "upgrade", "image", "down", "erase", "remove"}

TypeOK ==
    /\ compose \in BOOLEAN
    /\ environment \in [password : Passwords, image : Images] \cup {Nothing}
    /\ record \in Images \cup {Nothing}
    /\ volume \in Passwords \cup {Nothing}
    /\ running \in BOOLEAN
    /\ drawn \subseteq Passwords
    /\ command \in [Commanders -> [kind : Commands \cup {"none"}, step : Steps, image : Images \cup {Nothing},
                                   password : Passwords \cup {Nothing}]]
    /\ overlapped \in BOOLEAN
    /\ torn \subseteq {"image", "removal"}

Init ==
    /\ compose = FALSE /\ environment = Nothing /\ record = Nothing
    /\ volume = Nothing /\ running = FALSE
    /\ drawn = {}
    /\ command = [p \in Commanders |-> NoCommand]
    /\ overlapped = FALSE
    /\ torn = {}

At(p, step) == command[p].step = step
Goto(p, step) == command' = [command EXCEPT ![p].step = step]
Done(p) == command' = [command EXCEPT ![p] = NoCommand]

\* Two that write the files, or the removal of the data with any other.
Collide(kind, other) ==
    \/ kind \in Writers /\ other \in Writers
    \/ "erase" \in {kind, other} /\ "none" \notin {kind, other}

\* Install and Upgrade name an image; the others do not.
Begin(p, kind, image) ==
    /\ At(p, "none")
    /\ command' = [command EXCEPT ![p] = [NoCommand EXCEPT !.kind = kind, !.step = kind,
                                                           !.image = image]]
    /\ overlapped' = (overlapped \/ \E q \in Commanders \ {p} : Collide(kind, command[q].kind))
    /\ UNCHANGED <<files, docker, drawn, torn>>

\* The command fails, is interrupted, or its process dies.
Interrupt(p) ==
    /\ ~At(p, "none")
    /\ Done(p)
    /\ UNCHANGED <<files, docker, drawn, overlapped, torn>>

-----------------------------------------------------------------------------
(* Install. *)

\* randomSecret: one password not drawn before stands for any other.
NewPasswords == IF Passwords = drawn THEN {} ELSE {CHOOSE password \in Passwords \ drawn : TRUE}

\* The secrets of an installation that is on record are kept, and must be there;
\* without a record they are drawn.
Secrets ==
    IF record = Nothing THEN NewPasswords
    ELSE IF environment = Nothing THEN {} ELSE {environment.password}

\* As it is when a forced installation draws its secrets too.
FreshSecrets(p) ==
    /\ At(p, "install") \/ At(p, "force")
    /\ record = Nothing \/ At(p, "force")
    /\ \E password \in NewPasswords :
          /\ command' = [command EXCEPT ![p].step = "compose", ![p].password = password]
          /\ drawn' = drawn \cup {password}
    /\ UNCHANGED <<files, docker, overlapped, torn>>

ChooseSecrets(p) ==
    /\ At(p, "install") \/ At(p, "force")
    /\ record = Nothing \/ At(p, "force")
    /\ \E password \in Secrets :
          /\ command' = [command EXCEPT ![p].step = "compose", ![p].password = password]
          /\ drawn' = drawn \cup {password}
    /\ UNCHANGED <<files, docker, overlapped, torn>>

WriteCompose(p) ==
    /\ At(p, "compose")
    /\ compose' = TRUE
    /\ Goto(p, "environment")
    /\ UNCHANGED <<environment, record, docker, drawn, overlapped, torn>>

WriteEnvironment(p) ==
    /\ At(p, "environment")
    /\ environment' = [password |-> command[p].password, image |-> command[p].image]
    /\ torn' = IF record = Nothing THEN torn ELSE torn \cup {"image"}
    /\ Goto(p, "record")
    /\ UNCHANGED <<compose, record, docker, drawn, overlapped>>

\* The last file of an installation, and of an upgrade.
WriteRecord(p) ==
    /\ At(p, "record")
    /\ record' = command[p].image
    /\ torn' = {}
    /\ Goto(p, "up")
    /\ UNCHANGED <<compose, environment, docker, drawn, overlapped>>

\* compose pull and up --wait: a new volume takes the password of the
\* environment, and the server can only come up when that password opens it.
Up(p) ==
    /\ At(p, "up")
    /\ compose /\ environment # Nothing
    /\ volume' = IF volume = Nothing THEN environment.password ELSE volume
    /\ running' \in {FALSE, volume' = environment.password}
    /\ Done(p)
    /\ UNCHANGED <<files, drawn, overlapped, torn>>

-----------------------------------------------------------------------------
(* The other commands require the record. *)

Start(p) ==
    /\ At(p, "start") /\ record # Nothing
    /\ Goto(p, "up")
    /\ UNCHANGED <<files, docker, drawn, overlapped, torn>>

Stop(p) ==
    /\ At(p, "stop") /\ record # Nothing
    /\ compose /\ environment # Nothing
    /\ running' = FALSE
    /\ Done(p)
    /\ UNCHANGED <<files, volume, drawn, overlapped, torn>>

\* Upgrade begins with a backup, which a database that runs must give.
BackUp(p) ==
    /\ At(p, "upgrade") /\ record # Nothing
    /\ compose /\ environment # Nothing /\ running
    /\ Goto(p, "image")
    /\ UNCHANGED <<files, docker, drawn, overlapped, torn>>

\* It keeps the other values of the environment.
SetImage(p) ==
    /\ At(p, "image")
    /\ environment # Nothing
    /\ environment' = [environment EXCEPT !.image = command[p].image]
    /\ torn' = torn \cup {"image"}
    /\ Goto(p, "record")
    /\ UNCHANGED <<compose, record, docker, drawn, overlapped>>

\* compose down, with the volumes when the data is to go; then the directory.
Down(p, step, erase) ==
    /\ At(p, step) /\ record # Nothing
    /\ compose /\ environment # Nothing
    /\ running' = FALSE
    /\ volume' = IF erase THEN Nothing ELSE volume
    /\ IF erase THEN Goto(p, "remove") ELSE Done(p)
    /\ torn' = IF erase THEN torn \cup {"removal"} ELSE torn
    /\ UNCHANGED <<files, drawn, overlapped>>

\* os.RemoveAll takes one file after the other, in the order the directory
\* gives them.
RemoveFile(p) ==
    /\ At(p, "remove")
    /\ \/ compose /\ compose' = FALSE /\ UNCHANGED <<environment, record>>
       \/ environment # Nothing /\ environment' = Nothing /\ UNCHANGED <<compose, record>>
       \/ record # Nothing /\ record' = Nothing /\ UNCHANGED <<compose, environment>>
    /\ UNCHANGED <<docker, drawn, command, overlapped, torn>>

Removed(p) ==
    /\ At(p, "remove")
    /\ ~compose /\ environment = Nothing /\ record = Nothing
    /\ Done(p)
    /\ torn' = {}
    /\ UNCHANGED <<files, docker, drawn, overlapped>>

ServerNext ==
    \E p \in Commanders :
       \/ \E image \in Images, kind \in {"install", "force", "upgrade"} : Begin(p, kind, image)
       \/ \E kind \in {"start", "stop", "down", "erase"} : Begin(p, kind, Nothing)
       \/ Interrupt(p)
       \/ ChooseSecrets(p) \/ WriteCompose(p) \/ WriteEnvironment(p) \/ WriteRecord(p)
       \/ Up(p) \/ Start(p) \/ Stop(p) \/ BackUp(p) \/ SetImage(p)
       \/ Down(p, "down", FALSE) \/ Down(p, "erase", TRUE)
       \/ RemoveFile(p) \/ Removed(p)

ServerSpec == Init /\ [][ServerNext]_vars

-----------------------------------------------------------------------------
\* As long as no two commands of this computer that write the files meet, and
\* none meets the removal of the data, wherever each of them stops (a start, a
\* stop or an uninstallation may come in between any two steps), the password in
\* the environment opens the database volume, an installation on record has its
\* other files (so that it can be started, stopped, upgraded and forced) unless
\* its removal was interrupted, and the image on record is the one that the next
\* start runs unless a command stopped between its two writes.
TheRecordIsTrue ==
    overlapped \/
    /\ volume # Nothing /\ environment # Nothing => environment.password = volume
    /\ volume # Nothing => record # Nothing
    /\ record # Nothing /\ "removal" \notin torn => compose /\ environment # Nothing
    /\ record # Nothing /\ environment # Nothing /\ torn = {} => environment.image = record
=============================================================================
