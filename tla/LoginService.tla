---------------------------- MODULE LoginService ----------------------------
(***************************************************************************)
(* The login service of a user: install writes a definition and tells the  *)
(* service manager of the platform about it, uninstall stops Core and      *)
(* undoes both.  Each is a sequence of external commands that may fail,    *)
(* and whoever runs it may be killed between two of them; nothing rolls    *)
(* back, the user repeats the command.  One command runs at a time.        *)
(***************************************************************************)
EXTENDS Sequences

VARIABLES
  platform,     \* "darwin" (launchd), "linux" (systemd), "windows" (Task Scheduler)
  definition,   \* the unit or the property list is on disk
  enabled,      \* linux: the unit is wanted by the login; windows: the task exists
  active,       \* linux: the unit is active; darwin: the job is bootstrapped
  coreRuns,     \* a Core of this data directory runs
  admin,        \* where the command that runs is
  report        \* what the last command said

serviceVars == <<platform, definition, enabled, active, coreRuns, admin, report>>

\* What each command does after it has looked at the run record.
InstallSteps == [darwin  |-> <<"write", "bootstrap">>,
                 linux   |-> <<"write", "reload", "enable", "start">>,
                 windows |-> <<"create">>]

\* Seeded fault: the definition goes before the service manager is asked.
UnlinkComesFirst == [darwin  |-> <<"look", "unlink", "bootout">>,
                     linux   |-> <<"look", "unlink", "disable", "reload">>,
                     windows |-> <<"delete">>]
UninstallSteps == [darwin  |-> <<"look", "bootout", "unlink">>,
                   linux   |-> <<"look", "disable", "reload", "unlink">>,
                   windows |-> <<"delete">>]

Resting == [op |-> "none", todo |-> <<>>]

ServiceInit ==
  /\ platform \in {"darwin", "linux", "windows"}
  /\ definition = FALSE /\ enabled = FALSE /\ active = FALSE /\ coreRuns = FALSE
  /\ admin = Resting /\ report = "none"

\* What the renderers ask for: RunAtLoad of every property list that is in the directory,
\* a unit wanted by the default target, a task at logon.
StartsAtLogin ==
  \/ platform = "darwin" /\ definition
  \/ platform = "linux" /\ definition /\ enabled
  \/ platform = "windows" /\ enabled
-----------------------------------------------------------------------------
(* The commands. *)

\* A Core that runs is found, except that the record of a detached one may have been
\* taken for stale (CoreRun).
Finds(found) == found => coreRuns

Says(what) == admin' = Resting /\ report' = what

AskInstall ==
  /\ admin = Resting
  /\ \E found \in BOOLEAN :
       /\ Finds(found)
       /\ IF found THEN Says("refused")
          ELSE admin' = [op |-> "install", todo |-> InstallSteps[platform]] /\ report' = "none"
  /\ UNCHANGED <<platform, definition, enabled, active, coreRuns>>

\* The command stops a Core that it finds; the Core itself, asked by the page, refuses.
AskUninstall ==
  /\ admin = Resting
  /\ \E found \in BOOLEAN, page \in BOOLEAN :
       /\ Finds(found)
       /\ IF found /\ page THEN Says("refused") /\ UNCHANGED coreRuns
          ELSE /\ admin' = [op |-> "uninstall", todo |-> UninstallSteps[platform]]
               /\ report' = "none" /\ coreRuns' = (coreRuns /\ ~found)
  /\ UNCHANGED <<platform, definition, enabled, active>>

\* What the command and the page show; the definition of a task is not looked for.
ShowStatus ==
  /\ admin = Resting
  /\ \E found \in BOOLEAN :
       /\ Finds(found)
       /\ Says(IF found THEN "running"
               ELSE IF platform = "windows" THEN "unknown"
               ELSE IF definition THEN "stopped" ELSE "absent")
  /\ UNCHANGED <<platform, definition, enabled, active, coreRuns>>

Doing(step) == admin.todo # <<>> /\ Head(admin.todo) = step

\* The next step, or the answer of a command whose steps are done.
StepDone ==
  IF Tail(admin.todo) = <<>> THEN Says(IF admin.op = "install" THEN "installed" ELSE "removed")
  ELSE admin' = [admin EXCEPT !.todo = Tail(@)] /\ UNCHANGED report

\* write_definition: a temporary file replaces the definition as a whole.
WriteDefinition ==
  /\ Doing("write") /\ StepDone
  /\ definition' = TRUE
  /\ UNCHANGED <<platform, enabled, active, coreRuns>>

\* uninstall looks for the definition before it asks the service manager.
LookForDefinition ==
  /\ Doing("look")
  /\ IF definition THEN StepDone ELSE Says("absent")
  /\ UNCHANGED <<platform, definition, enabled, active, coreRuns>>

RemoveDefinition ==
  /\ Doing("unlink") /\ StepDone
  /\ definition' = FALSE
  /\ UNCHANGED <<platform, enabled, active, coreRuns>>

\* launchctl refuses to bootstrap a job twice, and to boot out one it does not have.
Bootstrap ==
  /\ Doing("bootstrap") /\ ~active /\ StepDone
  /\ active' = TRUE /\ coreRuns' = TRUE
  /\ UNCHANGED <<platform, definition, enabled>>

BootOut ==
  /\ Doing("bootout") /\ active /\ StepDone
  /\ active' = FALSE
  /\ UNCHANGED <<platform, definition, enabled, coreRuns>>

Reload == Doing("reload") /\ StepDone /\ UNCHANGED <<platform, definition, enabled, active, coreRuns>>

EnableUnit ==
  /\ Doing("enable") /\ definition /\ StepDone
  /\ enabled' = TRUE
  /\ UNCHANGED <<platform, definition, active, coreRuns>>

\* A oneshot unit that remains after exit is not started again, whatever became of its Core.
StartUnit ==
  /\ Doing("start") /\ StepDone
  /\ active' = TRUE /\ coreRuns' = (coreRuns \/ ~active)
  /\ UNCHANGED <<platform, definition, enabled>>

\* disable --now: ExecStop is tts stop.
DisableUnit ==
  /\ Doing("disable") /\ StepDone
  /\ enabled' = FALSE /\ active' = FALSE /\ coreRuns' = (coreRuns /\ ~active)
  /\ UNCHANGED <<platform, definition>>

CreateTask ==
  /\ Doing("create") /\ StepDone
  /\ enabled' = TRUE
  /\ UNCHANGED <<platform, definition, active, coreRuns>>

DeleteTask ==
  /\ Doing("delete") /\ enabled /\ StepDone
  /\ enabled' = FALSE
  /\ UNCHANGED <<platform, definition, active, coreRuns>>

\* Any step may fail, and ends its command.
StepFails ==
  /\ admin.todo # <<>> /\ Says("failed")
  /\ UNCHANGED <<platform, definition, enabled, active, coreRuns>>

AdminDies ==
  /\ admin.todo # <<>> /\ Says("none")
  /\ UNCHANGED <<platform, definition, enabled, active, coreRuns>>
-----------------------------------------------------------------------------
(* What happens meanwhile. *)

\* The host restarts and the user logs in.
LogIn ==
  /\ admin = Resting
  /\ active' = (platform # "windows" /\ StartsAtLogin)
  /\ coreRuns' = StartsAtLogin
  /\ UNCHANGED <<platform, definition, enabled, admin, report>>

\* KeepAlive: launchd runs serve again as long as the job is bootstrapped.
KeepAlive ==
  /\ platform = "darwin" /\ active /\ ~coreRuns
  /\ coreRuns' = TRUE
  /\ UNCHANGED <<platform, definition, enabled, active, admin, report>>

\* A Core is started by hand, is stopped, or dies.
CoreChanges ==
  /\ coreRuns' = ~coreRuns
  /\ UNCHANGED <<platform, definition, enabled, active, admin, report>>

ServiceNext ==
  \/ AskInstall \/ AskUninstall \/ ShowStatus
  \/ WriteDefinition \/ LookForDefinition \/ RemoveDefinition
  \/ Bootstrap \/ BootOut \/ Reload \/ EnableUnit \/ StartUnit \/ DisableUnit
  \/ CreateTask \/ DeleteTask
  \/ StepFails \/ AdminDies \/ LogIn \/ KeepAlive \/ CoreChanges

ServiceSpec == ServiceInit /\ [][ServiceNext]_serviceVars
-----------------------------------------------------------------------------
ServiceTypeOK ==
  /\ platform \in DOMAIN InstallSteps
  /\ {definition, enabled, active, coreRuns} \subseteq BOOLEAN
  /\ admin.op \in {"none", "install", "uninstall"} /\ (admin = Resting <=> admin.todo = <<>>)
  /\ report \in {"none", "refused", "installed", "removed", "absent", "failed",
                "running", "stopped", "unknown"}

(* However commands fail, are killed and are repeated, the service manager      *)
(* knows of no service whose definition is gone: uninstall would call it not    *)
(* installed and leave it for good.  And what a command says is so: after       *)
(* "Installed" a login starts Core, after "Uninstalled" and "not installed"     *)
(* nothing of the service is left and no login does.                            *)
ServiceCanBeRemoved ==
  /\ platform # "windows" /\ (enabled \/ active) => definition
  /\ report = "installed" => StartsAtLogin
  /\ report \in {"removed", "absent"} => ~StartsAtLogin /\ ~enabled /\ ~active
=============================================================================
