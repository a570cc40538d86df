-------------------------------- MODULE Service --------------------------------
(***************************************************************************)
(* gauth as a system service (cmd/server/service_linux.go,                 *)
(* service_darwin.go, service_windows.go): --install-service and           *)
(* --uninstall-service as sequences of commands, each of which may fail,   *)
(* next to the process that the service manager runs (Lifecycle).          *)
(*                                                                         *)
(* systemd, launchd and the SCM are external.  systemctl start does        *)
(* nothing to a running service; stop and unload wait for the process, sc  *)
(* stop does not; systemd runs what it has reloaded, launchd what it has   *)
(* loaded, the SCM what is registered, and it keeps a deleted service      *)
(* until its process is gone.                                              *)
(***************************************************************************)
EXTENDS Lifecycle, Sequences

CONSTANTS
    Configs,      \* port, data directory, client id, key and client secret
    None,         \* no definition; what an uninstall installs
    MaxCommands   \* bound: installs and uninstalls

VARIABLES
    unit,      \* the definition: unit file, plist, or entry of the SCM
    known,     \* the one that systemd or launchd has read
    running,   \* the one the process was launched from
    enabled,   \* it starts at boot
    active,    \* the manager wants it to run
    doomed,    \* the SCM has it marked for deletion
    recovers,  \* the SCM is to launch it again after a crash
    cmd,       \* the last command: the step it is at, if any, and what it installs
    budget,    \* how many more commands there will be
    report,    \* what the last command has printed
    slipped,   \* history: one of its steps has failed, and it went on
    kept       \* history: its start has found a process running

managerVars == <<unit, known, running, enabled, active, doomed, recovers>>
serviceVars == <<processVars, managerVars, cmd, budget, report, slipped, kept>>

\* whole: written to its end, and with the client secret.
Definition == [config : Configs, whole : BOOLEAN]
Whole(c) == [config |-> c, whole |-> TRUE]
Part(c) == [config |-> c, whole |-> FALSE]

ASSUME ServiceAssumption == None \notin Configs \cup Definition /\ MaxCommands \in Nat

--------------------------------------------------------------------------------
\* Slips of the kind the properties are there to catch are kept next to the
\* definition they would change, under its name with a suffix.

\* installService and uninstallService of the three platforms, in their order.
SystemdInstall_NoReload == <<"write", "enable", "start">>
SystemdInstall == <<"write", "reload", "enable", "start">>
SystemdUninstall_NoStop == <<"disable", "remove", "reload">>
SystemdUninstall == <<"stop", "disable", "remove", "reload">>

LaunchdInstall == <<"write", "unload", "load">>
LaunchdUninstall == <<"unload", "remove">>

ScmInstall == <<"stop", "delete", "create", "environment", "failure", "start">>
ScmUninstall == <<"stop", "delete">>

Installs == [systemd |-> SystemdInstall, launchd |-> LaunchdInstall, scm |-> ScmInstall]
Uninstalls == [systemd |-> SystemdUninstall, launchd |-> LaunchdUninstall, scm |-> ScmUninstall]

Installing == cmd.config # None
Steps == IF Installing THEN Installs[os] ELSE Uninstalls[os]
Busy == cmd.at # 0
At(step) == Busy /\ Steps[cmd.at] = step

\* Steps whose error the source drops.
Ignored(step) ==
    \/ step \in {"unload", "stop"}
    \/ os = "systemd" /\ ~Installing
    \/ step \in {"delete", "failure"} /\ Installing

TypeOK ==
    /\ ProcessTypeOK
    /\ unit \in Definition \cup {None} /\ known \in Definition \cup {None}
    /\ running \in Definition \cup {None}
    /\ enabled \in BOOLEAN /\ active \in BOOLEAN /\ doomed \in BOOLEAN
    /\ recovers \in BOOLEAN
    /\ cmd \in [at : Nat, config : Configs \cup {None}] /\ cmd.at <= Len(Steps)
    /\ budget \in 0..MaxCommands
    /\ report \in {"none", "installed", "removed", "error"}
    /\ slipped \in BOOLEAN /\ kept \in BOOLEAN

Init ==
    /\ ProcessInit
    /\ unit = None /\ known = None /\ running = None
    /\ enabled = FALSE /\ active = FALSE /\ doomed = FALSE /\ recovers = FALSE
    /\ cmd = [at |-> 0, config |-> None]
    /\ budget = MaxCommands /\ report = "none"
    /\ slipped = FALSE /\ kept = FALSE

--------------------------------------------------------------------------------
\* The manager.

\* What it would launch now, and whether it can.
Effective == IF os = "scm" THEN unit ELSE known
Launchable(d) == d # None /\ ~doomed /\ (os = "launchd" => d.whole)

\* Restart=on-failure; KeepAlive; sc failure, which an error that was reported
\* properly does not set off.
RestartsAfter ==
    [systemd |-> {"failed", "killed"},
     launchd |-> {"drained", "overdue", "failed", "killed", "left"},
     scm     |-> IF recovers THEN {"killed"} ELSE {}]

Process ==
    /\ \/ Serve \/ Pass \/ LoseListener \/ Kill \/ RequestStop
       \/ \E r \in Reqs : Accept(r) \/ Finish(r)
    /\ active' = (active /\ (stage' = "down" => ended' \in RestartsAfter[os]))
    /\ UNCHANGED <<unit, known, running, enabled, doomed, recovers, cmd, budget, report, slipped, kept>>

LaunchFrom(d) ==
    /\ Launchable(d) /\ Launch
    /\ running' = d
    /\ kept' = FALSE

Relaunch ==
    /\ active /\ LaunchFrom(Effective)
    /\ UNCHANGED <<unit, known, enabled, active, doomed, recovers, cmd, budget, report, slipped>>

\* The SCM drops a service that is marked for deletion.
Purge ==
    /\ doomed /\ stage = "down"
    /\ unit' = None /\ enabled' = FALSE /\ doomed' = FALSE
    /\ UNCHANGED <<processVars, known, running, active, recovers, cmd, budget, report, slipped, kept>>

\* The machine goes down with all that runs, and comes up again.
Boot ==
    /\ Kill \/ (stage = "down" /\ UNCHANGED processVars)
    /\ unit' = IF doomed THEN None ELSE unit
    /\ known' = IF os = "systemd" \/ (os = "launchd" /\ enabled) THEN unit ELSE None
    /\ enabled' = (enabled /\ ~doomed) /\ doomed' = FALSE
    /\ active' = (enabled' /\ unit' # None)
    /\ cmd' = [cmd EXCEPT !.at = 0]
    /\ report' = IF Busy THEN "error" ELSE report
    /\ UNCHANGED <<running, recovers, budget, slipped, kept>>

--------------------------------------------------------------------------------
\* The commands.

\* A command that is refused (no root, no -client-id) changes nothing.
Begin ==
    /\ ~Busy /\ budget > 0
    /\ \E c \in Configs \cup {None} : cmd' = [at |-> 1, config |-> c]
    /\ budget' = budget - 1
    /\ report' = "none" /\ slipped' = FALSE
    /\ UNCHANGED <<processVars, managerVars, kept>>

Proceed ==
    /\ cmd' = [cmd EXCEPT !.at = IF @ = Len(Steps) THEN 0 ELSE @ + 1]
    /\ report' = IF cmd.at # Len(Steps) THEN report
                 ELSE IF Installing THEN "installed" ELSE "removed"
    /\ UNCHANGED budget

\* Any step may fail, having done nothing, but for the write of a file.  The
\* first error that is not ignored is printed and ends the command.
StepFails ==
    /\ Busy
    /\ LET step == Steps[cmd.at]
       IN  /\ IF Ignored(step) THEN Proceed /\ slipped' = TRUE
              ELSE /\ cmd' = [cmd EXCEPT !.at = 0] /\ report' = "error"
                   /\ UNCHANGED <<budget, slipped>>
           /\ unit' \in IF step = "write" THEN {unit, Part(cmd.config)} ELSE {unit}
    /\ UNCHANGED <<processVars, known, running, enabled, active, doomed, recovers, kept>>

WriteUnit ==
    /\ At("write") /\ Proceed
    /\ unit' = Whole(cmd.config)
    /\ UNCHANGED <<processVars, known, running, enabled, active, doomed, recovers, slipped, kept>>

Reload ==
    /\ At("reload") /\ Proceed
    /\ known' = unit
    /\ UNCHANGED <<processVars, unit, running, enabled, active, doomed, recovers, slipped, kept>>

Enable ==
    /\ At("enable") /\ Proceed
    /\ enabled' = TRUE
    /\ UNCHANGED <<processVars, unit, known, running, active, doomed, recovers, slipped, kept>>

Start ==
    /\ At("start") /\ Proceed
    /\ \/ LaunchFrom(Effective)
       \/ os = "systemd" /\ stage # "down" /\ kept' = TRUE /\ UNCHANGED <<processVars, running>>
    /\ active' = TRUE
    /\ UNCHANGED <<unit, known, enabled, doomed, recovers, slipped>>

\* systemctl stop and launchctl unload have the process told, and wait.
AskToEnd ==
    /\ At("stop") \/ At("unload")
    /\ RequestStop
    /\ active' = FALSE
    /\ IF os = "scm" THEN Proceed ELSE ~stop /\ UNCHANGED <<cmd, report, budget>>
    /\ UNCHANGED <<unit, known, running, enabled, doomed, recovers, slipped, kept>>

Stopped ==
    /\ At("stop") /\ stage = "down" /\ Proceed
    /\ active' = FALSE
    /\ UNCHANGED <<processVars, unit, known, running, enabled, doomed, recovers, slipped, kept>>

\* Only uninstallService has -w, which also disables.
Unloaded ==
    /\ At("unload") /\ stage = "down" /\ Proceed
    /\ known' = None /\ active' = FALSE
    /\ enabled' = (enabled /\ Installing)
    /\ UNCHANGED <<processVars, unit, running, doomed, recovers, slipped, kept>>

\* RunAtLoad; a label that is loaded cannot be loaded again.
Load ==
    /\ At("load") /\ known = None /\ Proceed
    /\ known' = unit /\ LaunchFrom(unit)
    /\ enabled' = TRUE /\ active' = TRUE
    /\ UNCHANGED <<unit, doomed, recovers, slipped>>

Delete ==
    /\ At("delete") /\ unit # None /\ ~doomed /\ Proceed
    /\ IF stage = "down" THEN unit' = None /\ enabled' = FALSE /\ UNCHANGED doomed
                         ELSE doomed' = TRUE /\ UNCHANGED <<unit, enabled>>
    /\ UNCHANGED <<processVars, known, running, active, recovers, slipped, kept>>

Create ==
    /\ At("create") /\ unit = None /\ Proceed
    /\ unit' = Part(cmd.config) /\ enabled' = TRUE /\ recovers' = FALSE
    /\ UNCHANGED <<processVars, known, running, active, doomed, slipped, kept>>

SetEnvironment ==
    /\ At("environment") /\ Proceed
    /\ unit' = Whole(cmd.config)
    /\ UNCHANGED <<processVars, known, running, enabled, active, doomed, recovers, slipped, kept>>

SetFailure ==
    /\ At("failure") /\ Proceed
    /\ recovers' = TRUE
    /\ UNCHANGED <<processVars, unit, known, running, enabled, active, doomed, slipped, kept>>

Disable ==
    /\ At("disable") /\ Proceed
    /\ enabled' = FALSE
    /\ UNCHANGED <<processVars, unit, known, running, active, doomed, recovers, slipped, kept>>

Remove ==
    /\ At("remove") /\ Proceed
    /\ unit' = None
    /\ UNCHANGED <<processVars, known, running, enabled, active, doomed, recovers, slipped, kept>>

Command ==
    \/ Begin \/ StepFails
    \/ WriteUnit \/ Reload \/ Enable \/ Start \/ AskToEnd \/ Stopped \/ Unloaded \/ Load
    \/ Delete \/ Create \/ SetEnvironment \/ SetFailure \/ Disable \/ Remove

Next == Process \/ Relaunch \/ Purge \/ Boot \/ Command

Spec == Init /\ [][Next]_serviceVars

\* runServer goes on, and systemd and launchd launch what they want to run;
\* time passes; nothing is assumed of requests, users, the SCM or the commands.
FairSpec ==
    /\ Spec
    /\ WF_serviceVars(Serve /\ Process)
    /\ WF_serviceVars(Pass /\ Process)
    /\ WF_serviceVars(os # "scm" /\ Relaunch)

--------------------------------------------------------------------------------
\* When installService has reported success, the manager will run just what was
\* installed, now and after every boot, and what runs is that already, but for
\* the process that systemctl start has found running.
InstalledIsInForce ==
    report = "installed" =>
        /\ Effective = Whole(cmd.config) /\ enabled
        /\ stage # "down" /\ ~kept => running = Effective

\* When uninstallService has reported success, and no step of it has failed
\* unseen, nothing can be launched any more and what runs is stopping.
RemovedIsGone ==
    report = "removed" /\ ~slipped =>
        /\ unit = None \/ doomed
        /\ ~Launchable(Effective)
        /\ stage = "down" \/ stop

\* A service that has lost its listener, or never got the port, is launched
\* again, unless it is to stop or its definition has gone.  The SCM does not.
LosingPortIsRetried ==
    os # "scm" /\ listener = "failed" ~>
        \/ stage = "starting"
        \/ stop \/ At("stop") \/ At("unload")
        \/ ~enabled \/ ~Launchable(Effective)

================================================================================
