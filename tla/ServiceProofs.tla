----------------------------- MODULE ServiceProofs -----------------------------
(***************************************************************************)
(* Machine-checked proofs about Lifecycle and Service, for any requests,   *)
(* configurations and number of commands.                                  *)
(***************************************************************************)
EXTENDS Service, TLAPS

--------------------------------------------------------------------------------
\* The process.

\* Whoever is running while Shutdown waits has been for the time it has waited.
Waited ==
    stage = "draining" => \A r \in Running : age[r] + patience >= Grace

\* Inductive: what is cut off was cut off at the last end of the process, and what
\* Shutdown still waits for adds up to Grace.
ProcessInv ==
    /\ ProcessTypeOK
    /\ stage # "down" => \A r \in Reqs : req[r] # "cut"
    /\ Waited
    /\ StopWaits

ProcessNext ==
    \/ Launch \/ Serve \/ Pass \/ LoseListener \/ Kill \/ RequestStop
    \/ \E r \in Reqs : Accept(r) \/ Finish(r)

LEMMA EndStep ==
    ASSUME ProcessInv, stage # "down", NEW why \in {"drained", "overdue", "failed", "killed", "left"},
           End(why),
           \/ why \in {"failed", "killed"} \/ os = "scm"
           \/ \A r \in Running : age[r] >= Grace
    PROVE  ProcessInv'
<1>1. ProcessTypeOK' /\ stage' = "down"
  BY DEF ProcessInv, ProcessTypeOK, End, Running
<1>2. StopWaits'
  BY DEF ProcessInv, StopWaits, End, Running
<1> QED BY <1>1, <1>2 DEF ProcessInv, Waited

LEMMA PassStep == ASSUME ProcessInv, Pass PROVE ProcessInv'
<1>1. /\ UNCHANGED <<os, stage, stop, listener, req, ended>>
      /\ stage # "down" /\ Running' = Running /\ Running \subseteq Reqs
      /\ age \in [Reqs -> 0..Grace] /\ patience \in 0..Grace
      /\ patience' = IF stage = "draining" /\ patience > 0 THEN patience - 1 ELSE patience
      /\ \A r \in Reqs :
            age'[r] = IF r \in Running /\ age[r] < Grace THEN age[r] + 1 ELSE age[r]
      /\ age' \in [Reqs -> Nat]
  BY GraceAssumption DEF Pass, Running, ProcessInv, ProcessTypeOK
<1>2. age' \in [Reqs -> 0..Grace] /\ patience' \in 0..Grace
  BY <1>1, GraceAssumption
<1>3. ASSUME stage = "draining", NEW r \in Running PROVE age'[r] + patience' >= Grace
  <2>1. age[r] \in 0..Grace /\ age[r] + patience >= Grace /\ r \in Reqs
    BY <1>1, <1>3 DEF ProcessInv, Waited
  <2> QED BY <1>1, <1>3, <2>1, GraceAssumption
<1> QED BY <1>1, <1>2, <1>3 DEF ProcessInv, ProcessTypeOK, Waited, StopWaits

LEMMA ProcessStep == ASSUME ProcessInv, [ProcessNext]_processVars PROVE ProcessInv'
<1>1. CASE UNCHANGED processVars
  BY <1>1 DEF processVars, ProcessInv, ProcessTypeOK, Waited, Running, StopWaits
<1>2. CASE Launch
  <2>1. age' \in [Reqs -> 0..Grace] /\ patience' \in 0..Grace
    BY <1>2, GraceAssumption DEF Launch
  <2> QED BY <1>2, <2>1 DEF Launch, ProcessInv, ProcessTypeOK, Waited, Running, StopWaits
<1>3. CASE Ready \/ Listen \/ LoseListener \/ RequestStop
  BY <1>3 DEF Ready, Listen, LoseListener, RequestStop, ProcessInv, ProcessTypeOK, Waited, Running,
     StopWaits
<1>4. CASE Drain
  <2>1. patience' = Grace /\ patience' \in 0..Grace /\ age' = age /\ age \in [Reqs -> 0..Grace]
    BY <1>4, GraceAssumption DEF Drain, ProcessInv, ProcessTypeOK
  <2>2. Waited'
    BY <1>4, <2>1, GraceAssumption DEF Drain, Waited, Running
  <2> QED BY <1>4, <2>1, <2>2 DEF Drain, ProcessInv, ProcessTypeOK, StopWaits
<1>5. CASE Shutdown
  <2>1. stage = "draining" /\ age \in [Reqs -> 0..Grace]
    BY <1>5 DEF Shutdown, ProcessInv, ProcessTypeOK
  <2>2. patience = 0 => \A r \in Running : age[r] >= Grace
    BY <2>1, GraceAssumption DEF ProcessInv, Waited, Running
  <2> QED BY <1>5, <2>1, <2>2, EndStep DEF Shutdown
<1>6. CASE Fail
  BY <1>6, EndStep DEF Fail
<1>7. CASE Leave
  BY <1>7, EndStep DEF Leave
<1>8. CASE Kill
  BY <1>8, EndStep DEF Kill
<1>9. ASSUME NEW r \in Reqs, Accept(r) \/ Finish(r) PROVE ProcessInv'
  BY <1>9 DEF Accept, Finish, ProcessInv, ProcessTypeOK, Waited, Running, StopWaits
<1>10. CASE Pass
  BY <1>10, PassStep
<1> QED BY <1>1, <1>2, <1>3, <1>4, <1>5, <1>6, <1>7, <1>8, <1>9, <1>10 DEF ProcessNext, Serve

\* Whatever the manager and the commands do, the process takes its own steps.
LEMMA ServiceIsProcess == ASSUME [Next]_serviceVars PROVE [ProcessNext]_processVars
BY DEF Next, serviceVars, Process, Relaunch, Purge, Boot, Command, Begin, StepFails, WriteUnit,
       Reload, Enable, Start, AskToEnd, Stopped, Unloaded, Load, Delete, Create, SetEnvironment,
       SetFailure, Disable, Remove, LaunchFrom, ProcessNext

\* Under any service manager, a request that is cut off was cut off at the end of
\* its process (runServer, cmd/server/main.go).
THEOREM ProcessInductive == Spec => []ProcessInv
<1>1. Init => ProcessInv
  <2>1. 0 \in 0..Grace
    BY GraceAssumption
  <2> QED BY <2>1 DEF Init, ProcessInit, ProcessInv, ProcessTypeOK, Waited, StopWaits
<1>2. ProcessInv /\ [Next]_serviceVars => ProcessInv'
  BY ProcessStep, ServiceIsProcess
<1> QED BY <1>1, <1>2, PTL DEF Spec

\* A stop, in a foreground process or under systemd and launchd, gives requests in
\* flight all the time that Shutdown waits.
THEOREM StopWaitsHolds == Spec => []StopWaits
<1>1. ProcessInv => StopWaits
  BY DEF ProcessInv
<1> QED BY <1>1, ProcessInductive, PTL

--------------------------------------------------------------------------------
\* The commands: what each step says about where its command is.

LEMMA StepsAre ==
    ASSUME os \in Managers
    PROVE  /\ os = "systemd" /\ Installing =>
                  Steps = <<"write", "reload", "enable", "start">> /\ Len(Steps) = 4
           /\ os = "systemd" /\ ~Installing =>
                  Steps = <<"stop", "disable", "remove", "reload">> /\ Len(Steps) = 4
           /\ os = "launchd" /\ Installing =>
                  Steps = <<"write", "unload", "load">> /\ Len(Steps) = 3
           /\ os = "launchd" /\ ~Installing =>
                  Steps = <<"unload", "remove">> /\ Len(Steps) = 2
           /\ os = "scm" /\ Installing =>
                  /\ Steps = <<"stop", "delete", "create", "environment", "failure", "start">>
                  /\ Len(Steps) = 6
           /\ os = "scm" /\ ~Installing =>
                  Steps = <<"stop", "delete">> /\ Len(Steps) = 2
BY DEF Managers, Steps, Installs, Uninstalls, SystemdInstall, SystemdUninstall, LaunchdInstall,
       LaunchdUninstall, ScmInstall, ScmUninstall

LEMMA AtFacts ==
    ASSUME TypeOK
    PROVE  /\ At("write") => os # "scm" /\ Installing /\ cmd.at = 1
           /\ At("reload") => os = "systemd" /\ cmd.at = IF Installing THEN 2 ELSE 4
           /\ At("enable") => os = "systemd" /\ Installing /\ cmd.at = 3
           /\ At("start") => os # "launchd" /\ Installing /\ cmd.at = Len(Steps)
           /\ At("stop") => os # "launchd" /\ cmd.at = 1 /\ (os = "systemd" => ~Installing)
           /\ At("unload") => os = "launchd" /\ cmd.at = IF Installing THEN 2 ELSE 1
           /\ At("load") => os = "launchd" /\ Installing /\ cmd.at = 3
           /\ At("delete") => os = "scm" /\ cmd.at = 2
           /\ At("create") => os = "scm" /\ Installing /\ cmd.at = 3
           /\ At("environment") => os = "scm" /\ Installing /\ cmd.at = 4
           /\ At("failure") => os = "scm" /\ Installing /\ cmd.at = 5
           /\ At("disable") => os = "systemd" /\ ~Installing /\ cmd.at = 2
           /\ At("remove") =>
                  os # "scm" /\ ~Installing /\ cmd.at = IF os = "systemd" THEN 3 ELSE 2
<1>1. Busy => cmd.at \in Nat /\ 1 <= cmd.at /\ cmd.at <= Len(Steps)
  BY DEF TypeOK, Busy
<1>2. os \in Managers
  BY DEF TypeOK, ProcessTypeOK
<1>3. CASE os = "systemd" /\ Installing
  <2>1. Len(Steps) = 4
    BY <1>2, <1>3, StepsAre
  <2>2. Busy => cmd.at \in {1, 2, 3, 4}
    BY <1>1, <2>1
  <2>3. Steps[1] = "write" /\ Steps[2] = "reload" /\ Steps[3] = "enable" /\ Steps[4] = "start"
    BY <1>2, <1>3, StepsAre
  <2> QED BY <2>1, <2>2, <2>3, <1>2, <1>3 DEF At
<1>4. CASE os = "systemd" /\ ~Installing
  <2>1. Len(Steps) = 4
    BY <1>2, <1>4, StepsAre
  <2>2. Busy => cmd.at \in {1, 2, 3, 4}
    BY <1>1, <2>1
  <2>3. Steps[1] = "stop" /\ Steps[2] = "disable" /\ Steps[3] = "remove" /\ Steps[4] = "reload"
    BY <1>2, <1>4, StepsAre
  <2> QED BY <2>1, <2>2, <2>3, <1>2, <1>4 DEF At
<1>5. CASE os = "launchd" /\ Installing
  <2>1. Len(Steps) = 3
    BY <1>2, <1>5, StepsAre
  <2>2. Busy => cmd.at \in {1, 2, 3}
    BY <1>1, <2>1
  <2>3. Steps[1] = "write" /\ Steps[2] = "unload" /\ Steps[3] = "load"
    BY <1>2, <1>5, StepsAre
  <2> QED BY <2>1, <2>2, <2>3, <1>2, <1>5 DEF At
<1>6. CASE os = "launchd" /\ ~Installing
  <2>1. Len(Steps) = 2
    BY <1>2, <1>6, StepsAre
  <2>2. Busy => cmd.at \in {1, 2}
    BY <1>1, <2>1
  <2>3. Steps[1] = "unload" /\ Steps[2] = "remove"
    BY <1>2, <1>6, StepsAre
  <2> QED BY <2>1, <2>2, <2>3, <1>2, <1>6 DEF At
<1>7. CASE os = "scm" /\ Installing
  <2>1. Len(Steps) = 6
    BY <1>2, <1>7, StepsAre
  <2>2. Busy => cmd.at \in {1, 2, 3, 4, 5, 6}
    BY <1>1, <2>1
  <2>3. /\ Steps[1] = "stop" /\ Steps[2] = "delete" /\ Steps[3] = "create"
        /\ Steps[4] = "environment" /\ Steps[5] = "failure" /\ Steps[6] = "start"
    BY <1>2, <1>7, StepsAre
  <2> QED BY <2>1, <2>2, <2>3, <1>2, <1>7 DEF At
<1>8. CASE os = "scm" /\ ~Installing
  <2>1. Len(Steps) = 2
    BY <1>2, <1>8, StepsAre
  <2>2. Busy => cmd.at \in {1, 2}
    BY <1>1, <2>1
  <2>3. Steps[1] = "stop" /\ Steps[2] = "delete"
    BY <1>2, <1>8, StepsAre
  <2> QED BY <2>1, <2>2, <2>3, <1>2, <1>8 DEF At
<1> QED BY <1>2, <1>3, <1>4, <1>5, <1>6, <1>7, <1>8 DEF Managers

\* How many steps there are depends on the command and the manager alone.
LEMMA SameSteps ==
    ASSUME os' = os, cmd'.config = cmd.config
    PROVE  Steps' = Steps /\ Installing' = Installing
BY DEF Steps, Installing, Installs, Uninstalls, SystemdInstall, SystemdUninstall, LaunchdInstall,
       LaunchdUninstall, ScmInstall, ScmUninstall

LEMMA ProceedFacts ==
    ASSUME TypeOK, Busy, Proceed
    PROVE  /\ cmd' \in [at : Nat, config : Configs \cup {None}]
           /\ cmd'.config = cmd.config
           /\ budget' = budget
           /\ report' \in {"none", "installed", "removed", "error"}
           /\ cmd.at # Len(Steps) => cmd'.at = cmd.at + 1 /\ report' = report
           /\ cmd.at = Len(Steps) =>
                  cmd'.at = 0 /\ report' = IF Installing THEN "installed" ELSE "removed"
           /\ Installing' = Installing
           /\ cmd'.at <= Len(Steps)
<1>1. Len(Steps) \in Nat
  <2>1. os \in Managers
    BY DEF TypeOK, ProcessTypeOK
  <2> QED BY <2>1, StepsAre DEF Managers
<1> QED BY <1>1 DEF TypeOK, Busy, Proceed, Installing

LEMMA HowMany ==
    ASSUME os \in Managers
    PROVE  /\ os = "systemd" => Len(Steps) = 4
           /\ os = "launchd" /\ Installing => Len(Steps) = 3
           /\ os = "launchd" /\ ~Installing => Len(Steps) = 2
           /\ os = "scm" /\ Installing => Len(Steps) = 6
           /\ os = "scm" /\ ~Installing => Len(Steps) = 2
<1>1. CASE os = "systemd"
  BY <1>1, StepsAre
<1>2. CASE os = "launchd"
  BY <1>2, StepsAre
<1>3. CASE os = "scm"
  BY <1>3, StepsAre
<1> QED BY <1>1, <1>2, <1>3 DEF Managers

LEMMA LenSteps == os \in Managers => Len(Steps) \in Nat /\ Len(Steps) > 1
BY HowMany DEF Managers

LEMMA Definitions ==
    ASSUME NEW c \in Configs
    PROVE  Whole(c) \in Definition /\ Part(c) \in Definition
BY DEF Whole, Part, Definition

\* A process step of the manager's model leaves os alone, and a process that
\* runs on keeps its stop.
LEMMA ProcessFacts ==
    ASSUME TypeOK, Process
    PROVE  /\ os' = os
           /\ stage = "down" => stage' = "down"
           /\ stop => stop' \/ stage' = "down"
           /\ active' \in BOOLEAN /\ (active' => active)
           /\ UNCHANGED <<unit, known, running, enabled, doomed, recovers, cmd, budget, report, slipped, kept>>
BY DEF Process, Serve, Ready, Listen, Drain, Shutdown, Fail, Leave, Pass, LoseListener, Kill,
       RequestStop, Accept, Finish, End, TypeOK, ProcessTypeOK

\* Every step of a command but Begin goes on to the next one.
Proceeding ==
    \/ WriteUnit \/ Reload \/ Enable \/ Start \/ Stopped \/ Unloaded \/ Load
    \/ Delete \/ Create \/ SetEnvironment \/ SetFailure \/ Disable \/ Remove

LEMMA TypeStep == ASSUME ProcessInv, TypeOK, [Next]_serviceVars PROVE TypeOK'
<1>1. ProcessTypeOK'
  BY ProcessStep, ServiceIsProcess DEF ProcessInv
<1>2. os' = os
  BY ServiceIsProcess DEF processVars, ProcessNext, Launch, Serve, Ready, Listen, Drain, Shutdown,
     Fail, Leave, Pass, LoseListener, Kill, RequestStop, Accept, Finish, End
<1>3. CASE UNCHANGED serviceVars
  BY <1>1, <1>2, <1>3, SameSteps DEF serviceVars, managerVars, TypeOK
<1>4. CASE Process
  BY <1>1, <1>2, <1>4, ProcessFacts, SameSteps DEF TypeOK
<1>5. CASE Relaunch
  <2>1. running' \in Definition \cup {None}
    BY <1>5 DEF Relaunch, LaunchFrom, Effective, TypeOK
  <2> QED BY <1>1, <1>2, <1>5, <2>1, SameSteps DEF Relaunch, LaunchFrom, TypeOK
<1>6. CASE Purge
  BY <1>1, <1>2, <1>6, SameSteps DEF Purge, TypeOK
<1>7. CASE Boot
  <2>1. cmd' \in [at : Nat, config : Configs \cup {None}] /\ cmd'.at = 0 /\ cmd'.config = cmd.config
    BY <1>7 DEF Boot, TypeOK
  <2>2. /\ unit' \in Definition \cup {None} /\ known' \in Definition \cup {None}
        /\ enabled' \in BOOLEAN /\ active' \in BOOLEAN /\ doomed' \in BOOLEAN
        /\ recovers' \in BOOLEAN
        /\ report' \in {"none", "installed", "removed", "error"}
    BY <1>7 DEF Boot, TypeOK
  <2>3. UNCHANGED <<running, budget, slipped, kept>>
    BY <1>7 DEF Boot
  <2> QED BY <1>1, <1>2, <2>1, <2>2, <2>3, SameSteps, LenSteps DEF ProcessTypeOK, TypeOK
<1>8. CASE Begin
  <2>1. cmd' \in [at : Nat, config : Configs \cup {None}] /\ cmd'.at = 1
    BY <1>8 DEF Begin
  <2>2. budget' \in 0..MaxCommands
    BY <1>8, ServiceAssumption DEF Begin, TypeOK
  <2>3. Len(Steps') \in Nat /\ Len(Steps') > 1
    <3>1. (os \in Managers => Len(Steps) \in Nat /\ Len(Steps) > 1)'
      BY LenSteps, PTL
    <3> QED BY <1>1, <3>1 DEF ProcessTypeOK
  <2>4. cmd'.at <= Len(Steps')
    BY <2>1, <2>3
  <2>5. /\ UNCHANGED <<unit, known, running, enabled, active, doomed, recovers, kept>>
        /\ report' = "none" /\ slipped' = FALSE
    BY <1>8 DEF Begin, managerVars
  <2> QED BY <1>1, <2>1, <2>2, <2>4, <2>5 DEF TypeOK
<1>9. CASE StepFails
  <2>1. unit' \in Definition \cup {None}
    <3>1. At("write") => cmd.config \in Configs
      BY AtFacts DEF Installing, TypeOK
    <3> QED BY <1>9, <3>1, Definitions DEF StepFails, At, TypeOK
  <2>2. CASE Proceed /\ slipped' = TRUE
    BY <1>1, <1>2, <1>9, <2>1, <2>2, ProceedFacts, SameSteps DEF StepFails, TypeOK
  <2>3. CASE cmd' = [cmd EXCEPT !.at = 0] /\ report' = "error" /\ UNCHANGED <<budget, slipped>>
    <3>1. cmd' \in [at : Nat, config : Configs \cup {None}] /\ cmd'.at = 0 /\ cmd'.config = cmd.config
      BY <2>3 DEF TypeOK
    <3> QED BY <1>1, <1>2, <1>9, <2>1, <2>3, <3>1, SameSteps, LenSteps DEF ProcessTypeOK, StepFails, TypeOK
  <2> QED BY <1>9, <2>2, <2>3 DEF StepFails
<1>10. CASE AskToEnd
  <2>1. Busy
    BY <1>10 DEF AskToEnd, At
  <2>2. CASE Proceed
    BY <1>1, <1>2, <1>10, <2>1, <2>2, ProceedFacts, SameSteps DEF AskToEnd, TypeOK
  <2>3. CASE UNCHANGED <<cmd, report, budget>>
    BY <1>1, <1>2, <1>10, <2>3, SameSteps DEF AskToEnd, TypeOK
  <2> QED BY <1>10, <2>2, <2>3 DEF AskToEnd
<1>11. CASE Proceeding
  <2>1. Busy /\ Proceed
    BY <1>11 DEF Proceeding, WriteUnit, Reload, Enable, Start, Stopped, Unloaded, Load, Delete,
       Create, SetEnvironment, SetFailure, Disable, Remove, At
  <2>2. /\ cmd' \in [at : Nat, config : Configs \cup {None}] /\ cmd'.at <= Len(Steps')
        /\ budget' \in 0..MaxCommands
        /\ report' \in {"none", "installed", "removed", "error"}
    BY <1>2, <2>1, ProceedFacts, SameSteps DEF TypeOK
  <2>3. Installing => cmd.config \in Configs
    BY DEF Installing, TypeOK
  <2>4. At("write") \/ At("create") \/ At("environment") => Installing
    BY AtFacts
  <2>5. /\ unit' \in Definition \cup {None} /\ known' \in Definition \cup {None}
        /\ running' \in Definition \cup {None}
        /\ enabled' \in BOOLEAN /\ active' \in BOOLEAN /\ doomed' \in BOOLEAN
        /\ recovers' \in BOOLEAN
        /\ slipped' \in BOOLEAN /\ kept' \in BOOLEAN
    BY <1>11, <2>3, <2>4, Definitions DEF Installing, Proceeding, WriteUnit, Reload, Enable, Start, Stopped, Unloaded, Load,
       Delete, Create, SetEnvironment, SetFailure, Disable, Remove, LaunchFrom, Effective, TypeOK
  <2> QED BY <1>1, <2>2, <2>5 DEF TypeOK
<1> QED BY <1>3, <1>4, <1>5, <1>6, <1>7, <1>8, <1>9, <1>10, <1>11 DEF Next, Command, Proceeding

\* Every variable of the process, its manager and the commands stays in its type.
THEOREM ServiceTypeCorrect == Spec => []TypeOK
<1>1. Init => TypeOK
  <2> SUFFICES ASSUME Init PROVE TypeOK
    OBVIOUS
  <2>1. ProcessTypeOK
    <3>1. 0 \in 0..Grace
      BY GraceAssumption
    <3> QED BY <3>1 DEF Init, ProcessInit, ProcessTypeOK
  <2>2. Len(Steps) \in Nat
    BY <2>1, LenSteps DEF ProcessTypeOK
  <2>3. cmd \in [at : Nat, config : Configs \cup {None}] /\ cmd.at <= Len(Steps)
    BY <2>2 DEF Init
  <2>4. budget \in 0..MaxCommands
    BY ServiceAssumption DEF Init
  <2> QED BY <2>1, <2>3, <2>4 DEF Init, TypeOK
<1>2. ProcessInv /\ TypeOK /\ [Next]_serviceVars => TypeOK'
  BY TypeStep
<1> QED BY <1>1, <1>2, ProcessInductive, PTL DEF Spec

--------------------------------------------------------------------------------
\* What a command has achieved, from step to step, and still holds afterwards.

\* Each step that is over has had its effect, since an install goes on only
\* after errors that do not matter to it.
InstallSoFar ==
    Busy /\ Installing =>
        /\ os # "scm" /\ cmd.at > 1 => unit = Whole(cmd.config)
        /\ os = "systemd" /\ cmd.at > 2 => known = unit
        /\ os = "systemd" /\ cmd.at > 3 => enabled
        /\ os = "scm" /\ cmd.at > 3 => unit # None /\ ~doomed /\ enabled
        /\ os = "scm" /\ cmd.at > 4 => unit = Whole(cmd.config)

Installed ==
    report = "installed" =>
        /\ ~Busy /\ Installing
        /\ unit = Whole(cmd.config) /\ ~doomed
        /\ os # "scm" => known = unit
        /\ enabled
        /\ stage # "down" /\ ~kept => running = unit

\* The manager wants no process any more before the definition goes, so none
\* comes back while the rest of the command runs.
UninstallSoFar ==
    Busy /\ ~Installing /\ ~slipped /\ cmd.at > 1 =>
        /\ ~active
        /\ stage = "down" \/ (os = "scm" /\ stop)
        /\ os = "systemd" /\ cmd.at > 3 => unit = None
        /\ os = "launchd" => known = None

Removed ==
    report = "removed" =>
        /\ ~Busy /\ ~Installing
        /\ ~slipped =>
            /\ ~active
            /\ stage = "down" \/ (os = "scm" /\ stop)
            /\ unit = None \/ doomed
            /\ os # "scm" => unit = None /\ known = None

CommandInv ==
    /\ doomed => os = "scm" /\ unit # None
    /\ Busy => report = "none"
    /\ InstallSoFar /\ Installed /\ UninstallSoFar /\ Removed

LEMMA ManagerStep ==
    ASSUME TypeOK, CommandInv, Process \/ Relaunch \/ Purge \/ Boot \/ UNCHANGED serviceVars
    PROVE  CommandInv'
<1>1. CASE Process
  BY <1>1, ProcessFacts DEF CommandInv, InstallSoFar, Installed, UninstallSoFar, Removed, Busy,
     Installing
<1>2. CASE Relaunch
  <2>1. /\ active /\ running' = Effective /\ kept' = FALSE
        /\ UNCHANGED <<os, unit, known, enabled, active, doomed, cmd, budget, report, slipped>>
    BY <1>2 DEF Relaunch, LaunchFrom, Launch
  <2>2. Busy' = Busy /\ Installing' = Installing
    BY <2>1 DEF Busy, Installing
  <2>3. InstallSoFar' /\ Installed'
    BY <2>1, <2>2 DEF Effective, CommandInv, InstallSoFar, Installed
  <2>4. UninstallSoFar' /\ Removed'
    BY <2>1, <2>2 DEF CommandInv, UninstallSoFar, Removed
  <2> QED BY <2>1, <2>2, <2>3, <2>4 DEF CommandInv
<1>3. CASE Purge
  <2>1. cmd.at \in Nat
    BY DEF TypeOK
  <2> QED BY <1>3, <2>1 DEF Purge, processVars, CommandInv, InstallSoFar, Installed,
        UninstallSoFar, Removed, Busy, Installing
<1>4. CASE Boot
  <2>1. ~Busy' /\ Installing' = Installing /\ cmd'.config = cmd.config
    BY <1>4 DEF Boot, Busy, Installing, TypeOK
  <2>2. os' = os /\ stage' = "down"
    BY <1>4 DEF Boot, Kill, End, processVars
  <2> QED BY <1>4, <2>1, <2>2 DEF Boot, CommandInv, InstallSoFar, Installed, UninstallSoFar,
        Removed, TypeOK, ProcessTypeOK, Managers
<1>5. CASE UNCHANGED serviceVars
  BY <1>5 DEF serviceVars, managerVars, processVars, CommandInv, InstallSoFar, Installed,
     UninstallSoFar, Removed, Busy, Installing
<1> QED BY <1>1, <1>2, <1>3, <1>4, <1>5

LEMMA BeginStep == ASSUME TypeOK, CommandInv, Begin PROVE CommandInv'
BY DEF Begin, managerVars, processVars, CommandInv, InstallSoFar, Installed, UninstallSoFar,
   Removed, Busy

\* A command that goes on is at its next step, or over.
LEMMA GoesOn ==
    ASSUME TypeOK, CommandInv, Busy, Proceed
    PROVE  /\ Installing' = Installing /\ cmd'.config = cmd.config
           /\ Busy' => cmd'.at = cmd.at + 1 /\ cmd.at # Len(Steps) /\ report' = "none"
           /\ report' = "installed" => ~Busy' /\ Installing /\ cmd.at = Len(Steps)
           /\ report' = "removed" => ~Busy' /\ ~Installing /\ cmd.at = Len(Steps)
           /\ cmd.at \in Nat /\ cmd.at > 0
           /\ report = "none"
BY ProceedFacts DEF Busy, CommandInv, TypeOK

LEMMA StepFailsStep == ASSUME TypeOK, CommandInv, StepFails PROVE CommandInv'
<1>1. Busy /\ os \in Managers
  BY DEF StepFails, TypeOK, ProcessTypeOK
<1>2. /\ UNCHANGED <<os, stage, stop, known, running, enabled, active, doomed, kept>>
      /\ unit' = unit \/ At("write")
  BY DEF StepFails, processVars, At
<1>3. CASE cmd' = [cmd EXCEPT !.at = 0] /\ report' = "error"
  <2>1. ~Busy'
    BY <1>3 DEF Busy, TypeOK
  <2>2. doomed => ~At("write")
    BY AtFacts DEF CommandInv
  <2> QED BY <1>2, <1>3, <2>1, <2>2 DEF CommandInv, InstallSoFar, Installed, UninstallSoFar, Removed
<1>4. CASE Ignored(Steps[cmd.at]) /\ Proceed /\ slipped' = TRUE
  <2>1. Installing => (os = "launchd" /\ cmd.at = 2) \/ (os = "scm" /\ cmd.at \in {1, 2, 5})
    <3>1. Steps[cmd.at] \in {"unload", "stop", "delete", "failure"} \/ ~Installing
      BY <1>4 DEF Ignored
    <3> QED BY <1>1, <3>1, AtFacts DEF At, Managers
  <2>2. ~At("write") /\ unit' = unit
    BY <1>1, <1>2, <1>4, <2>1, AtFacts DEF Ignored, At
  <2>3. ASSUME Installing PROVE cmd.at # Len(Steps)
    <3>1. CASE os = "launchd" /\ cmd.at = 2
      BY <1>1, <2>3, <3>1, HowMany
    <3>2. CASE os = "scm" /\ cmd.at \in {1, 2, 5}
      BY <1>1, <2>3, <3>2, HowMany
    <3> QED BY <2>1, <2>3, <3>1, <3>2
  <2>4. InstallSoFar' /\ Installed'
    BY <1>1, <1>2, <1>4, <2>1, <2>2, <2>3, GoesOn DEF CommandInv, InstallSoFar, Installed
  <2>5. UninstallSoFar' /\ Removed'
    BY <1>1, <1>2, <1>4, <2>2, GoesOn DEF UninstallSoFar, Removed
  <2> QED BY <1>1, <1>2, <1>4, <2>2, <2>4, <2>5, GoesOn DEF CommandInv
<1> QED BY <1>1, <1>3, <1>4 DEF StepFails

LEMMA InstallStep ==
    ASSUME TypeOK, CommandInv,
           WriteUnit \/ Enable \/ Start \/ Load \/ Create \/ SetEnvironment \/ SetFailure
    PROVE  CommandInv'
<1>1. /\ Busy /\ Proceed /\ Installing /\ os \in Managers /\ cmd.at \in Nat
      /\ UNCHANGED <<os, doomed, slipped>>
  BY AtFacts DEF WriteUnit, Enable, Start, Load, Create, SetEnvironment, SetFailure, LaunchFrom, Launch,
     processVars, At, TypeOK, ProcessTypeOK
<1>2. UninstallSoFar' /\ Removed'
  BY <1>1, GoesOn DEF UninstallSoFar, Removed
<1>3. CASE WriteUnit
  <2>1. os # "scm" /\ cmd.at = 1 /\ cmd.at # Len(Steps)
    BY <1>1, <1>3, AtFacts, LenSteps DEF WriteUnit
  <2>2. ~doomed'
    BY <1>1, <2>1 DEF CommandInv
  <2>3. unit' = Whole(cmd.config)
    BY <1>3 DEF WriteUnit
  <2>4. (Busy' => cmd'.at = 2) /\ report' # "installed"
    BY <1>1, <2>1, GoesOn
  <2>5. InstallSoFar'
    BY <1>1, <2>1, <2>3, <2>4, GoesOn DEF InstallSoFar
  <2> QED BY <1>1, <1>2, <2>2, <2>4, <2>5, GoesOn DEF CommandInv, Installed
<1>4. CASE Enable
  <2>1. os = "systemd" /\ cmd.at = 3 /\ cmd.at # Len(Steps)
    BY <1>1, <1>4, AtFacts, HowMany DEF Enable
  <2>2. unit = Whole(cmd.config) /\ known = unit /\ ~doomed
    BY <1>1, <2>1 DEF CommandInv, InstallSoFar
  <2>3. UNCHANGED <<unit, known>> /\ enabled'
    BY <1>4 DEF Enable
  <2>4. (Busy' => cmd'.at = 4) /\ report' # "installed"
    BY <1>1, <2>1, GoesOn
  <2> QED BY <1>1, <1>2, <2>1, <2>2, <2>3, <2>4, GoesOn DEF CommandInv, InstallSoFar, Installed
<1>5. CASE Start
  <2>1. /\ cmd.at = Len(Steps) /\ ~Busy'
        /\ (os = "systemd" /\ cmd.at = 4) \/ (os = "scm" /\ cmd.at = 6)
    BY <1>1, <1>5, AtFacts, HowMany, ProceedFacts DEF Start, Managers, Busy
  <2>2. unit = Whole(cmd.config) /\ ~doomed /\ (os # "scm" => known = unit) /\ enabled
    <3>1. CASE os = "systemd" /\ cmd.at = 4
      BY <1>1, <3>1 DEF CommandInv, InstallSoFar
    <3>2. CASE os = "scm" /\ cmd.at = 6
      BY <1>1, <3>2 DEF CommandInv, InstallSoFar
    <3> QED BY <2>1, <3>1, <3>2
  <2>3. running' = unit \/ kept'
    BY <1>5, <2>1, <2>2 DEF Start, LaunchFrom, Effective
  <2>4. UNCHANGED <<unit, known, enabled>>
    BY <1>5 DEF Start
  <2> QED BY <1>1, <1>2, <2>1, <2>2, <2>3, <2>4, GoesOn DEF CommandInv, InstallSoFar, Installed
<1>6. CASE Load
  <2>1. os = "launchd" /\ cmd.at = 3 /\ cmd.at = Len(Steps) /\ ~Busy'
    BY <1>1, <1>6, AtFacts, HowMany, ProceedFacts DEF Load, Busy
  <2>2. unit = Whole(cmd.config) /\ ~doomed
    BY <1>1, <2>1 DEF CommandInv, InstallSoFar
  <2>3. UNCHANGED unit /\ known' = unit /\ running' = unit /\ enabled'
    BY <1>6 DEF Load, LaunchFrom
  <2> QED BY <1>1, <1>2, <2>1, <2>2, <2>3, GoesOn DEF CommandInv, InstallSoFar, Installed
<1>7. CASE Create
  <2>1. os = "scm" /\ cmd.at = 3 /\ cmd.at # Len(Steps)
    BY <1>1, <1>7, AtFacts, HowMany DEF Create
  <2>2. cmd.config \in Configs
    BY <1>1 DEF TypeOK, Installing
  <2>3. ~doomed /\ unit' # None /\ enabled'
    BY <1>7, <2>2, Definitions, ServiceAssumption DEF Create, CommandInv
  <2>4. (Busy' => cmd'.at = 4) /\ report' # "installed"
    BY <1>1, <2>1, GoesOn
  <2>5. InstallSoFar'
    BY <1>1, <2>1, <2>3, <2>4, GoesOn DEF InstallSoFar
  <2> QED BY <1>1, <1>2, <2>3, <2>4, <2>5, GoesOn DEF CommandInv, Installed
<1>8. CASE SetEnvironment
  <2>1. os = "scm" /\ cmd.at = 4 /\ cmd.at # Len(Steps)
    BY <1>1, <1>8, AtFacts, HowMany DEF SetEnvironment
  <2>2. cmd.config \in Configs
    BY <1>1 DEF TypeOK, Installing
  <2>3. ~doomed /\ enabled
    BY <1>1, <2>1 DEF CommandInv, InstallSoFar
  <2>4. unit' = Whole(cmd.config) /\ unit' # None /\ enabled' = enabled
    BY <1>8, <2>2, Definitions, ServiceAssumption DEF SetEnvironment
  <2>5. (Busy' => cmd'.at = 5) /\ report' # "installed"
    BY <1>1, <2>1, GoesOn
  <2> QED BY <1>1, <1>2, <2>1, <2>3, <2>4, <2>5, GoesOn DEF CommandInv, InstallSoFar, Installed
<1>9. CASE SetFailure
  <2>1. os = "scm" /\ cmd.at = 5 /\ cmd.at # Len(Steps)
    BY <1>1, <1>9, AtFacts, HowMany DEF SetFailure
  <2>2. unit = Whole(cmd.config) /\ unit # None /\ ~doomed /\ enabled
    BY <1>1, <2>1 DEF CommandInv, InstallSoFar
  <2>3. UNCHANGED <<unit, enabled>>
    BY <1>9 DEF SetFailure
  <2>4. (Busy' => cmd'.at = 6) /\ report' # "installed"
    BY <1>1, <2>1, GoesOn
  <2> QED BY <1>1, <1>2, <2>1, <2>2, <2>3, <2>4, GoesOn DEF CommandInv, InstallSoFar, Installed
<1> QED BY <1>3, <1>4, <1>5, <1>6, <1>7, <1>8, <1>9

\* What an uninstall has achieved, for the steps after its first.
LEMMA Achieved ==
    ASSUME TypeOK, CommandInv, Busy, ~Installing, cmd.at > 1, ~slipped
    PROVE  ~active /\ (stage = "down" \/ (os = "scm" /\ stop))
BY DEF CommandInv, UninstallSoFar

LEMMA StopStep ==
    ASSUME TypeOK, CommandInv, AskToEnd \/ Stopped \/ Unloaded
    PROVE  CommandInv'
<1>1. /\ Busy /\ os \in Managers /\ cmd.at \in Nat
      /\ UNCHANGED <<os, unit, running, doomed, slipped, kept>> /\ ~active'
  BY DEF AskToEnd, Stopped, Unloaded, RequestStop, processVars, At, TypeOK, ProcessTypeOK
<1>2. doomed' => os' = "scm" /\ unit' # None
  BY <1>1 DEF CommandInv
<1>3. CASE AskToEnd /\ os # "scm"
  <2>1. UNCHANGED <<cmd, report, known, enabled>> /\ report = "none"
    BY <1>1, <1>3 DEF AskToEnd, CommandInv
  <2>2. Installing \/ cmd.at = 1
    BY <1>3, AtFacts DEF AskToEnd
  <2>3. Busy' = Busy /\ Installing' = Installing
    BY <2>1 DEF Busy, Installing
  <2> QED BY <1>1, <1>2, <1>3, <2>1, <2>2, <2>3 DEF CommandInv, InstallSoFar, Installed,
        UninstallSoFar, Removed
<1>4. CASE (AskToEnd /\ os = "scm") \/ (Stopped /\ (os = "scm" \/ ~Installing))
  <2>1. Proceed /\ cmd.at = 1 /\ (stage' = "down" \/ (os = "scm" /\ stop'))
    BY <1>4, AtFacts DEF AskToEnd, Stopped, RequestStop, processVars
  <2>2. os # "launchd" /\ cmd.at # Len(Steps)
    <3>1. os # "launchd"
      BY <1>4, AtFacts DEF Stopped
    <3>2. \A n \in Nat : n > 1 => 1 # n
      OBVIOUS
    <3>3. 1 # Len(Steps)
      BY <1>1, <3>2, LenSteps
    <3> QED BY <2>1, <3>1, <3>3
  <2>3. (Busy' => cmd'.at = 2) /\ report' # "installed" /\ report' # "removed"
    BY <1>1, <2>1, <2>2, GoesOn
  <2>4. InstallSoFar'
    <3>1. CASE os = "scm"
      BY <1>1, <2>3, <3>1 DEF InstallSoFar
    <3>2. CASE ~Installing
      BY <1>1, <2>1, <3>2, GoesOn DEF InstallSoFar
    <3> QED BY <1>4, <3>1, <3>2
  <2>5. UninstallSoFar'
    BY <1>1, <2>1, <2>2, <2>3 DEF UninstallSoFar
  <2> QED BY <1>1, <1>2, <2>1, <2>3, <2>4, <2>5, GoesOn DEF CommandInv, Installed, Removed
<1>5. CASE Unloaded
  <2>1. /\ os = "launchd" /\ Proceed /\ cmd.at = IF Installing THEN 2 ELSE 1
        /\ stage' = "down" /\ known' = None
    BY <1>5, AtFacts DEF Unloaded, processVars
  <2>2. cmd.at # Len(Steps)
    <3>1. CASE Installing
      BY <1>1, <2>1, <3>1, HowMany
    <3>2. CASE ~Installing
      BY <1>1, <2>1, <3>2, HowMany
    <3> QED BY <3>1, <3>2
  <2>3. (Busy' => cmd'.at = cmd.at + 1) /\ report' # "installed" /\ report' # "removed"
    BY <1>1, <2>1, <2>2, GoesOn
  <2>4. Installing => unit = Whole(cmd.config)
    BY <1>1, <2>1 DEF CommandInv, InstallSoFar
  <2>5. InstallSoFar'
    BY <1>1, <2>1, <2>3, <2>4, GoesOn DEF InstallSoFar
  <2>6. UninstallSoFar'
    BY <1>1, <2>1, <2>3, GoesOn DEF UninstallSoFar
  <2> QED BY <1>1, <1>2, <2>1, <2>3, <2>5, <2>6, GoesOn DEF CommandInv, Installed, Removed
<1> QED BY <1>1, <1>3, <1>4, <1>5, AtFacts DEF Stopped, Managers

LEMMA ReloadStep == ASSUME TypeOK, CommandInv, Reload PROVE CommandInv'
<1>1. /\ Busy /\ Proceed /\ os = "systemd" /\ os \in Managers
      /\ UNCHANGED <<os, stage, stop, unit, running, active, doomed, slipped, kept>>
      /\ known' = unit /\ cmd.at = IF Installing THEN 2 ELSE 4
  BY AtFacts DEF Reload, processVars, At, TypeOK, ProcessTypeOK
<1>2. ~doomed'
  BY <1>1 DEF CommandInv
<1>3. Len(Steps) = 4
  BY <1>1, HowMany
<1>4. CASE Installing
  <2>1. unit = Whole(cmd.config)
    BY <1>1, <1>4 DEF CommandInv, InstallSoFar
  <2>2. (Busy' => cmd'.at = 3) /\ report' # "installed" /\ report' # "removed"
    BY <1>1, <1>3, <1>4, GoesOn
  <2>3. InstallSoFar' /\ UninstallSoFar'
    BY <1>1, <1>4, <2>1, <2>2, GoesOn DEF InstallSoFar, UninstallSoFar
  <2> QED BY <1>1, <1>2, <2>2, <2>3, GoesOn DEF CommandInv, Installed, Removed
<1>5. CASE ~Installing
  <2>1. ~Busy' /\ report' # "installed"
    BY <1>1, <1>3, <1>5, ProceedFacts, GoesOn DEF Busy
  <2>2. ~slipped => unit = None /\ ~active /\ stage = "down"
    BY <1>1, <1>5 DEF CommandInv, UninstallSoFar
  <2>3. Removed'
    BY <1>1, <1>5, <2>1, <2>2, GoesOn DEF Removed
  <2> QED BY <1>1, <1>2, <2>1, <2>3, GoesOn DEF CommandInv, Installed, InstallSoFar, UninstallSoFar
<1> QED BY <1>4, <1>5

LEMMA DeleteStep == ASSUME TypeOK, CommandInv, Delete PROVE CommandInv'
<1>1. /\ Busy /\ Proceed /\ os = "scm" /\ os \in Managers /\ cmd.at = 2
      /\ UNCHANGED <<os, stage, stop, known, running, active, slipped, kept>>
      /\ unit' = None \/ doomed'
      /\ doomed' => unit' # None
  BY AtFacts DEF Delete, processVars, At, TypeOK, ProcessTypeOK
<1>2. report' # "installed" /\ (Busy' => cmd'.at = 3)
  <2>1. CASE Installing
    BY <1>1, <2>1, GoesOn, HowMany
  <2>2. CASE ~Installing
    BY <1>1, <2>2, GoesOn, HowMany
  <2> QED BY <2>1, <2>2
<1>3. InstallSoFar' /\ Installed'
  BY <1>1, <1>2 DEF InstallSoFar, Installed
<1>4. Busy' => Installing'
  BY <1>1, GoesOn, HowMany
<1>5. Removed'
  <2>1. ~Installing /\ ~slipped => ~active /\ (stage = "down" \/ stop)
    BY <1>1, Achieved
  <2> QED BY <1>1, <2>1, GoesOn DEF Removed
<1> QED BY <1>1, <1>3, <1>4, <1>5, GoesOn DEF CommandInv, UninstallSoFar

LEMMA RemoveStep == ASSUME TypeOK, CommandInv, Disable \/ Remove PROVE CommandInv'
<1>1. /\ Busy /\ Proceed /\ ~Installing /\ os # "scm" /\ os \in Managers /\ cmd.at \in Nat
      /\ UNCHANGED <<os, stage, stop, known, running, active, doomed, slipped, kept>>
      /\ cmd.at > 1
  BY AtFacts DEF Disable, Remove, processVars, At, TypeOK, ProcessTypeOK
<1>2. ~doomed' /\ InstallSoFar' /\ Installed'
  BY <1>1, GoesOn DEF CommandInv, InstallSoFar, Installed
<1>3. ~slipped => ~active /\ stage = "down"
  BY <1>1, Achieved
<1>4. CASE Disable
  <2>1. os = "systemd" /\ cmd.at = 2 /\ cmd.at # Len(Steps)
    BY <1>1, <1>4, AtFacts, HowMany DEF Disable
  <2>2. (Busy' => cmd'.at = 3) /\ report' # "removed"
    BY <1>1, <2>1, GoesOn
  <2>3. UninstallSoFar'
    BY <1>1, <1>3, <2>1, <2>2 DEF UninstallSoFar
  <2> QED BY <1>1, <1>2, <2>2, <2>3, GoesOn DEF CommandInv, Removed
<1>5. CASE Remove /\ os = "systemd"
  <2>1. cmd.at = 3 /\ cmd.at # Len(Steps) /\ unit' = None
    BY <1>1, <1>5, AtFacts, HowMany DEF Remove
  <2>2. (Busy' => cmd'.at = 4) /\ report' # "removed"
    BY <1>1, <2>1, GoesOn
  <2>3. UninstallSoFar'
    BY <1>1, <1>3, <1>5, <2>1, <2>2 DEF UninstallSoFar
  <2> QED BY <1>1, <1>2, <2>2, <2>3, GoesOn DEF CommandInv, Removed
<1>6. CASE Remove /\ os = "launchd"
  <2>1. cmd.at = 2 /\ cmd.at = Len(Steps) /\ unit' = None
    BY <1>1, <1>6, AtFacts, HowMany DEF Remove
  <2>2. ~Busy'
    BY <1>1, <2>1, GoesOn
  <2>3. ~slipped => known = None
    BY <1>1, <1>6, <2>1 DEF CommandInv, UninstallSoFar
  <2>4. Removed'
    BY <1>1, <1>3, <2>1, <2>2, <2>3, GoesOn DEF Removed
  <2> QED BY <1>1, <1>2, <2>2, <2>4 DEF CommandInv, UninstallSoFar
<1> QED BY <1>1, <1>4, <1>5, <1>6 DEF Managers

\* What the steps of installService and uninstallService have achieved still holds,
\* whatever the process, its manager, and a boot do in between.
THEOREM CommandsInductive == Spec => []CommandInv
<1>1. Init => CommandInv
  BY DEF Init, CommandInv, InstallSoFar, Installed, UninstallSoFar, Removed, Busy
<1>2. TypeOK /\ CommandInv /\ [Next]_serviceVars => CommandInv'
  BY ManagerStep, BeginStep, StepFailsStep, InstallStep, StopStep, ReloadStep, DeleteStep,
     RemoveStep DEF Next, Command
<1> QED BY <1>1, <1>2, ServiceTypeCorrect, PTL DEF Spec

\* An install that reports success is in force, through every crash, restart
\* and boot, until the next command.
THEOREM InstalledIsInForceHolds == Spec => []InstalledIsInForce
<1>1. TypeOK /\ CommandInv => InstalledIsInForce
  BY DEF CommandInv, Installed, InstalledIsInForce, Effective
<1> QED BY <1>1, ServiceTypeCorrect, CommandsInductive, PTL

\* An uninstall that reports success, no step of which has failed unseen, has
\* left nothing that can be launched.
THEOREM RemovedIsGoneHolds == Spec => []RemovedIsGone
<1>1. TypeOK /\ CommandInv => RemovedIsGone
  BY DEF TypeOK, ProcessTypeOK, Managers, CommandInv, Removed, RemovedIsGone, Effective, Launchable
<1> QED BY <1>1, ServiceTypeCorrect, CommandsInductive, PTL

================================================================================
