------------------------------- MODULE Lifecycle -------------------------------
(***************************************************************************)
(* The life of one server process (runServer, cmd/server/main.go, and      *)
(* winSvc.Execute, cmd/server/service_windows.go): from its launch over    *)
(* the listener to the shutdown, with requests in flight.  What it does    *)
(* before it listens is in Startup.                                        *)
(*                                                                         *)
(* Time is counted where something waits for it: for how long a request    *)
(* has been running, and how much of its five seconds Shutdown has left.   *)
(***************************************************************************)
EXTENDS Naturals

CONSTANTS
    Reqs,    \* HTTP requests, each made once in a process's life
    Grace    \* how long Shutdown waits, in clock ticks

ASSUME GraceAssumption == Grace \in Nat

VARIABLES
    os,        \* who runs the process: its service manager
    stage,     \* how far runServer is
    stop,      \* the channel stop is closed
    listener,  \* of ListenAndServe; "failed": it has returned an error
    req,       \* the requests; "cut": never answered properly
    age,       \* history: for how long each has been running; Grace is as long as any
    patience,  \* what is left of the time Shutdown waits
    ended      \* why the last process ended

processVars == <<os, stage, stop, listener, req, age, patience, ended>>

Managers == {"systemd", "launchd", "scm"}

ProcessTypeOK ==
    /\ os \in Managers
    /\ stage \in {"down", "starting", "serving", "draining"}
    /\ stop \in BOOLEAN
    /\ listener \in {"none", "open", "failed"}
    /\ req \in [Reqs -> {"none", "running", "done", "cut"}]
    /\ age \in [Reqs -> 0..Grace] /\ patience \in 0..Grace
    /\ ended \in {"never", "drained", "overdue", "failed", "killed", "left"}
    /\ stage = "down" => listener = "none" /\ \A r \in Reqs : req[r] # "running"

ProcessInit ==
    /\ os \in Managers
    /\ stage = "down" /\ stop = FALSE /\ listener = "none"
    /\ req = [r \in Reqs |-> "none"]
    /\ age = [r \in Reqs |-> 0] /\ patience = 0
    /\ ended = "never"

--------------------------------------------------------------------------------
\* Slips of the kind the properties are there to catch are kept next to the
\* definition they would change, under its name with a suffix.

Running == {r \in Reqs : req[r] = "running"}

Launch ==
    /\ stage = "down"
    /\ stage' = "starting" /\ stop' = FALSE /\ listener' = "none"
    /\ req' = [r \in Reqs |-> "none"]
    /\ age' = [r \in Reqs |-> 0] /\ patience' = 0
    /\ UNCHANGED <<os, ended>>

\* runServer returns: the database is closed, main ends, and with it whatever
\* is still running.
End_Lingering(why) ==
    /\ stage' = "down" /\ listener' = "none"
    /\ ended' = why
    /\ UNCHANGED <<os, stop, req, age, patience>>
End(why) ==
    /\ stage' = "down" /\ listener' = "none"
    /\ req' = [r \in Reqs |-> IF r \in Running THEN "cut" ELSE req[r]]
    /\ ended' = why
    /\ UNCHANGED <<os, stop, age, patience>>

\* The select is reached, the listener's goroutine started.
Ready ==
    /\ stage = "starting"
    /\ stage' = "serving"
    /\ UNCHANGED <<os, stop, listener, req, age, patience, ended>>

\* ListenAndServe: the port is free, or it is not.
Listen ==
    /\ stage = "serving" /\ listener = "none"
    /\ listener' \in {"open", "failed"}
    /\ UNCHANGED <<os, stage, stop, req, age, patience, ended>>

\* Later, Accept may fail.
LoseListener ==
    /\ stage = "serving" /\ listener = "open"
    /\ listener' = "failed"
    /\ UNCHANGED <<os, stage, stop, req, age, patience, ended>>

Accept(r) ==
    /\ stage = "serving" /\ listener = "open" /\ req[r] = "none"
    /\ req' = [req EXCEPT ![r] = "running"]
    /\ UNCHANGED <<os, stage, stop, listener, age, patience, ended>>

Finish(r) ==
    /\ req[r] = "running"
    /\ req' = [req EXCEPT ![r] = "done"]
    /\ UNCHANGED <<os, stage, stop, listener, age, patience, ended>>

\* Time passes for those who wait.
Pass ==
    /\ stage = "serving" \/ stage = "draining"
    /\ age' = [r \in Reqs |-> IF r \in Running /\ age[r] < Grace THEN age[r] + 1 ELSE age[r]]
    /\ patience' = IF stage = "draining" /\ patience > 0 THEN patience - 1 ELSE patience
    /\ UNCHANGED <<os, stage, stop, listener, req, ended>>

\* The signal, or the SCM's Stop or Shutdown.  Nobody looks at the channel
\* before the select.
RequestStop ==
    /\ stage # "down"
    /\ stop' = TRUE
    /\ UNCHANGED <<os, stage, listener, req, age, patience, ended>>

\* The select takes stop; Shutdown closes the listener and waits.  A listener
\* that comes only now finds the server closed, and is no error.
Drain_ExpiredContext ==
    /\ stage = "serving" /\ stop
    /\ stage' = "draining" /\ listener' = "none"
    /\ UNCHANGED <<os, stop, req, age, patience, ended>>
Drain ==
    /\ stage = "serving" /\ stop
    /\ stage' = "draining" /\ listener' = "none"
    /\ patience' = Grace
    /\ UNCHANGED <<os, stop, req, age, ended>>

\* Shutdown returns, when all is answered or its context has expired.
Shutdown_Patient == stage = "draining" /\ Running = {} /\ End("drained")
Shutdown ==
    /\ stage = "draining"
    /\ \/ Running = {} /\ End("drained")
       \/ patience = 0 /\ Running # {} /\ End("overdue")

\* An error before the select, or the select takes errCh: runServer returns it,
\* which makes main exit with 1 and Execute report a service-specific error.
Fail_Quietly ==
    /\ stage = "starting" \/ (stage = "serving" /\ listener = "failed")
    /\ End("drained")
Fail ==
    /\ stage = "starting" \/ (stage = "serving" /\ listener = "failed")
    /\ End("failed")

\* Execute returns as soon as it has closed stop, main returns after it, and
\* runServer's shutdown ends wherever it is.
Leave ==
    /\ os = "scm" /\ stage # "down" /\ stop
    /\ End("left")

\* A crash, SIGKILL, or SIGTERM before signal.Notify.
Kill ==
    /\ stage # "down"
    /\ End("killed")

\* What runServer does by itself; requests may hang, and nobody need call.
Serve == Ready \/ Listen \/ Drain \/ Shutdown \/ Fail \/ Leave

--------------------------------------------------------------------------------
\* A stop, in a foreground process or under systemd and launchd, cuts only requests
\* that have been running for as long as Shutdown waits: one that is young when the
\* stop comes has that time to finish.  A Windows service does not wait at all.
StopWaits ==
    os # "scm" => \A r \in Reqs :
        req[r] = "cut" /\ ended \notin {"killed", "failed"} => age[r] >= Grace

\* A stop ends the process, also one that comes while it starts, and although a
\* request may never finish.
StopEnds == stop ~> stage = "down"

================================================================================
