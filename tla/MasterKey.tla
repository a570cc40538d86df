------------------------------- MODULE MasterKey -------------------------------
(***************************************************************************)
(* The master key: how a process obtains it when it starts                 *)
(* (LoadOrCreateMasterKey, core/secretstore.go, called by runServer,       *)
(* cmd/server/main.go) and which sealed refresh tokens it then opens.      *)
(*                                                                         *)
(* The file system and AES-GCM are external.  os.WriteFile truncates the   *)
(* file and writes it, two system calls; a read may fail for other reasons *)
(* than a missing file.  A token opens under the key it was sealed with    *)
(* and under no other; under an empty key nothing is sealed or opened.     *)
(* Processes share one data directory and one port, as a service and a     *)
(* server started by hand do.                                              *)
(***************************************************************************)
CONSTANTS
    Procs,    \* server processes; each may run again after it has ended
    Keys,     \* what GenerateMasterKey can draw, each once
    Users,    \* application-level user ids
    Absent,   \* no file
    Empty,    \* an empty file, and the key read from it
    NoKey     \* no key in memory; no token on file

ASSUME NullsAssumption ==
    /\ Absent \notin Keys \cup {Empty} /\ Empty \notin Keys
    /\ NoKey \notin Keys \cup {Empty}

VARIABLES
    file,      \* master.key
    proc,      \* the processes: how far they are, and the key in their memory
    drawn,     \* history: the keys drawn so far
    sealed,    \* the key each user's refresh token on file is sealed under
    answer,    \* the last answer to a refresh, by user
    disturbed  \* history: a read has failed on an existing file, or two
               \* processes have started at once

vars == <<file, proc, drawn, sealed, answer, disturbed>>

Starting == {"read", "create", "write"}
Loaded == {"listen", "up"}
Process == [pc : {"down"} \cup Starting \cup Loaded, key : Keys \cup {Empty, NoKey}]

TypeOK ==
    /\ file \in Keys \cup {Absent, Empty}
    /\ proc \in [Procs -> Process]
    /\ drawn \in SUBSET Keys
    /\ sealed \in [Users -> Keys \cup {NoKey}]
    /\ answer \in [Users -> {"none", "token", "reauth", "error"}]
    /\ disturbed \in BOOLEAN

Down == [pc |-> "down", key |-> NoKey]

Init ==
    /\ file = Absent
    /\ proc = [p \in Procs |-> Down]
    /\ drawn = {}
    /\ sealed = [u \in Users |-> NoKey]
    /\ answer = [u \in Users |-> "none"]
    /\ disturbed = FALSE

--------------------------------------------------------------------------------
\* Slips of the kind the properties are there to catch are kept next to the
\* definition they would change, under its name with a suffix.

At(p, pc) == proc[p].pc = pc
Become(p, pc, key) == proc' = [proc EXCEPT ![p] = [pc |-> pc, key |-> key]]

\* runServer, as far as the opened database.
Start(p) ==
    /\ At(p, "down")
    /\ Become(p, "read", NoKey)
    /\ disturbed' = (disturbed \/ \E q \in Procs : proc[q].pc \in Starting)
    /\ UNCHANGED <<file, drawn, sealed, answer>>

\* os.ReadFile.  Whatever its error is, a key is created.
Read_Anew(p) ==
    /\ At(p, "read")
    /\ Become(p, "create", NoKey)
    /\ UNCHANGED <<file, drawn, sealed, answer, disturbed>>
Read(p) ==
    /\ At(p, "read")
    /\ \/ file = Absent /\ Become(p, "create", NoKey) /\ UNCHANGED disturbed
       \/ file # Absent /\ Become(p, "listen", file) /\ UNCHANGED disturbed
       \/ file # Absent /\ Become(p, "create", NoKey) /\ disturbed' = TRUE
    /\ UNCHANGED <<file, drawn, sealed, answer>>

\* GenerateMasterKey, and the first half of os.WriteFile: open and truncate.
Create(p) ==
    /\ At(p, "create")
    /\ \E k \in Keys \ drawn :
          /\ Become(p, "write", k)
          /\ drawn' = drawn \cup {k}
    /\ file' = Empty
    /\ UNCHANGED <<sealed, answer, disturbed>>

\* The second half: one write, of the whole key.
Write_Redrawn(p) ==
    /\ At(p, "write")
    /\ \E k \in Keys \ drawn : file' = k /\ drawn' = drawn \cup {k}
    /\ Become(p, "listen", proc[p].key)
    /\ UNCHANGED <<sealed, answer, disturbed>>
Write(p) ==
    /\ At(p, "write")
    /\ file' = proc[p].key
    /\ Become(p, "listen", proc[p].key)
    /\ UNCHANGED <<drawn, sealed, answer, disturbed>>

\* ListenAndServe: without the port, runServer returns the error.
Listen(p) ==
    /\ At(p, "listen")
    /\ IF \E q \in Procs : At(q, "up") THEN proc' = [proc EXCEPT ![p] = Down]
                                      ELSE Become(p, "up", proc[p].key)
    /\ UNCHANGED <<file, drawn, sealed, answer, disturbed>>

\* The process is stopped, dies, or ends with an error of the file system; what
\* it was writing stays as it is.
Exit(p) ==
    /\ ~At(p, "down")
    /\ proc' = [proc EXCEPT ![p] = Down]
    /\ UNCHANGED <<file, drawn, sealed, answer, disturbed>>

\* SecretStore: which keys seal a token, and which one opens it.
Seals(key) == key \in Keys
Opens(token, key) == Seals(key) /\ token = key

\* StoreAccount for u; under an empty key Seal fails and nothing is stored.
StoreAccount_Anyhow(p, u) ==
    /\ At(p, "up")
    /\ sealed' = [sealed EXCEPT ![u] = proc[p].key]
    /\ UNCHANGED <<file, proc, drawn, answer, disturbed>>
StoreAccount(p, u) ==
    /\ At(p, "up") /\ Seals(proc[p].key)
    /\ sealed' = [sealed EXCEPT ![u] = proc[p].key]
    /\ UNCHANGED <<file, proc, drawn, answer, disturbed>>

\* refresh for u, Google willing: reauth without a token on file; a token that
\* does not open is an error; if it opens, Google may rotate it, and the new
\* one is sealed under the same key.
Refresh(p, u) ==
    /\ At(p, "up")
    /\ answer' = [answer EXCEPT ![u] =
                     IF sealed[u] = NoKey THEN "reauth"
                     ELSE IF Opens(sealed[u], proc[p].key) THEN "token" ELSE "error"]
    /\ UNCHANGED <<file, proc, drawn, sealed, disturbed>>

RemoveAccount(p, u) ==
    /\ At(p, "up")
    /\ sealed' = [sealed EXCEPT ![u] = NoKey]
    /\ UNCHANGED <<file, proc, drawn, answer, disturbed>>

Next ==
    \/ \E p \in Procs : \/ Start(p) \/ Read(p) \/ Create(p) \/ Write(p) \/ Listen(p) \/ Exit(p)
    \/ \E p \in Procs, u \in Users :
          StoreAccount(p, u) \/ Refresh(p, u) \/ RemoveAccount(p, u)

Spec == Init /\ [][Next]_vars

--------------------------------------------------------------------------------
\* Crashes at any instant, also while the key is written, do not separate a
\* stored refresh token from its key: unless a read has failed on an existing
\* file or two processes have started at once, the key on file opens them all.
KeyOnFileOpensAll ==
    ~disturbed => \A u \in Users : sealed[u] # NoKey => sealed[u] = file

\* Under the same condition a process that serves has the key that the next one
\* will read: what it seals survives a restart.
ServesWithKeyOnFile ==
    ~disturbed => \A p \in Procs : At(p, "up") => proc[p].key = file

\* A user whose token is on file is refused for one reason only.
ErrorHasACause ==
    [][\A u \in Users : answer'[u] = "error" /\ answer[u] # "error" => disturbed]_vars

--------------------------------------------------------------------------------
\* What a comment in the code says, and a run refutes.

\* secretstore.go: the first run generates and persists a key; here, a process
\* that serves has one, and can store accounts.
ServesWithAKey == \A p \in Procs : At(p, "up") => Seals(proc[p].key)

================================================================================
