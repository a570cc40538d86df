------------------------------ MODULE RateLimiter ------------------------------
(***************************************************************************)
(* The rate limiter of core/httpapi.go: one fixed-window counter per       *)
(* client address, which /auth-url, /callback, /token and /refresh-token   *)
(* share, and a goroutine that sweeps counters whose window is over.       *)
(*                                                                         *)
(* Allow and a sweep hold the mutex from before they read the clock until  *)
(* they return, so each is one action and their clock readings follow the  *)
(* order of the lock.  Two readings may be equal: any number of requests   *)
(* falls on one tick.                                                      *)
(***************************************************************************)
EXTENDS Integers, Sequences

CONSTANTS
    Clients,      \* client addresses without the port (clientIP)
    Window,       \* length of a window, in clock ticks
    Limit,        \* requests allowed per window ("max" in the code)
    MaxTime,      \* bound: the clock stops here
    MaxRequests,  \* bound: requests let through, per client
    MaxCount,     \* bound: requests counted in a window, per client
    NoEntry       \* "not in the map"; "none turned away"

ASSUME LimitsAssumption ==
    /\ Window \in Nat /\ Limit \in Nat \ {0}
    /\ MaxTime \in Nat /\ MaxRequests \in Nat /\ MaxCount \in Nat

Entry == [count : Nat, resetAt : Nat]

\* at: when it was decided; start: of the window it was counted in; after: how
\* many requests had been let through before it.
Pass == [at : Nat, start : Nat]
Refusal == [at : Nat, after : Nat]

ASSUME NoEntryAssumption == NoEntry \notin Entry \cup Refusal

VARIABLES
    now,    \* the monotonic clock
    hits,   \* the map, by client
    passed, \* history: the requests let through, by client, in order
    refused \* history: the last request turned away, by client

vars == <<now, hits, passed, refused>>

TypeOK ==
    /\ now \in Nat
    /\ hits \in [Clients -> Entry \cup {NoEntry}]
    /\ passed \in [Clients -> Seq(Pass)]
    /\ refused \in [Clients -> Refusal \cup {NoEntry}]

Init ==
    /\ now = 0
    /\ hits = [k \in Clients |-> NoEntry]
    /\ passed = [k \in Clients |-> <<>>]
    /\ refused = [k \in Clients |-> NoEntry]

--------------------------------------------------------------------------------
\* Slips of the kind the properties are there to catch are kept next to the
\* definition they would change, under its name with a suffix.

Listed(k) == hits[k] # NoEntry

\* now.After(resetAt): at resetAt itself the window is still open.
Over(k) == now > hits[k].resetAt

\* The entry a request is counted in, itself included.
Counted_Sliding(k) ==
    IF ~Listed(k) \/ Over(k)
    THEN [count |-> 1, resetAt |-> now + Window]
    ELSE [count |-> hits[k].count + 1, resetAt |-> now + Window]
Counted_InThePast(k) ==
    IF ~Listed(k) \/ Over(k)
    THEN [count |-> 1, resetAt |-> now - Window]
    ELSE [hits[k] EXCEPT !.count = @ + 1]
Counted(k) ==
    IF ~Listed(k) \/ Over(k)
    THEN [count |-> 1, resetAt |-> now + Window]
    ELSE [hits[k] EXCEPT !.count = @ + 1]

\* e.count <= rl.max, after the increment, is let through.
Spent_BeforeCounting(k) == Counted(k).count - 1 > Limit
Spent(k) == Counted(k).count > Limit

\* Allow: the request is counted, and let through or (429) turned away.
Allow(k) ==
    /\ Len(passed[k]) < MaxRequests /\ Counted(k).count <= MaxCount
    /\ hits' = [hits EXCEPT ![k] = Counted(k)]
    /\ \/ /\ ~Spent(k)
          /\ passed' = [passed EXCEPT ![k] =
                Append(@, [at |-> now, start |-> Counted(k).resetAt - Window])]
          /\ UNCHANGED refused
       \/ /\ Spent(k)
          /\ refused' = [refused EXCEPT ![k] =
                [at |-> now, after |-> Len(passed[k])]]
          /\ UNCHANGED passed
    /\ UNCHANGED now

\* One tick of the sweeper that finds something to delete.
Sweep_NotSpent ==
    /\ \E k \in Clients : Listed(k) /\ Over(k) /\ hits[k].count <= Limit
    /\ hits' = [k \in Clients |->
                   IF Listed(k) /\ Over(k) /\ hits[k].count <= Limit THEN NoEntry ELSE hits[k]]
    /\ UNCHANGED <<now, passed, refused>>
Sweep ==
    /\ \E k \in Clients : Listed(k) /\ Over(k)
    /\ hits' = [k \in Clients |-> IF Listed(k) /\ Over(k) THEN NoEntry ELSE hits[k]]
    /\ UNCHANGED <<now, passed, refused>>

Tick ==
    /\ now < MaxTime
    /\ now' = now + 1
    /\ UNCHANGED <<hits, passed, refused>>

Next ==
    \/ \E k \in Clients : Allow(k)
    \/ Sweep
    \/ Tick

Spec == Init /\ [][Next]_vars

\* The sweeper's ticker keeps firing; nothing is assumed of clients.
FairSpec == Spec /\ WF_vars(Sweep)

--------------------------------------------------------------------------------
\* A window begins with its first request, so two full ones that meet at an edge
\* still take longer than one window together: out of any 2 * Limit requests that
\* were let through, the last is more than a window after the first, whatever the
\* sweeper deletes in between.
TwoWindowsAtMost ==
    \A k \in Clients : \A i \in 1..Len(passed[k]) :
        i + 2 * Limit - 1 <= Len(passed[k])
            => passed[k][i + 2 * Limit - 1].at > passed[k][i].at + Window

\* A client is turned away only when its last Limit requests let through are all
\* at most a window old: retrying while turned away does not prolong the wait,
\* and the requests of other clients do not count.
RefusedOnlyWhenSpent ==
    \A k \in Clients : refused[k] # NoEntry =>
        LET d == refused[k]
        IN  /\ d.after >= Limit
            /\ passed[k][d.after - Limit + 1].at + Window >= d.at

\* The map does not grow for ever: the entry of a window that is over goes, or
\* makes place for a new window of the same client.
EntriesPurged ==
    \A k \in Clients : Listed(k) /\ Over(k) ~> ~Listed(k) \/ ~Over(k)

================================================================================
