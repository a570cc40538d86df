-------------------------------- MODULE HttpApi --------------------------------
(***************************************************************************)
(* The HTTP layer (core/httpapi.go): the rate limit of each route, then    *)
(* its handler, and what becomes of a login's returnTo.                    *)
(*                                                                         *)
(* A request is one step: what its handler does with the database and with *)
(* Google while others run is in Login and TokenService.  Requests that    *)
(* change nothing here have no action: /api/health, OPTIONS (answered by   *)
(* cors), what protected answers 401 before the limit is reached, and      *)
(* /account, which has no limit.                                           *)
(***************************************************************************)
EXTENDS RateLimiter

CONSTANTS
    Logins,      \* attempts: auth-url requests that are answered
    Pages,       \* what ?returnTo= may hold, but for the slashes at its end
    Allowed,     \* those on an allowed host or localhost
    Bare,        \* those that are a host, and nothing after it
    Default,     \* frontendOrigin + "/sync-settings"
    NoTarget,    \* "": none given, or none honoured
    NoRow        \* "the state is not redeemable"; "not started"

\* A returnTo as it was given: a page, with slashes after it or without.
Targets == [page : Pages, slashes : BOOLEAN]

ASSUME TargetsAssumption ==
    /\ Allowed \subseteq Pages
    /\ NoTarget \notin Targets /\ NoRow \notin Targets \cup {NoTarget}

VARIABLES
    row,         \* returnTo in the row of each login's state
    asked,       \* history: what each login asked for
    over,        \* history: the logins whose state has expired, or with a callback
                 \* that was not turned away
    landed       \* history: where callbacks have sent the browser, by login

apiVars == <<row, asked, over, landed>>
allVars == <<vars, apiVars>>

\* returnToFromRequest: the host is allowed, and the path is not empty.
Honoured(to) == to.page \in Allowed /\ (to.page \in Bare => to.slashes)

ApiTypeOK ==
    /\ TypeOK
    /\ row \in [Logins -> Targets \cup {NoTarget, NoRow}]
    /\ asked \in [Logins -> Targets \cup {NoRow}]
    /\ over \in SUBSET Logins
    /\ landed \in [Logins -> SUBSET (Pages \cup {Default})]

ApiInit ==
    /\ Init
    /\ row = [l \in Logins |-> NoRow] /\ asked = [l \in Logins |-> NoRow]
    /\ landed = [l \in Logins |-> {}]
    /\ over = {}

--------------------------------------------------------------------------------
\* Slips of the kind the properties are there to catch are kept next to the
\* definition they would change, under its name with a suffix.

\* What returnToFromRequest returns, and Create stores.
Where_AsGiven(to) == to
Where(to) == IF Honoured(to) THEN to ELSE NoTarget

\* handleAuthURL, answered with the login's URL.
AuthURL(k, l) ==
    /\ Allow(k)
    /\ ~Spent(k) /\ asked[l] = NoRow
    /\ \E to \in Targets :
          /\ row' = [row EXCEPT ![l] = Where(to)]
          /\ asked' = [asked EXCEPT ![l] = to]
    /\ UNCHANGED <<over, landed>>

\* handleToken, handleRefreshToken, and handleAuthURL when it is not answered: the
\* wrong method and a bad user id are counted as well.
Counts(k) == Allow(k) /\ UNCHANGED apiVars

\* handleCallback.  A state that cannot be redeemed, that comes without a code, or
\* that the database fails to look up sends the browser to the default page.
Base(returnTo) == IF returnTo = NoTarget THEN Default ELSE returnTo.page
Redeem(l) ==
    \/ /\ row[l] # NoRow
       /\ row' = [row EXCEPT ![l] = NoRow]
       /\ landed' = [landed EXCEPT ![l] = @ \cup {Base(row[l])}]
    \/ /\ landed' = [landed EXCEPT ![l] = @ \cup {Default}]
       /\ UNCHANGED row

\* The route is limited before the state is looked at.
Callback_RedeemFirst(k, l) ==
    /\ Allow(k)
    /\ Redeem(l)
    /\ over' = IF Spent(k) THEN over ELSE over \cup {l}
    /\ UNCHANGED asked
Callback(k, l) ==
    /\ Allow(k)
    /\ \/ Spent(k) /\ UNCHANGED <<row, landed, over>>
       \/ ~Spent(k) /\ Redeem(l) /\ over' = over \cup {l}
    /\ UNCHANGED asked

\* The state's ten minutes are over (OAuthState).
Expire(l) ==
    /\ row[l] # NoRow
    /\ row' = [row EXCEPT ![l] = NoRow]
    /\ over' = over \cup {l}
    /\ UNCHANGED <<vars, asked, landed>>

ApiSweep == Sweep /\ UNCHANGED apiVars

ApiNext ==
    \/ \E k \in Clients :
          \/ \E l \in Logins : AuthURL(k, l) \/ Callback(k, l)
          \/ Counts(k)
    \/ \E l \in Logins : Expire(l)
    \/ ApiSweep
    \/ Tick /\ UNCHANGED apiVars

ApiSpec == ApiInit /\ [][ApiNext]_allVars

\* As in RateLimiter.
ApiFairSpec == ApiSpec /\ WF_allVars(ApiSweep)

--------------------------------------------------------------------------------
\* A callback that is turned away (429) does not use up its login: reloading the
\* page after the window still completes it.
TurnedAwayKeepsLogin ==
    \A l \in Logins : asked[l] # NoRow /\ row[l] = NoRow => l \in over

\* The browser ends up on the default page or on the one its own login asked for,
\* if that one is honoured, and nowhere else, although two requests and the
\* database lie between the question and the redirect.
LandsWhereAsked ==
    \A l \in Logins : \A b \in landed[l] :
        b # Default => asked[l] # NoRow /\ Honoured(asked[l]) /\ b = asked[l].page

================================================================================
