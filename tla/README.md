# gauth in TLA+

gauth is a local Go service that keeps one Google account per user id: it runs
the OAuth login in the browser, stores the account in SQLite with the refresh
token sealed, and hands out access tokens over HTTP, refreshing them when they
are about to expire. This directory holds TLA+ modules of it, TLC
configurations that check them on small instances, and TLAPS proofs for every
instance.

## Inventory

| Component | State it keeps | Operations | Hard part | What makes it correct |
|---|---|---|---|---|
| OAuth state service (`core/oauthstate.go`, `/auth-url`, front of `/callback`, cleanup goroutine) | `oauth_transactions` | Create, ValidateAndConsume, CleanupExpired | SELECT, expiry test and UPDATE are three steps; callbacks, cleanup and crashes interleave | a state is redeemed once, for the user it was made for, in time |
| Account storage and token refresh (`core/accounts.go`, `core/tokenservice.go`, rest of `httpapi.go`) | `google_accounts`; snapshots in handlers | StoreAccount, GetAccount, GetValidToken, RefreshAccessToken, RemoveAccount | no transactions: snapshots cross SQL statements and calls to Google | one account per user, only what the user consented to, never a dead token, never without refresh token |
| Google client (`core/oauth.go`) | none | ExchangeCode, fetchEmail, RefreshAccessToken | calls time out, refresh tokens rotate, expiry is counted late | recorded expiry follows the token |
| Rate limiter (`core/httpapi.go`) | map of counters | Allow, sweep | fixed windows, off-by-one at their edge, the sweeper | bounded bursts over two windows, refusals only for cause, no leak |
| Secret store and master key (`core/secretstore.go`, `core/crypto.go`) | `master.key` | LoadOrCreateMasterKey, Seal, Open | in-place write, crash, read errors, two processes | stored tokens stay readable |
| Migrations (`core/db.go`, `core/migrations`) | `_migrations`, schema | OpenDB | crash between migrations, two openers | each migration applied once, in order, whole; a lone start is never refused; nobody serves before the last one |
| HTTP routing (`core/httpapi.go`, `core/config.go`, `core/errors.go`) | none of its own | CORS, API key, rate limit, method checks, returnTo | order of limit and redemption; a redirect target that crosses two requests and the database | a refusal costs no login; a redirect goes to the page its own login asked for, if that is on an allowed host |
| Process lifecycle (`cmd/server/main.go`, Windows service) | process, listener, goroutines | start, stop, shutdown | Shutdown waits 5 s, Google may take 15 s; the Windows service does not wait at all | a stop ends the process, and cuts off no request that is younger than the five seconds |
| Service installation (`cmd/server/service_*.go`) | unit files, OS service state | install, uninstall | commands that fail half-way, over a service that runs, crashes or is booted meanwhile | a reported install is in force, a reported removal is final |
| Build and release | none | | | out of scope |

How they interact. `/auth-url` creates a transaction; Google sends the browser
back to `/callback`, which redeems it, exchanges the code (Google), asks Google
for the email, seals the refresh token (secret store) and upserts the account.
`/token` and `/refresh-token` read the account, open the refresh token, call
Google and update the row. All of them share one SQLite connection, the rate
limiter, and one clock. A crash loses the handlers and keeps the database and
the key file. A process opens and migrates the database, then loads the key, then
listens; a service manager, set up by `--install-service`, launches it, stops it
and launches it again.

## Modules

| Module | What it is |
|---|---|
| `SingleUse` | abstract: a token is handed out once, for a user, and redeemed once at most, for that user |
| `OAuthState` | the OAuth state service; implements `SingleUse` |
| `AccountBook` | abstract: a user's account changes only by a consent of that user, used once, or by a removal |
| `TokenService` | account storage, refresh, the calls to Google and the handlers; implements `AccountBook` |
| `Binding` | abstract, from end to end: an account changes only by a login started for its user, once, or by a removal |
| `Login` | `OAuthState` and `TokenService` composed by `/callback`; implements both, and `Binding` |
| `RateLimiter` | the rate limiter |
| `HttpApi` | the limit and the redirects of the routes, over `RateLimiter`; implements it |
| `MasterKey` | loading and creating the master key, and what it opens |
| `Upgrade` | abstract: the schema moves forward one whole migration at a time; nobody works with an older one |
| `Migrations` | `OpenDB`; implements `Upgrade` |
| `Startup` | `runServer` up to the listener: `Migrations`, then `MasterKey`; implements both |
| `Lifecycle` | one server process, from its launch to its shutdown |
| `Service` | the service managers, `--install-service` and `--uninstall-service`, over `Lifecycle` |
| `OAuthStateProofs`, `TokenServiceProofs`, `LoginProofs`, `RateLimiterProofs`, `HttpApiProofs`, `MasterKeyProofs`, `StartupProofs`, `ServiceProofs` | the proofs |
| `MCTokenService`, `MCLogin`, `MCMasterKey`, `MCStartup` | symmetry sets for TLC; the others run as they are |

Definitions named `X_Suffix` next to a definition `X` are wrong versions of it:
the bug each property is there to catch.

### OAuthState

`txns` is the table, `cb` the callback requests, `now` the clock; `issued` is a
history of the rows as they were inserted. One SQL statement is one action,
since the pool has one connection (`db.go:31`) and no handler opens a
transaction: `Create` (the INSERT), `Find` (the SELECT), `Check` (the three
early returns, with the clock read between the two statements), `Consume` (the
conditional UPDATE and the test of its row count), `CleanupExpired` (the
DELETE). `Receive` presents any token handed out so far, again or for the first
time, or a forged one. A statement may fail (`DbError`), and the process may die
(`Restart`), which ends the requests and keeps the table. A token stands for its
hash, PKCE verifier and attempt id, which are one-to-one with it.

### TokenService

`accounts` is the table, `req` the requests. A request's record holds what the
Go handler holds in locals: the row it read first, Google's tokens, the refresh
token `UpdateTokens` found on file. Each SQL statement and each reply of Google
is one action; the name of a `pc` value is the step that comes next:

    token:   find, check, [open, renew, reread, write, result]
    refresh: find, open, renew, reread, write, result
    login:   exchange, userinfo, upsert, insert | update, confirm
    delete:  find, delete
    account: find

Google may fail any call, mint the new token at any instant of the call, pick
any account at a login, and rotate the refresh token or not. Opening the sealed
refresh token may fail at any time (see `MasterKey` for when it does). The error
path of `Seal` is one with that of the statement that follows it.
`last_used_at` and the creation times are left out: nothing decides on them.
`consented` is a history: the accounts whose email Google confirmed for a user.
The database may hold rows at the start, as after a restart; each has a refresh
token and an expiry as `Userinfo` would have recorded it.

### RateLimiter

`hits` is the map. `Allow` and `Sweep` are one action each, because both hold
the mutex from before they read the clock to the end. `passed` is a history of the
requests let through, `refused` of the last one turned away, by client. A client is
an address without its port. Which routes count against the limit is in `HttpApi`.

### MasterKey

`file` is `master.key`, `proc` the server processes with the key in their
memory, `sealed` the key each stored refresh token is sealed under. `Read` is
`os.ReadFile`, `Create` and `Write` the two system calls of `os.WriteFile`
(truncate, then one write of 44 bytes, which is taken as all or nothing).
Processes share the port, so one of them serves at a time, but a process loads
the key before it tries to listen. `disturbed` is a history of what the
environment has done: a read that failed on an existing file, or a start that
overlapped another one.

### Login

The variables of `OAuthState` and `TokenService`, with one clock. `Redeem` is the
seam: the UPDATE that marks the transaction used and, for the callback whose
UPDATE it was, the start of the login proper, for the user of the transaction it
was handed (`LoginUser`). A restart takes the requests of both parts. `stored` is
a history: which login wrote which account for whom. `Logins` are the callbacks,
`Others` all other requests.

### HttpApi

A request is one step here, from the limit to the answer; what its handler does in
several steps is in `Login`. `AuthURL` and `Callback` are their handlers behind
`rateLimited`; `Counts` is any other request that the limiter counts. `row` is the
`return_to` column of each login's transaction. A `returnTo` is a page with slashes at
its end or without (`Targets`); it is honoured (`Honoured`) when its host is allowed
and its path is not empty, which for a host alone (`Bare`) only the slash makes so.
The callback strips the slashes (`Base`). It sends the browser to the default page,
and leaves the row alone, when the code is missing, the database fails, or the state
cannot be redeemed (second disjunct of `Redeem`). `/account` has no limit, and what
`protected` turns away is not counted: neither has an action.

### Migrations and Startup

`schema` is what the committed tables have been through, `recorded` the names in
`_migrations`, `writer` the process whose transaction holds the write lock.
`opener` holds each process's place in `migrate`, with `applied`, the map it
reads once, before the loop. `Exec` is `Begin` and the file; it fails on a column
that is there already (`Clashes`; the first file can be repeated, the other two
cannot). `Close` may come at any point and takes an open transaction with it; it
also stands for every error of SQLite, among them `database is locked`.
`overlapped` is a history of the processes that were not alone in `OpenDB`.

In `Startup` a process has started for `MasterKey` only when its `OpenDB` has
returned (`LoadKey`); the end of a process is one step of both (`Die`, and `Bind`
when the port is taken).

### Lifecycle and Service

`stage` is how far `runServer` is: starting (up to the `select`), serving,
draining (in `Shutdown`). `stop` is the channel, closed by the signal handler or
by `Execute`; nobody looks at it before the `select`, and when both the channel
and `errCh` are ready the `select` takes either. Time is counted for those who wait
(`Pass`): `age` is for how long each request has been running, `patience` what is left
of the five seconds of `Shutdown`, both up to `Grace`. `Shutdown` returns when all is
answered or when its patience is at an end; one call to Google may take fifteen
seconds. `Listen` is the attempt to get the port, `LoseListener` an error of a
listener that had it. `Leave` is the Windows service: `Execute` returns as
soon as it has closed `stop`, and the process ends with `main`. `End` closes the
database and cuts off what still runs.

In `Service`, `unit` is the definition on file or in the SCM's registry, `known`
the one systemd or launchd has read, `running` the one the process was launched
from. An install or uninstall is a sequence of steps per platform
(`SystemdInstall` ... `ScmUninstall`), `cmd` the place in it. Each step may fail;
an error the source drops (`Ignored`) lets the command go on and sets `slipped`,
any other ends it. `recovers` is what `sc failure` sets, an error of which is dropped
too. The machine may go down at any point (`Boot`). What the
managers do is external, and taken from their documentation: `systemctl start`
does nothing to a running service, `stop` and `unload` wait for the process, `sc
stop` does not, the SCM keeps a deleted service until its process is gone and
refuses to delete it again or to create one of its name, systemd restarts on
failure, launchd always, the SCM after a crash only and if `recovers`, since `Execute` reports an
error properly. A foreground process is `Lifecycle` without a manager: all that is
proved of a single process under systemd holds for it.

## What the runs check

| Run | Instance | Properties |
|---|---|---|
| `state` | 2 tokens, 2 users, 2 callbacks, TTL 1, clock to 3 | `TypeOK`; `AcceptedOnce`; `AcceptedAsIssued`: for the user the token was drawn for, and tested in time; `UnknownOnlyIfExpired`: the cleanup never takes a row from a callback in time; `ReplayHasACause`: "replayed" only after an acceptance or the expiry; `SingleUseSpec` (refinement); `EveryCallbackAnswered`; `ExpiredRowsPurged` |
| `token_races` | 2 users, 2 accounts, 2 requests of any kind, no clock | `TypeOK`; `OnlyConsentedAccounts`; `RefreshTokenOnFile`; `AccountBookSpec` (refinement); `SerialIsSafe`: if no two requests of a user overlap, none of the token races below happens; `EveryRequestEnds` |
| `token_expiry` | 1 user, 2 requests, clock to 3, lifetime 3, skew 2, timeout 1 | `ExpiryTracksToken`; `ServedFresh` |
| `login` | 2 callbacks, 1 other request, 2 tokens, 2 users, 2 accounts, TTL 0, clock to 1 | `StoredAsStarted`: what a login has stored it was started for, in time, and once; `BindingSpec` (refinement) |
| `starts` | 2 processes, 3 migrations, 3 keys, 2 users | `StartupTypeOK`; `RefusedOnlyInRace`; `ServesMigrated`; `UpgradeSpec` (refinement); `KeyOnFileOpensAll`; `ServesWithKeyOnFile`; `ErrorHasACause` |
| `api` | 2 clients, 2 logins, 2 pages with and without slashes, window 1, limit 2, clock to 2, 5 requests let through per client and 4 counted per window | `ApiTypeOK`; `TwoWindowsAtMost`: any four requests let through span more than a window; `RefusedOnlyWhenSpent`; `TurnedAwayKeepsLogin`; `LandsWhereAsked`; `EntriesPurged` |
| `service` | 3 managers, 1 request, a grace of 2 ticks, 2 configurations, 3 commands | `TypeOK`; `StopWaits`: a stop gives a young request the time Shutdown waits; `InstalledIsInForce`; `RemovedIsGone`; `StopEnds`; `LosingPortIsRetried` |

Bounds. Two callbacks are what it takes to race for a token, and two tokens let
them mix tokens up; the proofs cover any number of either. With a TTL of 1 and a clock to 3 a token is
fresh, at its last tick, expired and purged. Two requests are enough for one that
holds a snapshot while the other changes the row; three overlap in `login`. Two
accounts are what a reconnect needs, two users what it takes to mix users up.
`token_races` stops the clock: a stored token that dies at 0 is refreshed and one
that dies later is served from the table, so both paths are taken.
`token_expiry` has one account and a clock that leaves room for two calls that
time out and for a token that dies after them; skew 2 and timeout 1 are the
least that satisfy `2 * Timeout <= Skew` without being 0 (the code has 5 min
and 15 s).

`login` needs a third actor next to the two logins: the removal that makes the
UPDATE of one match nothing while the other inserts. It has two of everything that
could be mixed up. Its clock moves once, and only while no other request has
arrived (`MCBound`): a state can expire on its login, and the rest of what there is
to say of time is in `state` and `token_expiry`. In `starts` two processes race for each of the three migrations there
are, from no database or any earlier one, and three keys let each process draw one
and one of them draw again. In `api`, window 1 and limit 2 with a clock to 2 let two
full windows meet: one that opens at 0 and is filled at 1, and one that is filled at 2,
when the first is over. That is four requests let through, the burst that
`TwoWindowsAtMost` is about, with refusals in both windows (`MaxCount` 4, `MaxRequests`
5). Two logins show a target that goes to the wrong one; one page is allowed but only
with a slash, the other is not allowed at all. In `service` an install, another one over
it and a removal, or any other three commands, follow each other; one request is
enough to be cut off, as each is cut off on its own. With a grace of 2 a request can
be cut off too early, at the deadline and after it.

Symmetry is used in `login` and `starts`, which check no liveness,
on sets none of whose members a definition names. Deadlock is not checked: every request is served once, the
clocks, the keys and the commands are bounded, and then nothing more happens.

Fairness. Handlers are goroutines that the Go runtime keeps scheduling, and a
call to Google returns within the client's 15 s, with an error if need be: weak
fairness of each handler (`WF_vars(Handler(r))`). The cleanup and the sweeper
run on tickers that never stop while the process is up: weak fairness of
`CleanupExpired` and `Sweep` (`ApiSweep` in `api`). For the cleanup this assumes that
some life of the process lasts the five minutes to its first tick. In `Service` what `runServer`
does by itself goes on (`Serve`), as goroutines are scheduled, time passes (`Pass`), which
is what brings `Shutdown` to its deadline, and systemd and launchd launch what they want to run (`Relaunch`): that
is what `Restart=on-failure`, `KeepAlive` and being enabled mean. The SCM is
assumed to do nothing, no listener need fail, and no request and no command need
ever go on. Nothing is assumed of browsers, clients, the
clock, crashes or Google's answers. A request that ends in a panic counts as
ended in `EveryRequestEnds`: net/http recovers it and drops the connection.

## Where code and comments disagree

Each of these runs has one property, taken from a comment or the documentation,
which TLC finds violated.

| Run | Property | What happens |
|---|---|---|
| `token_panic` | `NeverPanics` | an account removed during its refresh (or login): `UpdateTokens` returns nil without an error and the caller dereferences it |
| `token_reconnect` | `ReconnectReplaces` | a refresh of the old account writes its access token into the row of the new one, where it stays until the next refresh. The refresh token it writes is the old account's as well if Google rotated it, and also without a rotation when the refresh had read the one on file before the login's UPDATE; then it stays until the next login |
| `token_rotation` | `KeepsRefreshToken` | a login stores a newer refresh token between the SELECT and the UPDATE of `UpdateTokens`, and the refresh, which got none from Google, writes the one it has read back over it. A second refresh whose rotated token is stored there is undone the same way |
| `login_success` | `SuccessIsStored` | the user is removed between a login's SELECT and its UPDATE, which matches nothing; another login inserts a row before the closing SELECT, and the first login redirects with `auth=success` though nothing of it is stored (README.md:147-149 says that it "stores the account") |
| `key_empty` | `ServesWithAKey` | a crash during the first write leaves an empty key for good |

The three token races need two requests of one user at once (`SerialIsSafe`), the
nil dereference and the unstored success a removal besides, and the empty key a process that dies between
the truncation and the write, a read error, or another start at the same time: that
is proved below (`SerialIsSafeHolds`, `NoRemovalNoPanic`,
`NoRemovalEverySuccessStored`, `OnlyTornWritesLeaveNoKey`).

The order of the statements allows three more things, which no property claims
or denies. A state that expires between the expiry test and the UPDATE is
accepted. A reconnect between the SELECT and the DELETE of a removal is removed
under the email of the account before it (one that the same user had consented to,
by `OnlyConsentedAccounts`). Of two first logins at once, the
second INSERT meets the first one's row and that login fails.

More of the same kind, seen while modelling and stated nowhere as a property:

- `LoadOrCreateMasterKey` takes any error of the first read for a missing file
  and overwrites the key of the stored tokens (`secretstore.go:36`), which its
  comment calls the first run. `disturbed` in `MasterKey` is the price: without
  such an error and without two simultaneous starts no key is lost
  (`KeyOnFileOpensAll`, `ErrorHasACause`).
- A stored token that does not open is answered with a 500, not with the
  `needsReauth` README.md:163 names, though only a new login can help.
- The Linux installer prints "installed and started" (`service_linux.go:114`)
  over a service that was running, which `systemctl start` has left as it was:
  the old process serves on with the old options (`kept` in `Service`).
- On Windows an install over a running service fails when its process is not gone
  by the time of `sc create`: the old service is deleted and none is there.
- A stop on Windows cuts off what is running; `Shutdown` and its five seconds are
  not waited for (`service_windows.go:118`), which is why `StopWaits` leaves it out.
- On Windows an install whose `sc failure` has failed reports success over a service
  that no crash will restart (`service_windows.go:250`).
- README.md:128 offers `X-User-Id` for POST and DELETE, which
  `Access-Control-Allow-Headers` does not list: no page can send it.
- SECURITY.md:46-50 says that a browser sends a DELETE of another page "regardless of
  CORS". `cors` does not allow such a page, and a browser asks first (OPTIONS) before
  it sends a DELETE of another origin. That is the browser's doing and not in a model.
- README.md:142 names the configured frontend origin and localhost as honoured
  `returnTo` hosts, and SECURITY.md:20 one host and localhost as allowed origins;
  the staging hosts of `AllowedOrigins` pass both.

## What is proved

For all values of the constants that satisfy the modules' named assumptions
(times and limits are natural numbers, null values are no members of the sets
they are null values for, and, in `TokenService`, the skew covers two call
timeouts).

`OAuthStateProofs`: type correctness, the four safety invariants of
`state`, and `ImplementsSingleUse`. The inductive invariant adds to them
that a row in the table is the row that was inserted but for `used`, that a
missing row of an issued token has expired, that a used row has an accepted
callback, and what each callback's snapshot says at each step. `AcceptedOnce`
alone is not inductive: it says nothing of a callback that is about to run its
UPDATE on a row another one has used. `SingleUseIsSingleUse` is about the abstract
specification alone: it lets no token be redeemed twice, so implementing it says
what it should.

`TokenServiceProofs`: type correctness, `OnlyConsentedAccounts`,
`RefreshTokenOnFile`, `ExpiryTracksToken`, `ServedFresh`, `SerialIsSafe` and
`ImplementsAccountBook`. The invariant has a part for the rows (`RowOk`) and one
for what a request carries at each step (`ReqOk`), relative to the consents of
its user: what is written was read or granted several steps before, so the rows
alone are not inductive. Consents only grow, which is why a stale snapshot does
no harm to isolation. `ServedFresh` follows from the bound of two timeouts on
the recorded expiry and from `2 * Timeout <= Skew`. For the refinement, a step
of a request leaves the other ones alone (`OthersStay`), so the pending consents
change by the one of the request that moves (`PendingMoves`).

Three more theorems say what the disagreements above depend on. `SerialIsSafeHolds`
and `SerialKeepsRefreshToken`: as long as no two requests of a user overlap, with
crashes and errors in between as they come, there is no nil dereference, no row
mixes two accounts, and no rotation is undone. Their invariant (`SerialInv`) is
inductive only under that assumption: every row is of one account, and the only
request at work has its user's row for its snapshot, with tokens of that account.
`NoRemovalNoPanic`: without a DELETE no row disappears (`RowsStay`), so no request
that has seen one can find nothing. `HandlersAdvance` is the safety half of
`EveryRequestEnds`: each step of a handler leaves its request with fewer steps to go
(`StepsLeft`), so nothing goes round in a loop; what is left to fairness is that the
handler is run.

`RateLimiterProofs`: type correctness, `TwoWindowsAtMost`,
`RefusedOnlyWhenSpent`. The invariant says in which window each request that
passed was counted, that one which opens a window comes after the end of the one
before it, and that the last ones belong to the entry's window: so `Limit` requests
further on the window is a later one, and `2 * Limit - 1` further on it is another
one yet or the same one filled to its end (`EdgesInv`).

`MasterKeyProofs`: type correctness, `KeyOnFileOpensAll`, `ServesWithKeyOnFile`,
`ErrorHasACause`. The invariant says that, undisturbed, the process that is
about to create the file has seen none and is alone, so nobody has loaded a key
and no token is stored. `OnlyTornWritesLeaveNoKey` (and `StartupServesWithAKey`, for
whole starts) is the converse of the run `key_empty`: undisturbed, the file is empty
only while it is being written (`EmptyInv`), unless the writer has died just there.

`LoginProofs`: `Login` implements `OAuthState` and `TokenService`
(`ImplementsState`, `ImplementsAccounts`), so their inductive invariants, proved
above, hold in it as they are. The invariant of the composition (`Link`) only adds
how the two sides of a login belong together: a login that has begun was accepted
for the token it holds and goes on for that token's user, and what is in `stored`
was written by such a login. With it each write is one `Bind` of a token that has
not bound before, which gives `ImplementsBinding`. `StoredAsStartedHolds` reads off
the same invariant what each stored account owes to the callback's snapshot, taken
before the two calls to Google. `OwnAttemptsOnly` carries over from `Binding` what it
means end to end: an account is replaced only by an attempt its user started, which
has connected nothing before. `PartsKeepTheirPromises` collects what the two parts
keep in the composition: their abstract specifications, `SerialIsSafe`,
`ServedFresh` and all their safety invariants. `TypeCorrect` is proved and
checked in no run: `StoredAsStarted` includes the type of the one variable `Login`
adds. `NoRemovalEverySuccessStored` is the
converse of the run `login_success`: where nobody removes an account, the row that a
login has seen is there for its UPDATE (`RowsStay`), so a login that reports success
has an entry in `stored`.

`StartupProofs`: for `Migrations` alone, `AloneNotRefused` and
`MigrationsImplementUpgrade`. The invariant says that what is recorded is what is
applied and that both are a prefix of the files, that only the writer is inside a
transaction, that a process's list is a part of the tables (`LoopInv`) and, if it
has been alone, all of them (`LoneInv`). For `Startup`: it implements both of its
parts, so their theorems carry over (`StartupKeepsKeys`, `StartupServesWithAKey`, `ImplementsUpgrade`,
`RefusedOnlyInRaceHolds`), and `ServesMigratedHolds` joins them.

`HttpApiProofs`: `HttpApi` implements `RateLimiter`, whose promises carry over
(`ApiKeepsLimits`); its type; and the two safety properties of its own. The invariant
adds that a row holds what its login asked for, if that is honoured (`RowInv`).

`ServiceProofs`: type correctness, `StopWaits`, `InstalledIsInForce`,
`RemovedIsGone`. For `StopWaits` the invariant (`Waited`) says that while `Shutdown`
waits, each running request has been at it for as long as the patience that is gone. What a report says is true only because of what the steps before
it have achieved, so the invariant says that of each place in each sequence
(`InstallSoFar`, `UninstallSoFar`) and that crashes, restarts and boots leave it
so: after its first step an uninstall has a manager that wants no process, and no
later step wants one again.

Only model-checked: the six liveness properties (`EveryCallbackAnswered`,
`ExpiredRowsPurged`, `EveryRequestEnds`, `EntriesPurged`, `StopEnds`,
`LosingPortIsRetried`), whose proofs need ENABLED, which the prover does not
support. Every other property of a passing run is a theorem. Recursive definitions and induction over data would
be out of its reach as well; no module has either.

## Not modelled

- AES-GCM, SHA-256, base64 and the random generators: taken as given (a token
  opens under its own key only, hashes and draws do not collide).
- What a power loss does to files: processes die, the file system does not. The
  key file is never flushed, so a power loss could lose it after the database
  has kept a token sealed under it.
- Logging, the health route, URL building, version and build files.
- The installers' messages, log files, file modes and the elevation on Windows;
  `install.sh` and `install.ps1`, which README.md mentions and the repository
  does not hold.
- Requests that change no state: `/api/health`, OPTIONS, and what `protected`
  turns away. With them CORS: which requests a browser sends for a page, and which
  answers it lets the page read, is decided there and not in gauth.
- Google's rotation policy: a refresh whose reply is lost may have made the token
  on file useless; in the model it is a refresh that fails.

## Plan

All components that keep state are modelled. What could follow, most useful
first:

1. A file system that loses what was not flushed, under `Startup`: the key file
   against the database at a power loss (`secretstore.go:42`).
2. `Login` behind `HttpApi`: the callback's limit and the state's expiry in one
   model, with a clock.
3. `Service` over `Startup`: a service that is restarted while its predecessor's
   migrations are undone, two configurations with two data directories.
