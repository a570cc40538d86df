----------------------------- MODULE HttpApiProofs -----------------------------
(***************************************************************************)
(* Machine-checked proofs about HttpApi, for any clients, logins, pages,   *)
(* window and limit.                                                       *)
(***************************************************************************)
EXTENDS HttpApi, RateLimiterProofs

\* Every request is one of the limiter's or leaves it alone.
LEMMA LimiterStep == ASSUME [ApiNext]_allVars PROVE [Next]_vars
<1>1. CASE UNCHANGED allVars
  BY <1>1 DEF allVars
<1>2. ASSUME NEW k \in Clients, NEW l \in Logins, AuthURL(k, l) \/ Callback(k, l) PROVE Next
  BY <1>2 DEF AuthURL, Callback, Next
<1>3. ASSUME NEW k \in Clients, Counts(k) PROVE Next
  BY <1>3 DEF Counts, Next
<1>4. ASSUME NEW l \in Logins, Expire(l) PROVE UNCHANGED vars
  BY <1>4 DEF Expire
<1>5. CASE ApiSweep
  BY <1>5 DEF ApiSweep, Next
<1>6. CASE Tick /\ UNCHANGED apiVars
  BY <1>6 DEF Next
<1> QED BY <1>1, <1>2, <1>3, <1>4, <1>5, <1>6 DEF ApiNext

\* In front of the handlers the limiter still behaves as RateLimiter says.
THEOREM ImplementsLimiter == ApiSpec => Spec
<1>1. ApiInit => Init
  BY DEF ApiInit
<1> QED BY <1>1, LimiterStep, PTL DEF ApiSpec, Spec

\* So no client of the API gets more than its windows allow, and none is turned
\* away before its quota is spent.
THEOREM ApiKeepsLimits == ApiSpec => [](TwoWindowsAtMost /\ RefusedOnlyWhenSpent)
BY ImplementsLimiter, TwoWindowsAtMostHolds, RefusedOnlyWhenSpentHolds, PTL

--------------------------------------------------------------------------------
ApiTypes ==
    /\ row \in [Logins -> Targets \cup {NoTarget, NoRow}]
    /\ asked \in [Logins -> Targets \cup {NoRow}]
    /\ over \in SUBSET Logins
    /\ landed \in [Logins -> SUBSET (Pages \cup {Default})]

\* The row of a login holds what it has asked for, if that is honoured.
RowInv ==
    \A l \in Logins : row[l] \notin {NoRow, NoTarget} =>
        row[l] = asked[l] /\ asked[l] # NoRow /\ Honoured(asked[l])

\* Inductive: LandsWhereAsked alone is not, because it does not say what a row
\* that has not been redeemed yet holds.
ApiInv == ApiTypes /\ RowInv /\ TurnedAwayKeepsLogin /\ LandsWhereAsked

LEMMA ApiInvInit == ApiInit => ApiInv
BY DEF ApiInit, ApiInv, ApiTypes, RowInv, TurnedAwayKeepsLogin, LandsWhereAsked

LEMMA AuthURLStep ==
    ASSUME ApiInv, NEW k \in Clients, NEW l \in Logins, AuthURL(k, l) PROVE ApiInv'
<1>1. PICK to \in Targets :
         /\ asked[l] = NoRow /\ UNCHANGED <<over, landed>>
         /\ row' = [row EXCEPT ![l] = Where(to)] /\ asked' = [asked EXCEPT ![l] = to]
  BY DEF AuthURL
<1>2. /\ row'[l] = Where(to) /\ asked'[l] = to
      /\ \A m \in Logins \ {l} : row'[m] = row[m] /\ asked'[m] = asked[m]
  BY <1>1 DEF ApiInv, ApiTypes
<1>3. /\ to # NoRow /\ Where(to) \in Targets \cup {NoTarget} /\ Where(to) # NoRow
      /\ (Where(to) # NoTarget => Where(to) = to /\ Honoured(to))
  BY TargetsAssumption DEF Where
<1>4. ApiTypes'
  BY <1>1, <1>3 DEF ApiInv, ApiTypes
<1>5. RowInv' /\ TurnedAwayKeepsLogin'
  BY <1>1, <1>2, <1>3 DEF ApiInv, RowInv, TurnedAwayKeepsLogin, Honoured
<1>6. LandsWhereAsked'
  BY <1>1, <1>2 DEF ApiInv, LandsWhereAsked, Honoured
<1> QED BY <1>4, <1>5, <1>6 DEF ApiInv

LEMMA CallbackStep ==
    ASSUME ApiInv, NEW k \in Clients, NEW l \in Logins, Callback(k, l) PROVE ApiInv'
<1>1. CASE UNCHANGED apiVars
  BY <1>1 DEF apiVars, ApiInv, ApiTypes, RowInv, TurnedAwayKeepsLogin, LandsWhereAsked, Honoured
<1>2. CASE Redeem(l) /\ over' = over \cup {l} /\ UNCHANGED asked
  <2>1. PICK b \in Pages \cup {Default} :
           /\ landed' = [landed EXCEPT ![l] = @ \cup {b}]
           /\ b # Default => asked[l] # NoRow /\ Honoured(asked[l]) /\ b = asked[l].page
           /\ row' = [row EXCEPT ![l] = NoRow] \/ row' = row
    <3>1. CASE row[l] # NoRow /\ row' = [row EXCEPT ![l] = NoRow]
               /\ landed' = [landed EXCEPT ![l] = @ \cup {Base(row[l])}]
      <4>1. row[l] \in Targets \cup {NoTarget}
        BY <3>1 DEF ApiInv, ApiTypes
      <4>2. CASE row[l] = NoTarget
        BY <3>1, <4>2 DEF Base
      <4>3. CASE row[l] # NoTarget
        BY <3>1, <4>1, <4>3 DEF Base, ApiInv, RowInv, Targets
      <4> QED BY <4>2, <4>3
    <3>2. CASE row' = row /\ landed' = [landed EXCEPT ![l] = @ \cup {Default}]
      BY <3>2
    <3> QED BY <1>2, <3>1, <3>2 DEF Redeem
  <2>2. /\ landed'[l] = landed[l] \cup {b} /\ (row'[l] = NoRow \/ row'[l] = row[l])
        /\ \A m \in Logins \ {l} : row'[m] = row[m] /\ landed'[m] = landed[m]
    BY <2>1 DEF ApiInv, ApiTypes
  <2>3. ApiTypes'
    BY <1>2, <2>1 DEF ApiInv, ApiTypes
  <2>4. RowInv' /\ TurnedAwayKeepsLogin' /\ LandsWhereAsked'
    BY <1>2, <2>1, <2>2 DEF ApiInv, RowInv, TurnedAwayKeepsLogin, LandsWhereAsked, Honoured
  <2> QED BY <2>3, <2>4 DEF ApiInv
<1> QED BY <1>1, <1>2 DEF Callback, apiVars

LEMMA ExpireStep == ASSUME ApiInv, NEW l \in Logins, Expire(l) PROVE ApiInv'
<1>1. /\ row' = [row EXCEPT ![l] = NoRow] /\ over' = over \cup {l}
      /\ UNCHANGED <<asked, landed>>
      /\ row'[l] = NoRow /\ \A m \in Logins \ {l} : row'[m] = row[m]
  BY DEF Expire, ApiInv, ApiTypes
<1>2. ApiTypes'
  BY <1>1 DEF ApiInv, ApiTypes
<1> QED BY <1>1, <1>2 DEF ApiInv, RowInv, TurnedAwayKeepsLogin, LandsWhereAsked, Honoured

LEMMA QuietStep == ASSUME ApiInv, UNCHANGED apiVars PROVE ApiInv'
BY DEF apiVars, ApiInv, ApiTypes, RowInv, TurnedAwayKeepsLogin, LandsWhereAsked, Honoured

--------------------------------------------------------------------------------
\* The invariant holds throughout.
THEOREM ApiInductive == ApiSpec => []ApiInv
<1>1. ApiInv /\ [ApiNext]_allVars => ApiInv'
  BY AuthURLStep, CallbackStep, ExpireStep, QuietStep DEF ApiNext, ApiSweep, Counts, allVars
<1> QED BY <1>1, ApiInvInit, PTL DEF ApiSpec

\* Every variable of the HTTP layer stays in its type.
THEOREM ApiTypeCorrect == ApiSpec => []ApiTypeOK
<1>1. TypeOK /\ ApiInv => ApiTypeOK
  BY DEF ApiInv, ApiTypes, ApiTypeOK
<1> QED BY <1>1, ApiInductive, TypeCorrect, ImplementsLimiter, PTL

\* A login survives the callbacks that are turned away.
THEOREM TurnedAwayKeepsLoginHolds == ApiSpec => []TurnedAwayKeepsLogin
<1>1. ApiInv => TurnedAwayKeepsLogin
  BY DEF ApiInv
<1> QED BY <1>1, ApiInductive, PTL

\* Redirects go to the default page or to the honoured page that the login asked for.
THEOREM LandsWhereAskedHolds == ApiSpec => []LandsWhereAsked
<1>1. ApiInv => LandsWhereAsked
  BY DEF ApiInv
<1> QED BY <1>1, ApiInductive, PTL

================================================================================
