--------------------------- MODULE RateLimiterProofs ---------------------------
(***************************************************************************)
(* Machine-checked proofs about RateLimiter, for any clients, window and   *)
(* limit.                                                                  *)
(***************************************************************************)
EXTENDS RateLimiter, TLAPS

\* Windows of a client do not overlap, and Limit of its requests fill one.
WindowsInv(k) ==
    LET p == passed[k]
    IN  /\ \A i \in 1..Len(p) : /\ p[i].start <= p[i].at
                                /\ p[i].at <= p[i].start + Window
                                /\ p[i].at <= now
        /\ \A i \in 1..Len(p) :
              i + Limit <= Len(p) => p[i + Limit].start > p[i].start + Window

\* A window starts with a request, and no request is counted in an older window
\* than the one before it.
EdgesInv(k) ==
    LET p == passed[k]
    IN  /\ \A i \in 1..Len(p) :
              p[i].at = p[i].start \/ (i > 1 /\ p[i - 1].start = p[i].start)
        /\ \A i, j \in 1..Len(p) : i <= j => p[i].start <= p[j].start

\* The entry's window is younger than every request that was let through, but
\* for the last ones, which it has counted; a window without an entry is over.
CountedHere(k) == IF hits[k].count <= Limit THEN hits[k].count ELSE Limit
EntryInv(k) ==
    LET p == passed[k]
    IN  /\ hits[k] = NoEntry =>
              \A i \in 1..Len(p) : p[i].start + Window < now
        /\ hits[k] # NoEntry =>
              /\ hits[k].count >= 1 /\ CountedHere(k) <= Len(p)
              /\ hits[k].resetAt >= Window /\ hits[k].resetAt <= now + Window
              /\ \A i \in 1..Len(p) :
                    /\ i > Len(p) - CountedHere(k)
                          => p[i].start = hits[k].resetAt - Window
                    /\ i <= Len(p) - CountedHere(k)
                          => p[i].start + Window < hits[k].resetAt - Window

\* A refusal stays justified by the requests before it.
RefusedInv(k) ==
    refused[k] # NoEntry =>
        LET d == refused[k]
        IN  /\ d.after >= Limit /\ d.after <= Len(passed[k])
            /\ passed[k][d.after - Limit + 1].at + Window >= d.at

\* Inductive: TwoWindowsAtMost alone is not, since it does not know in which
\* window the requests were counted, nor where the current one stands.
IInv ==
    /\ TypeOK
    /\ \A k \in Clients : WindowsInv(k) /\ EdgesInv(k) /\ EntryInv(k) /\ RefusedInv(k)

--------------------------------------------------------------------------------
\* What the steps use of a client's state.
LEMMA Facts ==
    ASSUME IInv, NEW k \in Clients
    PROVE  /\ passed[k] \in Seq(Pass) /\ Len(passed[k]) \in Nat /\ now \in Nat
           /\ \A i \in 1..Len(passed[k]) : passed[k][i].at \in Nat /\ passed[k][i].start \in Nat
           /\ Listed(k) => /\ hits[k] \in Entry /\ hits[k].count \in Nat
                           /\ hits[k].resetAt \in Nat /\ CountedHere(k) \in Nat
           /\ refused[k] \in Refusal \cup {NoEntry}
<1>1. passed[k] \in Seq(Pass) /\ hits[k] \in Entry \cup {NoEntry} /\ now \in Nat
      /\ refused[k] \in Refusal \cup {NoEntry}
  BY DEF IInv, TypeOK
<1>2. \A i \in 1..Len(passed[k]) : passed[k][i] \in Pass
  BY <1>1
<1> QED BY <1>1, <1>2, LimitsAssumption DEF Pass, Entry, Listed, CountedHere

\* When a client has no open window, all it was let through for is in the past.
LEMMA ClosedWindow ==
    ASSUME IInv, NEW k \in Clients, ~Listed(k) \/ Over(k)
    PROVE  \A i \in 1..Len(passed[k]) : passed[k][i].start + Window < now
<1>1. CASE ~Listed(k)
  BY <1>1 DEF IInv, EntryInv, Listed
<1>2. CASE Listed(k) /\ Over(k)
  <2> SUFFICES ASSUME NEW i \in 1..Len(passed[k])
               PROVE  passed[k][i].start + Window < now
    OBVIOUS
  <2> DEFINE start == passed[k][i].start
             end == hits[k].resetAt
  <2>1. start = end - Window \/ start + Window < end - Window
    BY <1>2, Facts DEF IInv, EntryInv, Listed
  <2>2. start \in Nat /\ end \in Nat /\ now \in Nat
    BY <1>2, Facts
  <2>3. end < now
    BY <1>2, <2>2 DEF Over
  <2> HIDE DEF start, end
  <2>4. start + Window < now
    BY <2>1, <2>2, <2>3, LimitsAssumption
  <2> QED BY <2>4 DEF start
<1> QED BY <1>1, <1>2

LEMMA InitInv == Init => IInv
BY LimitsAssumption DEF Init, IInv, TypeOK, WindowsInv, EdgesInv, EntryInv, RefusedInv

\* A client whose map entry and history stay keeps its part as time passes.
LEMMA TickInv == IInv /\ Tick => IInv'
<1> SUFFICES ASSUME IInv, Tick PROVE IInv'
  OBVIOUS
<1>1. TypeOK' /\ now' = now + 1 /\ now \in Nat
      /\ hits' = hits /\ passed' = passed /\ refused' = refused
  BY DEF IInv, TypeOK, Tick
<1>2. ASSUME NEW k \in Clients PROVE (WindowsInv(k) /\ EdgesInv(k) /\ EntryInv(k) /\ RefusedInv(k))'
  <2>1. WindowsInv(k)' /\ EdgesInv(k)' /\ RefusedInv(k)'
    <3>1. passed[k]' = passed[k] /\ refused[k]' = refused[k]
      BY <1>1
    <3>2. ASSUME NEW i \in 1..Len(passed[k]) PROVE passed[k][i].at <= now'
      <4>1. passed[k][i].at <= now
        BY DEF IInv, WindowsInv
      <4>2. passed[k][i].at \in Nat
        BY Facts
      <4> DEFINE at == passed[k][i].at
      <4>3. at \in Nat /\ at <= now
        BY <4>1, <4>2
      <4> HIDE DEF at
      <4>4. at <= now'
        BY <4>3, <1>1
      <4> QED BY <4>4 DEF at
    <3>3. WindowsInv(k)
      BY DEF IInv
    <3>4. WindowsInv(k)'
      BY <3>1, <3>2, <3>3 DEF WindowsInv
    <3>5. EdgesInv(k)' /\ RefusedInv(k)'
      BY <1>1 DEF IInv, EdgesInv, RefusedInv
    <3> QED BY <3>4, <3>5
  <2>2. CASE hits[k] = NoEntry
    <3>1. EntryInv(k)'
      BY <1>1, <2>2, Facts, LimitsAssumption DEF IInv, EntryInv
    <3> QED BY <2>1, <3>1
  <2>3. CASE hits[k] # NoEntry
    <3>1. hits[k].resetAt \in Nat /\ CountedHere(k)' = CountedHere(k)
      BY <1>1, <2>3, Facts DEF Listed, CountedHere
    <3>2. EntryInv(k)'
      BY <1>1, <2>3, <3>1, LimitsAssumption DEF IInv, EntryInv
    <3> QED BY <2>1, <3>2
  <2> QED BY <2>2, <2>3
<1> QED BY <1>1, <1>2 DEF IInv

LEMMA SweepInv == IInv /\ Sweep => IInv'
<1> SUFFICES ASSUME IInv, Sweep PROVE IInv'
  OBVIOUS
<1>1. TypeOK' /\ now' = now /\ passed' = passed /\ refused' = refused
  BY DEF IInv, TypeOK, Sweep
<1>2. ASSUME NEW k \in Clients PROVE (WindowsInv(k) /\ EdgesInv(k) /\ EntryInv(k) /\ RefusedInv(k))'
  <2>1. WindowsInv(k)' /\ EdgesInv(k)' /\ RefusedInv(k)'
    BY <1>1 DEF IInv, WindowsInv, EdgesInv, RefusedInv
  <2>2. CASE hits'[k] = hits[k]
    BY <1>1, <2>1, <2>2 DEF IInv, EntryInv, CountedHere
  <2>3. CASE Listed(k) /\ Over(k) /\ hits'[k] = NoEntry
    BY <1>1, <2>1, <2>3, ClosedWindow DEF EntryInv
  <2> QED BY <2>2, <2>3 DEF Sweep
<1> QED BY <1>1, <1>2 DEF IInv

LEMMA AllowInv == ASSUME IInv, NEW k \in Clients, Allow(k) PROVE IInv'
<1> DEFINE e == Counted(k)
           p == passed[k]
<1>1. e \in Entry /\ e.count \in Nat /\ e.count >= 1 /\ e.resetAt \in Nat
      /\ e.resetAt >= Window /\ now <= e.resetAt /\ e.resetAt <= now + Window
  <2>1. CASE ~Listed(k) \/ Over(k)
    BY <2>1, Facts, LimitsAssumption DEF Counted, Entry
  <2>2. CASE Listed(k) /\ ~Over(k)
    <3>1. hits[k].resetAt >= Window /\ hits[k].resetAt <= now + Window
      BY <2>2 DEF IInv, EntryInv, Listed
    <3> QED BY <2>2, <3>1, Facts DEF Counted, Entry, Over
  <2> QED BY <2>1, <2>2
<1>2. /\ now' = now /\ now \in Nat /\ hits' = [hits EXCEPT ![k] = e]
      /\ hits \in [Clients -> Entry \cup {NoEntry}] /\ passed \in [Clients -> Seq(Pass)]
      /\ refused \in [Clients -> Refusal \cup {NoEntry}] /\ p \in Seq(Pass) /\ Len(p) \in Nat
  BY DEF Allow, IInv, TypeOK
<1>3. hits'[k] = e /\ e # NoEntry
  BY <1>1, <1>2, NoEntryAssumption
<1> HIDE DEF e
<1>4. ASSUME NEW q \in Clients \ {k} PROVE (WindowsInv(q) /\ EdgesInv(q) /\ EntryInv(q) /\ RefusedInv(q))'
  <2>1. hits'[q] = hits[q] /\ passed'[q] = passed[q] /\ refused'[q] = refused[q] /\ now' = now
    BY <1>2, <1>4 DEF Allow
  <2> QED BY <1>4, <2>1 DEF IInv, WindowsInv, EdgesInv, EntryInv, RefusedInv, CountedHere
\* Where the requests let through so far stand to the entry e.
<1> DEFINE n == IF e.count - 1 <= Limit THEN e.count - 1 ELSE Limit
<1>5. /\ n <= Len(p)
      /\ \A i \in 1..Len(p) :
            /\ i > Len(p) - n => p[i].start = e.resetAt - Window
            /\ i <= Len(p) - n => p[i].start + Window < e.resetAt - Window
  <2>1. CASE ~Listed(k) \/ Over(k)
    <3>1. e.count = 1 /\ e.resetAt = now + Window
      BY <2>1 DEF e, Counted
    <3> QED BY <1>2, <2>1, <3>1, ClosedWindow, Facts, LimitsAssumption
  <2>2. CASE Listed(k) /\ ~Over(k)
    <3>1. e.count = hits[k].count + 1 /\ e.resetAt = hits[k].resetAt /\ hits[k].count \in Nat
      BY <2>2, Facts DEF e, Counted, Entry
    <3>2. n = CountedHere(k)
      BY <3>1 DEF CountedHere
    <3> HIDE DEF n
    <3> QED BY <2>2, <3>1, <3>2 DEF IInv, EntryInv, Listed
  <2> QED BY <2>1, <2>2
<1>6. CASE ~Spent(k)
  <2> DEFINE new == [at |-> now, start |-> e.resetAt - Window]
  <2>1. /\ passed' = [passed EXCEPT ![k] = Append(p, new)] /\ refused' = refused
        /\ e.count <= Limit
    BY <1>1, <1>6, LimitsAssumption DEF Allow, Spent, e
  <2>2. new \in Pass
    BY <1>1, <1>2, LimitsAssumption DEF Pass
  <2>3. /\ passed'[k] = Append(p, new) /\ Len(passed'[k]) = Len(p) + 1
        /\ \A i \in 1..Len(p) : passed'[k][i] = p[i]
        /\ passed'[k][Len(p) + 1].at = now
        /\ passed'[k][Len(p) + 1].start = e.resetAt - Window
    BY <1>2, <2>1, <2>2
  <2>4. TypeOK'
    <3>1. Append(p, new) \in Seq(Pass)
      BY <1>2, <2>2
    <3> HIDE DEF new
    <3> QED BY <1>1, <1>2, <2>1, <3>1 DEF TypeOK
  <2> HIDE DEF new
  <2>5. n = e.count - 1
    BY <1>1, <2>1, LimitsAssumption
  <2>6. WindowsInv(k)'
    <3>1. \A i \in 1..Len(p)+1 : /\ passed'[k][i].start <= passed'[k][i].at
                                 /\ passed'[k][i].at <= passed'[k][i].start + Window
                                 /\ passed'[k][i].at <= now
      BY <1>1, <1>2, <2>3, Facts, LimitsAssumption DEF IInv, WindowsInv
    <3>2. ASSUME NEW i \in 1..Len(p)+1, i + Limit <= Len(p) + 1
          PROVE  passed'[k][i + Limit].start > passed'[k][i].start + Window
      <4>1. CASE i + Limit <= Len(p)
        <5>1. i \in 1..Len(p) /\ i + Limit \in 1..Len(p)
          BY <3>2, <4>1, <1>2, LimitsAssumption
        <5>2. p[i + Limit].start > p[i].start + Window
          BY <4>1, <5>1 DEF IInv, WindowsInv
        <5>3. passed'[k][i + Limit] = p[i + Limit] /\ passed'[k][i] = p[i]
          BY <2>3, <5>1
        <5> QED BY <5>2, <5>3
      <4>2. CASE i + Limit = Len(p) + 1
        <5>1. i \in 1..Len(p) /\ i <= Len(p) - n
          BY <1>1, <1>2, <2>1, <2>5, <4>2, LimitsAssumption
        <5>2. p[i].start + Window < e.resetAt - Window
          BY <1>5, <5>1
        <5>3. passed'[k][i + Limit].start = e.resetAt - Window /\ passed'[k][i] = p[i]
          BY <2>3, <4>2, <5>1
        <5>4. p[i].start \in Nat /\ e.resetAt \in Nat
          BY <1>1, <5>1, Facts
        <5> QED BY <5>2, <5>3, <5>4, LimitsAssumption
      <4>3. i + Limit <= Len(p) \/ i + Limit = Len(p) + 1
        <5>1. i \in Nat /\ Limit \in Nat /\ Len(p) \in Nat
          BY <1>2, LimitsAssumption
        <5> HIDE DEF p
        <5> QED BY <3>2, <5>1
      <4> QED BY <4>1, <4>2, <4>3
    <3> QED BY <1>2, <2>3, <3>1, <3>2 DEF WindowsInv
  <2>7. EntryInv(k)'
    <3>1. CountedHere(k)' = n + 1
      BY <1>1, <1>3, <2>1, <2>5 DEF CountedHere
    <3> HIDE DEF n
    <3>2. n \in Nat
      BY <1>1, <2>5
    <3>3. ASSUME NEW i \in 1..Len(p)+1
          PROVE  /\ i > Len(p) + 1 - (n + 1) => passed'[k][i].start = e.resetAt - Window
                 /\ i <= Len(p) + 1 - (n + 1)
                       => passed'[k][i].start + Window < e.resetAt - Window
      BY <1>2, <1>5, <2>3, <3>2
    <3> QED BY <1>1, <1>2, <1>3, <1>5, <2>3, <3>1, <3>2, <3>3 DEF EntryInv
  <2>8. EdgesInv(k)'
    <3>1. ASSUME NEW i \in 1..Len(p)
          PROVE  p[i].start <= e.resetAt - Window
      <4>1. p[i].start = e.resetAt - Window \/ p[i].start + Window < e.resetAt - Window
        <5> HIDE DEF n
        <5>1. n \in Int
          BY <1>1, <2>5
        <5>2. i > Len(p) - n \/ i <= Len(p) - n
          BY <1>2, <5>1
        <5> QED BY <1>5, <5>2
      <4>2. p[i].start \in Nat /\ e.resetAt \in Nat
        BY <1>1, Facts
      <4> QED BY <4>1, <4>2, LimitsAssumption
    <3>2. CASE e.count = 1
      <4>1. now = e.resetAt - Window
        <5>1. ~Listed(k) \/ Over(k)
          BY <3>2, Facts DEF e, Counted, IInv, EntryInv, Listed
        <5> QED BY <5>1, <1>2, LimitsAssumption DEF e, Counted
      <4> QED BY <1>2, <2>3, <3>1, <4>1 DEF IInv, EdgesInv
    <3>3. CASE e.count # 1
      <4>1. Len(p) \in 1..Len(p) /\ p[Len(p)].start = e.resetAt - Window
        <5> HIDE DEF n
        <5>1. n \in Nat /\ n >= 1
          BY <1>1, <2>5, <3>3
        <5>2. Len(p) \in 1..Len(p) /\ Len(p) > Len(p) - n
          BY <1>2, <1>5, <5>1
        <5> QED BY <1>5, <5>2
      <4> QED BY <1>2, <2>3, <3>1, <4>1 DEF IInv, EdgesInv
    <3> QED BY <3>2, <3>3
  <2>9. RefusedInv(k)'
    <3>1. ASSUME refused[k] # NoEntry
          PROVE  LET d == refused[k]
                 IN  /\ d.after >= Limit /\ d.after <= Len(p) + 1
                     /\ passed'[k][d.after - Limit + 1].at + Window >= d.at
      <4> DEFINE d == refused[k]
      <4>1. d.after >= Limit /\ d.after <= Len(p) /\ p[d.after - Limit + 1].at + Window >= d.at
            /\ d.after \in Nat
        BY <3>1, Facts DEF IInv, RefusedInv, Refusal
      <4>2. d.after - Limit + 1 \in 1..Len(p)
        BY <4>1, <1>2, LimitsAssumption
      <4> QED BY <2>3, <4>1, <4>2, <1>2
    <3> QED BY <2>1, <2>3, <3>1 DEF RefusedInv
  <2> QED BY <1>4, <2>4, <2>6, <2>7, <2>8, <2>9 DEF IInv
<1>7. CASE Spent(k)
  <2> DEFINE d == [at |-> now, after |-> Len(p)]
  <2>1. /\ refused' = [refused EXCEPT ![k] = d] /\ passed' = passed
        /\ e.count > Limit
    BY <1>7 DEF Allow, Spent, e
  <2>2. n = Limit /\ CountedHere(k)' = Limit
    BY <1>1, <1>3, <2>1, LimitsAssumption DEF CountedHere
  <2>3. d \in Refusal /\ d.after = Len(p) /\ d.at = now
    BY <1>2 DEF Refusal
  <2> HIDE DEF n, d
  <2>4. TypeOK'
    BY <1>1, <1>2, <2>1, <2>3 DEF TypeOK
  <2>5. WindowsInv(k)' /\ EdgesInv(k)'
    BY <1>2, <2>1 DEF IInv, WindowsInv, EdgesInv
  <2>6. EntryInv(k)'
    BY <1>1, <1>2, <1>3, <1>5, <2>1, <2>2 DEF EntryInv
  <2>7. Len(p) - Limit + 1 \in 1..Len(p) /\ p[Len(p) - Limit + 1].at + Window >= now
    <3>1. Len(p) - Limit + 1 \in 1..Len(p)
      BY <1>2, <1>5, <2>2, LimitsAssumption
    <3>2. p[Len(p) - Limit + 1].start = e.resetAt - Window
      BY <1>2, <1>5, <2>2, <3>1, LimitsAssumption
    <3>3. p[Len(p) - Limit + 1].at >= p[Len(p) - Limit + 1].start
      BY <3>1 DEF IInv, WindowsInv
    <3> QED BY <1>1, <1>2, <3>1, <3>2, <3>3, Facts, LimitsAssumption
  <2>8. RefusedInv(k)'
    BY <1>2, <1>5, <2>1, <2>2, <2>3, <2>7 DEF IInv, RefusedInv
  <2> QED BY <1>4, <2>4, <2>5, <2>6, <2>8 DEF IInv
<1> QED BY <1>6, <1>7

--------------------------------------------------------------------------------
\* The invariant holds throughout.
THEOREM Inductive == Spec => []IInv
<1>1. IInv /\ UNCHANGED vars => IInv'
  <2> SUFFICES ASSUME IInv, UNCHANGED vars PROVE IInv'
    OBVIOUS
  <2>1. TypeOK'
    BY DEF vars, IInv, TypeOK
  <2>2. ASSUME NEW k \in Clients
        PROVE  (WindowsInv(k) /\ EdgesInv(k) /\ EntryInv(k) /\ RefusedInv(k))'
    <3>1. (WindowsInv(k) /\ EdgesInv(k) /\ RefusedInv(k))'
      BY DEF vars, IInv, WindowsInv, EdgesInv, RefusedInv
    <3>2. EntryInv(k)'
      BY DEF vars, IInv, EntryInv, CountedHere
    <3> QED BY <3>1, <3>2
  <2> QED BY <2>1, <2>2 DEF IInv
<1>2. IInv /\ [Next]_vars => IInv'
  BY <1>1, TickInv, SweepInv, AllowInv DEF Next
<1> QED BY <1>2, InitInv, PTL DEF Spec

\* Every variable stays in its type.
THEOREM TypeCorrect == Spec => []TypeOK
<1>1. IInv => TypeOK
  BY DEF IInv
<1> QED BY <1>1, Inductive, PTL

\* Two windows' worth of requests take longer than one window.
THEOREM TwoWindowsAtMostHolds == Spec => []TwoWindowsAtMost
<1>1. IInv => TwoWindowsAtMost
  <2> SUFFICES ASSUME IInv, NEW k \in Clients, NEW i \in 1..Len(passed[k]),
                      i + 2 * Limit - 1 <= Len(passed[k])
               PROVE  passed[k][i + 2 * Limit - 1].at > passed[k][i].at + Window
    BY DEF TwoWindowsAtMost
  <2> DEFINE p == passed[k]
             last == i + 2 * Limit - 1
  <2> SUFFICES p[last].at > p[i].at + Window
    OBVIOUS
  <2>1. i \in 1..Len(p) /\ last \in 1..Len(p) /\ Len(p) \in Nat
    BY Facts, LimitsAssumption
  <2>2. /\ \A j \in 1..Len(p) : p[j].at \in Nat /\ p[j].start \in Nat
        /\ p[i].at <= p[i].start + Window /\ p[last].at >= p[last].start
    BY <2>1, Facts DEF IInv, WindowsInv
  \* The first of its window: the one Limit further is in a later window.
  <2>3. CASE p[i].at = p[i].start
    <3>1. i + Limit \in 1..Len(p) /\ i + Limit <= last
      BY <2>1, LimitsAssumption
    <3> HIDE DEF last
    <3>2. p[i + Limit].start > p[i].start + Window
      BY <3>1 DEF IInv, WindowsInv
    <3>3. p[last].start >= p[i + Limit].start
      BY <2>1, <3>1 DEF IInv, EdgesInv
    <3> HIDE DEF p
    <3>4. \A a1, s1, s2, s3, a3 \in Nat :
             a1 = s1 /\ s2 > s1 + Window /\ s3 >= s2 /\ a3 >= s3 => a3 > a1 + Window
      BY LimitsAssumption
    <3> QED BY <2>1, <2>2, <2>3, <3>1, <3>2, <3>3, <3>4
  \* Not the first: the last one is in a third window.
  <2>4. CASE i > 1 /\ p[i - 1].start = p[i].start
    <3>1. /\ i - 1 \in 1..Len(p) /\ i - 1 + Limit \in 1..Len(p)
          /\ last = (i - 1 + Limit) + Limit
      BY <2>1, <2>4, LimitsAssumption
    <3>2. p[i - 1 + Limit].start > p[i - 1].start + Window
      BY <3>1 DEF IInv, WindowsInv
    <3>3. p[last].start > p[i - 1 + Limit].start + Window
      BY <2>1, <3>1 DEF IInv, WindowsInv
    <3> HIDE DEF last, p
    <3>4. \A a1, s1, s2, s3, a3 \in Nat :
             a1 <= s1 + Window /\ s2 > s1 + Window /\ s3 > s2 + Window /\ a3 >= s3
                => a3 > a1 + Window
      BY LimitsAssumption
    <3> QED BY <2>1, <2>2, <2>4, <3>1, <3>2, <3>3, <3>4
  <2> QED BY <2>3, <2>4 DEF IInv, EdgesInv
<1> QED BY <1>1, Inductive, PTL

\* Nobody is turned away but for requests of its own within the last window.
THEOREM RefusedOnlyWhenSpentHolds == Spec => []RefusedOnlyWhenSpent
<1>1. IInv => RefusedOnlyWhenSpent
  BY DEF IInv, RefusedInv, RefusedOnlyWhenSpent
<1> QED BY <1>1, Inductive, PTL

================================================================================
