-------------------------- MODULE RateLimiterProofs --------------------------
(***************************************************************************)
(* Proofs about RateLimiter, for any clients, servers, limits and windows  *)
(* no longer than the hour: nobody gets more than two windows' worth of    *)
(* requests into the span of one, and who keeps quiet is let in again.     *)
(***************************************************************************)
EXTENDS RateLimiter, SequenceTheorems, TLAPS

-----------------------------------------------------------------------------
(* The inductive invariant.                                                *)

EntryShape == [count : Nat, resetTime : Nat]

\* When the requests before the current window had been over for one length.
Horizon(t, entry) == IF entry.resetTime <= t THEN t ELSE entry.resetTime

\* What the entry of a window says of the times at which its user was served: of the
\* last k of them, which the entry has counted, there are no more than the limit; those
\* before were served a length before the window ends; those before a whole limit of
\* them, a length before now.
Remembers(t, times, entry, most, length) ==
    \E k \in Nat :
        /\ k <= Len(times) /\ k <= most
        /\ entry.resetTime > t => k <= entry.count
        /\ \A i \in 1 .. Len(times) - k : times[i] + length <= Horizon(t, entry)
        /\ \A i \in 1 .. Len(times) - k - most : times[i] + length <= t

Tracked(t, times, entry, most, length) ==
    /\ \A i \in 1 .. Len(times) : times[i] <= t
    /\ Spread(times, most, length)
    /\ Remembers(t, times, entry, most, length)

\* The one bucket of a user, if it has one yet.
BucketsOf(u) == IF u = Stdio THEN {s \in Scopes : owner[s] = Stdio} ELSE {u}

Both(u, b) ==
    /\ Tracked(now, served[u], limits[b], settings.maxRequests, settings.windowMs)
    /\ Tracked(now, served[u], hourlyLimits[b], settings.maxRequestsPerHour, HourWindow)

Kept ==
    /\ \A u \in Users : \A b \in BucketsOf(u) : Both(u, b)
    /\ (\A s \in Scopes : owner[s] # Stdio) => served[Stdio] = <<>>

\* However many scopes a client has, they share its bucket.
Bound ==
    /\ \A s \in Scopes :
          /\ owner[s] \in Clients => bucket[s] = owner[s]
          /\ owner[s] = Stdio => bucket[s] \in {Unbound, s}
          /\ owner[s] = Nobody => bucket[s] = Unbound
    /\ \A s, t \in Scopes : owner[s] = Stdio /\ owner[t] = Stdio => s = t

\* No entry outlives the last charge by more than the longest window.
Fading ==
    \A b \in Buckets :
        /\ charged[b] <= now
        /\ limits[b].resetTime <= charged[b] + HourWindow
        /\ hourlyLimits[b].resetTime <= charged[b] + HourWindow

IInv == TypeOK /\ Bound /\ Kept /\ Fading

-----------------------------------------------------------------------------
(* One window and the times of its user.                                   *)

LEMMA NothingServed ==
    ASSUME NEW t \in Nat, NEW entry \in EntryShape, NEW most \in Nat, NEW length \in Nat
    PROVE  Tracked(t, <<>>, entry, most, length)
  <1>1. Len(<<>>) = 0
    OBVIOUS
  <1>2. Spread(<<>>, most, length)
    BY <1>1 DEF Spread
  <1>3. Remembers(t, <<>>, entry, most, length)
    <2>1. /\ 0 \in Nat /\ 0 <= 0 /\ 0 <= most /\ 0 <= entry.count
          /\ \A i \in 1 .. 0 - 0 : <<>>[i] + length <= Horizon(t, entry)
          /\ \A i \in 1 .. 0 - 0 - most : <<>>[i] + length <= t
      BY DEF EntryShape
    <2> QED
      BY <1>1, <2>1 DEF Remembers
  <1> QED
    BY <1>1, <1>2, <1>3 DEF Tracked

\* Time only takes requests further away.
LEMMA Later ==
    ASSUME NEW t \in Nat, NEW u \in Nat, t <= u, NEW times \in Seq(Nat), NEW entry \in EntryShape,
           NEW most \in Nat, NEW length \in Nat, Tracked(t, times, entry, most, length)
    PROVE  Tracked(u, times, entry, most, length)
  <1>0. entry.resetTime \in Nat /\ entry.count \in Nat /\ Len(times) \in Nat
        /\ \A i \in 1 .. Len(times) : times[i] \in Nat
    BY LenProperties, ElementOfSeq DEF EntryShape
  <1>1. \A i \in 1 .. Len(times) : times[i] <= u
    BY <1>0 DEF Tracked
  <1>2. Remembers(u, times, entry, most, length)
    <2>1. PICK k \in Nat :
            /\ k <= Len(times) /\ k <= most
            /\ entry.resetTime > t => k <= entry.count
            /\ \A i \in 1 .. Len(times) - k : times[i] + length <= Horizon(t, entry)
            /\ \A i \in 1 .. Len(times) - k - most : times[i] + length <= t
      BY DEF Tracked, Remembers
    <2>2. Horizon(t, entry) <= Horizon(u, entry) /\ Horizon(t, entry) \in Nat /\ Horizon(u, entry) \in Nat
      BY <1>0 DEF Horizon
    <2>3. \A i \in 1 .. Len(times) - k : times[i] + length <= Horizon(u, entry)
      BY <1>0, <2>1, <2>2, SMTT(30)
    <2>4. \A i \in 1 .. Len(times) - k - most : times[i] + length <= u
      BY <1>0, <2>1
    <2>5. entry.resetTime > u => k <= entry.count
      BY <1>0, <2>1
    <2> QED
      BY <2>1, <2>3, <2>4, <2>5 DEF Remembers
  <1> QED
    BY <1>1, <1>2 DEF Tracked

\* An entry that is over may be removed.
LEMMA Forgotten ==
    ASSUME NEW t \in Nat, NEW times \in Seq(Nat), NEW entry \in EntryShape, entry.resetTime <= t,
           NEW most \in Nat, NEW length \in Nat, Tracked(t, times, entry, most, length)
    PROVE  Tracked(t, times, NoEntry, most, length)
  <1>1. Horizon(t, entry) = t /\ Horizon(t, NoEntry) = t /\ ~(NoEntry.resetTime > t)
    BY DEF Horizon, NoEntry
  <1>2. Remembers(t, times, NoEntry, most, length)
    BY <1>1 DEF Tracked, Remembers
  <1> QED
    BY <1>2 DEF Tracked

\* consumeWindow(): the next window opens where the last is over, or one more is counted;
\* the request is let pass if the count allows it, and the window remembers either way.
LEMMA Counted ==
    ASSUME NEW t \in Nat, NEW times \in Seq(Nat), NEW entry \in EntryShape,
           NEW most \in Nat \ {0}, NEW length \in Nat, Tracked(t, times, entry, most, length),
           NEW after \in EntryShape,
           entry.resetTime <= t => after.count = 1 /\ after.resetTime = t + length,
           entry.resetTime > t => after.count = entry.count + 1 /\ after.resetTime = entry.resetTime
    PROVE  /\ Tracked(t, times, after, most, length)
           /\ after.count <= most => Tracked(t, Append(times, t), after, most, length)
  <1> DEFINE n == Len(times)
             more == Append(times, t)
  <1>0. entry.resetTime \in Nat /\ entry.count \in Nat /\ after.resetTime \in Nat /\ after.count \in Nat
        /\ n \in Nat /\ \A i \in 1 .. n : times[i] \in Nat /\ times[i] <= t
    BY LenProperties, ElementOfSeq DEF EntryShape, Tracked
  <1>1. PICK k \in Nat :
          /\ k <= n /\ k <= most
          /\ entry.resetTime > t => k <= entry.count
          /\ \A i \in 1 .. n - k : times[i] + length <= Horizon(t, entry)
          /\ \A i \in 1 .. n - k - most : times[i] + length <= t
    BY DEF Tracked, Remembers
  <1>2. Spread(times, most, length)
    BY DEF Tracked
  <1>3. Len(more) = n + 1 /\ more[n + 1] = t /\ \A i \in 1 .. n : more[i] = times[i]
    BY AppendProperties
  <1> HIDE DEF more, n
  \* In a new window nothing is counted yet; one limit back, all was over when it opened.
  <1>4. CASE entry.resetTime <= t
    <2>1. Horizon(t, entry) = t /\ after.count = 1 /\ after.resetTime = t + length
      BY <1>4 DEF Horizon
    <2>2. Horizon(t, after) = t + length
      BY <1>0, <2>1 DEF Horizon
    <2>3. \A i \in 1 .. n : times[i] + length <= t + length
      BY <1>0
    <2>4. \A i \in 1 .. n - most : times[i] + length <= t
      BY <1>0, <1>1, <2>1
    <2>5. Remembers(t, times, after, most, length)
      <3>1. /\ 0 <= n /\ 0 <= most /\ 0 <= after.count
            /\ \A i \in 1 .. n - 0 : times[i] + length <= Horizon(t, after)
            /\ \A i \in 1 .. n - 0 - most : times[i] + length <= t
        BY <1>0, <2>2, <2>3, <2>4
      <3> QED
        BY <3>1 DEF Remembers, n
    <2>6. Remembers(t, more, after, most, length)
      <3>1. /\ 1 <= n + 1 /\ 1 <= most /\ 1 <= after.count
            /\ \A i \in 1 .. (n + 1) - 1 : more[i] + length <= Horizon(t, after)
            /\ \A i \in 1 .. (n + 1) - 1 - most : more[i] + length <= t
        BY <1>0, <1>3, <2>1, <2>2, <2>3, <2>4, SMTT(30)
      <3> QED
        BY <1>3, <3>1 DEF Remembers
    <2>7. \A i \in 1 .. (n + 1) - 2 * most : i \in 1 .. n - most
      BY <1>0
    <2>8. \A i \in 1 .. (n + 1) - 2 * most : i + 2 * most = n + 1 => t - times[i] >= length
      BY <1>0, <2>4, <2>7
    <2>9. Spread(more, most, length)
      <3> SUFFICES ASSUME NEW i \in 1 .. (n + 1) - 2 * most
                   PROVE  more[i + 2 * most] - more[i] >= length
        BY <1>3 DEF Spread
      <3>1. i \in 1 .. n
        BY <1>0
      <3>2. CASE i + 2 * most = n + 1
        <4>1. more[i + 2 * most] = t /\ more[i] = times[i]
          BY <1>3, <3>1, <3>2
        <4>2. t - times[i] >= length
          <5>1. i \in 1 .. (n + 1) - 2 * most
            OBVIOUS
          <5> QED
            BY <2>8, <3>2, <5>1
        <4> QED
          BY <4>1, <4>2
      <3>3. CASE i + 2 * most # n + 1
        <4>1. i \in 1 .. n - 2 * most /\ i + 2 * most \in 1 .. n
          BY <1>0, <3>3
        <4> QED
          BY <1>2, <1>3, <3>1, <4>1 DEF Spread, n
      <3> QED
        BY <3>2, <3>3
    <2>10. \A i \in 1 .. Len(more) : more[i] <= t
      BY <1>0, <1>3, SMTT(30)
    <2> QED
      BY <1>0, <1>2, <2>5, <2>6, <2>9, <2>10 DEF Tracked, n, more
  \* In an open window the request is one of those that were counted.
  <1>5. CASE entry.resetTime > t
    <2>1. Horizon(t, after) = Horizon(t, entry) /\ after.count = entry.count + 1 /\ k <= entry.count
      BY <1>1, <1>5 DEF Horizon
    <2>2. Remembers(t, times, after, most, length)
      <3>1. k <= after.count
        BY <1>0, <2>1
      <3> QED
        BY <1>1, <2>1, <3>1 DEF Remembers, n
    <2>3. ASSUME after.count <= most
          PROVE  Tracked(t, more, after, most, length)
      <3>1. k + 1 \in Nat /\ k + 1 <= n + 1 /\ k + 1 <= most /\ k + 1 <= after.count
        BY <1>0, <1>1, <2>1, <2>3
      <3>2. /\ \A i \in 1 .. (n + 1) - (k + 1) : more[i] + length <= Horizon(t, after)
            /\ \A i \in 1 .. (n + 1) - (k + 1) - most : more[i] + length <= t
        <4>1. (n + 1) - (k + 1) = n - k /\ (n + 1) - (k + 1) - most = n - k - most
          BY <1>0, <1>1
        <4>2. ASSUME NEW i \in 1 .. n - k
              PROVE  more[i] + length <= Horizon(t, after)
          <5>1. i \in 1 .. n
            BY <1>0, <1>1
          <5> QED
            BY <1>1, <1>3, <2>1, <5>1
        <4>3. ASSUME NEW i \in 1 .. n - k - most
              PROVE  more[i] + length <= t
          <5>1. i \in 1 .. n
            BY <1>0, <1>1
          <5> QED
            BY <1>1, <1>3, <5>1
        <4> QED
          BY <4>1, <4>2, <4>3
      <3>3. Remembers(t, more, after, most, length)
        BY <1>3, <3>1, <3>2 DEF Remembers
      <3>4. Spread(more, most, length)
        <4> SUFFICES ASSUME NEW i \in 1 .. (n + 1) - 2 * most
                     PROVE  more[i + 2 * most] - more[i] >= length
          BY <1>3 DEF Spread
        <4>1. i \in 1 .. n
          BY <1>0
        <4>2. CASE i + 2 * most = n + 1
          <5>1. i \in 1 .. n - k - most
            BY <1>0, <1>1, <3>1, <4>2
          <5>2. times[i] + length <= t /\ times[i] \in Nat
            BY <1>0, <1>1, <4>1, <5>1
          <5>3. more[i + 2 * most] = t /\ more[i] = times[i]
            BY <1>3, <4>1, <4>2
          <5> QED
            BY <5>2, <5>3
        <4>3. CASE i + 2 * most # n + 1
          <5>1. i \in 1 .. n - 2 * most /\ i + 2 * most \in 1 .. n
            BY <1>0, <4>3
          <5> QED
            BY <1>2, <1>3, <4>1, <5>1 DEF Spread, n
        <4> QED
          BY <4>2, <4>3
      <3>5. \A i \in 1 .. Len(more) : more[i] <= t
        BY <1>0, <1>3, SMTT(30)
      <3> QED
        BY <3>3, <3>4, <3>5 DEF Tracked
    <2> QED
      BY <1>0, <1>2, <2>2, <2>3 DEF Tracked, n, more
  <1> QED
    BY <1>0, <1>4, <1>5

-----------------------------------------------------------------------------
(* Users and their buckets.                                                *)

LEMMA Numbers ==
    /\ Limits \subseteq Nat \ {0} /\ HourLimits \subseteq Nat \ {0}
    /\ Windows \subseteq Nat \ {0} /\ HourWindow \in Nat \ {0}
    /\ \A w \in Windows : w <= HourWindow
    /\ MaxTime \in Nat /\ MaxCharges \in Nat
  BY LimiterConstants

LEMMA Facts ==
    ASSUME TypeOK
    PROVE  /\ now \in Nat
           /\ limits \in [Buckets -> EntryShape] /\ hourlyLimits \in [Buckets -> EntryShape]
           /\ settings.maxRequests \in Nat \ {0} /\ settings.maxRequestsPerHour \in Nat \ {0}
           /\ settings.windowMs \in Nat \ {0} /\ settings.windowMs <= HourWindow
           /\ served \in [Users -> Seq(Nat)]
  <1>1. Entry \cup {NoEntry} \subseteq EntryShape
    BY Numbers DEF Entry, NoEntry, EntryShape
  <1>2. limits \in [Buckets -> EntryShape] /\ hourlyLimits \in [Buckets -> EntryShape]
    BY <1>1 DEF TypeOK, EntryShape
  <1>3. /\ settings.maxRequests \in Limits /\ settings.maxRequestsPerHour \in HourLimits
        /\ settings.windowMs \in Windows
    BY DEF TypeOK, Settings
  <1>4. now \in Nat
    BY Numbers DEF TypeOK
  <1> QED
    BY <1>2, <1>3, <1>4, Numbers DEF TypeOK

LEMMA BucketsOfUsers ==
    ASSUME TypeOK, Bound
    PROVE  /\ \A u \in Users : BucketsOf(u) \subseteq Buckets
           /\ \A u, v \in Users : \A b \in BucketsOf(u), c \in BucketsOf(v) : b = c <=> u = v
           /\ \A s \in Scopes : owner[s] # Nobody =>
                 owner[s] \in Users /\ Resolved(s) \in BucketsOf(owner[s])
  <1>1. \A u \in Users : BucketsOf(u) \subseteq Buckets
    BY DEF BucketsOf, Users, Buckets
  <1>2. ASSUME NEW u \in Users, NEW v \in Users, NEW b \in BucketsOf(u), NEW c \in BucketsOf(v)
        PROVE  b = c <=> u = v
    BY LimiterConstants DEF BucketsOf, Users, Bound
  <1>3. ASSUME NEW s \in Scopes, owner[s] # Nobody
        PROVE  owner[s] \in Users /\ Resolved(s) \in BucketsOf(owner[s])
    <2>1. owner[s] \in Users
      BY <1>3 DEF TypeOK
    <2>2. CASE owner[s] = Stdio
      BY <2>1, <2>2 DEF Bound, BucketsOf, Resolved
    <2>3. CASE owner[s] \in Clients
      BY <2>1, <2>3, LimiterConstants DEF Bound, BucketsOf, Resolved
    <2> QED
      BY <2>1, <2>2, <2>3 DEF Users
  <1> QED
    BY <1>1, <1>2, <1>3

\* Steps that change neither the windows nor what was served, nor the clock.
LEMMA Untouched ==
    ASSUME Kept, UNCHANGED <<now, limits, hourlyLimits, settings, served, owner>>
    PROVE  Kept'
  BY DEF Kept, Both, BucketsOf

LEMMA FadingUntouched ==
    ASSUME Fading, UNCHANGED <<now, limits, hourlyLimits, charged>>
    PROVE  Fading'
  BY DEF Fading

-----------------------------------------------------------------------------
(* Steps.                                                                  *)

LEMMA OpenStep ==
    ASSUME IInv, NEW s \in Scopes, NEW u \in Users, Open(s, u)
    PROVE  IInv'
  <1>1. TypeOK'
    BY DEF Open, IInv, TypeOK, Buckets
  <1>2. Bound'
    BY LimiterConstants DEF Open, IInv, Bound, TypeOK, Users
  <1>3. Kept'
    <2>1. ASSUME NEW v \in Users, NEW b \in BucketsOf(v)'
          PROVE  Both(v, b)'
      <3>1. CASE b \in BucketsOf(v)
        BY <3>1 DEF Open, IInv, Kept, Both
      <3>2. CASE b \notin BucketsOf(v)
        <4>1. v = Stdio /\ b \in Scopes /\ \A t \in Scopes : owner[t] # Stdio
          BY <3>2 DEF Open, BucketsOf, IInv, TypeOK
        <4>2. served[v] = <<>> /\ b \in Buckets
          BY <4>1 DEF IInv, Kept, Buckets
        <4>3. /\ Tracked(now, <<>>, limits[b], settings.maxRequests, settings.windowMs)
              /\ Tracked(now, <<>>, hourlyLimits[b], settings.maxRequestsPerHour, HourWindow)
          BY <4>2, Facts, Numbers, NothingServed DEF IInv
        <4> QED
          BY <4>2, <4>3 DEF Open, Both
      <3> QED
        BY <3>1, <3>2
    <2>2. (\A t \in Scopes : owner'[t] # Stdio) => served'[Stdio] = <<>>
      <3>1. \A t \in Scopes : owner'[t] # Stdio => owner[t] # Stdio
        BY LimiterConstants DEF Open, IInv, TypeOK
      <3> QED
        BY <3>1 DEF Open, IInv, Kept
    <2> QED
      BY <2>1, <2>2 DEF Kept
  <1>4. Fading'
    BY FadingUntouched DEF Open, IInv
  <1> QED
    BY <1>1, <1>2, <1>3, <1>4 DEF IInv

LEMMA CloseStep ==
    ASSUME IInv, NEW s \in Scopes, Close(s)
    PROVE  IInv'
  <1>1. TypeOK'
    BY DEF Close, IInv, TypeOK
  <1>2. Bound'
    BY LimiterConstants DEF Close, IInv, Bound, TypeOK
  <1>3. \A t \in Scopes : owner'[t] = Stdio <=> owner[t] = Stdio
    BY LimiterConstants DEF Close, IInv, TypeOK
  <1>4. Kept'
    BY <1>3 DEF Close, IInv, Kept, Both, BucketsOf
  <1>5. Fading'
    BY FadingUntouched DEF Close, IInv
  <1> QED
    BY <1>1, <1>2, <1>4, <1>5 DEF IInv

\* What a charge makes of the two entries of its bucket.
LEMMA ConsumedIs ==
    ASSUME TypeOK, NEW entry \in EntryShape, NEW length \in Nat
    PROVE  LET after == Consumed(entry, length) IN
           /\ after \in EntryShape
           /\ entry.resetTime <= now => after.count = 1 /\ after.resetTime = now + length
           /\ entry.resetTime > now => after.count = entry.count + 1 /\ after.resetTime = entry.resetTime
  <1>0. now \in Nat /\ entry.count \in Nat /\ entry.resetTime \in Nat
    BY Facts DEF EntryShape
  <1>1. Expired(entry) <=> entry.resetTime <= now
    BY <1>0 DEF Expired, NoEntry
  <1>2. CASE entry.resetTime <= now
    <2>1. Consumed(entry, length) = [count |-> 1, resetTime |-> now + length]
      BY <1>1, <1>2 DEF Consumed
    <2> QED
      BY <1>0, <1>2, <2>1 DEF EntryShape
  <1>3. CASE entry.resetTime > now
    <2>1. Consumed(entry, length) = [entry EXCEPT !.count = entry.count + 1]
      BY <1>0, <1>1, <1>3 DEF Consumed
    <2> QED
      BY <1>0, <1>3, <2>1 DEF EntryShape
  <1> QED
    BY <1>0, <1>2, <1>3

LEMMA ChargedStep ==
    ASSUME IInv, NEW s \in Scopes, Charge(s), settings.enabled
    PROVE  IInv'
  <1> DEFINE u == owner[s]
             b == Resolved(s)
             minute == MinuteAfter(b)
             hour == HourAfter(b)
             pass == minute.count <= settings.maxRequests /\ hour.count <= settings.maxRequestsPerHour
  <1>1. /\ u # Nobody /\ limits[b].count <= MaxCharges
        /\ bucket' = [bucket EXCEPT ![s] = b]
        /\ limits' = [limits EXCEPT ![b] = minute]
        /\ hourlyLimits' = IF minute.count <= settings.maxRequests
                           THEN [hourlyLimits EXCEPT ![b] = hour] ELSE hourlyLimits
        /\ served' = IF pass THEN [served EXCEPT ![u] = Append(served[u], now)] ELSE served
        /\ charged' = [charged EXCEPT ![b] = now]
        /\ UNCHANGED <<now, settings, owner>>
    BY DEF Charge, MinuteAllows, HourAllows
  <1>2. u \in Users /\ b \in BucketsOf(u) /\ b \in Buckets /\ s \in Scopes
    BY <1>1, BucketsOfUsers DEF IInv
  <1>3. /\ now \in Nat /\ limits[b] \in EntryShape /\ hourlyLimits[b] \in EntryShape
        /\ served[u] \in Seq(Nat) /\ settings.windowMs \in Nat /\ settings.windowMs <= HourWindow
        /\ settings.maxRequests \in Nat \ {0} /\ settings.maxRequestsPerHour \in Nat \ {0}
    BY <1>2, Facts DEF IInv
  <1>4. /\ minute \in EntryShape
        /\ limits[b].resetTime <= now => minute.count = 1 /\ minute.resetTime = now + settings.windowMs
        /\ limits[b].resetTime > now => minute.count = limits[b].count + 1
                                        /\ minute.resetTime = limits[b].resetTime
    BY <1>3, ConsumedIs DEF MinuteAfter, IInv
  <1>5. /\ hour \in EntryShape
        /\ hourlyLimits[b].resetTime <= now => hour.count = 1 /\ hour.resetTime = now + HourWindow
        /\ hourlyLimits[b].resetTime > now => hour.count = hourlyLimits[b].count + 1
                                              /\ hour.resetTime = hourlyLimits[b].resetTime
    BY <1>3, Numbers, ConsumedIs DEF HourAfter, IInv
  <1> HIDE DEF minute, hour, b, u
  <1>6. Both(u, b)
    BY <1>2 DEF IInv, Kept
  <1>7. Tracked(now, served'[u], minute, settings.maxRequests, settings.windowMs)
    <2>1. /\ Tracked(now, served[u], minute, settings.maxRequests, settings.windowMs)
          /\ minute.count <= settings.maxRequests =>
                Tracked(now, Append(served[u], now), minute, settings.maxRequests, settings.windowMs)
      BY <1>3, <1>4, <1>6, Counted DEF Both
    <2> QED
      BY <1>1, <1>2, <2>1 DEF IInv, TypeOK
  <1>8. Tracked(now, served'[u], hourlyLimits'[b], settings.maxRequestsPerHour, HourWindow)
    <2>1. /\ Tracked(now, served[u], hour, settings.maxRequestsPerHour, HourWindow)
          /\ hour.count <= settings.maxRequestsPerHour =>
                Tracked(now, Append(served[u], now), hour, settings.maxRequestsPerHour, HourWindow)
      BY <1>3, <1>5, <1>6, Numbers, Counted DEF Both
    <2>2. CASE minute.count <= settings.maxRequests
      BY <1>1, <1>2, <2>1, <2>2 DEF IInv, TypeOK
    <2>3. CASE ~(minute.count <= settings.maxRequests)
      BY <1>1, <1>6, <2>3 DEF Both
    <2> QED
      BY <2>2, <2>3
  <1>9. TypeOK'
    <2>1. minute \in Entry
      BY <1>1, <1>3, <1>4, Numbers DEF EntryShape, Entry
    <2>2. limits' \in [Buckets -> Entry \cup {NoEntry}]
      BY <1>1, <2>1 DEF IInv, TypeOK
    <2>3. hourlyLimits' \in [Buckets -> [count : Nat, resetTime : Nat]]
      BY <1>1, <1>5 DEF IInv, TypeOK, EntryShape
    <2>4. bucket' \in [Scopes -> Buckets \cup {Unbound}]
      BY <1>1, <1>2 DEF IInv, TypeOK
    <2>5. served' \in [Users -> Seq(Nat)]
      <3>1. Append(served[u], now) \in Seq(Nat)
        BY <1>3, AppendProperties
      <3> QED
        BY <1>1, <3>1 DEF IInv, TypeOK
    <2>6. charged' \in [Buckets -> Nat]
      BY <1>1, <1>3 DEF IInv, TypeOK
    <2> QED
      BY <1>1, <2>2, <2>3, <2>4, <2>5, <2>6 DEF IInv, TypeOK
  <1>10. Bound'
    <2>1. owner[s] \in Clients => b = owner[s]
      BY LimiterConstants DEF b, Resolved, IInv, Bound
    <2>2. owner[s] = Stdio => b = s
      BY DEF b, Resolved, IInv, Bound
    <2> QED
      BY <1>1, <2>1, <2>2 DEF IInv, Bound, TypeOK, u
  <1>11. Kept'
    <2>1. ASSUME NEW v \in Users, NEW c \in BucketsOf(v)'
          PROVE  Both(v, c)'
      <3>1. c \in BucketsOf(v) /\ c \in Buckets
        BY <1>1, BucketsOfUsers DEF BucketsOf, IInv
      <3>2. b = c <=> u = v
        BY <1>2, <3>1, BucketsOfUsers DEF IInv
      <3>3. CASE v = u
        <4>1. limits'[c] = minute
          BY <1>1, <1>2, <3>2, <3>3 DEF IInv, TypeOK
        <4> QED
          BY <1>1, <1>7, <1>8, <3>2, <3>3, <4>1 DEF Both
      <3>4. CASE v # u
        <4>1. served'[v] = served[v] /\ limits'[c] = limits[c] /\ hourlyLimits'[c] = hourlyLimits[c]
          BY <1>1, <3>1, <3>2, <3>4 DEF IInv, TypeOK
        <4>2. Both(v, c)
          BY <3>1 DEF IInv, Kept
        <4> QED
          BY <1>1, <4>1, <4>2 DEF Both
      <3> QED
        BY <3>3, <3>4
    <2>2. (\A t \in Scopes : owner'[t] # Stdio) => served'[Stdio] = <<>>
      <3>1. ASSUME \A t \in Scopes : owner[t] # Stdio
            PROVE  served'[Stdio] = <<>>
        <4>1. u # Stdio /\ served[Stdio] = <<>>
          BY <1>2, <3>1 DEF u, IInv, Kept
        <4> QED
          BY <1>1, <4>1 DEF IInv, TypeOK, Users
      <3> QED
        BY <1>1, <3>1
    <2> QED
      BY <2>1, <2>2 DEF Kept
  <1>12. Fading'
    <2> SUFFICES ASSUME NEW c \in Buckets
                 PROVE  /\ charged'[c] <= now'
                        /\ limits'[c].resetTime <= charged'[c] + HourWindow
                        /\ hourlyLimits'[c].resetTime <= charged'[c] + HourWindow
      BY DEF Fading
    <2>0. charged[c] \in Nat /\ charged[b] \in Nat
      BY <1>2 DEF IInv, TypeOK
    <2>3. limits[b].resetTime <= now + HourWindow /\ hourlyLimits[b].resetTime <= now + HourWindow
      BY <1>2, <1>3, <2>0, Numbers, SMTT(30) DEF IInv, Fading, EntryShape
    <2>1. CASE c = b
      <3>1. charged'[c] = now /\ limits'[c] = minute
        BY <1>1, <2>1 DEF IInv, TypeOK
      <3>2. minute.resetTime <= now + HourWindow
        BY <1>3, <1>4, <2>3, Numbers DEF EntryShape
      <3>3. hour.resetTime <= now + HourWindow /\ hourlyLimits[b].resetTime <= now + HourWindow
        BY <1>3, <1>5, <2>3, Numbers DEF EntryShape
      <3> QED
        BY <1>1, <2>1, <3>1, <3>2, <3>3 DEF IInv, TypeOK
    <2>2. CASE c # b
      BY <1>1, <2>2 DEF IInv, TypeOK, Fading
    <2> QED
      BY <2>1, <2>2
  <1> QED
    BY <1>9, <1>10, <1>11, <1>12 DEF IInv

\* A limiter that is switched off only mints a key.
LEMMA UnchargedStep ==
    ASSUME IInv, NEW s \in Scopes, Charge(s), ~settings.enabled
    PROVE  IInv'
  <1>1. /\ owner[s] # Nobody /\ bucket' = [bucket EXCEPT ![s] = Resolved(s)]
        /\ UNCHANGED <<now, limits, hourlyLimits, settings, owner, served, charged>>
    BY DEF Charge
  <1>2. Resolved(s) \in Buckets
    BY DEF Resolved, Buckets, IInv, TypeOK
  <1>3. TypeOK'
    BY <1>1, <1>2 DEF IInv, TypeOK
  <1>4. Bound'
    <2>1. owner[s] \in Clients => Resolved(s) = owner[s]
      BY LimiterConstants DEF Resolved, IInv, Bound
    <2>2. owner[s] = Stdio => Resolved(s) = s
      BY DEF Resolved, IInv, Bound
    <2> QED
      BY <1>1, <2>1, <2>2 DEF IInv, Bound, TypeOK
  <1>5. Kept' /\ Fading'
    BY <1>1, Untouched, FadingUntouched DEF IInv
  <1> QED
    BY <1>3, <1>4, <1>5 DEF IInv

LEMMA CleanedStep ==
    ASSUME IInv, NEW entries \in [Buckets -> EntryShape], NEW b \in Buckets, NEW times \in Seq(Nat),
           NEW most \in Nat, NEW length \in Nat, Tracked(now, times, entries[b], most, length)
    PROVE  Tracked(now, times, Cleaned(entries)[b], most, length)
  <1>1. CASE Expired(entries[b])
    <2>1. entries[b].resetTime <= now
      BY <1>1, Facts DEF Expired, NoEntry, IInv
    <2> QED
      BY <1>1, <2>1, Facts, Forgotten DEF Cleaned, IInv
  <1>2. CASE ~Expired(entries[b])
    BY <1>2 DEF Cleaned
  <1> QED
    BY <1>1, <1>2

LEMMA CleanupStep ==
    ASSUME IInv, Cleanup
    PROVE  IInv'
  <1>1. /\ limits' = Cleaned(limits) /\ hourlyLimits' = Cleaned(hourlyLimits)
        /\ UNCHANGED <<now, settings, owner, bucket, served, charged>>
    BY DEF Cleanup
  <1>2. TypeOK'
    BY <1>1, Facts DEF Cleaned, NoEntry, IInv, TypeOK
  <1>3. Bound'
    BY <1>1 DEF IInv, Bound
  <1>4. Kept'
    <2>1. ASSUME NEW u \in Users, NEW b \in BucketsOf(u)'
          PROVE  Both(u, b)'
      <3>1. b \in BucketsOf(u) /\ b \in Buckets
        BY <1>1, BucketsOfUsers DEF BucketsOf, IInv
      <3>2. Both(u, b)
        BY <3>1 DEF IInv, Kept
      <3>3. /\ served[u] \in Seq(Nat) /\ settings.maxRequests \in Nat /\ settings.windowMs \in Nat
            /\ settings.maxRequestsPerHour \in Nat /\ HourWindow \in Nat
            /\ limits \in [Buckets -> EntryShape] /\ hourlyLimits \in [Buckets -> EntryShape]
        BY Facts, Numbers DEF IInv
      <3>4. /\ Tracked(now, served[u], Cleaned(limits)[b], settings.maxRequests, settings.windowMs)
            /\ Tracked(now, served[u], Cleaned(hourlyLimits)[b], settings.maxRequestsPerHour, HourWindow)
        BY <3>1, <3>2, <3>3, CleanedStep DEF Both
      <3> QED
        BY <1>1, <3>4 DEF Both
    <2> QED
      BY <1>1, <2>1 DEF IInv, Kept
  <1>5. Fading'
    <2>1. ASSUME NEW b \in Buckets
          PROVE  /\ Cleaned(limits)[b].resetTime <= charged[b] + HourWindow
                 /\ Cleaned(hourlyLimits)[b].resetTime <= charged[b] + HourWindow
      BY Numbers DEF Cleaned, NoEntry, IInv, Fading, TypeOK
    <2> QED
      BY <1>1, <2>1 DEF IInv, Fading
  <1> QED
    BY <1>2, <1>3, <1>4, <1>5 DEF IInv

\* Who is forgiven starts anew in both windows.
LEMMA ResetStep ==
    ASSUME IInv, NEW c \in Clients, ResetLimit(c)
    PROVE  IInv'
  <1>1. /\ limits' = [limits EXCEPT ![c] = NoEntry] /\ hourlyLimits' = [hourlyLimits EXCEPT ![c] = NoEntry]
        /\ served' = [served EXCEPT ![c] = <<>>]
        /\ UNCHANGED <<now, settings, owner, bucket, charged>>
    BY DEF ResetLimit
  <1>2. c \in Users /\ c \in Buckets /\ c \in BucketsOf(c) /\ c # Stdio
    BY LimiterConstants DEF Users, Buckets, BucketsOf
  <1>3. TypeOK'
    <2>1. NoEntry \in [count : Nat, resetTime : Nat]
      BY DEF NoEntry
    <2>2. <<>> \in Seq(Nat)
      OBVIOUS
    <2> QED
      BY <1>1, <2>1, <2>2 DEF IInv, TypeOK
  <1>4. Bound'
    BY <1>1 DEF IInv, Bound
  <1>5. Kept'
    <2>1. ASSUME NEW u \in Users, NEW b \in BucketsOf(u)'
          PROVE  Both(u, b)'
      <3>1. b \in BucketsOf(u) /\ b \in Buckets /\ (b = c <=> u = c)
        BY <1>1, <1>2, BucketsOfUsers DEF BucketsOf, IInv
      <3>2. CASE u = c
        <4>1. served'[u] = <<>> /\ limits'[b] = NoEntry /\ hourlyLimits'[b] = NoEntry /\ NoEntry \in EntryShape
          BY <1>1, <3>1, <3>2 DEF IInv, TypeOK, NoEntry, EntryShape
        <4>2. /\ Tracked(now, <<>>, NoEntry, settings.maxRequests, settings.windowMs)
              /\ Tracked(now, <<>>, NoEntry, settings.maxRequestsPerHour, HourWindow)
          BY <4>1, Facts, Numbers, NothingServed DEF IInv
        <4> QED
          BY <1>1, <4>1, <4>2 DEF Both
      <3>3. CASE u # c
        <4>1. served'[u] = served[u] /\ limits'[b] = limits[b] /\ hourlyLimits'[b] = hourlyLimits[b]
          BY <1>1, <3>1, <3>3 DEF IInv, TypeOK
        <4>2. Both(u, b)
          BY <3>1 DEF IInv, Kept
        <4> QED
          BY <1>1, <4>1, <4>2 DEF Both
      <3> QED
        BY <3>2, <3>3
    <2>2. served'[Stdio] = served[Stdio]
      BY <1>1, <1>2 DEF IInv, TypeOK, Users
    <2> QED
      BY <1>1, <2>1, <2>2 DEF IInv, Kept
  <1>6. Fading'
    BY <1>1, Numbers DEF IInv, Fading, TypeOK, NoEntry
  <1> QED
    BY <1>3, <1>4, <1>5, <1>6 DEF IInv

LEMMA SetEnabledStep ==
    ASSUME IInv, NEW enabled \in BOOLEAN, SetEnabled(enabled)
    PROVE  IInv'
  <1>1. /\ settings' = [settings EXCEPT !.enabled = enabled]
        /\ UNCHANGED <<now, limits, hourlyLimits, owner, bucket, served, charged>>
    BY DEF SetEnabled
  <1>2. /\ settings' \in Settings /\ settings'.maxRequests = settings.maxRequests
        /\ settings'.maxRequestsPerHour = settings.maxRequestsPerHour
        /\ settings'.windowMs = settings.windowMs
    BY <1>1 DEF IInv, TypeOK, Settings
  <1>3. TypeOK'
    BY <1>1, <1>2 DEF IInv, TypeOK
  <1>4. Bound' /\ Fading'
    BY <1>1, FadingUntouched DEF IInv, Bound
  <1>5. Kept'
    BY <1>1, <1>2 DEF IInv, Kept, Both, BucketsOf
  <1> QED
    BY <1>3, <1>4, <1>5 DEF IInv

\* Windows that are open keep their counts and their ends under any new settings.
LEMMA UpdateStep ==
    ASSUME IInv, NEW new \in Settings, UpdateSettings(new)
    PROVE  IInv'
  <1>1. /\ settings' = new /\ served' = [u \in Users |-> <<>>]
        /\ UNCHANGED <<now, limits, hourlyLimits, owner, bucket, charged>>
    BY DEF UpdateSettings
  <1>2. TypeOK'
    <2>1. <<>> \in Seq(Nat)
      OBVIOUS
    <2> QED
      BY <1>1, <2>1 DEF IInv, TypeOK
  <1>3. Bound' /\ Fading'
    BY <1>1, FadingUntouched DEF IInv, Bound
  <1>4. Kept'
    <2>1. ASSUME NEW u \in Users, NEW b \in BucketsOf(u)'
          PROVE  Both(u, b)'
      <3>1. b \in Buckets /\ served'[u] = <<>>
        BY <1>1, BucketsOfUsers DEF BucketsOf, IInv
      <3>2. /\ now \in Nat /\ limits[b] \in EntryShape /\ hourlyLimits[b] \in EntryShape
            /\ new.maxRequests \in Nat /\ new.windowMs \in Nat
            /\ new.maxRequestsPerHour \in Nat /\ HourWindow \in Nat
        BY <3>1, Facts, Numbers DEF IInv, Settings
      <3>3. /\ Tracked(now, <<>>, limits[b], new.maxRequests, new.windowMs)
            /\ Tracked(now, <<>>, hourlyLimits[b], new.maxRequestsPerHour, HourWindow)
        BY <3>2, NothingServed
      <3> QED
        BY <1>1, <3>1, <3>3 DEF Both
    <2>2. served'[Stdio] = <<>>
      BY <1>1 DEF Users
    <2> QED
      BY <2>1, <2>2 DEF Kept
  <1> QED
    BY <1>2, <1>3, <1>4 DEF IInv

LEMMA TickStep ==
    ASSUME IInv, Tick
    PROVE  IInv'
  <1>1. now < MaxTime /\ now' = now + 1 /\ now \in Nat /\ now' \in Nat /\ now <= now'
        /\ UNCHANGED <<limits, hourlyLimits, settings, owner, bucket, served, charged>>
    BY Facts DEF Tick, IInv
  <1>2. TypeOK'
    BY <1>1, Numbers DEF IInv, TypeOK
  <1>3. Bound'
    BY <1>1 DEF IInv, Bound
  <1>4. Kept'
    <2>1. ASSUME NEW u \in Users, NEW b \in BucketsOf(u)'
          PROVE  Both(u, b)'
      <3>1. b \in BucketsOf(u) /\ b \in Buckets
        BY <1>1, BucketsOfUsers DEF BucketsOf, IInv
      <3>2. Both(u, b)
        BY <3>1 DEF IInv, Kept
      <3>3. /\ served[u] \in Seq(Nat) /\ settings.maxRequests \in Nat /\ settings.windowMs \in Nat
            /\ settings.maxRequestsPerHour \in Nat /\ HourWindow \in Nat
            /\ limits[b] \in EntryShape /\ hourlyLimits[b] \in EntryShape
        BY <3>1, Facts, Numbers DEF IInv
      <3>4. /\ Tracked(now', served[u], limits[b], settings.maxRequests, settings.windowMs)
            /\ Tracked(now', served[u], hourlyLimits[b], settings.maxRequestsPerHour, HourWindow)
        BY <1>1, <3>2, <3>3, Later DEF Both
      <3> QED
        BY <1>1, <3>4 DEF Both
    <2> QED
      BY <1>1, <2>1 DEF IInv, Kept
  <1>5. Fading'
    BY <1>1 DEF IInv, Fading, TypeOK
  <1> QED
    BY <1>2, <1>3, <1>4, <1>5 DEF IInv

-----------------------------------------------------------------------------
(* The theorems.                                                           *)

LEMMA Initially == Init => IInv
  <1> SUFFICES ASSUME Init PROVE IInv
    OBVIOUS
  <1>1. TypeOK
    <2>1. NoEntry \in [count : Nat, resetTime : Nat] /\ <<>> \in Seq(Nat)
      BY DEF NoEntry
    <2> QED
      BY <2>1, Numbers DEF Init, TypeOK
  <1>2. Bound
    BY LimiterConstants DEF Init, Bound
  <1>3. Kept
    <2>1. ASSUME NEW u \in Users, NEW b \in BucketsOf(u)
          PROVE  Both(u, b)
      <3>1. served[u] = <<>> /\ b \in Buckets
        BY <1>1, <1>2, BucketsOfUsers DEF Init
      <3>2. /\ Tracked(now, <<>>, limits[b], settings.maxRequests, settings.windowMs)
            /\ Tracked(now, <<>>, hourlyLimits[b], settings.maxRequestsPerHour, HourWindow)
        BY <1>1, <3>1, Facts, Numbers, NothingServed
      <3> QED
        BY <3>1, <3>2 DEF Both
    <2>2. served[Stdio] = <<>>
      BY DEF Init, Users
    <2> QED
      BY <2>1, <2>2 DEF Kept
  <1>4. Fading
    BY Numbers DEF Init, Fading, NoEntry
  <1> QED
    BY <1>1, <1>2, <1>3, <1>4 DEF IInv

LEMMA Inductive == IInv /\ [Next]_vars => IInv'
  <1> SUFFICES ASSUME IInv, [Next]_vars PROVE IInv'
    OBVIOUS
  <1>1. ASSUME NEW s \in Scopes, Charge(s) PROVE IInv'
    BY <1>1, ChargedStep, UnchargedStep
  <1>2. ASSUME NEW s \in Scopes, Close(s) PROVE IInv'
    BY <1>2, CloseStep
  <1>3. ASSUME NEW s \in Scopes, NEW u \in Users, Open(s, u) PROVE IInv'
    BY <1>3, OpenStep
  <1>4. ASSUME NEW c \in Clients, ResetLimit(c) PROVE IInv'
    BY <1>4, ResetStep
  <1>5. ASSUME NEW enabled \in BOOLEAN, SetEnabled(enabled) PROVE IInv'
    BY <1>5, SetEnabledStep
  <1>6. ASSUME NEW new \in Settings, UpdateSettings(new) PROVE IInv'
    BY <1>6, UpdateStep
  <1>7. CASE UNCHANGED vars
    <2>1. TypeOK' /\ Bound'
      BY <1>7 DEF IInv, TypeOK, Bound, vars
    <2>2. Kept' /\ Fading'
      BY <1>7, Untouched, FadingUntouched DEF IInv, vars
    <2> QED
      BY <2>1, <2>2 DEF IInv
  <1> QED
    BY <1>1, <1>2, <1>3, <1>4, <1>5, <1>6, <1>7, CleanupStep, TickStep DEF Next

LEMMA Invariantly == Spec => []IInv
  BY Initially, Inductive, PTL DEF Spec

\* Whoever has no bucket yet was never served.
LEMMA AllTracked ==
    ASSUME IInv, NEW u \in Users
    PROVE  /\ Spread(served[u], settings.maxRequests, settings.windowMs)
           /\ Spread(served[u], settings.maxRequestsPerHour, HourWindow)
  <1>1. CASE \E b : b \in BucketsOf(u)
    BY <1>1 DEF IInv, Kept, Both, Tracked
  <1>2. CASE ~\E b : b \in BucketsOf(u)
    <2>1. served[u] = <<>>
      BY <1>2 DEF IInv, Kept, BucketsOf
    <2>2. Len(<<>>) = 0
      OBVIOUS
    <2> QED
      BY <2>1, <2>2, Facts, SMTT(30) DEF Spread, IInv
  <1> QED
    BY <1>1, <1>2

\* Every variable keeps its type.
THEOREM Typed == Spec => []TypeOK
  <1>1. IInv => TypeOK
    BY DEF IInv
  <1> QED
    BY Invariantly, <1>1, PTL

\* No client gets more than two minutes' worth of requests into a minute, whatever the
\* minute is, over however many servers its requests are spread, and whenever entries
\* are cleaned up, reset or outlived by new settings.
THEOREM Minute == Spec => []MinuteBound
  <1>1. IInv => MinuteBound
    BY AllTracked DEF MinuteBound
  <1> QED
    BY Invariantly, <1>1, PTL

\* The same for the hour window, whose entries are charged only if the minute allows.
THEOREM Hour == Spec => []HourBound
  <1>1. IInv => HourBound
    BY AllTracked DEF HourBound
  <1> QED
    BY Invariantly, <1>1, PTL

\* Who is not charged for an hour is let in: no entry that blocks outlives its window.
THEOREM Forgiven == Spec => []QuietIsForgiven
  <1>1. ASSUME IInv
        PROVE  QuietIsForgiven
    <2> SUFFICES ASSUME NEW b \in Buckets, charged[b] + HourWindow <= now
                 PROVE  MinuteAllows(b) /\ HourAllows(b)
      BY DEF QuietIsForgiven
    <2>1. /\ now \in Nat /\ limits[b] \in EntryShape /\ hourlyLimits[b] \in EntryShape
          /\ settings.maxRequests \in Nat \ {0} /\ settings.maxRequestsPerHour \in Nat \ {0}
          /\ settings.windowMs \in Nat
      BY <1>1, Facts DEF IInv
    <2>2. limits[b].resetTime <= now /\ hourlyLimits[b].resetTime <= now
      BY <1>1, <2>1, Numbers DEF IInv, Fading, EntryShape, TypeOK
    <2>3. MinuteAfter(b).count = 1 /\ HourAfter(b).count = 1
      BY <1>1, <2>1, <2>2, Numbers, ConsumedIs DEF IInv, MinuteAfter, HourAfter
    <2> QED
      BY <2>1, <2>3 DEF MinuteAllows, HourAllows
  <1> QED
    BY Invariantly, <1>1, PTL
=============================================================================
