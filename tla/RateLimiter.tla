----------------------------- MODULE RateLimiter -----------------------------
(***************************************************************************)
(* The process-wide limiter of src/src/utils/rate-limiter.ts and the       *)
(* buckets src/src/utils/client-rate-limit.ts gives to its clients.  Every *)
(* HTTP request gets a server of its own, a scope, which the factory binds *)
(* to the client it comes from; a stdio server has one scope that nobody   *)
(* binds.  A charge consumes the minute window of the client's bucket and  *)
(* then the hour window.  The timer that cleans up, and the administrative *)
(* operations of the class, come in between.                               *)
(***************************************************************************)
EXTENDS Integers, Sequences, FiniteSets

CONSTANTS
    Clients,        \* client ids derived at the trusted proxy boundary
    Stdio,          \* the one implicit client of a stdio server
    Scopes,         \* NeoMcpServer instances
    Limits,         \* values maxRequests may be set to
    HourLimits,     \* values maxRequestsPerHour may be set to
    Windows,        \* values windowMs may be set to
    HourWindow,     \* 60 * 60 * 1000
    MaxTime,        \* bound: the clock
    MaxCharges      \* bound: charges of one window

Nobody  == "nobody"
Unbound == "unbound"

ASSUME LimiterConstants ==
    /\ Stdio \notin Clients /\ Clients \cap Scopes = {}
    /\ Nobody \notin Clients \cup {Stdio} /\ Unbound \notin Clients \cup Scopes
    /\ Limits \subseteq Nat \ {0} /\ HourLimits \subseteq Nat \ {0}
    /\ Windows \subseteq Nat \ {0} /\ HourWindow \in Nat \ {0}
    /\ \A w \in Windows : w <= HourWindow
    /\ {MaxTime, MaxCharges} \subseteq Nat

VARIABLES
    now,        \* Date.now()
    limits,     \* [Buckets -> entry]: the minute windows
    hourlyLimits,
    settings,   \* maxRequests, maxRequestsPerHour, windowMs, enabled
    owner,      \* [Scopes -> whose requests the scope serves]
    bucket,     \* clientRateLimitKeys: [Scopes -> the bucket it is charged to]
    served,     \* history: [users -> times of the requests the limiter let pass
                \*            since its settings last changed]
    charged     \* history: [Buckets -> time of the last charge]

vars == <<now, limits, hourlyLimits, settings, owner, bucket, served, charged>>

Users   == Clients \cup {Stdio}
\* A synthetic key is minted from a counter: the scope stands for it.
Buckets == Clients \cup Scopes

Entry   == [count : 1 .. MaxCharges + 1, resetTime : Nat]
NoEntry == [count |-> 0, resetTime |-> 0]
Settings == [maxRequests : Limits, maxRequestsPerHour : HourLimits,
             windowMs : Windows, enabled : BOOLEAN]

-----------------------------------------------------------------------------
(* Windows.                                                                *)

\* Deviation: an entry outlives its last millisecond.
ExpiredLate(entry) == entry = NoEntry \/ entry.resetTime < now

Expired(entry) == entry = NoEntry \/ entry.resetTime <= now

\* Deviation: the charge that opens a window is not counted.
ConsumedFromZero(entry, windowMs) ==
    IF Expired(entry) THEN [count |-> 0, resetTime |-> now + windowMs]
    ELSE [entry EXCEPT !.count = @ + 1]

\* consumeWindow(): the entry after one more charge, refused or not.
Consumed(entry, windowMs) ==
    IF Expired(entry) THEN [count |-> 1, resetTime |-> now + windowMs]
    ELSE [entry EXCEPT !.count = @ + 1]

MinuteAfter(b) == Consumed(limits[b], settings.windowMs)
HourAfter(b)   == Consumed(hourlyLimits[b], HourWindow)

MinuteAllows(b) == MinuteAfter(b).count <= settings.maxRequests

HourAllows(b)   == HourAfter(b).count <= settings.maxRequestsPerHour

-----------------------------------------------------------------------------
(* Operations.                                                             *)

\* Deviation: the factory does not bind the scope.
OpenUnbound(s, u) ==
    /\ owner[s] = Nobody
    /\ owner' = [owner EXCEPT ![s] = u]
    /\ UNCHANGED <<now, limits, hourlyLimits, settings, bucket, served, charged>>

\* A server is made for a request, or once for stdio.  bindRateLimitClientId()
\* binds its scope to the client; without a client it does nothing.
Open(s, u) ==
    /\ owner[s] = Nobody
    /\ u = Stdio => \A t \in Scopes : owner[t] # Stdio
    /\ owner' = [owner EXCEPT ![s] = u]
    /\ bucket' = IF u \in Clients THEN [bucket EXCEPT ![s] = u] ELSE bucket
    /\ UNCHANGED <<now, limits, hourlyLimits, settings, served, charged>>

\* The response is out; the scope and its key are collected.
Close(s) ==
    /\ owner[s] \in Clients
    /\ owner' = [owner EXCEPT ![s] = Nobody]
    /\ bucket' = [bucket EXCEPT ![s] = Unbound]
    /\ UNCHANGED <<now, limits, hourlyLimits, settings, served, charged>>

\* resolveRateLimitKey(): a key is minted for a scope that has none.
Resolved(s) == IF bucket[s] = Unbound THEN s ELSE bucket[s]

\* chargeClientRateLimit() and checkLimit(): the minute window is consumed even
\* if the hour window then refuses; the hour window only if the minute did not.
Charge(s) ==
    LET b == Resolved(s)
    IN  /\ owner[s] # Nobody
        /\ limits[b].count <= MaxCharges
        /\ bucket' = [bucket EXCEPT ![s] = b]
        /\ IF settings.enabled
           THEN /\ limits' = [limits EXCEPT ![b] = MinuteAfter(b)]
                /\ hourlyLimits' = IF MinuteAllows(b)
                                   THEN [hourlyLimits EXCEPT ![b] = HourAfter(b)]
                                   ELSE hourlyLimits
                /\ served' = IF MinuteAllows(b) /\ HourAllows(b)
                             THEN [served EXCEPT ![owner[s]] = Append(@, now)]
                             ELSE served
                /\ charged' = [charged EXCEPT ![b] = now]
           ELSE UNCHANGED <<limits, hourlyLimits, served, charged>>
        /\ UNCHANGED <<now, settings, owner>>

\* Deviation: entries are removed that have not expired.
CleanupAll ==
    /\ limits' = [b \in Buckets |-> NoEntry]
    /\ hourlyLimits' = [b \in Buckets |-> NoEntry]
    /\ UNCHANGED <<now, settings, owner, bucket, served, charged>>

Cleaned(entries) == [b \in Buckets |-> IF Expired(entries[b]) THEN NoEntry ELSE entries[b]]

\* The timer: both maps, in one synchronous pass.
Cleanup ==
    /\ limits' = Cleaned(limits)
    /\ hourlyLimits' = Cleaned(hourlyLimits)
    /\ UNCHANGED <<now, settings, owner, bucket, served, charged>>

\* resetLimit() forgives what was counted in both windows.
ResetLimit(c) ==
    /\ limits' = [limits EXCEPT ![c] = NoEntry]
    /\ hourlyLimits' = [hourlyLimits EXCEPT ![c] = NoEntry]
    /\ served' = [served EXCEPT ![c] = <<>>]
    /\ UNCHANGED <<now, settings, owner, bucket, charged>>

SetEnabled(enabled) ==
    /\ settings' = [settings EXCEPT !.enabled = enabled]
    /\ UNCHANGED <<now, limits, hourlyLimits, owner, bucket, served, charged>>

\* updateSettings(): entries keep their counts and their reset times.
UpdateSettings(new) ==
    /\ new # settings /\ new.enabled = settings.enabled
    /\ settings' = new
    /\ served' = [u \in Users |-> <<>>]
    /\ UNCHANGED <<now, limits, hourlyLimits, owner, bucket, charged>>

Tick ==
    /\ now < MaxTime
    /\ now' = now + 1
    /\ UNCHANGED <<limits, hourlyLimits, settings, owner, bucket, served, charged>>

-----------------------------------------------------------------------------

Init ==
    /\ now = 0
    /\ limits = [b \in Buckets |-> NoEntry]
    /\ hourlyLimits = [b \in Buckets |-> NoEntry]
    /\ settings \in {set \in Settings : set.enabled}
    /\ owner = [s \in Scopes |-> Nobody]
    /\ bucket = [s \in Scopes |-> Unbound]
    /\ served = [u \in Users |-> <<>>]
    /\ charged = [b \in Buckets |-> 0]

Next ==
    \/ \E s \in Scopes : Charge(s) \/ Close(s) \/ \E u \in Users : Open(s, u)
    \/ \E c \in Clients : ResetLimit(c)
    \/ \E enabled \in BOOLEAN : SetEnabled(enabled)
    \/ \E new \in Settings : UpdateSettings(new)
    \/ Cleanup
    \/ Tick

Spec == Init /\ [][Next]_vars

-----------------------------------------------------------------------------
(* Properties.                                                             *)

\* Every variable has its type.
TypeOK ==
    /\ now \in 0 .. MaxTime
    /\ limits \in [Buckets -> Entry \cup {NoEntry}]
    /\ hourlyLimits \in [Buckets -> [count : Nat, resetTime : Nat]]
    /\ settings \in Settings
    /\ owner \in [Scopes -> Users \cup {Nobody}]
    /\ bucket \in [Scopes -> Buckets \cup {Unbound}]
    /\ served \in [Users -> Seq(Nat)]
    /\ charged \in [Buckets -> Nat]

\* No user gets more than 2 * most requests into a span shorter than length.
Spread(times, most, length) ==
    \A i \in 1 .. Len(times) - 2 * most : times[i + 2 * most] - times[i] >= length

\* Over however many servers a client spreads its requests, and wherever the
\* clean-up timer fires, it gets at most two minutes' worth of requests into any
\* minute: the burst around a window boundary, and no more.
MinuteBound ==
    \A u \in Users : Spread(served[u], settings.maxRequests, settings.windowMs)

\* The same for the hour.
HourBound ==
    \A u \in Users : Spread(served[u], settings.maxRequestsPerHour, HourWindow)

\* A client that has kept quiet for the longest window is let in, whatever it was
\* charged before and however the settings changed meanwhile.
QuietIsForgiven ==
    \A b \in Buckets : charged[b] + HourWindow <= now => MinuteAllows(b) /\ HourAllows(b)
=============================================================================
