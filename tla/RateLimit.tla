----------------------------- MODULE RateLimit -----------------------------
(***************************************************************************)
(* The fixed window limiter in front of every route.  A request reads the  *)
(* clock before it waits for the mutex, so that windows are judged by a    *)
(* clock that may be behind; Delay bounds how long it waits.  A client is  *)
(* what clientIP returns.  Requests the limiter lets by unseen (OPTIONS,   *)
(* /api/health, or RateLimitEnabled off) are left out.                     *)
(***************************************************************************)
EXTENDS Integers, Sequences, FiniteSets

CONSTANTS Clients, Threads,
          Limit, Window,  \* limit and window after the defaults of newRateLimiter
          Capacity,       \* number of buckets from which pruneLocked works (10000)
          Delay, MaxTime, \* bounds: wait for the mutex, length of a behaviour
          None

VARIABLES
    time,
    buckets,   \* each client's bucket, with its start and its count, or None
    waiting,   \* requests before the mutex: client and the clock they read
    admitted   \* history: each client's requests let through, in order: when, in which window

vars == <<time, buckets, waiting, admitted>>

Moments == 0 .. MaxTime
Bucket == [start : Moments, count : 0 .. Limit]
Admission == [at : Moments, start : Moments]

TypeOK ==
    /\ time \in Moments
    /\ buckets \in [Clients -> Bucket \union {None}]
    /\ waiting \in [Threads -> [client : Clients, now : Moments] \union {None}]
    /\ admitted \in [Clients -> Seq(Admission)]

Init ==
    /\ time = 0
    /\ buckets = [c \in Clients |-> None]
    /\ waiting = [t \in Threads |-> None]
    /\ admitted = [c \in Clients |-> <<>>]

-----------------------------------------------------------------------------
ReadClock(t, c) ==
    /\ waiting[t] = None
    /\ waiting' = [waiting EXCEPT ![t] = [client |-> c, now |-> time]]
    /\ UNCHANGED <<time, buckets, admitted>>

\* The bucket the request is counted in: its client's, or a fresh one.
CurrentBucket(c, now) ==
    IF buckets[c] # None /\ now - buckets[c].start < Window
    THEN buckets[c] ELSE [start |-> now, count |-> 0]

Size(table) == Cardinality({c \in Clients : table[c] # None})

\* Mutant of Pruned: every window but those opened at this very moment is dropped.
PrunedTooSoon(table, now) ==
    [c \in Clients |->
       IF Size(table) >= Capacity /\ table[c] # None /\ now > table[c].start
       THEN None ELSE table[c]]

Pruned(table, now) ==
    [c \in Clients |->
       IF Size(table) >= Capacity /\ table[c] # None /\ now - table[c].start > 2 * Window
       THEN None ELSE table[c]]

\* One more request is let through, in this bucket.
Admitting(c, bucket) ==
    [admitted EXCEPT ![c] = Append(@, [at |-> time, start |-> bucket.start])]

\* Mutant of Allow: a refused request opens the window anew.
AllowProlonging(t) ==
    /\ waiting[t] # None
    /\ LET c      == waiting[t].client
           now    == waiting[t].now
           bucket == CurrentBucket(c, now)
           full   == bucket.count >= Limit
           next   == IF full THEN [bucket EXCEPT !.start = now]
                     ELSE [bucket EXCEPT !.count = @ + 1]
       IN  /\ buckets' = Pruned([buckets EXCEPT ![c] = next], now)
           /\ admitted' = IF full THEN admitted ELSE Admitting(c, next)
    /\ waiting' = [waiting EXCEPT ![t] = None]
    /\ UNCHANGED time

\* Mutant of Allow: one request too many is let through.
AllowOneMore(t) ==
    /\ waiting[t] # None
    /\ LET c      == waiting[t].client
           now    == waiting[t].now
           bucket == CurrentBucket(c, now)
           full   == bucket.count > Limit
           next   == IF full THEN bucket ELSE [bucket EXCEPT !.count = @ + 1]
       IN  /\ buckets' = Pruned([buckets EXCEPT ![c] = next], now)
           /\ admitted' = IF full THEN admitted ELSE Admitting(c, next)
    /\ waiting' = [waiting EXCEPT ![t] = None]
    /\ UNCHANGED time

\* Allow under the mutex. A refused request leaves the bucket as it is.
Allow(t) ==
    /\ waiting[t] # None
    /\ LET c      == waiting[t].client
           now    == waiting[t].now
           bucket == CurrentBucket(c, now)
           full   == bucket.count >= Limit
           next   == IF full THEN bucket ELSE [bucket EXCEPT !.count = @ + 1]
       IN  /\ buckets' = Pruned([buckets EXCEPT ![c] = next], now)
           /\ admitted' = IF full THEN admitted ELSE Admitting(c, next)
    /\ waiting' = [waiting EXCEPT ![t] = None]
    /\ UNCHANGED time

Tick ==
    /\ time < MaxTime
    /\ \A t \in Threads : waiting[t] # None => time - waiting[t].now < Delay
    /\ time' = time + 1
    /\ UNCHANGED <<buckets, waiting, admitted>>

Next ==
    \/ \E t \in Threads : Allow(t) \/ \E c \in Clients : ReadClock(t, c)
    \/ Tick

Spec == Init /\ [][Next]_vars

-----------------------------------------------------------------------------
(* Properties                                                               *)

AdmittedIn(c, moments) ==
    Cardinality({i \in DOMAIN admitted[c] : admitted[c][i].at \in moments})

\* Two bursts at the edge of a window are let through, never three: in a window
\* less the longest wait for the mutex, a client is let through at most twice the
\* limit, also when its bucket is pruned in between (rateLimiter.Allow).
BurstBounded ==
    \A c \in Clients, m \in Moments :
       AdmittedIn(c, m .. m + Window - Delay - 1 \intersect Moments) <= 2 * Limit

\* Nobody is refused for what he did long ago: behind every refusal there are Limit
\* requests of the same client that were let through within the last window.
RefusedIsBusy ==
    [][\A t \in Threads :
          waiting[t] # None /\ waiting'[t] = None /\ admitted' = admitted =>
             AdmittedIn(waiting[t].client,
                        {m \in Moments : m > time - Window - Delay}) >= Limit]_vars
=============================================================================
