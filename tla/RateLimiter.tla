---------------------------- MODULE RateLimiter -----------------------------
(***************************************************************************)
(* RateLimiter (src/src/services/musicApi/rateLimiter.ts): provider        *)
(* requests acquire a slot, at most maxConcurrent at a time and delayMs    *)
(* apart, and none while the provider asked to back off.  One timer drives *)
(* the queue; a release moves it, and the processing flag keeps an acquire *)
(* from running the queue when a timer will.                               *)
(*                                                                         *)
(* The code compares only differences of Date.now(), so the state keeps    *)
(* the time left or gone instead of instants, and the clock needs no       *)
(* bound.  A timer may fire late.                                          *)
(***************************************************************************)
EXTENDS Integers, Sequences, FiniteSets

CONSTANTS
    Requests,        \* requests of the callers, each of which may ask again
    MaxConcurrent,   \* maxConcurrent
    Delay,           \* delayMs, in ticks
    ReleaseDelay,    \* the 10 ms of release
    BusyDelay,       \* the 50 ms processQueue waits for a slot
    MaxTimeout,      \* MAX_TIMEOUT_MS
    Backoffs         \* waits that response headers ask for, 0 for none

ASSUME LimiterAssumption ==
    /\ MaxConcurrent \in Nat \ {0} /\ Delay \in Nat
    /\ ReleaseDelay \in Nat /\ BusyDelay \in Nat /\ MaxTimeout \in Nat \ {0}
    /\ Backoffs \subseteq Nat

NoTimer == -1

VARIABLES
    queue,            \* requests whose acquire waits
    activeRequests,   \* the counter
    processing,       \* the flag
    pendingTimer,     \* ticks until the timer is due, or NoTimer
    sinceDispatch,    \* Date.now() - lastDispatchTime, counted up to Delay
    backoffLeft,      \* backoffUntil - Date.now(), or 0
    holders,          \* requests between the grant and their release
    answered          \* holders whose response headers were applied

vars == <<queue, activeRequests, processing, pendingTimer, sinceDispatch, backoffLeft,
          holders, answered>>

Init ==
    /\ queue = <<>> /\ activeRequests = 0
    /\ processing = FALSE /\ pendingTimer = NoTimer
    /\ sinceDispatch = Delay /\ backoffLeft = 0
    /\ holders = {} /\ answered = {}

\* scheduleProcessQueue: the one timer is replaced.
Schedule(delay) == pendingTimer' = IF delay > MaxTimeout THEN MaxTimeout ELSE delay

\* FAULTY: the last dispatch is not looked at.
MustWaitNever == FALSE

MustWait == sinceDispatch < Delay

\* processQueue on queue q, when timer is what is left of the pending timer.
WaitsOrStops(q, timer) ==
    /\ queue' = q
    /\ UNCHANGED <<activeRequests, sinceDispatch, holders>>
    /\ \/ q = <<>> /\ processing' = FALSE /\ pendingTimer' = timer
       \/ /\ q # <<>> /\ processing' = TRUE
          /\ \/ backoffLeft > 0 /\ Schedule(backoffLeft)
             \/ backoffLeft = 0 /\ activeRequests >= MaxConcurrent /\ Schedule(BusyDelay)
             \/ /\ backoffLeft = 0 /\ activeRequests < MaxConcurrent /\ MustWait
                /\ Schedule(Delay - sinceDispatch)

Dispatches(q, timer) ==
    /\ q # <<>> /\ backoffLeft = 0 /\ activeRequests < MaxConcurrent /\ ~MustWait
    /\ activeRequests' = activeRequests + 1
    /\ sinceDispatch' = 0
    /\ queue' = Tail(q)
    /\ holders' = holders \cup {Head(q)}
    /\ IF Tail(q) # <<>> /\ activeRequests + 1 < MaxConcurrent
       THEN processing' = TRUE /\ Schedule(Delay)
       ELSE processing' = FALSE /\ pendingTimer' = timer

ProcessQueue(q, timer) == WaitsOrStops(q, timer) \/ Dispatches(q, timer)

Idle(r) == r \notin holders /\ \A i \in 1 .. Len(queue) : queue[i] # r

Acquire(r) ==
    /\ Idle(r)
    /\ IF processing
       THEN /\ queue' = Append(queue, r)
            /\ UNCHANGED <<activeRequests, processing, pendingTimer, sinceDispatch, holders>>
       ELSE ProcessQueue(Append(queue, r), pendingTimer)
    /\ UNCHANGED <<backoffLeft, answered>>

TimerFires ==
    /\ pendingTimer = 0
    /\ ProcessQueue(queue, NoTimer)
    /\ UNCHANGED <<backoffLeft, answered>>

\* FAULTY: the last response decides.
LongerLast(ms) == ms

\* setBackoff never shortens a backoff already in effect.
Longer(ms) == IF ms > backoffLeft THEN ms ELSE backoffLeft

\* applyRateLimitHeaders, once per response.
Answer(r, ms) ==
    /\ r \in holders \ answered
    /\ answered' = answered \cup {r}
    /\ backoffLeft' = Longer(ms)
    /\ UNCHANGED <<queue, activeRequests, processing, pendingTimer, sinceDispatch, holders>>

\* FAULTY: a release leaves the timer alone.
ScheduleAfterReleaseNot == UNCHANGED pendingTimer

ScheduleAfterRelease == Schedule(ReleaseDelay)

\* The finally of fetchDaprProvider, after the answer or a failure without one.
Release(r) ==
    /\ r \in holders
    /\ holders' = holders \ {r}
    /\ answered' = answered \ {r}
    /\ activeRequests' = IF activeRequests > 0 THEN activeRequests - 1 ELSE 0
    /\ ScheduleAfterRelease
    /\ UNCHANGED <<queue, processing, sinceDispatch, backoffLeft>>

Tick ==
    /\ pendingTimer' = IF pendingTimer > 0 THEN pendingTimer - 1 ELSE pendingTimer
    /\ sinceDispatch' = IF sinceDispatch < Delay THEN sinceDispatch + 1 ELSE Delay
    /\ backoffLeft' = IF backoffLeft > 0 THEN backoffLeft - 1 ELSE 0
    /\ UNCHANGED <<queue, activeRequests, processing, holders, answered>>

Next ==
    \/ \E r \in Requests : Acquire(r) \/ Release(r) \/ \E ms \in Backoffs : Answer(r, ms)
    \/ TimerFires
    \/ Tick

Spec == Init /\ [][Next]_vars

\* Timers fire, time passes, and a request that holds a slot ends some time.
Fairness ==
    /\ WF_vars(TimerFires) /\ WF_vars(Tick)
    /\ \A r \in Requests : WF_vars(Release(r))

FairSpec == Spec /\ Fairness

-----------------------------------------------------------------------------
(* Properties.                                                             *)

\* Every variable holds values of the kind its code declares, and no request
\* waits twice or waits while it holds a slot.
LimiterTypeOK ==
    /\ queue \in Seq(Requests)
    /\ \A i, j \in 1 .. Len(queue) : queue[i] = queue[j] => i = j
    /\ \A i \in 1 .. Len(queue) : queue[i] \notin holders
    /\ activeRequests \in Nat /\ processing \in BOOLEAN
    /\ pendingTimer \in Nat \cup {NoTimer}
    /\ sinceDispatch \in 0 .. Delay /\ backoffLeft \in Nat
    /\ holders \subseteq Requests /\ IsFiniteSet(holders) /\ answered \subseteq holders

\* A queue that is not empty has something that will run it: a timer, or, when
\* every slot is taken, the release of one.  The processing flag is up only while
\* a timer is pending, so no acquire relies on a run that never comes.
NeverStalls ==
    /\ queue # <<>> => pendingTimer # NoTimer \/ activeRequests = MaxConcurrent
    /\ processing => pendingTimer # NoTimer

Abstract == INSTANCE Throttle WITH waiting <- queue

\* Whatever the order of acquires, answers, releases and late timers, slots are
\* granted as Throttle promises: in order, few enough, far enough apart, and
\* after the longest backoff asked for.
ImplementsThrottle == Abstract!Spec

\* Every request that waits for a slot gets one, although each release puts the
\* timer off and answers keep extending the backoff.
EveryRequestGranted ==
    \A r \in Requests : (\E i \in 1 .. Len(queue) : queue[i] = r) ~> r \in holders
=============================================================================
