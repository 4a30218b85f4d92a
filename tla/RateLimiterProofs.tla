------------------------- MODULE RateLimiterProofs --------------------------
(***************************************************************************)
(* The rate limiter for any requests, slots and delays: the queue never    *)
(* stalls, and every step of it is a step Throttle allows.                 *)
(*                                                                         *)
(* Two things have to be carried along.  The counter equals the number of  *)
(* holders, which needs that nobody waits twice or waits while it holds a  *)
(* slot.  And the flag is up only while a timer is pending.                *)
(***************************************************************************)
EXTENDS RateLimiter, FiniteSetTheorems, TLAPS

\* The counter says how many requests hold a slot.
CounterIsExact == activeRequests = Cardinality(holders) /\ activeRequests <= MaxConcurrent

LimiterInv == LimiterTypeOK /\ CounterIsExact /\ NeverStalls

\* No request waits twice, or waits while it holds a slot.
Distinct(q) ==
    /\ q \in Seq(Requests)
    /\ \A i, j \in 1 .. Len(q) : q[i] = q[j] => i = j
    /\ \A i \in 1 .. Len(q) : q[i] \notin holders

LEMMA AppendDistinct ==
  ASSUME Distinct(queue), NEW r \in Requests, Idle(r)
  PROVE  Distinct(Append(queue, r))
  <1> DEFINE q == Append(queue, r)
  <1>1. q \in Seq(Requests) /\ Len(q) = Len(queue) + 1 /\ Len(queue) \in Nat
    BY DEF Distinct
  <1>2. \A i \in 1 .. Len(q) : \/ i \in 1 .. Len(queue) /\ q[i] = queue[i]
                               \/ i = Len(queue) + 1 /\ q[i] = r
    BY <1>1 DEF Distinct
  <1> HIDE DEF q
  <1>3. QED
    BY <1>1, <1>2 DEF Distinct, Idle, q

\* The one who is granted a slot had none, and the others wait on.
LEMMA HeadGranted ==
  ASSUME NEW q, Distinct(q), q # <<>>
  PROVE  /\ Head(q) \in Requests \ holders
         /\ Tail(q) \in Seq(Requests)
         /\ \A i, j \in 1 .. Len(Tail(q)) : Tail(q)[i] = Tail(q)[j] => i = j
         /\ \A i \in 1 .. Len(Tail(q)) : Tail(q)[i] \notin holders \cup {Head(q)}
  <1>1. Len(q) \in Nat /\ Len(q) > 0 /\ Head(q) = q[1]
    BY DEF Distinct
  <1>2. Tail(q) \in Seq(Requests) /\ Len(Tail(q)) = Len(q) - 1
    BY <1>1 DEF Distinct
  <1>3. \A i \in 1 .. Len(Tail(q)) : i + 1 \in 1 .. Len(q) /\ Tail(q)[i] = q[i + 1]
    BY <1>1, <1>2 DEF Distinct
  <1>4. QED
    BY <1>1, <1>2, <1>3 DEF Distinct

\* Scheduling always leaves a timer.
LEMMA TimerSet ==
  ASSUME NEW d \in Nat, Schedule(d)
  PROVE  pendingTimer' \in Nat /\ pendingTimer' # NoTimer
  BY LimiterAssumption DEF Schedule, NoTimer

\* Running the queue on q keeps the invariant, whoever runs it.
LEMMA ProcessQueueInv ==
  ASSUME LimiterInv, NEW q, Distinct(q), NEW timer \in Nat \cup {NoTimer},
         ProcessQueue(q, timer), UNCHANGED <<backoffLeft, answered>>
  PROVE  LimiterInv'
  <1> USE LimiterAssumption
  <1>1. CASE WaitsOrStops(q, timer)
    <2>1. /\ queue' = q
          /\ activeRequests' = activeRequests /\ sinceDispatch' = sinceDispatch /\ holders' = holders
      BY <1>1 DEF WaitsOrStops
    <2>2. CASE q = <<>> /\ processing' = FALSE /\ pendingTimer' = timer
      <3>1. LimiterTypeOK'
        <4>1. /\ queue' \in Seq(Requests)
              /\ \A i, j \in 1 .. Len(queue') : queue'[i] = queue'[j] => i = j
              /\ \A i \in 1 .. Len(queue') : queue'[i] \notin holders'
          BY <2>1 DEF Distinct
        <4>2. processing' \in BOOLEAN /\ pendingTimer' \in Nat \cup {NoTimer}
          BY <2>2
        <4>3. QED
          BY <2>1, <4>1, <4>2 DEF LimiterInv, LimiterTypeOK
      <3>2. CounterIsExact' /\ NeverStalls'
        BY <2>1, <2>2 DEF LimiterInv, CounterIsExact, NeverStalls
      <3>3. QED
        BY <3>1, <3>2 DEF LimiterInv
    <2>3. ASSUME processing' = TRUE, NEW d \in Nat, Schedule(d) PROVE LimiterInv'
      <3>1. pendingTimer' \in Nat /\ pendingTimer' # NoTimer
        BY <2>3, TimerSet
      <3>2. QED
        BY <2>1, <2>3, <3>1 DEF LimiterInv, LimiterTypeOK, CounterIsExact, NeverStalls, Distinct
    <2>4. backoffLeft \in Nat /\ BusyDelay \in Nat /\ (MustWait => Delay - sinceDispatch \in Nat)
      BY DEF LimiterInv, LimiterTypeOK, MustWait
    <2>5. QED
      BY <1>1, <2>2, <2>3, <2>4 DEF WaitsOrStops
  <1>2. CASE Dispatches(q, timer)
    <2>1. /\ Head(q) \in Requests \ holders
          /\ queue' \in Seq(Requests)
          /\ \A i, j \in 1 .. Len(queue') : queue'[i] = queue'[j] => i = j
          /\ \A i \in 1 .. Len(queue') : queue'[i] \notin holders'
      <3>1. q # <<>> /\ queue' = Tail(q) /\ holders' = holders \cup {Head(q)}
        BY <1>2 DEF Dispatches
      <3>2. /\ Head(q) \in Requests \ holders
            /\ Tail(q) \in Seq(Requests)
            /\ \A i, j \in 1 .. Len(Tail(q)) : Tail(q)[i] = Tail(q)[j] => i = j
            /\ \A i \in 1 .. Len(Tail(q)) : Tail(q)[i] \notin holders \cup {Head(q)}
        BY ONLY Distinct(q), <3>1, HeadGranted
      <3>3. QED
        BY <3>1, <3>2, Zenon
    <2>2. /\ IsFiniteSet(holders') /\ Cardinality(holders') = Cardinality(holders) + 1
      BY <1>2, <2>1, FS_AddElement DEF Dispatches, LimiterInv, LimiterTypeOK
    <2>3. activeRequests' = activeRequests + 1 /\ activeRequests < MaxConcurrent
      BY <1>2 DEF Dispatches
    <2>4. CounterIsExact'
      BY <2>2, <2>3 DEF LimiterInv, LimiterTypeOK, CounterIsExact
    <2>5. /\ processing' \in BOOLEAN /\ pendingTimer' \in Nat \cup {NoTimer}
          /\ processing' => pendingTimer' # NoTimer
          /\ queue' # <<>> => processing' \/ activeRequests' >= MaxConcurrent
      <3>1. Delay \in Nat /\ queue' = Tail(q) /\ activeRequests' = activeRequests + 1
        BY <1>2 DEF Dispatches
      <3>2. CASE Tail(q) # <<>> /\ activeRequests + 1 < MaxConcurrent
        <4>1. processing' = TRUE /\ Schedule(Delay)
          BY <1>2, <3>2 DEF Dispatches
        <4>2. QED
          BY <3>1, <4>1, TimerSet
      <3>3. CASE ~(Tail(q) # <<>> /\ activeRequests + 1 < MaxConcurrent)
        <4>1. processing' = FALSE /\ pendingTimer' = timer
          BY <1>2, <3>3 DEF Dispatches
        <4>2. Tail(q) # <<>> => activeRequests + 1 >= MaxConcurrent
          BY <3>3 DEF LimiterInv, LimiterTypeOK
        <4>3. QED
          BY <3>1, <4>1, <4>2
      <3>4. QED
        BY <3>2, <3>3
    <2>6. NeverStalls'
      <3>1. activeRequests' \in Nat /\ activeRequests' <= MaxConcurrent
        BY <2>3, <2>4 DEF LimiterInv, LimiterTypeOK, CounterIsExact
      <3>2. QED
        BY <2>5, <3>1 DEF NeverStalls
    <2>7. LimiterTypeOK'
      <3>1. activeRequests' \in Nat /\ sinceDispatch' \in 0 .. Delay
        BY <1>2, <2>3 DEF Dispatches, LimiterInv, LimiterTypeOK
      <3>2. holders' \subseteq Requests /\ answered' \subseteq holders'
        BY <1>2, <2>1 DEF Dispatches, LimiterInv, LimiterTypeOK
      <3>3. backoffLeft' \in Nat
        BY DEF LimiterInv, LimiterTypeOK
      <3>4. QED
        BY <2>1, <2>2, <2>5, <3>1, <3>2, <3>3 DEF LimiterTypeOK
    <2>8. QED
      BY <2>4, <2>6, <2>7 DEF LimiterInv
  <1>3. QED
    BY <1>1, <1>2 DEF ProcessQueue

LEMMA NextLimiterInv == LimiterInv /\ [Next]_vars => LimiterInv'
  <1> SUFFICES ASSUME LimiterInv, [Next]_vars PROVE LimiterInv'
    OBVIOUS
  <1> USE LimiterAssumption
  <1>0. Distinct(queue) /\ pendingTimer \in Nat \cup {NoTimer}
    BY DEF LimiterInv, LimiterTypeOK, Distinct
  <1>1. ASSUME NEW r \in Requests, Acquire(r) PROVE LimiterInv'
    <2>1. Distinct(Append(queue, r))
      BY <1>0, <1>1, AppendDistinct DEF Acquire
    <2>2. CASE processing
      <3>1. UNCHANGED <<activeRequests, processing, pendingTimer, sinceDispatch, holders, backoffLeft, answered>>
        BY <1>1, <2>2 DEF Acquire
      <3>2. queue' = Append(queue, r)
        BY <1>1, <2>2 DEF Acquire
      <3>3. QED
        BY <2>1, <2>2, <3>1, <3>2 DEF LimiterInv, LimiterTypeOK, CounterIsExact, NeverStalls, Distinct
    <2>3. CASE ~processing
      BY <1>0, <1>1, <2>1, <2>3, ProcessQueueInv DEF Acquire
    <2>4. QED
      BY <2>2, <2>3
  <1>2. CASE TimerFires
    BY <1>0, <1>2, ProcessQueueInv DEF TimerFires
  <1>3. ASSUME NEW r \in Requests, NEW ms \in Backoffs, Answer(r, ms) PROVE LimiterInv'
    <2>1. backoffLeft' \in Nat /\ answered' \subseteq holders
      BY <1>3 DEF Answer, Longer, LimiterInv, LimiterTypeOK
    <2>2. QED
      BY <1>3, <2>1 DEF Answer, LimiterInv, LimiterTypeOK, CounterIsExact, NeverStalls
  <1>4. ASSUME NEW r \in Requests, Release(r) PROVE LimiterInv'
    <2>1. /\ holders' = holders \ {r} /\ r \in holders
          /\ answered' = answered \ {r}
          /\ UNCHANGED <<queue, processing, sinceDispatch, backoffLeft>>
      BY <1>4 DEF Release
    <2>2. /\ IsFiniteSet(holders') /\ Cardinality(holders') = Cardinality(holders) - 1
          /\ Cardinality(holders) \in Nat
      BY <2>1, FS_RemoveElement, FS_CardinalityType DEF LimiterInv, LimiterTypeOK
    <2>3. Cardinality(holders') \in Nat
      BY <2>2, FS_CardinalityType
    <2>4. activeRequests' = activeRequests - 1 /\ activeRequests' \in Nat
      BY <1>4, <2>2, <2>3 DEF Release, LimiterInv, CounterIsExact
    <2>5. CounterIsExact'
      BY <2>2, <2>4 DEF LimiterInv, CounterIsExact
    <2>6. pendingTimer' \in Nat /\ pendingTimer' # NoTimer
      BY <1>4, TimerSet DEF Release, ScheduleAfterRelease
    <2>7. LimiterTypeOK' /\ NeverStalls'
      BY <2>1, <2>2, <2>4, <2>6 DEF LimiterInv, LimiterTypeOK, NeverStalls
    <2>8. QED
      BY <2>5, <2>7 DEF LimiterInv
  <1>5. CASE Tick
    <2>1. /\ pendingTimer' \in Nat \cup {NoTimer} /\ (pendingTimer # NoTimer => pendingTimer' # NoTimer)
          /\ sinceDispatch' \in 0 .. Delay /\ backoffLeft' \in Nat
      BY <1>5 DEF Tick, LimiterInv, LimiterTypeOK, NoTimer
    <2>2. UNCHANGED <<queue, activeRequests, processing, holders, answered>>
      BY <1>5 DEF Tick
    <2>3. QED
      BY <2>1, <2>2 DEF LimiterInv, LimiterTypeOK, CounterIsExact, NeverStalls
  <1>6. CASE UNCHANGED vars
    BY <1>6 DEF vars, LimiterInv, LimiterTypeOK, CounterIsExact, NeverStalls
  <1>7. QED
    BY <1>1, <1>2, <1>3, <1>4, <1>5, <1>6 DEF Next

LEMMA InitLimiterInv == Init => LimiterInv
  <1> SUFFICES ASSUME Init PROVE LimiterInv
    OBVIOUS
  <1>1. IsFiniteSet(holders) /\ Cardinality(holders) = 0
    BY FS_EmptySet DEF Init
  <1>2. queue = <<>> /\ queue \in Seq(Requests) /\ Len(queue) = 0
    BY DEF Init
  <1>3. LimiterTypeOK
    <2>1. /\ activeRequests \in Nat /\ processing \in BOOLEAN /\ pendingTimer \in Nat \cup {NoTimer}
          /\ sinceDispatch \in 0 .. Delay /\ backoffLeft \in Nat
          /\ holders \subseteq Requests /\ answered \subseteq holders
      <3>1. processing \in BOOLEAN
        BY DEF Init
      <3>2. QED
        BY <3>1, LimiterAssumption DEF Init
    <2>2. QED
      BY <1>1, <1>2, <2>1 DEF LimiterTypeOK
  <1>4. QED
    BY <1>1, <1>2, <1>3, LimiterAssumption DEF Init, LimiterInv, CounterIsExact, NeverStalls

\* The invariant holds in every reachable state.
THEOREM LimiterSafe == Spec => []LimiterInv
  BY InitLimiterInv, NextLimiterInv, PTL DEF Spec

\* While a request waits for a slot, a timer is pending or every slot is taken:
\* processQueue never leaves a queue that nothing will run.
THEOREM LimiterNeverStalls == Spec => []NeverStalls
  <1>1. LimiterInv => NeverStalls
    BY DEF LimiterInv
  <1>2. QED
    BY <1>1, LimiterSafe, PTL

\* Throttle counts holders as RateLimiter does.
LEMMA SameCount == \A S : Abstract!Cardinality(S) = Cardinality(S)
  BY Zenon DEF Cardinality, Abstract!Cardinality

\* Running the queue either grants the first of q its slot or changes nothing
\* Throttle sees but the queue.
LEMMA ProcessQueueGrants ==
  ASSUME LimiterInv, NEW q, NEW timer, ProcessQueue(q, timer), UNCHANGED <<backoffLeft, answered>>
  PROVE  \/ Abstract!GrantFirst(q)
         \/ queue' = q /\ UNCHANGED <<holders, answered, sinceDispatch, backoffLeft>>
  <1>1. CASE WaitsOrStops(q, timer)
    BY <1>1 DEF WaitsOrStops
  <1>2. CASE Dispatches(q, timer)
    <2>1. Cardinality(holders) < MaxConcurrent /\ sinceDispatch = Delay
      BY <1>2, LimiterAssumption DEF Dispatches, MustWait, LimiterInv, CounterIsExact, LimiterTypeOK
    <2>2. QED
      <3>1. /\ q # <<>> /\ backoffLeft = 0 /\ queue' = Tail(q)
            /\ holders' = holders \cup {Head(q)} /\ sinceDispatch' = 0
        BY <1>2 DEF Dispatches
      <3>2. QED
        BY <2>1, <3>1, SameCount DEF Abstract!GrantFirst
  <1>3. QED
    BY <1>1, <1>2 DEF ProcessQueue

LEMMA StepImplements == LimiterInv /\ [Next]_vars => [Abstract!Next]_(Abstract!tvars)
  <1> SUFFICES ASSUME LimiterInv, [Next]_vars PROVE [Abstract!Next]_(Abstract!tvars)
    OBVIOUS
  <1>1. ASSUME NEW r \in Requests, Acquire(r) PROVE Abstract!Ask(r)
    <2>1. CASE processing
      BY <1>1, <2>1 DEF Acquire, Idle, Abstract!Ask, Abstract!Idle
    <2>2. CASE ~processing
      <3>1. \/ Abstract!GrantFirst(Append(queue, r))
            \/ queue' = Append(queue, r) /\ UNCHANGED <<holders, answered, sinceDispatch, backoffLeft>>
        BY <1>1, <2>2, ProcessQueueGrants DEF Acquire
      <3>2. QED
        BY <1>1, <3>1 DEF Acquire, Idle, Abstract!Ask, Abstract!Idle
    <2>3. QED
      BY <2>1, <2>2
  <1>2. CASE TimerFires
    <2>1. \/ Abstract!GrantFirst(queue)
          \/ queue' = queue /\ UNCHANGED <<holders, answered, sinceDispatch, backoffLeft>>
      BY <1>2, ProcessQueueGrants DEF TimerFires
    <2>2. QED
      BY <2>1 DEF Abstract!Next, Abstract!Grant, Abstract!tvars
  <1>3. ASSUME NEW r \in Requests, NEW ms \in Backoffs, Answer(r, ms) PROVE Abstract!Answer(r, ms)
    BY <1>3 DEF Answer, Longer, Abstract!Answer
  <1>4. ASSUME NEW r \in Requests, Release(r) PROVE Abstract!Release(r)
    BY <1>4 DEF Release, Abstract!Release
  <1>5. CASE Tick
    BY <1>5 DEF Tick, Abstract!TimePasses, Abstract!Next
  <1>6. CASE UNCHANGED vars
    BY <1>6 DEF vars, Abstract!tvars
  <1>7. QED
    BY <1>1, <1>2, <1>3, <1>4, <1>5, <1>6 DEF Next, Abstract!Next

\* RateLimiter with its one timer, flag and counter keeps Throttle's promise.
THEOREM LimiterImplementsThrottle == Spec => ImplementsThrottle
  <1>1. Init => Abstract!Init
    BY DEF Init, Abstract!Init
  <1>2. QED
    BY <1>1, StepImplements, LimiterSafe, PTL DEF Spec, ImplementsThrottle, Abstract!Spec

=============================================================================
