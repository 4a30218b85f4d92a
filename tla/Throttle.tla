------------------------------ MODULE Throttle ------------------------------
(***************************************************************************)
(* What a rate limiter promises, whatever timers and flags it keeps: slots *)
(* are granted in the order they were asked for, never more than           *)
(* MaxConcurrent at a time, never less than Delay after the one before and *)
(* never during a backoff.                                                 *)
(***************************************************************************)
EXTENDS Integers, Sequences, FiniteSets

CONSTANTS
    Requests,        \* provider requests
    MaxConcurrent,   \* slots
    Delay,           \* ticks between two grants
    Backoffs         \* waits a provider may ask for, 0 for none

VARIABLES
    waiting,         \* who asked, in order
    holders,         \* who holds a slot
    answered,        \* holders whose response arrived
    sinceDispatch,   \* ticks since the last grant, counted up to Delay
    backoffLeft      \* ticks until grants may go on

tvars == <<waiting, holders, answered, sinceDispatch, backoffLeft>>

Init ==
    /\ waiting = <<>> /\ holders = {} /\ answered = {}
    /\ sinceDispatch = Delay /\ backoffLeft = 0

Idle(r) == r \notin holders /\ \A i \in 1 .. Len(waiting) : waiting[i] # r

GrantFirst(queue) ==
    /\ queue # <<>> /\ Cardinality(holders) < MaxConcurrent
    /\ sinceDispatch = Delay /\ backoffLeft = 0
    /\ waiting' = Tail(queue)
    /\ holders' = holders \cup {Head(queue)}
    /\ sinceDispatch' = 0
    /\ UNCHANGED <<answered, backoffLeft>>

Grant == GrantFirst(waiting)

Ask(r) ==
    /\ Idle(r)
    /\ \/ waiting' = Append(waiting, r) /\ UNCHANGED <<holders, answered, sinceDispatch, backoffLeft>>
       \/ GrantFirst(Append(waiting, r))

Answer(r, ms) ==
    /\ r \in holders \ answered
    /\ answered' = answered \cup {r}
    /\ backoffLeft' = IF ms > backoffLeft THEN ms ELSE backoffLeft
    /\ UNCHANGED <<waiting, holders, sinceDispatch>>

Release(r) ==
    /\ r \in holders
    /\ holders' = holders \ {r}
    /\ answered' = answered \ {r}
    /\ UNCHANGED <<waiting, sinceDispatch, backoffLeft>>

TimePasses ==
    /\ sinceDispatch' = IF sinceDispatch < Delay THEN sinceDispatch + 1 ELSE Delay
    /\ backoffLeft' = IF backoffLeft > 0 THEN backoffLeft - 1 ELSE 0
    /\ UNCHANGED <<waiting, holders, answered>>

Next ==
    \/ \E r \in Requests : Ask(r) \/ Release(r) \/ \E ms \in Backoffs : Answer(r, ms)
    \/ Grant
    \/ TimePasses

Spec == Init /\ [][Next]_tvars
=============================================================================
