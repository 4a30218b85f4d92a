--------------------------- MODULE RequestDeduper ---------------------------
(***************************************************************************)
(* requestDeduper (src/src/common/request/requestDeduper.ts): concurrent   *)
(* reads of a key share one worker call, its result is served for a TTL,   *)
(* and write flows invalidate keys by prefix.  An invalidation bumps the   *)
(* generation of every matching key; a worker call that started under      *)
(* another generation does not cache what it read.                         *)
(*                                                                         *)
(* The source behind a key is a version number that writes increase; a     *)
(* result is the version its worker happened to read.  Keys are model      *)
(* values and a prefix is the set of the keys that start with it.          *)
(***************************************************************************)
EXTENDS Integers

CONSTANTS
    Keys,            \* keys of read-only operations
    Prefixes,        \* what write flows invalidate, as sets of keys
    Ttl,             \* ttlMs, in clock ticks
    InFlightAge,     \* inFlightDedupeAgeMs
    MaxWorkerTime,   \* how long a worker call may take: nothing in the code limits it
    MaxCalls,        \* bound: worker calls in a behaviour
    MaxWrites,       \* bound: writes to the source of a key
    MaxTime          \* bound: the clock stops here

ASSUME DeduperAssumption ==
    /\ Keys # {} /\ Prefixes \subseteq SUBSET Keys
    /\ Ttl \in Nat /\ InFlightAge \in Nat /\ InFlightAge <= Ttl
    /\ MaxWorkerTime \in Nat /\ MaxCalls \in Nat /\ MaxWrites \in Nat /\ MaxTime \in Nat

CallIds == 1 .. MaxCalls
NoCall == 0
Nothing == 0

VARIABLES
    now,               \* Date.now()
    version,           \* source of each key
    written,           \* prefixes whose writer has yet to invalidate them
    floor,             \* version of each key at its last invalidation
    recentResults,     \* value = Nothing where the map has no entry
    inFlightRequests,  \* NoCall where the map has no entry
    keyGenerations,    \* generation = 0 where the map has no entry
    calls,             \* worker calls and the promises made from them
    made,              \* how many calls were made
    purged,            \* history: calls whose key's generation was dropped under them
    replaced           \* history: calls in flight, too old to join, that a newer one replaced

cache == <<recentResults, inFlightRequests, keyGenerations>>
source == <<version, written, floor>>
history == <<purged, replaced>>
vars == <<now, source, cache, calls, made, history>>

\* "reading": the worker has not read its source yet; "read": it has;
\* "cleanup": the then of the promise has run, its finally has not.
Call == [key : Keys, status : {"unused", "reading", "read", "cleanup", "done"},
         startedAt : Nat, generation : Nat, value : Nat]

Live(c) == calls[c].status \in {"reading", "read"}

NoResult == [value |-> Nothing, expiresAt |-> 0]
NoGeneration == [generation |-> 0, updatedAt |-> 0]

Init ==
    /\ now = 0
    /\ version = [k \in Keys |-> 1]
    /\ written = {}
    /\ floor = [k \in Keys |-> 1]
    /\ recentResults = [k \in Keys |-> NoResult]
    /\ inFlightRequests = [k \in Keys |-> NoCall]
    /\ keyGenerations = [k \in Keys |-> NoGeneration]
    /\ calls = [c \in CallIds |-> [key |-> CHOOSE k \in Keys : TRUE, status |-> "unused",
                                   startedAt |-> 0, generation |-> 0, value |-> Nothing]]
    /\ made = 0
    /\ purged = {}
    /\ replaced = {}

-----------------------------------------------------------------------------
(* Readers: run(key, worker), after its cleanupExpiredResults.             *)

RecentAfterCleanup ==
    [k \in Keys |-> IF recentResults[k].expiresAt <= now THEN NoResult ELSE recentResults[k]]

IsPurged(k) == keyGenerations[k].generation > 0 /\ now - keyGenerations[k].updatedAt > Ttl

GenerationsAfterCleanup ==
    [k \in Keys |-> IF IsPurged(k) THEN NoGeneration ELSE keyGenerations[k]]

PurgedAfterCleanup == purged \cup {c \in CallIds : Live(c) /\ IsPurged(calls[c].key)}

\* The interval's pass.  A reader that is served a recent result, or joins the
\* call in flight, makes this pass and changes nothing else.
CleanupExpiredResults ==
    /\ recentResults' = RecentAfterCleanup
    /\ keyGenerations' = GenerationsAfterCleanup
    /\ purged' = PurgedAfterCleanup
    /\ UNCHANGED <<now, source, inFlightRequests, calls, made, replaced>>

IsServed(k) == recentResults[k].value # Nothing /\ recentResults[k].expiresAt > now

IsJoined(k) ==
    /\ ~IsServed(k)
    /\ inFlightRequests[k] # NoCall
    /\ now - calls[inFlightRequests[k]].startedAt <= InFlightAge

StartCall(k) ==
    /\ made < MaxCalls
    /\ ~IsServed(k) /\ ~IsJoined(k)
    /\ made' = made + 1
    /\ calls' = [calls EXCEPT ![made + 1] =
                    [key |-> k, status |-> "reading", startedAt |-> now,
                     generation |-> GenerationsAfterCleanup[k].generation, value |-> Nothing]]
    /\ inFlightRequests' = [inFlightRequests EXCEPT ![k] = made + 1]
    /\ recentResults' = RecentAfterCleanup
    /\ keyGenerations' = GenerationsAfterCleanup
    /\ purged' = PurgedAfterCleanup
    /\ replaced' = replaced \cup ({inFlightRequests[k]} \ {NoCall})
    /\ UNCHANGED <<now, source>>

-----------------------------------------------------------------------------
(* Worker calls.                                                           *)

\* The worker's read of its source takes effect.
ReadSource(c) ==
    /\ calls[c].status = "reading"
    /\ calls' = [calls EXCEPT ![c] = [@ EXCEPT !.status = "read", !.value = version[calls[c].key]]]
    /\ UNCHANGED <<now, source, cache, made, history>>

\* FAULTY: the value is cached whatever the generation.
IsCurrentAlways(c) == TRUE

IsCurrent(c) == keyGenerations[calls[c].key].generation = calls[c].generation

\* then: cache the value unless the key's generation moved on.
Resolve(c) ==
    /\ calls[c].status = "read"
    /\ calls' = [calls EXCEPT ![c].status = "cleanup"]
    /\ recentResults' =
          IF IsCurrent(c)
          THEN [recentResults EXCEPT ![calls[c].key] =
                   [value |-> calls[c].value, expiresAt |-> now + Ttl]]
          ELSE recentResults
    /\ UNCHANGED <<now, source, inFlightRequests, keyGenerations, made, history>>

\* The worker throws: then is skipped.
Reject(c) ==
    /\ Live(c)
    /\ calls' = [calls EXCEPT ![c].status = "cleanup"]
    /\ UNCHANGED <<now, source, cache, made, history>>

\* finally: a later promise continuation, which leaves a newer call's entry.
Settle(c) ==
    LET k == calls[c].key
    IN  /\ calls[c].status = "cleanup"
        /\ calls' = [calls EXCEPT ![c].status = "done"]
        /\ inFlightRequests' =
              IF inFlightRequests[k] = c THEN [inFlightRequests EXCEPT ![k] = NoCall]
              ELSE inFlightRequests
        /\ UNCHANGED <<now, source, recentResults, keyGenerations, made, history>>

-----------------------------------------------------------------------------
(* Writers: the write commits, and the flow that made it then invalidates  *)
(* what it affects (followArtist, unfollowArtists, deleteAccount).         *)

Write(prefix) ==
    /\ \A k \in prefix : version[k] <= MaxWrites
    /\ version' = [k \in Keys |-> IF k \in prefix THEN version[k] + 1 ELSE version[k]]
    /\ written' = written \cup {prefix}
    /\ UNCHANGED <<now, floor, cache, calls, made, history>>

\* Each of invalidate's two loops bumps the keys it finds.
Bumps(prefix, k) ==
    (IF k \in prefix /\ recentResults[k].value # Nothing THEN 1 ELSE 0)
        + (IF k \in prefix /\ inFlightRequests[k] # NoCall THEN 1 ELSE 0)

\* FAULTY: calls in flight stay joinable.
InFlightAfterInvalidateKept(prefix) == inFlightRequests

InFlightAfterInvalidate(prefix) ==
    [k \in Keys |-> IF k \in prefix THEN NoCall ELSE inFlightRequests[k]]

Invalidate(prefix) ==
    /\ prefix \in written
    /\ written' = written \ {prefix}
    /\ floor' = [k \in Keys |-> IF k \in prefix THEN version[k] ELSE floor[k]]
    /\ recentResults' = [k \in Keys |-> IF k \in prefix THEN NoResult ELSE recentResults[k]]
    /\ inFlightRequests' = InFlightAfterInvalidate(prefix)
    /\ keyGenerations' =
          [k \in Keys |->
              IF Bumps(prefix, k) = 0 THEN keyGenerations[k]
              ELSE [generation |-> keyGenerations[k].generation + Bumps(prefix, k),
                    updatedAt |-> now]]
    /\ UNCHANGED <<now, version, calls, made, history>>

\* No call outlives MaxWorkerTime, and a tick is long against a continuation.
Tick ==
    /\ now < MaxTime
    /\ \A c \in CallIds : /\ Live(c) => now - calls[c].startedAt < MaxWorkerTime
                          /\ calls[c].status # "cleanup"
    /\ now' = now + 1
    /\ UNCHANGED <<source, cache, calls, made, history>>

Next ==
    \/ \E k \in Keys : StartCall(k)
    \/ \E c \in CallIds : ReadSource(c) \/ Resolve(c) \/ Reject(c) \/ Settle(c)
    \/ \E prefix \in Prefixes : Write(prefix) \/ Invalidate(prefix)
    \/ CleanupExpiredResults
    \/ Tick

Spec == Init /\ [][Next]_vars

-----------------------------------------------------------------------------
(* Properties.                                                             *)

\* Every variable holds values of the kind its code declares.
DeduperTypeOK ==
    /\ now \in Nat
    /\ version \in [Keys -> Nat \ {Nothing}]
    /\ written \subseteq Prefixes
    /\ floor \in [Keys -> Nat \ {Nothing}]
    /\ recentResults \in [Keys -> [value : Nat, expiresAt : Nat]]
    /\ inFlightRequests \in [Keys -> CallIds \cup {NoCall}]
    /\ keyGenerations \in [Keys -> [generation : Nat, updatedAt : Nat]]
    /\ calls \in [CallIds -> Call]
    /\ made \in 0 .. MaxCalls
    /\ purged \subseteq CallIds /\ replaced \subseteq CallIds

\* What c read was overwritten, and its key invalidated for it.
HoldsStale(c) == calls[c].value # Nothing /\ calls[c].value < floor[calls[c].key]

\* A reader never joins a call of another key, one that is over, or one whose
\* read predates an invalidation (invalidate drops calls in flight; the finally
\* of an old call leaves the entry of a newer one).
JoinersAreFresh ==
    \A k \in Keys :
        LET c == inFlightRequests[k]
        IN  c # NoCall => /\ calls[c].key = k
                          /\ calls[c].status \in {"reading", "read", "cleanup"}
                          /\ ~HoldsStale(c)

\* A call that read before an invalidation does not cache its value, however long it
\* takes, but for two ways to lose sight of it: a cleanup dropped the generation of
\* its key while it ran, or it got too old to join and a newer call took its place
\* in the map, whose failure then leaves invalidate nothing of the key to find.
StaleOnlyIfLostSight ==
    \A c \in CallIds :
        calls[c].status = "read" /\ IsCurrent(c) /\ HoldsStale(c) => c \in purged \cup replaced

\* "a stale promise resolving after its entry was purged merely skips caching,
\* never serves stale data": no reader is given a recent result that predates an
\* invalidation of its key (cleanupExpiredResults).
StaleNeverServed ==
    \A k \in Keys : IsServed(k) => recentResults[k].value >= floor[k]
=============================================================================
