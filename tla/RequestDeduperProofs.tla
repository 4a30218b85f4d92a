------------------------ MODULE RequestDeduperProofs ------------------------
(***************************************************************************)
(* The request deduper for any keys, prefixes and times: its types, that   *)
(* readers join fresh calls only, and that only a call whose generation    *)
(* was purged under it, or whose place in the map a newer call took, can   *)
(* cache what an invalidation overtook.                                    *)
(*                                                                         *)
(* The argument: a live call is either the one in flight for its key, and  *)
(* then nothing was invalidated since it read, or its key's generation is  *)
(* past the one it captured.  Only a purge and a replacement break this.   *)
(***************************************************************************)
EXTENDS RequestDeduper, TLAPS

\* No floor is ahead of its source, calls are numbered as they are made, and a
\* call has a value once it has read.
CallsInv ==
    /\ \A k \in Keys : floor[k] <= version[k]
    /\ \A c \in CallIds : c > made => calls[c].status = "unused"
    /\ \A c \in CallIds : calls[c].status \in {"unused", "reading"} => calls[c].value = Nothing

\* A live call is in flight or told by its generation, unless a purge or a newer call
\* hit it.
LiveAccounted ==
    \A c \in CallIds :
        Live(c) /\ c \notin purged \cup replaced =>
            LET k == calls[c].key
            IN  /\ calls[c].generation <= keyGenerations[k].generation
                /\ \/ inFlightRequests[k] = c
                   \/ calls[c].generation < keyGenerations[k].generation

\* What the typing of a record update rests on.
LEMMA CallUpdated ==
  ASSUME NEW call \in Call, NEW v \in Nat,
         NEW s \in {"unused", "reading", "read", "cleanup", "done"}
  PROVE  /\ [call EXCEPT !.status = s] \in Call
         /\ [call EXCEPT !.status = s, !.value = v] \in Call
  BY DEF Call

\* Every step leaves values of the declared kinds.
LEMMA NextTyped ==
  ASSUME DeduperTypeOK, [Next]_vars
  PROVE  DeduperTypeOK'
  <1> USE DeduperAssumption
  <1>a. RecentAfterCleanup \in [Keys -> [value : Nat, expiresAt : Nat]]
    BY DEF DeduperTypeOK, RecentAfterCleanup, NoResult, Nothing
  <1>b. GenerationsAfterCleanup \in [Keys -> [generation : Nat, updatedAt : Nat]]
    BY DEF DeduperTypeOK, GenerationsAfterCleanup, NoGeneration
  <1>c. PurgedAfterCleanup \subseteq CallIds
    BY DEF DeduperTypeOK, PurgedAfterCleanup
  <1>1. ASSUME NEW k \in Keys, StartCall(k) PROVE DeduperTypeOK'
    <2>1. made + 1 \in CallIds /\ made + 1 \in 0 .. MaxCalls
      BY <1>1 DEF DeduperTypeOK, StartCall, CallIds
    <2>2. [key |-> k, status |-> "reading", startedAt |-> now,
           generation |-> GenerationsAfterCleanup[k].generation, value |-> Nothing] \in Call
      BY <1>b DEF DeduperTypeOK, Call, Nothing
    <2>3. calls' \in [CallIds -> Call]
      BY <1>1, <2>1, <2>2 DEF StartCall, DeduperTypeOK
    <2>4. inFlightRequests' \in [Keys -> CallIds \cup {NoCall}]
      BY <1>1, <2>1 DEF StartCall, DeduperTypeOK
    <2>5. QED
      BY <1>1, <1>a, <1>b, <1>c, <2>1, <2>3, <2>4 DEF StartCall, DeduperTypeOK, source
  <1>2. ASSUME NEW c \in CallIds, ReadSource(c) PROVE DeduperTypeOK'
    <2>1. calls[c] \in Call /\ calls[c].key \in Keys
      BY DEF DeduperTypeOK, Call
    <2>2. version[calls[c].key] \in Nat
      BY <2>1 DEF DeduperTypeOK
    <2>3. calls' \in [CallIds -> Call]
      BY <1>2, <2>1, <2>2, CallUpdated DEF ReadSource, DeduperTypeOK
    <2>4. QED
      BY <1>2, <2>3 DEF ReadSource, DeduperTypeOK, source, cache, history
  <1>3. ASSUME NEW c \in CallIds, Resolve(c) PROVE DeduperTypeOK'
    <2>1. calls[c] \in Call /\ calls[c].key \in Keys /\ calls[c].value \in Nat
      BY DEF DeduperTypeOK, Call
    <2>2. calls' \in [CallIds -> Call]
      BY <1>3, <2>1, CallUpdated DEF Resolve, DeduperTypeOK
    <2>3. now + Ttl \in Nat
      BY DEF DeduperTypeOK
    <2>4. recentResults' \in [Keys -> [value : Nat, expiresAt : Nat]]
      BY <1>3, <2>1, <2>3 DEF Resolve, DeduperTypeOK
    <2>5. QED
      BY <1>3, <2>2, <2>4 DEF Resolve, DeduperTypeOK, source, history
  <1>4. ASSUME NEW c \in CallIds, Reject(c) PROVE DeduperTypeOK'
    <2>1. calls' \in [CallIds -> Call]
      BY <1>4, CallUpdated DEF Reject, DeduperTypeOK
    <2>2. QED
      BY <1>4, <2>1 DEF Reject, DeduperTypeOK, source, cache, history
  <1>5. ASSUME NEW c \in CallIds, Settle(c) PROVE DeduperTypeOK'
    <2>1. calls' \in [CallIds -> Call]
      BY <1>5, CallUpdated DEF Settle, DeduperTypeOK
    <2>2. inFlightRequests' \in [Keys -> CallIds \cup {NoCall}]
      BY <1>5 DEF Settle, DeduperTypeOK
    <2>3. QED
      BY <1>5, <2>1, <2>2 DEF Settle, DeduperTypeOK, source, history
  <1>6. ASSUME NEW prefix \in Prefixes, Write(prefix) PROVE DeduperTypeOK'
    <2>1. version' \in [Keys -> Nat \ {Nothing}]
      <3>1. \A k \in Keys : version[k] \in Nat /\ version[k] # 0 /\ version[k] + 1 \in Nat /\ version[k] + 1 # 0
        BY DEF DeduperTypeOK, Nothing
      <3>2. QED
        BY <1>6, <3>1 DEF Write, Nothing
    <2>2. QED
      BY <1>6, <2>1 DEF Write, DeduperTypeOK, cache, history
  <1>7. ASSUME NEW prefix \in Prefixes, Invalidate(prefix) PROVE DeduperTypeOK'
    <2>1. floor' \in [Keys -> Nat \ {Nothing}]
      BY <1>7 DEF Invalidate, DeduperTypeOK
    <2>2. recentResults' \in [Keys -> [value : Nat, expiresAt : Nat]]
      BY <1>7 DEF Invalidate, DeduperTypeOK, NoResult, Nothing
    <2>3. inFlightRequests' \in [Keys -> CallIds \cup {NoCall}]
      BY <1>7 DEF Invalidate, InFlightAfterInvalidate, DeduperTypeOK
    <2>4. keyGenerations' \in [Keys -> [generation : Nat, updatedAt : Nat]]
      <3>1. \A k \in Keys : keyGenerations[k].generation + Bumps(prefix, k) \in Nat
        BY DEF Bumps, DeduperTypeOK
      <3>2. QED
        BY <1>7, <3>1 DEF Invalidate, DeduperTypeOK
    <2>5. QED
      BY <1>7, <2>1, <2>2, <2>3, <2>4 DEF Invalidate, DeduperTypeOK, history
  <1>8. ASSUME CleanupExpiredResults PROVE DeduperTypeOK'
    BY <1>8, <1>a, <1>b, <1>c DEF CleanupExpiredResults, DeduperTypeOK, source
  <1>9. ASSUME Tick PROVE DeduperTypeOK'
    <2>1. now' \in Nat
      BY <1>9 DEF Tick, DeduperTypeOK
    <2>2. QED
      BY <1>9, <2>1 DEF Tick, DeduperTypeOK, source, cache, history
  <1>10. CASE UNCHANGED vars
    BY <1>10 DEF vars, cache, source, DeduperTypeOK, history
  <1>11. QED
    BY <1>1, <1>2, <1>3, <1>4, <1>5, <1>6, <1>7, <1>8, <1>9, <1>10 DEF Next

\* What a step other than StartCall does to the calls: one may read or come to
\* its end; no call changes its key, start or generation.
CallsGoOn ==
    /\ made' = made
    /\ \A d \in CallIds :
        \/ calls'[d] = calls[d]
        \/ /\ calls[d].status \in {"reading", "read", "cleanup"}
           /\ calls'[d].key = calls[d].key /\ calls'[d].startedAt = calls[d].startedAt
           /\ calls'[d].generation = calls[d].generation
           /\ \/ calls'[d].value = calls[d].value /\ calls'[d].status \in {"cleanup", "done"}
              \/ /\ calls'[d].value = version[calls[d].key]
                 /\ calls[d].status = "reading" /\ calls'[d].status = "read"

LEMMA CallStep ==
  ASSUME DeduperTypeOK, [Next]_vars, \A k \in Keys : ~StartCall(k)
  PROVE  CallsGoOn
  <1>1. ASSUME NEW c \in CallIds, ReadSource(c) PROVE CallsGoOn
    BY <1>1 DEF ReadSource, DeduperTypeOK, Call, CallsGoOn
  <1>2. ASSUME NEW c \in CallIds, Resolve(c) \/ Reject(c) \/ Settle(c) PROVE CallsGoOn
    <2>1. \/ calls[c].status \in {"reading", "read"} /\ calls' = [calls EXCEPT ![c].status = "cleanup"]
          \/ calls[c].status = "cleanup" /\ calls' = [calls EXCEPT ![c].status = "done"]
      BY <1>2 DEF Resolve, Reject, Settle, Live
    <2>2. made' = made
      BY <1>2 DEF Resolve, Reject, Settle
    <2>3. QED
      BY <2>1, <2>2 DEF DeduperTypeOK, Call, CallsGoOn
  <1>3. ASSUME calls' = calls, made' = made PROVE CallsGoOn
    BY <1>3 DEF CallsGoOn
  <1>4. QED
    BY <1>1, <1>2, <1>3 DEF Next, Write, Invalidate, CleanupExpiredResults, Tick, vars

\* The call StartCall makes, and the others.
LEMMA CallStarted ==
  ASSUME DeduperTypeOK, NEW k \in Keys, StartCall(k)
  PROVE  /\ made + 1 \in CallIds /\ made' = made + 1
         /\ calls'[made + 1].key = k /\ calls'[made + 1].status = "reading"
         /\ calls'[made + 1].startedAt = now /\ calls'[made + 1].value = Nothing
         /\ calls'[made + 1].generation = GenerationsAfterCleanup[k].generation
         /\ \A d \in CallIds : d # made + 1 => calls'[d] = calls[d]
  <1>1. made + 1 \in CallIds /\ made' = made + 1
    BY DeduperAssumption DEF DeduperTypeOK, StartCall, CallIds
  <1>2. /\ calls'[made + 1] = [key |-> k, status |-> "reading", startedAt |-> now,
                               generation |-> GenerationsAfterCleanup[k].generation,
                               value |-> Nothing]
        /\ \A d \in CallIds : d # made + 1 => calls'[d] = calls[d]
    BY <1>1 DEF DeduperTypeOK, StartCall
  <1>3. QED
    BY <1>1, <1>2

LEMMA NextCallsInv ==
  ASSUME DeduperTypeOK, DeduperTypeOK', CallsInv, [Next]_vars
  PROVE  CallsInv'
  <1>1. \A k \in Keys : floor'[k] <= version'[k]
    <2>1. CASE floor' = floor /\ version' = version
      BY <2>1 DEF CallsInv
    <2>2. ASSUME NEW prefix \in Prefixes, Write(prefix) PROVE \A k \in Keys : floor'[k] <= version'[k]
      BY <2>2 DEF Write, CallsInv, DeduperTypeOK
    <2>3. ASSUME NEW prefix \in Prefixes, Invalidate(prefix) PROVE \A k \in Keys : floor'[k] <= version'[k]
      BY <2>3 DEF Invalidate, CallsInv, DeduperTypeOK
    <2>4. QED
      BY <2>1, <2>2, <2>3 DEF Next, StartCall, ReadSource, Resolve, Reject, Settle,
                              CleanupExpiredResults, Tick, vars, source
  <1>2. ASSUME NEW c \in CallIds
        PROVE  /\ c > made' => calls'[c].status = "unused"
               /\ calls'[c].status \in {"unused", "reading"} => calls'[c].value = Nothing
    <2>1. ASSUME NEW k \in Keys, StartCall(k)
          PROVE  /\ c > made' => calls'[c].status = "unused"
                 /\ calls'[c].status \in {"unused", "reading"} => calls'[c].value = Nothing
      <3>1. CASE c = made + 1
        BY <2>1, <3>1, CallStarted DEF DeduperTypeOK
      <3>2. CASE c # made + 1
        <4>1. calls'[c] = calls[c] /\ made' = made + 1
          BY <2>1, <3>2, CallStarted
        <4>2. c \in Int /\ made \in Int
          BY DeduperAssumption DEF DeduperTypeOK, CallIds
        <4>3. QED
          BY <4>1, <4>2 DEF CallsInv
      <3>3. QED
        BY <3>1, <3>2
    <2>2. CASE CallsGoOn
      <3>1. CASE calls'[c] = calls[c]
        BY <2>2, <3>1 DEF CallsGoOn, CallsInv
      <3>2. CASE calls'[c] # calls[c]
        <4>1. calls[c].status # "unused" /\ calls'[c].status \in {"read", "cleanup", "done"}
          BY <2>2, <3>2 DEF CallsGoOn
        <4>2. made' = made
          BY <2>2 DEF CallsGoOn
        <4>3. QED
          BY <4>1, <4>2 DEF CallsInv
      <3>3. QED
        BY <3>1, <3>2
    <2>3. QED
      BY <2>1, <2>2, CallStep
  <1>3. QED
    BY <1>1, <1>2 DEF CallsInv

LEMMA NextJoiners ==
  ASSUME DeduperTypeOK, DeduperTypeOK', CallsInv, JoinersAreFresh, [Next]_vars
  PROVE  JoinersAreFresh'
  <1> DEFINE Joinable(c, k) == /\ calls[c].key = k
                               /\ calls[c].status \in {"reading", "read", "cleanup"}
                               /\ ~HoldsStale(c)
  <1> SUFFICES ASSUME NEW k \in Keys, NEW c \in CallIds, inFlightRequests'[k] = c
               PROVE  Joinable(c, k)'
    BY DEF JoinersAreFresh, NoCall, DeduperTypeOK
  <1>0. /\ c # NoCall
        /\ inFlightRequests[k] = c => Joinable(c, k)
        /\ calls[c].value \in Nat
        /\ \A i \in Keys : floor[i] \in Nat /\ version[i] \in Nat
    <2>1. c # NoCall
      BY DeduperAssumption DEF CallIds, NoCall
    <2>2. inFlightRequests[k] = c => Joinable(c, k)
      BY <2>1 DEF JoinersAreFresh
    <2>3. calls[c].value \in Nat
      BY DEF DeduperTypeOK, Call
    <2>4. \A i \in Keys : floor[i] \in Nat /\ version[i] \in Nat
      BY DEF DeduperTypeOK
    <2>5. QED
      BY <2>1, <2>2, <2>3, <2>4
  <1>1. ASSUME NEW i \in Keys, StartCall(i) PROVE Joinable(c, k)'
    <2>1. inFlightRequests' = [inFlightRequests EXCEPT ![i] = made + 1] /\ floor' = floor
      BY <1>1 DEF StartCall, source
    <2>2. CASE k = i
      BY <1>1, <2>1, <2>2, CallStarted DEF HoldsStale, DeduperTypeOK
    <2>3. CASE k # i
      <3>1. inFlightRequests[k] = c
        BY <2>1, <2>3 DEF DeduperTypeOK
      <3>2. calls[c].status # "unused"
        BY <1>0, <3>1
      <3>3. c # made + 1
        <4>1. made \in Int
          BY DeduperAssumption DEF DeduperTypeOK
        <4>2. ~(c > made)
          BY <3>2 DEF CallsInv
        <4>3. QED
          BY <4>1, <4>2
      <3>4. QED
        <4>1. calls'[c] = calls[c] /\ floor' = floor
          BY <1>1, <2>1, <3>3, CallStarted
        <4>2. Joinable(c, k)
          BY <1>0, <3>1
        <4>3. QED
          BY <4>1, <4>2 DEF HoldsStale
    <2>4. QED
      BY <2>2, <2>3
  <1>2. ASSUME NEW prefix \in Prefixes, Invalidate(prefix) PROVE Joinable(c, k)'
    <2>1. k \notin prefix /\ inFlightRequests[k] = c
      BY <1>0, <1>2 DEF Invalidate, InFlightAfterInvalidate
    <2>2. floor'[k] = floor[k] /\ calls' = calls
      BY <1>2, <2>1 DEF Invalidate
    <2>3. QED
      BY <1>0, <2>1, <2>2 DEF HoldsStale
  <1>3. CASE floor' = floor /\ CallsGoOn /\ inFlightRequests[k] = c /\ calls'[c].status # "done"
    <2>1. Joinable(c, k) /\ floor[k] <= version[k]
      BY <1>0, <1>3 DEF CallsInv
    <2>2. calls'[c].key = k /\ calls'[c].status \in {"reading", "read", "cleanup"}
      BY <1>3, <2>1 DEF CallsGoOn
    <2>3. calls'[c].value = calls[c].value \/ calls'[c].value = version[k]
      BY <1>3, <2>1 DEF CallsGoOn
    <2>4. QED
      BY <1>0, <1>3, <2>1, <2>2, <2>3 DEF HoldsStale
  <1>4. ASSUME NEW d \in CallIds, Settle(d)
        PROVE  inFlightRequests[k] = c /\ calls'[c].status # "done" /\ floor' = floor
    <2>1. inFlightRequests[k] = c /\ (c = d => calls[d].key # k)
      BY <1>0, <1>4 DEF Settle, DeduperTypeOK
    <2>2. c # d
      BY <1>0, <2>1
    <2>3. QED
      BY <1>0, <1>4, <2>1, <2>2 DEF Settle, source, DeduperTypeOK
  <1>5. CASE \A i \in Keys : ~StartCall(i)
    <2>1. CallsGoOn
      BY <1>5, CallStep
    <2>2. ASSUME inFlightRequests' = inFlightRequests, floor' = floor,
                 \A d \in CallIds : calls'[d].status = "done" => calls[d].status = "done"
          PROVE  Joinable(c, k)'
      BY <1>0, <1>3, <2>1, <2>2
    <2>3. ASSUME NEW d \in CallIds, ReadSource(d) \/ Resolve(d) \/ Reject(d)
          PROVE  /\ inFlightRequests' = inFlightRequests /\ floor' = floor
                 /\ \A e \in CallIds : calls'[e].status = "done" => calls[e].status = "done"
      <3>1. inFlightRequests' = inFlightRequests /\ floor' = floor
        BY <2>3 DEF ReadSource, Resolve, Reject, source, cache
      <3>2. \A e \in CallIds \ {d} : calls'[e] = calls[e]
        BY <2>3 DEF ReadSource, Resolve, Reject, DeduperTypeOK
      <3>3. calls'[d].status \in {"read", "cleanup"}
        <4>1. CASE ReadSource(d)
          BY <4>1 DEF ReadSource, DeduperTypeOK, Call
        <4>2. CASE Resolve(d) \/ Reject(d)
          <5>1. calls' = [calls EXCEPT ![d].status = "cleanup"]
            BY <4>2 DEF Resolve, Reject
          <5>2. QED
            BY <5>1 DEF DeduperTypeOK, Call
        <4>3. QED
          BY <2>3, <4>1, <4>2
      <3>4. QED
        BY <3>1, <3>2, <3>3
    <2>4. QED
      BY <1>2, <1>3, <1>4, <2>1, <2>2, <2>3, <1>5
      DEF Next, Write, CleanupExpiredResults, Tick, vars, source, cache
  <1>6. QED
    BY <1>1, <1>5

LEMMA NextAccounted ==
  ASSUME DeduperTypeOK, DeduperTypeOK', JoinersAreFresh, LiveAccounted, [Next]_vars
  PROVE  LiveAccounted'
  <1> DEFINE Accounted(c) ==
        /\ calls[c].generation <= keyGenerations[calls[c].key].generation
        /\ \/ inFlightRequests[calls[c].key] = c
           \/ calls[c].generation < keyGenerations[calls[c].key].generation
  <1> SUFFICES ASSUME NEW c \in CallIds, Live(c)', c \notin purged' \cup replaced'
               PROVE  Accounted(c)'
    BY DEF LiveAccounted
  <1>0. /\ calls[c].key \in Keys /\ calls[c].generation \in Nat /\ calls[c].startedAt \in Nat
        /\ \A i \in Keys : keyGenerations[i].generation \in Nat
        /\ now \in Nat
    BY DEF DeduperTypeOK, Call
  \* A step that purges nothing of c's key leaves its generation as it was.
  <1>a. ASSUME c \notin PurgedAfterCleanup, Live(c)
        PROVE  GenerationsAfterCleanup[calls[c].key] = keyGenerations[calls[c].key] /\ c \notin purged
    BY <1>0, <1>a DEF PurgedAfterCleanup, GenerationsAfterCleanup
  <1>1. ASSUME NEW k \in Keys, StartCall(k) PROVE Accounted(c)'
    <2>1. /\ inFlightRequests' = [inFlightRequests EXCEPT ![k] = made + 1]
          /\ keyGenerations' = GenerationsAfterCleanup /\ purged' = PurgedAfterCleanup
          /\ replaced' = replaced \cup ({inFlightRequests[k]} \ {NoCall})
      BY <1>1 DEF StartCall
    <2>2. CASE c = made + 1
      <3>1. calls'[c].key = k /\ calls'[c].generation = GenerationsAfterCleanup[k].generation
        BY <1>1, <2>2, CallStarted
      <3>2. inFlightRequests'[k] = c
        BY <2>1, <2>2 DEF DeduperTypeOK
      <3>3. calls'[c].generation \in Nat
        BY DEF DeduperTypeOK, Call
      <3>4. QED
        BY <2>1, <3>1, <3>2, <3>3
    <2>3. CASE c # made + 1
      <3>1. calls'[c] = calls[c] /\ Live(c)
        BY <1>1, <2>3, CallStarted DEF Live
      <3>2. keyGenerations'[calls[c].key] = keyGenerations[calls[c].key] /\ Accounted(c)
        BY <1>a, <2>1, <3>1 DEF LiveAccounted
      <3>3. CASE calls[c].generation < keyGenerations[calls[c].key].generation
        BY <3>1, <3>2, <3>3
      <3>4. CASE inFlightRequests[calls[c].key] = c
        <4>1. ASSUME calls[c].key = k PROVE FALSE
          <5>1. c # NoCall
            BY DeduperAssumption DEF CallIds, NoCall
          <5>2. QED
            BY <2>1, <3>4, <4>1, <5>1
        <4>2. inFlightRequests'[calls[c].key] = c
          BY <1>0, <2>1, <3>4, <4>1 DEF DeduperTypeOK
        <4>3. QED
          BY <3>1, <3>2, <4>2
      <3>5. QED
        BY <3>2, <3>3, <3>4
    <2>4. QED
      BY <2>2, <2>3
  <1>2. CASE CallsGoOn
    <2>1. /\ Live(c) /\ calls'[c].key = calls[c].key
          /\ calls'[c].generation = calls[c].generation
      BY <1>2 DEF CallsGoOn, Live
    <2>2. ASSUME purged' = purged, replaced' = replaced PROVE Accounted(c)
      BY <2>1, <2>2 DEF LiveAccounted
    <2>3. ASSUME purged' = purged, replaced' = replaced, keyGenerations' = keyGenerations,
                 inFlightRequests[calls[c].key] = c => inFlightRequests'[calls[c].key] = c
          PROVE  Accounted(c)'
      BY <2>1, <2>2, <2>3
    <2>4. ASSUME NEW d \in CallIds, Settle(d) PROVE Accounted(c)'
      <3>1. c # d
        BY <2>1, <2>4 DEF Settle, Live
      <3>2. inFlightRequests[calls[c].key] = c => inFlightRequests'[calls[c].key] = c
        BY <1>0, <2>4, <3>1 DEF Settle, DeduperTypeOK
      <3>3. QED
        BY <2>3, <2>4, <3>2 DEF Settle, history
    <2>5. ASSUME NEW prefix \in Prefixes, Invalidate(prefix) PROVE Accounted(c)'
      <3> DEFINE k == calls[c].key
      <3>1. Accounted(c)
        BY <2>2, <2>5 DEF Invalidate, history
      <3>2. CASE k \in prefix
        <4>1. inFlightRequests[k] = c => Bumps(prefix, k) >= 1
          <5>1. c # NoCall
            BY DeduperAssumption DEF CallIds, NoCall
          <5>2. QED
            BY <3>2, <5>1 DEF Bumps
        <4>2. /\ Bumps(prefix, k) \in Nat
              /\ keyGenerations'[k].generation = keyGenerations[k].generation + Bumps(prefix, k)
          <5>1. Bumps(prefix, k) \in Nat
            BY DEF Bumps
          <5>2. CASE Bumps(prefix, k) = 0
            BY <1>0, <2>5, <5>2 DEF Invalidate
          <5>3. CASE Bumps(prefix, k) # 0
            BY <1>0, <2>5, <5>1, <5>3 DEF Invalidate
          <5>4. QED
            BY <5>1, <5>2, <5>3
        <4>3. QED
          BY <1>0, <2>1, <3>1, <4>1, <4>2
      <3>3. CASE k \notin prefix
        <4>1. Bumps(prefix, k) = 0
          BY <3>3 DEF Bumps
        <4>2. keyGenerations'[k] = keyGenerations[k] /\ inFlightRequests'[k] = inFlightRequests[k]
          BY <1>0, <2>5, <3>3, <4>1 DEF Invalidate, InFlightAfterInvalidate
        <4>3. QED
          BY <2>1, <3>1, <4>2
      <3>4. QED
        BY <3>2, <3>3
    <2>6. ASSUME CleanupExpiredResults PROVE Accounted(c)'
      <3>1. keyGenerations'[calls[c].key] = keyGenerations[calls[c].key] /\ Accounted(c)
        BY <1>a, <2>1, <2>6 DEF CleanupExpiredResults, LiveAccounted
      <3>2. QED
        BY <2>1, <2>6, <3>1 DEF CleanupExpiredResults
    <2>7. ASSUME NEW k \in Keys, StartCall(k) PROVE Accounted(c)'
      BY <1>1, <2>7
    <2>8. QED
      BY <2>3, <2>4, <2>5, <2>6, <2>7
      DEF Next, ReadSource, Resolve, Reject, Write, Tick, vars, cache, history
  <1>3. QED
    BY <1>1, <1>2, CallStep

DeduperInv == DeduperTypeOK /\ CallsInv /\ JoinersAreFresh

LEMMA InitDeduperInv == Init => DeduperInv /\ LiveAccounted
  <1> SUFFICES ASSUME Init PROVE DeduperInv /\ LiveAccounted
    OBVIOUS
  <1>0. (CHOOSE k \in Keys : TRUE) \in Keys
    BY DeduperAssumption
  <1>1. /\ now = 0 /\ made = 0 /\ purged = {} /\ replaced = {} /\ written = {}
        /\ floor = [k \in Keys |-> 1] /\ version = [k \in Keys |-> 1]
        /\ recentResults = [k \in Keys |-> NoResult]
        /\ inFlightRequests = [k \in Keys |-> NoCall]
        /\ keyGenerations = [k \in Keys |-> NoGeneration]
    BY DEF Init
  <1>2. /\ calls \in [CallIds -> Call]
        /\ \A c \in CallIds : calls[c].status = "unused" /\ calls[c].value = Nothing
    BY <1>0 DEF Init, Call, Nothing
  <1>3. DeduperTypeOK
    <2>1. now \in Nat /\ made \in 0 .. MaxCalls /\ written \subseteq Prefixes
          /\ purged \subseteq CallIds /\ replaced \subseteq CallIds
      BY <1>1, DeduperAssumption
    <2>2. floor \in [Keys -> Nat \ {Nothing}] /\ version \in [Keys -> Nat \ {Nothing}]
      BY <1>1 DEF Nothing
    <2>3. NoResult \in [value : Nat, expiresAt : Nat] /\ NoGeneration \in [generation : Nat, updatedAt : Nat]
      BY DEF NoResult, NoGeneration, Nothing
    <2>4. QED
      BY <1>1, <1>2, <2>1, <2>2, <2>3 DEF DeduperTypeOK
  <1>4. CallsInv
    BY <1>1, <1>2 DEF CallsInv
  <1>5. LiveAccounted
    BY <1>2 DEF LiveAccounted, Live
  <1>6. JoinersAreFresh
    BY <1>1 DEF JoinersAreFresh, NoCall
  <1>7. QED
    BY <1>3, <1>4, <1>5, <1>6 DEF DeduperInv

LEMMA NextDeduperInv == DeduperInv /\ [Next]_vars => DeduperInv'
  BY NextTyped, NextCallsInv, NextJoiners DEF DeduperInv

\* The invariant holds in every reachable state.
THEOREM DeduperSafe == Spec => []DeduperInv
  BY InitDeduperInv, NextDeduperInv, PTL DEF Spec

\* Every variable keeps to its declared kind.
THEOREM DeduperTypeCorrect == Spec => []DeduperTypeOK
  <1>1. DeduperInv => DeduperTypeOK
    BY DEF DeduperInv
  <1>2. QED
    BY <1>1, DeduperSafe, PTL

\* However long workers take and whatever is purged, a reader that joins a call
\* joins one of its own key that is not over and not overtaken by an invalidation.
THEOREM JoinersAlwaysFresh == Spec => []JoinersAreFresh
  <1>1. DeduperInv => JoinersAreFresh
    BY DEF DeduperInv
  <1>2. QED
    BY <1>1, DeduperSafe, PTL

LEMMA AccountedIsFresh == DeduperInv /\ LiveAccounted => StaleOnlyIfLostSight
  <1> SUFFICES ASSUME DeduperInv, LiveAccounted, NEW c \in CallIds,
                      calls[c].status = "read", IsCurrent(c), HoldsStale(c), c \notin purged \cup replaced
               PROVE  FALSE
    BY DEF StaleOnlyIfLostSight
  <1>1. /\ calls[c].key \in Keys /\ calls[c].generation \in Nat
        /\ keyGenerations[calls[c].key].generation \in Nat
    BY DEF DeduperInv, DeduperTypeOK, Call
  <1>2. inFlightRequests[calls[c].key] = c
    BY <1>1 DEF LiveAccounted, Live, IsCurrent
  <1>3. c # NoCall
    BY DeduperAssumption DEF CallIds, NoCall
  <1>4. QED
    BY <1>1, <1>2, <1>3 DEF DeduperInv, JoinersAreFresh

\* However long workers take, a call that an invalidation overtook never caches what it
\* read, unless a cleanup dropped its key's generation while it ran or a newer call had
\* taken its place (run, invalidate and cleanupExpiredResults of requestDeduper.ts).
THEOREM StaleOnlyLostSight == Spec => []StaleOnlyIfLostSight
  <1>1. LiveAccounted /\ DeduperInv /\ DeduperInv' /\ [Next]_vars => LiveAccounted'
    BY NextAccounted DEF DeduperInv
  <1>2. Spec => []LiveAccounted
    BY <1>1, InitDeduperInv, DeduperSafe, PTL DEF Spec
  <1>3. QED
    BY <1>2, AccountedIsFresh, DeduperSafe, PTL

=============================================================================
