-------------------------- MODULE PushTokenProofs --------------------------
(***************************************************************************)
(* What a save registers stays reachable, what a delete revokes stays      *)
(* unreachable, and where nothing overlapped or failed the three indexes   *)
(* agree: for any users, devices, tokens, callers, overlaps and failures.  *)
(*                                                                         *)
(* A registration is all that any step is about, so the indexes are taken  *)
(* as what they are of registrations: the sets of those that each of them  *)
(* names (Held).  A step of a caller removes from these sets or, in the    *)
(* update of a save, adds one registration.                                *)
(***************************************************************************)
EXTENDS PushTokens, TLAPS

-----------------------------------------------------------------------------
(* Shapes.                                                                 *)

PushTokenEntry == [user : Users, device : Devices]
DeviceEntry == [user : Users, token : Tokens]

\* What a request is of: a registration, or as much of it as is known.
Parts == [user : Users, device : Devices \cup {None}, token : Tokens \cup {None}]

SaveReads == {"previousDevice", "previousToken"}
DeleteReads == {"device", "index", "token", "entries"}
ReadReads == {"ownEntries", "checkToken", "checkDevice"}

Reads == [do : SaveReads \cup DeleteReads \cup ReadReads, of : Parts]
Removals == [do : Indexes, of : Registration, by : {"device", "token", "delete", "read"},
             more : SUBSET Indexes]

CallRecord ==
    [op : Deletes \cup {"save", "read"}, scope : SUBSET Registration,
     pending : SUBSET (Reads \cup Removals), failed : BOOLEAN, claims : BOOLEAN,
     updated : BOOLEAN, previousDevice : DeviceEntry \cup {None},
     previousToken : PushTokenEntry \cup {None},
     left : SUBSET Registration, stale : Registration \cup {None}]

\* The registrations that a part may stand for are the call's business.
Within(part, scope) ==
    \A r \in Registration :
        r.user = part.user /\ part.device \in {None, r.device} /\ part.token \in {None, r.token}
        => r \in scope

\* A save of s reads first and then removes what was registered of its device or its token.
SaveAsks(call, s, q) ==
    IF call.updated
    THEN q.do \in Indexes /\ q.of # s /\ (q.of.device = s.device \/ q.of.token = s.token)
    ELSE q.do \in SaveReads /\ q.of = s

DeleteAsks(call, q) ==
    /\ q.do \in DeleteReads \cup Indexes /\ Within(q.of, call.scope)
    /\ q.do \in {"device", "index"} => q.of.device \in Devices
    /\ q.do = "token" => q.of.token \in Tokens
    /\ q.do \in {"token", "entries"} => q.of.device = None
    /\ q.do \in {"device", "entries"} => q.of.token = None
    /\ q.do \in Indexes => q.of \in call.scope /\ q = Removal(q.do, q.of, "delete", {})

ReadAsks(call, q) ==
    /\ q.do \in ReadReads \cup {"userPushDevices"}
    /\ q.do = "ownEntries" =>
          q.of.device = None /\ q.of.token = None /\ Within(q.of, call.scope) /\ call.pending = {q}
    /\ q.do # "ownEntries" => q.of \in call.scope
    /\ q.do = "userPushDevices" => q.more = {}

SaveShaped(call) ==
    \E s \in Registration : call.scope = {s} /\ \A q \in call.pending : SaveAsks(call, s, q)

DeleteShaped(call) ==
    /\ \A q \in call.pending : DeleteAsks(call, q)
    /\ call.op = "deleteUser" =>
          \A r \in call.scope, s \in Registration : r.user = s.user => s \in call.scope

ReadShaped(call) ==
    /\ \A q \in call.pending : ReadAsks(call, q)
    /\ call.left \subseteq call.scope /\ call.stale \in call.scope \cup {None}

Shaped(call) ==
    /\ call \in CallRecord
    /\ call.op = "save" => SaveShaped(call)
    /\ call.op \in Deletes => DeleteShaped(call)
    /\ call.op = "read" => ReadShaped(call)
    /\ call.claims => ~call.failed /\ call.op # "read"

IndexesOK ==
    /\ pushTokens \in [Tokens -> PushTokenEntry \cup {None}]
    /\ devicePushTokens \in [Devices -> DeviceEntry \cup {None}]
    /\ userPushDevices \in [Users -> [Devices -> Tokens \cup {None}]]

HistoryOK ==
    /\ watched \in Registration /\ promised \in {"nothing", "registered", "revoked"}
    /\ calm \in BOOLEAN /\ overlaps \in 0..MaxOverlaps /\ failures \in 0..MaxFailures

CallsOK ==
    /\ DOMAIN calls = Callers /\ calls = [c \in Callers |-> calls[c]]
    /\ \A c \in Callers : calls[c] # Idle =>
          Shaped(calls[c]) /\ (calls[c].claims => watched \in calls[c].scope)

TypesInv == IndexesOK /\ HistoryOK /\ CallsOK

-----------------------------------------------------------------------------
(* The invariant.                                                          *)

\* An index names a registration.
Says(index, r) ==
    CASE index = "pushTokens" -> pushTokens[r.token] = PushTokenAssignment(r)
      [] index = "devicePushTokens" -> devicePushTokens[r.device] = DevicePushTokenAssignment(r)
      [] OTHER -> userPushDevices[r.user][r.device] = r.token

Held == [index \in Indexes |-> {r \in Registration : Says(index, r)}]

\* What all indexes name is reachable.
Reach(H) == {r \in Registration : \A index \in Indexes : r \in H[index]}

Saves(call, r) == call.op = "save" /\ r \in call.scope

\* A request that ends in the registration's removal, if it is reachable.
Pursues(q, r) ==
    \/ q.do = "device" /\ q.of.user = r.user /\ q.of.device = r.device
    \/ q.do = "index" /\ q.of = r
    \/ q.do = "token" /\ q.of.user = r.user /\ q.of.token = r.token
    \/ q.do = "entries" /\ q.of.user = r.user
    \/ q.do \in Indexes /\ q.of = r

Clears(call, r, H) == r \in Reach(H) => \E q \in call.pending : Pursues(q, r)

Removing(call, r) == \E q \in call.pending : q.do \in Indexes /\ q.of = r

\* A read has found the registration stale; another call is about it.
Threatens(call, r) ==
    IF call.op = "read" THEN call.stale = r \/ Removing(call, r) ELSE Touches(call, r)

\* What a call that claims has achieved so far.
Word(call, r, H) ==
    call.op # "idle" /\ call.claims =>
        /\ call.op = "save" /\ call.updated => r \in Reach(H)
        /\ call.op \in Deletes => Clears(call, r, H)

\* What is claimed or promised of a registration, nobody else works against.
WatchedInv(C, r, promise, H) ==
    /\ \A c \in Callers : Word(C[c], r, H)
    /\ \A c \in Callers : C[c].op = "save" /\ C[c].claims =>
          \A x \in Callers \ {c} : ~Touches(C[x], r)
    /\ \A c \in Callers : C[c].op \in Deletes /\ C[c].claims => \A x \in Callers : ~Saves(C[x], r)
    /\ promise = "registered" => r \in Reach(H) /\ \A x \in Callers : ~Threatens(C[x], r)
    /\ promise = "revoked" => r \notin Reach(H) /\ \A x \in Callers : ~Saves(C[x], r)

\* A removal of the entry is under way or follows one that is.
Covers(call, index, r) ==
    call.op # "idle" /\ \E q \in call.pending :
        q.do \in Indexes /\ q.of = r /\ (q.do = index \/ index \in q.more)

NothingToRead(call, what) == \A q \in call.pending : q.do # what

\* What a call knows is so, where nothing disturbs it: a save knows what was registered
\* of its device and token, and after its update nothing of that is reachable; a delete
\* removes all at once that it removes; what a read removes is stale.
Agrees(call, H) ==
    /\ call.op = "save" /\ ~call.updated => \A s \in call.scope, r \in Registration :
          /\ NothingToRead(call, "previousDevice") /\ r.device = s.device
             /\ r \in H["devicePushTokens"] => call.previousDevice = DevicePushTokenAssignment(r)
          /\ NothingToRead(call, "previousToken") /\ r.token = s.token
             /\ r \in H["pushTokens"] => call.previousToken = PushTokenAssignment(r)
    /\ call.op = "save" /\ call.updated => \A s \in call.scope, r \in Reach(H) :
          r = s \/ (r.device # s.device /\ r.token # s.token)
    /\ call.op \in Deletes =>
          /\ \A r \in call.scope : Clears(call, r, H)
          /\ \A q \in call.pending : q.do \in Indexes /\ q.of \in Reach(H) =>
                RemoveAll(q.of) \subseteq call.pending
    /\ call.op = "read" => \A r \in Reach(H) : call.stale # r /\ ~Removing(call, r)

\* Where nothing overlapped what it touched and nothing failed, an entry that not all
\* indexes agree on is being removed.
CalmInv(C, H) ==
    /\ \A c \in Callers : C[c].op # "idle" => ~C[c].failed
    /\ \A c, x \in Callers : c # x => \A s \in Registration : Saves(C[c], s) => ~Touches(C[x], s)
    /\ \A index \in Indexes : \A r \in H[index] :
          r \in Reach(H) \/ \E c \in Callers : Covers(C[c], index, r)
    /\ \A c \in Callers : Agrees(C[c], H)

PushInv ==
    /\ TypesInv
    /\ WatchedInv(calls, watched, promised, Held)
    /\ calm => CalmInv(calls, Held)

-----------------------------------------------------------------------------
(* What the indexes name.                                                  *)

LEMMA EntriesDiffer ==
    ASSUME NEW r \in Registration
    PROVE  /\ PushTokenAssignment(r) \in PushTokenEntry /\ PushTokenAssignment(r) # None
           /\ DevicePushTokenAssignment(r) \in DeviceEntry /\ DevicePushTokenAssignment(r) # None
           /\ r.user \in Users /\ r.device \in Devices /\ r.token \in Tokens
           /\ r.token # None /\ r.device # None /\ r # None
  BY NoneAssumption DEF Registration, PushTokenAssignment, DevicePushTokenAssignment,
     PushTokenEntry, DeviceEntry

LEMMA SameRegistration ==
    ASSUME NEW r \in Registration, NEW s \in Registration,
           r.user = s.user, r.device = s.device, r.token = s.token
    PROVE  r = s
  BY DEF Registration

LEMMA HeldBy ==
    ASSUME NEW r \in Registration
    PROVE  /\ r \in Held["pushTokens"] <=> pushTokens[r.token] = PushTokenAssignment(r)
           /\ r \in Held["devicePushTokens"] <=>
                 devicePushTokens[r.device] = DevicePushTokenAssignment(r)
           /\ r \in Held["userPushDevices"] <=> userPushDevices[r.user][r.device] = r.token
  BY DEF Held, Indexes, Says

LEMMA ReachableIsHeld ==
    ASSUME NEW r \in Registration
    PROVE  r \in Reach(Held) <=> Reachable(r)
  BY HeldBy DEF Reach, Reachable, Indexes

LEMMA HeldIsOfRegistrations ==
    ASSUME NEW i \in Indexes
    PROVE  Held[i] \subseteq Registration
  BY DEF Held

LEMMA SameIndexesSameHeld ==
    ASSUME UNCHANGED indexes
    PROVE  Held' = Held
  BY DEF indexes, Held, Says

\* A removal takes one registration from one index.
LEMMA HeldAfterRemoval ==
    ASSUME IndexesOK, NEW c, NEW q, q.of \in Registration, Removes(c, q)
    PROVE  /\ IndexesOK'
           /\ \A i \in Indexes : \A r \in Registration :
                 r \in Held'[i] <=> r \in Held[i] /\ ~(i = q.do /\ r = q.of)
  <1> DEFINE s == q.of
             Cleared(index) == q.do = index /\ Matches(q)
  <1>1. /\ pushTokens' = [t \in Tokens |->
               IF Cleared("pushTokens") /\ t = s.token THEN None ELSE pushTokens[t]]
        /\ devicePushTokens' = [d \in Devices |->
               IF Cleared("devicePushTokens") /\ d = s.device THEN None ELSE devicePushTokens[d]]
        /\ userPushDevices' = [u \in Users |-> [d \in Devices |->
               IF Cleared("userPushDevices") /\ u = s.user /\ d = s.device
               THEN None ELSE userPushDevices[u][d]]]
    BY DEF Removes
  <1>2. IndexesOK'
    BY <1>1 DEF IndexesOK
  <1>3. /\ q.do = "pushTokens" => (Matches(q) <=> pushTokens[s.token] = PushTokenAssignment(s))
        /\ q.do = "devicePushTokens" =>
              (Matches(q) <=> devicePushTokens[s.device] = DevicePushTokenAssignment(s))
        /\ q.do = "userPushDevices" => (Matches(q) <=> userPushDevices[s.user][s.device] = s.token)
    BY DEF Matches
  <1> HIDE DEF Cleared
  <1>4. ASSUME NEW r \in Registration
        PROVE  /\ r \in Held'["pushTokens"] <=> pushTokens'[r.token] = PushTokenAssignment(r)
               /\ r \in Held'["devicePushTokens"] <=>
                     devicePushTokens'[r.device] = DevicePushTokenAssignment(r)
               /\ r \in Held'["userPushDevices"] <=> userPushDevices'[r.user][r.device] = r.token
    BY DEF Held, Indexes, Says
  <1>5. ASSUME NEW r \in Registration
        PROVE  r \in Held'["pushTokens"] <=> r \in Held["pushTokens"] /\ ~("pushTokens" = q.do /\ r = s)
    <2>1. pushTokens'[r.token] = IF Cleared("pushTokens") /\ r.token = s.token THEN None
                                 ELSE pushTokens[r.token]
      BY <1>1, EntriesDiffer
    <2>2. r.token = s.token /\ PushTokenAssignment(r) = PushTokenAssignment(s) <=> r = s
      BY SameRegistration DEF PushTokenAssignment
    <2>3. QED
      BY <2>1, <2>2, <1>3, <1>4, HeldBy, EntriesDiffer DEF Cleared
  <1>6. ASSUME NEW r \in Registration
        PROVE  r \in Held'["devicePushTokens"] <=>
                  r \in Held["devicePushTokens"] /\ ~("devicePushTokens" = q.do /\ r = s)
    <2>1. devicePushTokens'[r.device] = IF Cleared("devicePushTokens") /\ r.device = s.device THEN None
                                        ELSE devicePushTokens[r.device]
      BY <1>1, EntriesDiffer
    <2>2. r.device = s.device /\ DevicePushTokenAssignment(r) = DevicePushTokenAssignment(s) <=> r = s
      BY SameRegistration DEF DevicePushTokenAssignment
    <2>3. QED
      BY <2>1, <2>2, <1>3, <1>4, HeldBy, EntriesDiffer DEF Cleared
  <1>7. ASSUME NEW r \in Registration
        PROVE  r \in Held'["userPushDevices"] <=>
                  r \in Held["userPushDevices"] /\ ~("userPushDevices" = q.do /\ r = s)
    <2>1. userPushDevices'[r.user][r.device] =
             IF Cleared("userPushDevices") /\ r.user = s.user /\ r.device = s.device THEN None
             ELSE userPushDevices[r.user][r.device]
      BY <1>1, EntriesDiffer
    <2>2. r.user = s.user /\ r.device = s.device /\ r.token = s.token <=> r = s
      BY SameRegistration
    <2>3. QED
      BY <2>1, <2>2, <1>3, <1>4, HeldBy, EntriesDiffer DEF Cleared
  <1>8. QED
    BY <1>2, <1>5, <1>6, <1>7 DEF Indexes

\* The update of a save names it in all indexes and what was registered of its device,
\* its token or its user's device no longer.
LEMMA HeldAfterWrite ==
    ASSUME IndexesOK, NEW s \in Registration, Write(s)
    PROVE  /\ IndexesOK'
           /\ \A r \in Registration :
                 /\ r \in Held'["pushTokens"] <=>
                       r = s \/ (r \in Held["pushTokens"] /\ r.token # s.token)
                 /\ r \in Held'["devicePushTokens"] <=>
                       r = s \/ (r \in Held["devicePushTokens"] /\ r.device # s.device)
                 /\ r \in Held'["userPushDevices"] <=>
                       r = s \/ (r \in Held["userPushDevices"] /\ ~(r.user = s.user /\ r.device = s.device))
  <1>1. s.user \in Users /\ s.device \in Devices /\ s.token \in Tokens
        /\ PushTokenAssignment(s) \in PushTokenEntry /\ DevicePushTokenAssignment(s) \in DeviceEntry
    BY EntriesDiffer
  <1>2. IndexesOK'
    BY <1>1 DEF IndexesOK, Write
  <1>3. ASSUME NEW r \in Registration
        PROVE  /\ r \in Held'["pushTokens"] <=> pushTokens'[r.token] = PushTokenAssignment(r)
               /\ r \in Held'["devicePushTokens"] <=>
                     devicePushTokens'[r.device] = DevicePushTokenAssignment(r)
               /\ r \in Held'["userPushDevices"] <=> userPushDevices'[r.user][r.device] = r.token
    BY DEF Held, Indexes, Says
  <1>4. ASSUME NEW r \in Registration
        PROVE  r \in Held'["pushTokens"] <=> r = s \/ (r \in Held["pushTokens"] /\ r.token # s.token)
    <2>1. pushTokens'[r.token] = IF r.token = s.token THEN PushTokenAssignment(s) ELSE pushTokens[r.token]
      BY <1>1, EntriesDiffer DEF Write, IndexesOK
    <2>2. r.token = s.token /\ PushTokenAssignment(r) = PushTokenAssignment(s) <=> r = s
      BY SameRegistration DEF PushTokenAssignment
    <2>3. QED
      BY <2>1, <2>2, <1>3, HeldBy
  <1>5. ASSUME NEW r \in Registration
        PROVE  r \in Held'["devicePushTokens"] <=>
                  r = s \/ (r \in Held["devicePushTokens"] /\ r.device # s.device)
    <2>1. devicePushTokens'[r.device] = IF r.device = s.device THEN DevicePushTokenAssignment(s)
                                        ELSE devicePushTokens[r.device]
      BY <1>1, EntriesDiffer DEF Write, IndexesOK
    <2>2. r.device = s.device /\ DevicePushTokenAssignment(r) = DevicePushTokenAssignment(s) <=> r = s
      BY SameRegistration DEF DevicePushTokenAssignment
    <2>3. QED
      BY <2>1, <2>2, <1>3, HeldBy
  <1>6. ASSUME NEW r \in Registration
        PROVE  r \in Held'["userPushDevices"] <=>
                  r = s \/ (r \in Held["userPushDevices"] /\ ~(r.user = s.user /\ r.device = s.device))
    <2>1. userPushDevices'[r.user][r.device] =
             IF r.user = s.user /\ r.device = s.device THEN s.token ELSE userPushDevices[r.user][r.device]
      BY <1>1, EntriesDiffer DEF Write, IndexesOK
    <2>2. r.user = s.user /\ r.device = s.device /\ r.token = s.token <=> r = s
      BY SameRegistration
    <2>3. QED
      BY <2>1, <2>2, <1>3, HeldBy
  <1>7. QED
    BY <1>2, <1>4, <1>5, <1>6

\* The end of a user's deletion leaves the user's own index empty.
LEMMA HeldAfterClearing ==
    ASSUME IndexesOK, NEW c \in Callers, calls[c].scope \subseteq Registration, DeleteUserReturns(c)
    PROVE  /\ IndexesOK'
           /\ \A i \in Indexes : \A r \in Registration :
                 r \in Held'[i] <=> /\ r \in Held[i]
                                    /\ ~(i = "userPushDevices" /\ \E s \in calls[c].scope : s.user = r.user)
  <1> DEFINE mine(u) == \E s \in calls[c].scope : s.user = u
  <1>1. /\ userPushDevices' = [u \in Users |-> IF mine(u) THEN [d \in Devices |-> None] ELSE userPushDevices[u]]
        /\ pushTokens' = pushTokens /\ devicePushTokens' = devicePushTokens
    BY DEF DeleteUserReturns
  <1>2. IndexesOK'
    BY <1>1 DEF IndexesOK
  <1> HIDE DEF mine
  <1>3. ASSUME NEW r \in Registration
        PROVE  /\ r \in Held'["pushTokens"] <=> r \in Held["pushTokens"]
               /\ r \in Held'["devicePushTokens"] <=> r \in Held["devicePushTokens"]
               /\ r \in Held'["userPushDevices"] <=> r \in Held["userPushDevices"] /\ ~mine(r.user)
    <2>1. userPushDevices'[r.user][r.device] = IF mine(r.user) THEN None ELSE userPushDevices[r.user][r.device]
      BY <1>1, EntriesDiffer
    <2>2. QED
      BY <1>1, <2>1, EntriesDiffer DEF Held, Indexes, Says
  <1>4. QED
    BY <1>2, <1>3 DEF Indexes, mine

-----------------------------------------------------------------------------
(* What a step of one caller keeps, whatever it is.                        *)

\* The same call later, or none.
Continues(call, new) ==
    \/ new.op = "idle"
    \/ new.op = call.op /\ new.scope = call.scope /\ (new.claims => call.claims)

\* From H to K only what the caller saves is gained,
Gains(call, H, K) == \A i \in Indexes : \A r \in K[i] : r \in H[i] \/ Saves(call, r)

\* and only what it works against is lost.
Loses(call, H, K) ==
    \A r \in Reach(H) \ Reach(K) :
        Touches(call, r) /\ ~Saves(call, r) /\ (call.op = "read" => Removing(call, r))

OnlyMoves(C, D, c, new) == D[c] = new /\ \A x \in Callers \ {c} : D[x] = C[x]

LEMMA SavesTouches ==
    ASSUME NEW call, NEW r, Saves(call, r)
    PROVE  Touches(call, r)
  BY DEF Saves, Touches

LEMMA ContinuesTouches ==
    ASSUME NEW call, NEW new, NEW r, Continues(call, new)
    PROVE  /\ Touches(new, r) => Touches(call, r)
           /\ Saves(new, r) => Saves(call, r)
  BY DEF Continues, Touches, Saves, Deletes

LEMMA GainedReach ==
    ASSUME NEW call, NEW H, NEW K, Gains(call, H, K), NEW r \in Reach(K)
    PROVE  r \in Reach(H) \/ Saves(call, r)
  BY DEF Gains, Reach

LEMMA WatchedMoves ==
    ASSUME NEW C, NEW D, NEW c \in Callers, NEW new, OnlyMoves(C, D, c, new),
           NEW r \in Registration, NEW p, NEW H, NEW K,
           WatchedInv(C, r, p, H), Gains(C[c], H, K), Loses(C[c], H, K), Continues(C[c], new),
           Word(new, r, K),
           new.op = "read" /\ Threatens(new, r) => Threatens(C[c], r) \/ r \notin Reach(H)
    PROVE  WatchedInv(D, r, p, K)
  <1>1. ASSUME NEW x \in Callers
        PROVE  /\ Touches(D[x], r) => Touches(C[x], r)
               /\ Saves(D[x], r) => Saves(C[x], r)
    BY ContinuesTouches DEF OnlyMoves
  <1>2. ASSUME NEW x \in Callers, D[x].op # "idle", D[x].claims
        PROVE  C[x].op = D[x].op /\ C[x].claims /\ (x # c => D[x] = C[x])
    BY <1>2 DEF OnlyMoves, Continues
  <1>3. r \in Reach(K) => r \in Reach(H) \/ Saves(C[c], r)
    BY GainedReach
  <1>4. ASSUME r \in Reach(H), r \notin Reach(K)
        PROVE  Touches(C[c], r) /\ ~Saves(C[c], r) /\ (C[c].op = "read" => Removing(C[c], r))
    BY <1>4 DEF Loses
  <1>5. ASSUME NEW x \in Callers
        PROVE  Word(D[x], r, K)
    <2>1. CASE x = c
      BY <2>1 DEF OnlyMoves
    <2>2. CASE x # c /\ D[x].op # "idle" /\ D[x].claims
      <3>1. D[x] = C[x] /\ Word(C[x], r, H)
        BY <2>2 DEF OnlyMoves, WatchedInv
      <3>2. CASE C[x].op = "save" /\ C[x].updated
        <4>1. ~Touches(C[c], r) /\ r \in Reach(H)
          BY <2>2, <3>1, <3>2 DEF WatchedInv, Word
        <4>2. QED
          BY <1>4, <3>1, <3>2, <4>1 DEF Word, Deletes
      <3>3. CASE C[x].op \in Deletes
        <4>1. ~Saves(C[c], r) /\ Clears(C[x], r, H)
          BY <2>2, <3>1, <3>3 DEF WatchedInv, Word
        <4>2. Clears(C[x], r, K)
          BY <1>3, <4>1 DEF Clears
        <4>3. QED
          BY <3>1, <3>3, <4>2 DEF Word, Deletes
      <3>4. QED
        BY <3>1, <3>2, <3>3 DEF Word
    <2>3. QED
      BY <2>1, <2>2 DEF Word
  <1>6. ASSUME NEW x \in Callers, D[x].op = "save", D[x].claims
        PROVE  \A y \in Callers \ {x} : ~Touches(D[y], r)
    BY <1>1, <1>2, <1>6 DEF WatchedInv
  <1>7. ASSUME NEW x \in Callers, D[x].op \in Deletes, D[x].claims
        PROVE  \A y \in Callers : ~Saves(D[y], r)
    <2>1. D[x].op # "idle"
      BY <1>7 DEF Deletes
    <2>2. QED
      BY <1>1, <1>2, <1>7, <2>1 DEF WatchedInv
  <1>8. ASSUME p = "registered"
        PROVE  r \in Reach(K) /\ \A x \in Callers : ~Threatens(D[x], r)
    <2>1. r \in Reach(H) /\ \A x \in Callers : ~Threatens(C[x], r)
      BY <1>8 DEF WatchedInv
    <2>2. r \in Reach(K)
      BY <1>4, <2>1 DEF Threatens
    <2>3. ~Threatens(new, r)
      <3>1. CASE new.op = "read"
        BY <2>1, <3>1
      <3>2. CASE new.op # "read"
        <4>1. Touches(new, r) => C[c].op # "read"
          BY <3>2 DEF Continues, Touches, Deletes
        <4>2. QED
          BY <2>1, <3>2, <4>1, ContinuesTouches DEF Threatens
      <3>3. QED
        BY <3>1, <3>2
    <2>4. QED
      BY <2>1, <2>2, <2>3 DEF OnlyMoves
  <1>9. ASSUME p = "revoked"
        PROVE  r \notin Reach(K) /\ \A x \in Callers : ~Saves(D[x], r)
    BY <1>1, <1>3, <1>9 DEF WatchedInv
  <1>10. QED
    BY <1>5, <1>6, <1>7, <1>8, <1>9 DEF WatchedInv

\* A shaped delete or read works on what is in its scope.
LEMMA WorksInScope ==
    ASSUME NEW call, Shaped(call), call.op # "save", NEW r
    PROVE  /\ Removing(call, r) => r \in call.scope
           /\ call.op = "read" /\ call.stale = r /\ r # None => r \in call.scope
           /\ r \in call.scope => Touches(call, r) /\ r \in Registration
  <1>1. call.op \in Deletes \/ call.op = "read"
    BY DEF Shaped, CallRecord
  <1>2. r \in call.scope => Touches(call, r) /\ r \in Registration
    BY <1>1 DEF Touches, Shaped, CallRecord
  <1>3. CASE call.op \in Deletes
    <2>1. DeleteShaped(call) /\ call.op # "read"
      BY <1>3 DEF Shaped, Deletes
    <2>2. QED
      BY <1>2, <2>1 DEF DeleteShaped, DeleteAsks, Removing
  <1>4. CASE call.op = "read"
    BY <1>2, <1>4 DEF Shaped, ReadShaped, ReadAsks, Removing, Indexes
  <1>5. QED
    BY <1>1, <1>3, <1>4

\* What another caller's step gains is nothing that a call knows of.
LEMMA AgreesStill ==
    ASSUME NEW call, call.op # "idle" => Shaped(call), NEW other,
           \A s \in Registration : Saves(other, s) => ~Touches(call, s),
           NEW H, NEW K, Gains(other, H, K), \A i \in Indexes : K[i] \subseteq Registration,
           Agrees(call, H)
    PROVE  Agrees(call, K)
  <1>1. ASSUME NEW i \in Indexes, NEW r \in K[i], Touches(call, r)
        PROVE  r \in H[i]
    BY <1>1 DEF Gains
  <1>2. ASSUME NEW r \in Reach(K), Touches(call, r)
        PROVE  r \in Reach(H)
    BY <1>2, GainedReach DEF Reach
  <1>3. CASE call.op = "save"
    <2>1. PICK s \in Registration : call.scope = {s}
      BY <1>3 DEF Shaped, SaveShaped, SaveAsks
    <2>2. \A r : r.device = s.device \/ r.token = s.token => Touches(call, r)
      BY <1>3, <2>1 DEF Touches
    <2>3. ASSUME ~call.updated, NEW r \in Registration
          PROVE  /\ NothingToRead(call, "previousDevice") /\ r.device = s.device
                    /\ r \in K["devicePushTokens"] =>
                       call.previousDevice = DevicePushTokenAssignment(r)
                 /\ NothingToRead(call, "previousToken") /\ r.token = s.token
                    /\ r \in K["pushTokens"] => call.previousToken = PushTokenAssignment(r)
      <3>1. r.device = s.device /\ r \in K["devicePushTokens"] => r \in H["devicePushTokens"]
        BY <1>1, <2>2 DEF Indexes
      <3>2. r.token = s.token /\ r \in K["pushTokens"] => r \in H["pushTokens"]
        BY <1>1, <2>2 DEF Indexes
      <3>3. QED
        BY <1>3, <2>1, <2>3, <3>1, <3>2 DEF Agrees
    <2>4. ASSUME call.updated, NEW r \in Reach(K)
          PROVE  r = s \/ (r.device # s.device /\ r.token # s.token)
      BY <1>2, <1>3, <2>1, <2>2, <2>4 DEF Agrees
    <2>5. QED
      BY <1>3, <2>1, <2>3, <2>4 DEF Agrees, Deletes
  <1>4. CASE call.op \in Deletes
    <2>1. Shaped(call) /\ DeleteShaped(call) /\ call.op # "save" /\ call.op # "read"
      BY <1>4 DEF Shaped, Deletes
    <2>2. \A r \in call.scope : Clears(call, r, K)
      BY <1>2, <1>4, <2>1, WorksInScope DEF Agrees, Clears
    <2>3. ASSUME NEW q \in call.pending, q.do \in Indexes, q.of \in Reach(K)
          PROVE  RemoveAll(q.of) \subseteq call.pending
      <3>1. Touches(call, q.of)
        BY <2>1, <2>3, WorksInScope DEF DeleteShaped, DeleteAsks
      <3>2. QED
        BY <1>2, <1>4, <2>3, <3>1 DEF Agrees
    <2>4. QED
      BY <2>1, <2>2, <2>3 DEF Agrees
  <1>5. CASE call.op = "read"
    <2>1. ASSUME NEW r \in Reach(K), call.stale = r \/ Removing(call, r)
          PROVE  FALSE
      <3>1. r # None
        BY NoneAssumption DEF Reach, Registration
      <3>2. Touches(call, r)
        BY <1>5, <2>1, <3>1, WorksInScope
      <3>3. QED
        BY <1>2, <1>5, <2>1, <3>2 DEF Agrees
    <2>2. QED
      BY <1>5, <2>1 DEF Agrees, Deletes
  <1>6. QED
    BY <1>3, <1>4, <1>5 DEF Agrees

LEMMA CalmMoves ==
    ASSUME NEW C, NEW D, NEW c \in Callers, NEW new, OnlyMoves(C, D, c, new), NEW H, NEW K,
           \A i \in Indexes : K[i] \subseteq Registration,
           CalmInv(C, H), \A x \in Callers : C[x].op # "idle" => Shaped(C[x]),
           Gains(C[c], H, K), Continues(C[c], new), new.op # "idle" => ~new.failed, Agrees(new, K),
           \A i \in Indexes : \A r \in K[i] :
               r \notin H[i] \/ r \in Reach(H) \/ Covers(C[c], i, r) => r \in Reach(K) \/ Covers(new, i, r)
    PROVE  CalmInv(D, K)
  <1>1. \A x \in Callers : D[x].op # "idle" => ~D[x].failed
    BY DEF CalmInv, OnlyMoves
  <1>2. ASSUME NEW x \in Callers, NEW y \in Callers, x # y, NEW s \in Registration, Saves(D[x], s)
        PROVE  ~Touches(D[y], s)
    <2>1. Saves(C[x], s) /\ (Touches(D[y], s) => Touches(C[y], s))
      BY <1>2, ContinuesTouches DEF OnlyMoves
    <2>2. QED
      BY <1>2, <2>1 DEF CalmInv
  <1>3. ASSUME NEW i \in Indexes, NEW r \in K[i]
        PROVE  r \in Reach(K) \/ \E x \in Callers : Covers(D[x], i, r)
    <2>1. r \in H[i] => r \in Reach(H) \/ \E x \in Callers : Covers(C[x], i, r)
      BY DEF CalmInv
    <2>2. CASE r \notin H[i] \/ r \in Reach(H) \/ Covers(C[c], i, r)
      BY <2>2 DEF OnlyMoves
    <2>3. CASE \E x \in Callers \ {c} : Covers(C[x], i, r)
      BY <2>3 DEF OnlyMoves
    <2>4. QED
      BY <2>1, <2>2, <2>3
  <1>4. ASSUME NEW x \in Callers
        PROVE  Agrees(D[x], K)
    <2>1. CASE x = c
      BY <2>1 DEF OnlyMoves
    <2>2. CASE x # c
      <3>1. \A s \in Registration : Saves(C[c], s) => ~Touches(C[x], s)
        BY <2>2 DEF CalmInv
      <3>2. Agrees(C[x], K)
        BY <3>1, AgreesStill DEF CalmInv
      <3>3. QED
        BY <2>2, <3>2 DEF OnlyMoves
    <2>3. QED
      BY <2>1, <2>2
  <1>5. QED
    BY <1>1, <1>2, <1>3, <1>4 DEF CalmInv

-----------------------------------------------------------------------------
(* The steps of a call, by what they do to it.                             *)

LEMMA CallOf ==
    ASSUME TypesInv, NEW c \in Callers, calls[c] # Idle
    PROVE  /\ Shaped(calls[c]) /\ calls[c] \in CallRecord /\ calls[c].op # "idle"
           /\ calls[c].scope \subseteq Registration /\ calls[c].op \in Deletes \cup {"save", "read"}
           /\ calls[c].claims => watched \in calls[c].scope /\ ~calls[c].failed /\ calls[c].op # "read"
           /\ watched \in Registration
  <1>1. Shaped(calls[c]) /\ (calls[c].claims => watched \in calls[c].scope) /\ watched \in Registration
    BY DEF TypesInv, CallsOK, HistoryOK
  <1>2. QED
    BY <1>1 DEF Shaped, CallRecord, Deletes

LEMMA IdleByOp ==
    ASSUME TypesInv, NEW c \in Callers
    PROVE  calls[c] = Idle <=> calls[c].op = "idle"
  BY CallOf DEF Idle

LEMMA HeldSets == \A i \in Indexes : Held[i] \subseteq Registration /\ Held'[i] \subseteq Registration
  BY DEF Held

\* What a step of a call does that goes on with it.
MovesTo(c, new) ==
    /\ calls[c] # Idle
    /\ Shaped(new) /\ new.op = calls[c].op /\ new.scope = calls[c].scope
    /\ new.claims => calls[c].claims
    /\ calls' = [calls EXCEPT ![c] = new]
    /\ IndexesOK' /\ HistoryOK' /\ watched' = watched /\ promised' = promised
    /\ calm' => calm /\ ~new.failed

\* Nothing but the call that goes on changes.
LEMMA MovingOnly ==
    ASSUME TypesInv, NEW c \in Callers, NEW new, calls' = [calls EXCEPT ![c] = new]
    PROVE  OnlyMoves(calls, calls', c, new)
  BY DEF TypesInv, CallsOK, OnlyMoves

LEMMA Moving ==
    ASSUME PushInv, NEW c \in Callers, NEW new, MovesTo(c, new),
           Gains(calls[c], Held, Held'), Loses(calls[c], Held, Held'), Word(new, watched, Held'),
           new.op = "read" /\ Threatens(new, watched) =>
               Threatens(calls[c], watched) \/ watched \notin Reach(Held),
           calm' => Agrees(new, Held'),
           calm' => \A i \in Indexes : \A r \in Held'[i] :
               r \notin Held[i] \/ r \in Reach(Held) \/ Covers(calls[c], i, r) =>
                   r \in Reach(Held') \/ Covers(new, i, r)
    PROVE  PushInv'
  <1>1. TypesInv /\ OnlyMoves(calls, calls', c, new) /\ Continues(calls[c], new)
        /\ new.op # "idle" /\ new # Idle /\ watched \in Registration
    <2>1. TypesInv /\ calls[c] # Idle /\ new.op = calls[c].op
      BY DEF MovesTo, PushInv
    <2>2. new.op # "idle" /\ watched \in Registration
      BY <2>1, CallOf
    <2>3. Continues(calls[c], new) /\ OnlyMoves(calls, calls', c, new)
      BY <2>1, MovingOnly DEF MovesTo, Continues
    <2>4. new # Idle
      BY <2>2 DEF Idle
    <2>5. QED
      BY <2>1, <2>2, <2>3, <2>4
  <1>2. TypesInv'
    <2>1. ASSUME NEW x \in Callers, calls'[x] # Idle
          PROVE  Shaped(calls'[x]) /\ (calls'[x].claims => watched' \in calls'[x].scope)
      BY <1>1, <2>1 DEF MovesTo, OnlyMoves, TypesInv, CallsOK
    <2>2. DOMAIN calls' = Callers /\ calls' = [x \in Callers |-> calls'[x]]
      BY DEF MovesTo, PushInv, TypesInv, CallsOK
    <2>3. QED
      BY <2>1, <2>2 DEF MovesTo, TypesInv, CallsOK
  <1>3. WatchedInv(calls', watched', promised', Held')
    <2>1. WatchedInv(calls, watched, promised, Held)
      BY DEF PushInv
    <2>2. WatchedInv(calls', watched, promised, Held')
      BY <1>1, <2>1, WatchedMoves
    <2>3. QED
      BY <2>2 DEF MovesTo
  <1>4. ASSUME calm'
        PROVE  CalmInv(calls', Held')
    <2>1. CalmInv(calls, Held) /\ ~new.failed
      BY <1>4 DEF PushInv, MovesTo
    <2>2. \A x \in Callers : calls[x].op # "idle" => Shaped(calls[x])
      BY <1>1, IdleByOp, CallOf
    <2>3. QED
      BY <1>1, <1>4, <2>1, <2>2, HeldSets, CalmMoves
  <1>5. QED
    BY <1>2, <1>3, <1>4 DEF PushInv

\* A step that leaves the indexes alone.
LEMMA Asking ==
    ASSUME PushInv, NEW c \in Callers, NEW new, MovesTo(c, new), UNCHANGED indexes,
           Word(new, watched, Held),
           new.op = "read" /\ Threatens(new, watched) =>
               Threatens(calls[c], watched) \/ watched \notin Reach(Held),
           calm' => Agrees(new, Held),
           calm' => \A i \in Indexes : \A r \in Registration :
               Covers(calls[c], i, r) => Covers(new, i, r)
    PROVE  PushInv'
  <1>1. Held' = Held
    BY SameIndexesSameHeld
  <1>2. Gains(calls[c], Held, Held') /\ Loses(calls[c], Held, Held')
    BY <1>1 DEF Gains, Loses
  <1>3. calm' => \A i \in Indexes : \A r \in Held'[i] :
           r \notin Held[i] \/ r \in Reach(Held) \/ Covers(calls[c], i, r) =>
               r \in Reach(Held') \/ Covers(new, i, r)
    BY <1>1, HeldSets
  <1>4. QED
    BY <1>1, <1>2, <1>3, Moving

\* A call is over that has no request under way.
LEMMA Returning ==
    ASSUME PushInv, NEW c \in Callers, calls[c] # Idle, calls[c].pending = {}, Return(c), IndexesOK',
           Gains(calls[c], Held, Held'), Loses(calls[c], Held, Held'),
           calls[c].op = "save" => Held' = Held /\ (calls[c].updated \/ calls[c].failed),
           calm => \A i \in Indexes : \A r \in Held'[i] :
               r \notin Held[i] \/ r \in Reach(Held) => r \in Reach(Held')
    PROVE  PushInv'
  <1> DEFINE call == calls[c]
             w == watched
  <1>1. /\ Shaped(call) /\ call.op \in Deletes \cup {"save", "read"} /\ w \in Registration /\ TypesInv
        /\ call.claims => ~call.failed /\ call.op # "read"
    BY CallOf DEF PushInv
  <1>2. /\ calls' = [calls EXCEPT ![c] = Idle] /\ OnlyMoves(calls, calls', c, Idle)
        /\ watched' = w /\ calm' = calm /\ overlaps' = overlaps /\ failures' = failures
        /\ promised' = IF ~call.claims THEN promised
                       ELSE IF call.op = "save" THEN "registered" ELSE "revoked"
    BY <1>1, MovingOnly DEF Return
  <1>3. Continues(call, Idle) /\ Word(Idle, w, Held') /\ Idle.op # "read" /\ Agrees(Idle, Held')
        /\ Idle.op = "idle" /\ Idle.scope = {}
    BY DEF Continues, Word, Idle, Agrees, Deletes
  <1>4. TypesInv'
    BY <1>1, <1>2 DEF TypesInv, HistoryOK, CallsOK
  <1>5. WatchedInv(calls, w, promised, Held)
    BY DEF PushInv
  <1>6. WatchedInv(calls', w, promised, Held')
    BY <1>1, <1>2, <1>3, <1>5, WatchedMoves
  <1>7. ASSUME call.claims, call.op = "save"
        PROVE  w \in Reach(Held') /\ \A x \in Callers : ~Threatens(calls'[x], w)
    <2>1. w \in Reach(Held) /\ \A x \in Callers \ {c} : ~Touches(calls[x], w)
      BY <1>1, <1>5, <1>7 DEF WatchedInv, Word
    <2>2. w \in Reach(Held')
      BY <1>7, <2>1
    <2>3. ASSUME NEW x \in Callers \ {c}, Threatens(calls[x], w)
          PROVE  FALSE
      <3>1. calls[x].op = "read" /\ Shaped(calls[x])
        BY <1>1, <2>1, <2>3, IdleByOp, CallOf DEF Threatens
      <3>2. w # None
        BY <1>1, EntriesDiffer
      <3>3. QED
        BY <2>1, <2>3, <3>1, <3>2, WorksInScope DEF Threatens
    <2>4. ~Threatens(Idle, w)
      BY <1>3 DEF Threatens, Touches, Deletes
    <2>5. QED
      BY <1>2, <2>2, <2>3, <2>4 DEF OnlyMoves
  <1>8. ASSUME call.claims, call.op # "save"
        PROVE  w \notin Reach(Held') /\ \A x \in Callers : ~Saves(calls'[x], w)
    <2>1. call.op \in Deletes
      BY <1>1, <1>8
    <2>2. w \notin Reach(Held) /\ \A x \in Callers : ~Saves(calls[x], w)
      BY <1>5, <1>8, <2>1 DEF WatchedInv, Word, Clears, Deletes
    <2>3. w \notin Reach(Held')
      BY <2>2, GainedReach
    <2>4. ~Saves(Idle, w)
      BY <1>3 DEF Saves
    <2>5. QED
      BY <1>2, <2>2, <2>3, <2>4 DEF OnlyMoves
  <1>9. WatchedInv(calls', watched', promised', Held')
    <2>1. CASE ~call.claims
      BY <1>2, <1>6, <2>1
    <2>2. CASE call.claims
      BY <1>2, <1>6, <1>7, <1>8, <2>2 DEF WatchedInv
    <2>3. QED
      BY <2>1, <2>2
  <1>10. ASSUME calm'
         PROVE  CalmInv(calls', Held')
    <2>1. CalmInv(calls, Held) /\ calm
      BY <1>2, <1>10 DEF PushInv
    <2>2. \A x \in Callers : calls[x].op # "idle" => Shaped(calls[x])
      BY <1>1, IdleByOp, CallOf
    <2>3. \A i \in Indexes : \A r \in Held'[i] :
             r \notin Held[i] \/ r \in Reach(Held) \/ Covers(call, i, r) =>
                 r \in Reach(Held') \/ Covers(Idle, i, r)
      BY <2>1 DEF Covers
    <2>4. QED
      BY <1>2, <1>3, <2>1, <2>2, <2>3, HeldSets, CalmMoves
  <1>11. QED
    BY <1>4, <1>9, <1>10 DEF PushInv

-----------------------------------------------------------------------------
(* A call starts.                                                          *)

Asked(op, scope, requests, claims) ==
    [op |-> op, scope |-> scope, pending |-> requests, failed |-> FALSE, claims |-> claims,
     updated |-> FALSE, previousDevice |-> None, previousToken |-> None, left |-> {}, stale |-> None]

\* What a call starts with is its business, and a delete starts with what pursues all
\* that it is to remove.
StartsWell(op, scope, requests) ==
    /\ \A claims \in BOOLEAN : op # "read" \/ ~claims => Shaped(Asked(op, scope, requests, claims))
    /\ \A q \in requests : q.do \notin Indexes
    /\ op = "save" => /\ \E q \in requests : q.do = "previousDevice"
                      /\ \E q \in requests : q.do = "previousToken"
    /\ op \in Deletes => \A r \in scope : \E q \in requests : Pursues(q, r)

\* The claims of calls may be lost when another one starts, nothing else.
Weakens(call, new) == new = call \/ new = [call EXCEPT !.claims = FALSE]

LEMMA WeakenedCall ==
    ASSUME NEW call, call = Idle \/ Shaped(call), NEW new, Weakens(call, new), call = Idle => new = call
    PROVE  /\ new = Idle <=> call = Idle
           /\ call # Idle => Shaped(new)
           /\ new.op = call.op /\ new.scope = call.scope
           /\ call # Idle => /\ new.pending = call.pending /\ new.stale = call.stale
                             /\ new.updated = call.updated /\ new.failed = call.failed
                             /\ new.previousDevice = call.previousDevice
                             /\ new.previousToken = call.previousToken
           /\ call # Idle /\ new.claims => call.claims
  <1>1. CASE new = call
    BY <1>1
  <1>2. CASE call # Idle /\ new = [call EXCEPT !.claims = FALSE]
    <2>1. call \in CallRecord /\ Shaped(call)
      BY <1>2 DEF Shaped
    <2>2. /\ new \in CallRecord /\ new.op = call.op /\ new.scope = call.scope
          /\ new.pending = call.pending /\ new.stale = call.stale /\ new.updated = call.updated
          /\ new.failed = call.failed /\ new.previousDevice = call.previousDevice
          /\ new.previousToken = call.previousToken /\ new.left = call.left /\ new.claims = FALSE
      BY <1>2, <2>1 DEF CallRecord
    <2>3. SaveShaped(call) => SaveShaped(new)
      BY <2>2 DEF SaveShaped, SaveAsks
    <2>4. DeleteShaped(call) => DeleteShaped(new)
      BY <2>2 DEF DeleteShaped, DeleteAsks
    <2>5. ReadShaped(call) => ReadShaped(new)
      BY <2>2 DEF ReadShaped, ReadAsks
    <2>6. new # Idle
      BY <2>2 DEF CallRecord, Idle, Deletes
    <2>7. QED
      BY <1>2, <2>1, <2>2, <2>3, <2>4, <2>5, <2>6 DEF Shaped
  <1>3. QED
    BY <1>1, <1>2 DEF Weakens

\* What a call is, does and knows does not depend on its claims.
LEMMA WeakenedMeaning ==
    ASSUME NEW call, call = Idle \/ Shaped(call), NEW new, Weakens(call, new), call = Idle => new = call,
           NEW r, NEW H
    PROVE  /\ Touches(new, r) <=> Touches(call, r)
           /\ Saves(new, r) <=> Saves(call, r)
           /\ Threatens(new, r) <=> Threatens(call, r)
           /\ Agrees(call, H) => Agrees(new, H)
           /\ Word(call, r, H) => Word(new, r, H)
           /\ \A i : Covers(call, i, r) => Covers(new, i, r)
  <1>1. CASE call = Idle
    BY <1>1
  <1>2. CASE call # Idle
    <2> DEFINE same == /\ new.op = call.op /\ new.scope = call.scope
                       /\ new.pending = call.pending /\ new.stale = call.stale
                       /\ new.updated = call.updated
                       /\ new.previousDevice = call.previousDevice
                       /\ new.previousToken = call.previousToken
                       /\ (new.claims => call.claims)
    <2>1. same
      BY <1>2, WeakenedCall
    <2>2. (Touches(new, r) <=> Touches(call, r)) /\ (Saves(new, r) <=> Saves(call, r))
      BY <2>1 DEF Touches, Saves
    <2>3. Threatens(new, r) <=> Threatens(call, r)
      BY <2>1, <2>2 DEF Threatens, Removing
    <2>4. Agrees(call, H) => Agrees(new, H)
      BY <2>1 DEF Agrees, NothingToRead, Clears, Removing
    <2>5. Word(call, r, H) => Word(new, r, H)
      BY <2>1 DEF Word, Clears
    <2>6. \A i : Covers(call, i, r) => Covers(new, i, r)
      BY <2>1 DEF Covers
    <2>7. QED
      BY <2>2, <2>3, <2>4, <2>5, <2>6
  <1>3. QED
    BY <1>1, <1>2

LEMMA Starting ==
    ASSUME PushInv, NEW c \in Callers, NEW op, NEW scope, NEW requests, Start(c, op, scope, requests),
           StartsWell(op, scope, requests)
    PROVE  PushInv'
  <1> DEFINE w == watched
             asked == Asked(op, scope, requests, op # "read" /\ w \in scope)
             undisturbed == \A x \in Callers : ~Disturbs(calls[x], asked, w)
             new == [asked EXCEPT !.claims = @ /\ undisturbed]
             claims == op # "read" /\ w \in scope /\ undisturbed
  <1>1. TypesInv /\ calls[c] = Idle /\ Idle.op = "idle" /\ Idle.scope = {} /\ w \in Registration
    BY DEF PushInv, TypesInv, HistoryOK, Start, Idle
  <1>2. /\ calls' = [x \in Callers |-> IF x = c THEN new
                                       ELSE IF Disturbs(asked, calls[x], w) THEN [calls[x] EXCEPT !.claims = FALSE]
                                       ELSE calls[x]]
        /\ promised' = IF \/ promised = "registered" /\ op # "read" /\ Touches(asked, w)
                          \/ promised = "revoked" /\ op = "save" /\ w \in scope
                       THEN "nothing" ELSE promised
        /\ watched' = w /\ failures' = failures /\ UNCHANGED indexes
        /\ overlaps' = overlaps + (IF \E x \in Callers : calls[x] # Idle THEN 1 ELSE 0)
        /\ overlaps' <= MaxOverlaps
    BY DEF Start, Asked
  <1>3. calm' = (calm /\ \A x \in Callers : ~(\/ \E r \in scope : Disturbs(calls[x], asked, r)
                                              \/ \E r \in calls[x].scope : Disturbs(asked, calls[x], r)))
    BY DEF Start, Asked
  <1>4. new = Asked(op, scope, requests, claims) /\ claims \in BOOLEAN
    <2> DEFINE first == op # "read" /\ w \in scope
    <2>1. claims = (first /\ undisturbed) /\ claims \in BOOLEAN
      OBVIOUS
    <2>2. asked = Asked(op, scope, requests, first)
      OBVIOUS
    <2> HIDE DEF first, undisturbed, asked, claims
    <2>3. asked.claims = first
      BY <2>2 DEF Asked
    <2> DEFINE both == asked.claims /\ undisturbed
    <2>4. both = claims
      BY <2>1, <2>3
    <2>5. new = [asked EXCEPT !.claims = both]
      OBVIOUS
    <2> HIDE DEF both, new
    <2>6. new = Asked(op, scope, requests, claims)
      BY <2>2, <2>4, <2>5 DEF Asked
    <2>7. QED
      BY <2>1, <2>6
  <1>5. /\ Shaped(new) /\ new.op = op /\ new.scope = scope /\ new.pending = requests
        /\ new.stale = None /\ new.claims = claims /\ ~new.updated /\ ~new.failed
        /\ asked.op = op /\ asked.scope = scope
    BY <1>4 DEF StartsWell, Asked
  <1>6. op \in Deletes \cup {"save", "read"} /\ scope \subseteq Registration /\ op # "idle"
    BY <1>5 DEF Shaped, CallRecord, Deletes
  <1> HIDE DEF new, asked, undisturbed, claims
  <1>7. \A r : (Touches(new, r) <=> Touches(asked, r)) /\ (Saves(new, r) <=> op = "save" /\ r \in scope)
    BY <1>5 DEF Touches, Saves
  <1>8. /\ \A x \in Callers : \A r : Disturbs(calls[x], asked, r) <=>
              \/ op = "save" /\ Touches(calls[x], r)
              \/ op \in Deletes /\ calls[x].op = "save" /\ r \in calls[x].scope
        /\ \A x \in Callers : \A r : Disturbs(asked, calls[x], r) <=>
              \/ calls[x].op = "save" /\ Touches(asked, r)
              \/ calls[x].op \in Deletes /\ op = "save" /\ r \in scope
    BY <1>1, <1>5 DEF Disturbs, Touches, Deletes
  <1>9. ASSUME NEW x \in Callers, x # c
        PROVE  /\ calls[x] = Idle \/ Shaped(calls[x])
               /\ Weakens(calls[x], calls'[x]) /\ (calls[x] = Idle => calls'[x] = calls[x])
               /\ Disturbs(asked, calls[x], w) => ~calls'[x].claims
    <2>1. calls[x] = Idle \/ Shaped(calls[x])
      BY <1>1 DEF TypesInv, CallsOK
    <2>2. calls'[x] = IF Disturbs(asked, calls[x], w) THEN [calls[x] EXCEPT !.claims = FALSE] ELSE calls[x]
      BY <1>2, <1>9
    <2>3. Disturbs(asked, calls[x], w) => calls[x] # Idle
      BY <1>8, <1>1 DEF Deletes
    <2>4. Disturbs(asked, calls[x], w) => calls[x] \in CallRecord
      BY <2>1, <2>3 DEF Shaped
    <2>5. Disturbs(asked, calls[x], w) => ~[calls[x] EXCEPT !.claims = FALSE].claims
      BY <2>4 DEF CallRecord
    <2>6. QED
      BY <2>1, <2>2, <2>3, <2>5 DEF Weakens
  <1>10. calls'[c] = new
    BY <1>2
  <1>11. Held' = Held
    BY <1>2, SameIndexesSameHeld
  <1>12. TypesInv'
    <2>1. IndexesOK'
      BY <1>1, <1>2 DEF TypesInv, IndexesOK, indexes
    <2>2. HistoryOK'
      BY <1>1, <1>2, <1>3, BoundsAssumption DEF TypesInv, HistoryOK
    <2>3. ASSUME NEW x \in Callers, calls'[x] # Idle
          PROVE  Shaped(calls'[x]) /\ (calls'[x].claims => w \in calls'[x].scope)
      <3>1. CASE x = c
        BY <1>5, <1>10, <3>1 DEF claims
      <3>2. CASE x # c
        BY <1>1, <1>9, <2>3, <3>2, WeakenedCall DEF TypesInv, CallsOK
      <3>3. QED
        BY <3>1, <3>2
    <2>4. DOMAIN calls' = Callers /\ calls' = [x \in Callers |-> calls'[x]]
      BY <1>2
    <2>5. QED
      BY <1>2, <2>1, <2>2, <2>3, <2>4 DEF TypesInv, CallsOK
  <1>13. WatchedInv(calls, w, promised, Held)
    BY DEF PushInv
  <1>14. WatchedInv(calls', w, promised', Held)
    <2>1. ASSUME NEW x \in Callers PROVE Word(calls'[x], w, Held)
      <3>1. CASE x = c
        <4>1. Word(new, w, Held)
          BY <1>5 DEF StartsWell, Word, Clears, claims
        <4>2. QED
          BY <1>10, <3>1, <4>1
      <3>2. CASE x # c
        BY <1>9, <1>13, <3>2, WeakenedMeaning DEF WatchedInv
      <3>3. QED
        BY <3>1, <3>2
    <2>2. ASSUME NEW x \in Callers, calls'[x].op = "save", calls'[x].claims, NEW y \in Callers \ {x}
          PROVE  ~Touches(calls'[y], w)
      <3>1. CASE x = c
        <4>1. ~Touches(calls[y], w)
          BY <1>5, <1>8, <1>10, <2>2, <3>1 DEF claims, undisturbed
        <4>2. QED
          BY <1>9, <2>2, <3>1, <4>1, WeakenedMeaning
      <3>2. CASE x # c
        <4>1. calls[x].op = "save" /\ calls[x].claims /\ ~Touches(asked, w)
          <5>1. calls[x].op = "save" /\ calls[x] # Idle /\ calls[x].claims
            BY <1>1, <1>9, <2>2, <3>2, WeakenedCall
          <5>2. QED
            BY <1>8, <1>9, <2>2, <3>2, <5>1
        <4>2. ~Touches(calls[y], w)
          BY <1>13, <2>2, <4>1 DEF WatchedInv
        <4>3. CASE y = c
          BY <1>7, <1>10, <4>1, <4>3
        <4>4. CASE y # c
          BY <1>9, <4>2, <4>4, WeakenedMeaning
        <4>5. QED
          BY <4>3, <4>4
      <3>3. QED
        BY <3>1, <3>2
    <2>3. ASSUME NEW x \in Callers, calls'[x].op \in Deletes, calls'[x].claims, NEW y \in Callers
          PROVE  ~Saves(calls'[y], w)
      <3>1. CASE x = c
        <4>1. ~Saves(calls[y], w) /\ op # "save"
          BY <1>5, <1>8, <1>10, <2>3, <3>1 DEF claims, undisturbed, Saves, Deletes
        <4>2. CASE y = c
          BY <1>7, <1>10, <4>1, <4>2
        <4>3. CASE y # c
          BY <1>9, <4>1, <4>3, WeakenedMeaning
        <4>4. QED
          BY <4>2, <4>3
      <3>2. CASE x # c
        <4>1. calls[x].op \in Deletes /\ calls[x].claims /\ ~(op = "save" /\ w \in scope)
          <5>1. calls[x].op \in Deletes
            BY <1>9, <2>3, <3>2, WeakenedCall
          <5>2. calls[x] # Idle
            BY <1>1, <5>1 DEF Deletes
          <5>3. calls[x].claims
            BY <1>9, <2>3, <3>2, <5>2, WeakenedCall
          <5>4. QED
            BY <1>8, <1>9, <2>3, <3>2, <5>1, <5>3
        <4>2. ~Saves(calls[y], w)
          BY <1>13, <2>3, <4>1 DEF WatchedInv
        <4>3. CASE y = c
          BY <1>7, <1>10, <4>1, <4>3
        <4>4. CASE y # c
          BY <1>9, <4>2, <4>4, WeakenedMeaning
        <4>5. QED
          BY <4>3, <4>4
      <3>3. QED
        BY <3>1, <3>2
    <2>4. ASSUME promised' = "registered"
          PROVE  w \in Reach(Held) /\ \A x \in Callers : ~Threatens(calls'[x], w)
      <3>1. promised = "registered" /\ (op = "read" \/ ~Touches(asked, w))
        BY <1>2, <2>4
      <3>2. w \in Reach(Held) /\ \A x \in Callers : ~Threatens(calls[x], w)
        BY <1>13, <3>1 DEF WatchedInv
      <3>3. ~Threatens(new, w)
        <4>1. w # None
          BY <1>1, EntriesDiffer
        <4>2. ~Removing(new, w)
          BY <1>5 DEF StartsWell, Removing
        <4>3. QED
          BY <1>5, <1>7, <3>1, <4>1, <4>2 DEF Threatens
      <3>4. QED
        BY <1>9, <1>10, <3>2, <3>3, WeakenedMeaning
    <2>5. ASSUME promised' = "revoked"
          PROVE  w \notin Reach(Held) /\ \A x \in Callers : ~Saves(calls'[x], w)
      <3>1. promised = "revoked" /\ ~(op = "save" /\ w \in scope)
        BY <1>2, <2>5
      <3>2. w \notin Reach(Held) /\ \A x \in Callers : ~Saves(calls[x], w)
        BY <1>13, <3>1 DEF WatchedInv
      <3>3. QED
        BY <1>7, <1>9, <1>10, <3>1, <3>2, WeakenedMeaning
    <2>6. QED
      BY <2>1, <2>2, <2>3, <2>4, <2>5 DEF WatchedInv
  <1>15. ASSUME calm'
         PROVE  CalmInv(calls', Held)
    <2>1. /\ CalmInv(calls, Held)
          /\ \A x \in Callers : /\ \A r \in scope : ~Disturbs(calls[x], asked, r)
                                /\ \A r \in calls[x].scope : ~Disturbs(asked, calls[x], r)
      BY <1>3, <1>15 DEF PushInv
    <2>2. ASSUME NEW x \in Callers, calls'[x].op # "idle" PROVE ~calls'[x].failed
      <3>1. CASE x = c
        BY <1>5, <1>10, <3>1
      <3>2. CASE x # c
        <4>1. calls[x].op # "idle" /\ calls[x] # Idle
          BY <1>1, <1>9, <2>2, <3>2, WeakenedCall
        <4>2. QED
          BY <1>9, <2>1, <3>2, <4>1, WeakenedCall DEF CalmInv
      <3>3. QED
        BY <3>1, <3>2
    <2>3. ASSUME NEW x \in Callers, NEW y \in Callers, x # y, NEW s \in Registration, Saves(calls'[x], s)
          PROVE  ~Touches(calls'[y], s)
      <3>1. CASE x = c
        <4>1. ~Touches(calls[y], s)
          BY <1>7, <1>8, <1>10, <2>1, <2>3, <3>1
        <4>2. QED
          BY <1>9, <2>3, <3>1, <4>1, WeakenedMeaning
      <3>2. CASE x # c
        <4>1. Saves(calls[x], s)
          BY <1>9, <2>3, <3>2, WeakenedMeaning
        <4>2. CASE y = c
          BY <1>7, <1>8, <1>10, <2>1, <4>1, <4>2 DEF Saves
        <4>3. CASE y # c
          <5>1. ~Touches(calls[y], s)
            BY <2>1, <2>3, <4>1 DEF CalmInv
          <5>2. QED
            BY <1>9, <4>3, <5>1, WeakenedMeaning
        <4>4. QED
          BY <4>2, <4>3
      <3>3. QED
        BY <3>1, <3>2
    <2>4. ASSUME NEW i \in Indexes, NEW r \in Held[i]
          PROVE  r \in Reach(Held) \/ \E x \in Callers : Covers(calls'[x], i, r)
      <3>1. ASSUME NEW x \in Callers, Covers(calls[x], i, r)
            PROVE  Covers(calls'[x], i, r)
        <4>1. x # c
          BY <1>1, <3>1 DEF Covers
        <4>2. QED
          BY <1>9, <3>1, <4>1, WeakenedMeaning
      <3>2. QED
        BY <2>1, <3>1 DEF CalmInv
    <2>5. ASSUME NEW x \in Callers PROVE Agrees(calls'[x], Held)
      <3>1. CASE x = c
        <4>1. op = "save" => ~NothingToRead(new, "previousDevice") /\ ~NothingToRead(new, "previousToken")
          BY <1>5 DEF StartsWell, NothingToRead
        <4>2. op \in Deletes => \A r \in scope : Clears(new, r, Held)
          BY <1>5 DEF StartsWell, Clears
        <4>3. \A q \in new.pending : q.do \notin Indexes
          BY <1>5 DEF StartsWell
        <4>4. \A r \in Reach(Held) : new.stale # r /\ ~Removing(new, r)
          BY <1>5, <4>3, EntriesDiffer DEF Removing, Reach
        <4>5. Agrees(new, Held)
          BY <1>5, <4>1, <4>2, <4>3, <4>4 DEF Agrees
        <4>6. QED
          BY <1>10, <3>1, <4>5
      <3>2. CASE x # c
        BY <1>9, <2>1, <3>2, WeakenedMeaning DEF CalmInv
      <3>3. QED
        BY <3>1, <3>2
    <2>6. QED
      BY <2>2, <2>3, <2>4, <2>5 DEF CalmInv
  <1>16. QED
    BY <1>2, <1>11, <1>12, <1>14, <1>15 DEF PushInv

-----------------------------------------------------------------------------
(* Calls that start.                                                       *)

LEMMA AskedShaped ==
    ASSUME NEW op \in Deletes \cup {"save", "read"}, NEW scope \in SUBSET Registration,
           NEW requests \in SUBSET Reads, NEW claims \in BOOLEAN, op # "read" \/ ~claims,
           op = "save" => \E s \in Registration :
               scope = {s} /\ \A q \in requests : q.do \in SaveReads /\ q.of = s,
           op \in Deletes => \A q \in requests :
               /\ q.do \in DeleteReads /\ Within(q.of, scope)
               /\ q.do \in {"device", "index"} => q.of.device \in Devices
               /\ q.do = "token" => q.of.token \in Tokens
               /\ q.do \in {"token", "entries"} => q.of.device = None
               /\ q.do \in {"device", "entries"} => q.of.token = None,
           op = "deleteUser" => \A r \in scope, s \in Registration : r.user = s.user => s \in scope,
           op = "read" => \A q \in requests :
               /\ q.do = "ownEntries" /\ requests = {q} /\ Within(q.of, scope)
               /\ q.of.device = None /\ q.of.token = None
    PROVE  Shaped(Asked(op, scope, requests, claims)) /\ \A q \in requests : q.do \notin Indexes
  <1> DEFINE call == Asked(op, scope, requests, claims)
  <1>1. /\ call.op = op /\ call.scope = scope /\ call.pending = requests /\ call.claims = claims
        /\ ~call.failed /\ ~call.updated /\ call.left = {} /\ call.stale = None
    BY DEF Asked
  <1>2. call \in CallRecord
    BY DEF Asked, CallRecord
  <1> HIDE DEF call
  <1>3. \A q \in requests : q.do \notin Indexes
    BY DEF Reads, Indexes, SaveReads, DeleteReads, ReadReads
  <1>4. op = "save" => SaveShaped(call)
    BY <1>1 DEF SaveShaped, SaveAsks
  <1>5. op \in Deletes => DeleteShaped(call)
    BY <1>1, <1>3 DEF DeleteShaped, DeleteAsks
  <1>6. op = "read" => ReadShaped(call)
    BY <1>1 DEF ReadShaped, ReadAsks, ReadReads
  <1>7. Shaped(call)
    BY <1>1, <1>2, <1>4, <1>5, <1>6 DEF Shaped
  <1>8. QED
    BY <1>3, <1>7 DEF call

LEMMA ReadIsRead ==
    ASSUME NEW what \in SaveReads \cup DeleteReads \cup ReadReads, NEW u \in Users,
           NEW d \in Devices \cup {None}, NEW t \in Tokens \cup {None}
    PROVE  /\ Read(what, Registers(u, d, t)) \in Reads
           /\ Read(what, Registers(u, d, t)).do = what
           /\ Read(what, Registers(u, d, t)).of = Registers(u, d, t)
           /\ Registers(u, d, t).user = u /\ Registers(u, d, t).device = d /\ Registers(u, d, t).token = t
           /\ d # None /\ t # None => Registers(u, d, t) \in Registration
  BY DEF Read, Registers, Reads, Parts, Registration

LEMMA StartSaveKeeps ==
    ASSUME PushInv, NEW c \in Callers, NEW r \in Registration, StartSave(c, r)
    PROVE  PushInv'
  <1> DEFINE requests == {Read("previousDevice", r), Read("previousToken", r)}
  <1>1. /\ requests \in SUBSET Reads
        /\ \A q \in requests : q.do \in SaveReads /\ q.of = r
        /\ \E q \in requests : q.do = "previousDevice"
        /\ \E q \in requests : q.do = "previousToken"
    BY DEF Read, Reads, Parts, Registration, SaveReads
  <1> HIDE DEF requests
  <1>2. "save" \notin Deletes /\ "save" # "read" /\ "save" # "deleteUser" /\ {r} \in SUBSET Registration
    BY DEF Deletes
  <1>3. \A claims \in BOOLEAN : Shaped(Asked("save", {r}, requests, claims))
    BY <1>1, <1>2, AskedShaped
  <1>4. \A q \in requests : q.do \notin Indexes
    BY <1>1 DEF SaveReads, Indexes
  <1>5. StartsWell("save", {r}, requests)
    BY <1>1, <1>2, <1>3, <1>4 DEF StartsWell
  <1>6. QED
    BY <1>5, Starting DEF StartSave, requests

LEMMA StartDeleteDeviceKeeps ==
    ASSUME PushInv, NEW c \in Callers, NEW u \in Users, NEW d \in Devices, StartDeleteDevice(c, u, d)
    PROVE  PushInv'
  <1> DEFINE scope == {Registers(u, d, t) : t \in Tokens}
             q == Read("device", Registers(u, d, None))
  <1>1. /\ q \in Reads /\ q.do = "device" /\ q.of.user = u /\ q.of.device = d /\ q.of.token = None
        /\ scope \in SUBSET Registration
    BY NoneAssumption, ReadIsRead DEF DeleteReads
  <1>2. \A r \in scope : r.user = u /\ r.device = d
    BY DEF Registers
  <1>3. ASSUME NEW r \in Registration, r.user = u, r.device = d PROVE r \in scope
    <2>1. r = Registers(u, d, r.token) /\ r.token \in Tokens
      BY <1>3 DEF Registration, Registers
    <2>2. QED
      BY <2>1
  <1> HIDE DEF scope, q
  <1>4. Within(q.of, scope)
    BY <1>1, <1>3, NoneAssumption DEF Within
  <1>6. "deleteDevice" \in Deletes /\ "deleteDevice" # "save" /\ "deleteDevice" # "read"
        /\ "deleteDevice" # "deleteUser" /\ "device" \in DeleteReads
    BY DEF Deletes, DeleteReads
  <1>7. /\ \A claims \in BOOLEAN : Shaped(Asked("deleteDevice", scope, {q}, claims))
        /\ \A p \in {q} : p.do \notin Indexes
    <2>1. \A p \in {q} : /\ p.do \in DeleteReads /\ Within(p.of, scope) /\ p.do = "device"
                          /\ p.of.device \in Devices /\ p.of.token = None
      BY <1>1, <1>4, <1>6
    <2>2. {q} \in SUBSET Reads
      BY <1>1
    <2>3. \A claims \in BOOLEAN : Shaped(Asked("deleteDevice", scope, {q}, claims))
      BY <1>1, <1>6, <2>1, <2>2, AskedShaped
    <2>4. QED
      BY <2>1, <2>3 DEF Indexes
  <1>8. StartsWell("deleteDevice", scope, {q})
    BY <1>1, <1>2, <1>6, <1>7 DEF StartsWell, Pursues
  <1>9. QED
    BY <1>8, Starting DEF StartDeleteDevice, scope, q

LEMMA StartDeletePushTokensKeeps ==
    ASSUME PushInv, NEW c \in Callers, NEW u \in Users, NEW tokens \in SUBSET Tokens,
           StartDeletePushTokens(c, u, tokens)
    PROVE  PushInv'
  <1> DEFINE scope == {Registers(u, d, t) : d \in Devices, t \in tokens}
             requests == {Read("token", Registers(u, None, t)) : t \in tokens}
  <1>1. scope \in SUBSET Registration
    BY NoneAssumption DEF Registers, Registration
  <1>2. \A r \in scope : r.user = u /\ r.token \in tokens
    BY DEF Registers
  <1>3. ASSUME NEW r \in Registration, r.user = u, r.token \in tokens PROVE r \in scope
    <2>1. r = Registers(u, r.device, r.token) /\ r.device \in Devices
      BY <1>3 DEF Registration, Registers
    <2>2. QED
      BY <1>3, <2>1
  <1>4. ASSUME NEW t \in tokens
        PROVE  LET q == Read("token", Registers(u, None, t))
               IN  q \in Reads /\ q.do = "token" /\ q.of.user = u /\ q.of.device = None /\ q.of.token = t
    <2>1. "token" \in SaveReads \cup DeleteReads \cup ReadReads /\ t \in Tokens \cup {None}
          /\ None \in Devices \cup {None}
      BY DEF DeleteReads
    <2>2. QED
      BY <2>1, ReadIsRead
  <1>5. \A q \in requests : /\ q \in Reads /\ q.do = "token" /\ q.of.user = u
                             /\ q.of.device = None /\ q.of.token \in tokens
    BY <1>4
  <1>6. \A t \in tokens : \E q \in requests : q.do = "token" /\ q.of.user = u /\ q.of.token = t
    BY <1>4
  <1> HIDE DEF scope, requests
  <1>7. \A q \in requests : Within(q.of, scope)
    BY <1>3, <1>5, NoneAssumption DEF Within
  <1>8. "deletePushTokens" \in Deletes /\ "deletePushTokens" # "save" /\ "deletePushTokens" # "read"
        /\ "deletePushTokens" # "deleteUser" /\ "token" \in DeleteReads /\ requests \in SUBSET Reads
    BY <1>5 DEF Deletes, DeleteReads
  <1>9. \A claims \in BOOLEAN : Shaped(Asked("deletePushTokens", scope, requests, claims))
    BY <1>1, <1>5, <1>7, <1>8, AskedShaped
  <1>10. \A q \in requests : q.do \notin Indexes
    BY <1>5 DEF Indexes
  <1>11. StartsWell("deletePushTokens", scope, requests)
    BY <1>2, <1>6, <1>8, <1>9, <1>10 DEF StartsWell, Pursues
  <1>12. QED
    BY <1>11, Starting DEF StartDeletePushTokens, scope, requests

LEMMA StartOfUser ==
    ASSUME PushInv, NEW c \in Callers, NEW u \in Users, StartDeleteUser(c, u) \/ StartRead(c, u)
    PROVE  PushInv'
  <1> DEFINE scope == {r \in Registration : r.user = u}
             of == Registers(u, None, None)
  <1>1. /\ \A what \in {"entries", "ownEntries"} :
              Read(what, of) \in Reads /\ Read(what, of).do = what /\ Read(what, of).of = of
        /\ of.user = u /\ of.device = None /\ of.token = None /\ scope \in SUBSET Registration
    BY ReadIsRead DEF DeleteReads, ReadReads
  <1> HIDE DEF of
  <1>2. Within(of, scope)
    BY <1>1 DEF Within
  <1>3. CASE StartDeleteUser(c, u)
    <2> DEFINE q == Read("entries", of)
    <2>1. q \in Reads /\ q.do = "entries" /\ q.of = of
      BY <1>1
    <2> HIDE DEF q
    <2>2. "deleteUser" \in Deletes /\ "deleteUser" # "save" /\ "deleteUser" # "read"
          /\ "entries" \in DeleteReads /\ {q} \in SUBSET Reads
      BY <2>1 DEF Deletes, DeleteReads
    <2>3. \A r \in scope, s \in Registration : r.user = s.user => s \in scope
      OBVIOUS
    <2>4. \A r \in scope : r.user = u
      OBVIOUS
    <2> HIDE DEF scope
    <2>5. \A claims \in BOOLEAN : Shaped(Asked("deleteUser", scope, {q}, claims))
      BY <1>1, <1>2, <2>1, <2>2, <2>3, AskedShaped
    <2>6. q.do \notin Indexes
      BY <2>1 DEF Indexes
    <2>7. StartsWell("deleteUser", scope, {q})
      BY <1>1, <2>1, <2>2, <2>4, <2>5, <2>6 DEF StartsWell, Pursues
    <2>8. QED
      BY <1>3, <2>7, Starting DEF StartDeleteUser, scope, q, of
  <1>4. CASE StartRead(c, u)
    <2> DEFINE q == Read("ownEntries", of)
    <2>1. q \in Reads /\ q.do = "ownEntries" /\ q.of = of
      BY <1>1
    <2> HIDE DEF q, scope
    <2>2. "read" \notin Deletes /\ "read" # "save" /\ "read" # "deleteUser" /\ {q} \in SUBSET Reads
      BY <2>1 DEF Deletes
    <2>3. \A claims \in BOOLEAN : "read" # "read" \/ ~claims =>
             Shaped(Asked("read", scope, {q}, claims))
      BY <1>1, <1>2, <2>1, <2>2, AskedShaped
    <2>4. q.do \notin Indexes
      BY <2>1 DEF Indexes
    <2>5. StartsWell("read", scope, {q})
      BY <2>2, <2>3, <2>4 DEF StartsWell
    <2>6. QED
      BY <1>4, <2>5, Starting DEF StartRead, scope, q, of
  <1>5. QED
    BY <1>3, <1>4

LEMMA StartsKeep ==
    ASSUME PushInv, NEW c \in Callers, Starts(c)
    PROVE  PushInv'
  BY StartSaveKeeps, StartDeleteDeviceKeeps, StartDeletePushTokensKeeps, StartOfUser DEF Starts

-----------------------------------------------------------------------------
(* A call goes on.                                                         *)

\* A request is a read or a removal, and tells what kind of call asked for it.
LEMMA RequestOf ==
    ASSUME NEW call, Shaped(call), NEW q \in call.pending
    PROVE  /\ q.do \in Indexes => q \in Removals
           /\ q.do \notin Indexes => q \in Reads
           /\ q.do \in SaveReads => call.op = "save" /\ ~call.updated /\ call.scope = {q.of}
           /\ q.do \in DeleteReads => call.op \in Deletes /\ q.do \notin Indexes
           /\ q.do \in ReadReads => call.op = "read" /\ q.do \notin Indexes
           /\ call.op = "save" => \A s \in call.scope : SaveAsks(call, s, q)
           /\ call.op \in Deletes => DeleteAsks(call, q)
           /\ call.op = "read" => ReadAsks(call, q)
  <1>1. /\ SaveReads \cap Indexes = {} /\ DeleteReads \cap Indexes = {} /\ ReadReads \cap Indexes = {}
        /\ SaveReads \cap DeleteReads = {} /\ SaveReads \cap ReadReads = {} /\ DeleteReads \cap ReadReads = {}
        /\ "userPushDevices" \in Indexes
    BY DEF SaveReads, DeleteReads, ReadReads, Indexes
  <1>2. q \in Reads \cup Removals /\ call.op \in Deletes \cup {"save", "read"}
    BY DEF Shaped, CallRecord
  <1>3. /\ q.do \in Indexes => q \in Removals
        /\ q.do \notin Indexes => q \in Reads
    BY <1>1, <1>2 DEF Reads, Removals
  <1>4. /\ call.op = "save" => \E s \in Registration : call.scope = {s} /\ SaveAsks(call, s, q)
        /\ call.op \in Deletes => DeleteAsks(call, q)
        /\ call.op = "read" => ReadAsks(call, q)
    BY DEF Shaped, SaveShaped, DeleteShaped, ReadShaped
  <1>5. CASE call.op = "save"
    <2>1. call.op \notin Deletes /\ call.op # "read"
      BY <1>5 DEF Deletes
    <2>2. QED
      BY <1>1, <1>3, <1>4, <1>5, <2>1 DEF SaveAsks
  <1>6. CASE call.op \in Deletes
    <2>1. call.op # "save" /\ call.op # "read"
      BY <1>6 DEF Deletes
    <2>2. QED
      BY <1>1, <1>3, <1>4, <1>6, <2>1 DEF DeleteAsks
  <1>7. CASE call.op = "read"
    <2>1. call.op # "save" /\ call.op \notin Deletes
      BY <1>7 DEF Deletes
    <2>2. QED
      BY <1>1, <1>3, <1>4, <1>7, <2>1 DEF ReadAsks
  <1>8. QED
    BY <1>2, <1>5, <1>6, <1>7

LEMMA GoesOnShaped ==
    ASSUME NEW call, Shaped(call), NEW new \in CallRecord, new.op = call.op, new.scope = call.scope,
           new.claims => call.claims /\ ~new.failed,
           call.op = "save" => \A s \in call.scope : \A q \in new.pending : SaveAsks(new, s, q),
           call.op \in Deletes => \A q \in new.pending : DeleteAsks(new, q),
           call.op = "read" => ReadShaped(new)
    PROVE  Shaped(new)
  <1>1. call.op = "save" => SaveShaped(new)
    BY DEF Shaped, SaveShaped
  <1>2. call.op \in Deletes => DeleteShaped(new)
    BY DEF Shaped, DeleteShaped
  <1>3. QED
    BY <1>1, <1>2 DEF Shaped

\* A call that only asks for something else.
LEMMA PendingOnly ==
    ASSUME NEW call \in CallRecord, NEW P \in SUBSET (Reads \cup Removals), NEW new,
           new = [call EXCEPT !.pending = P]
    PROVE  /\ new \in CallRecord /\ new.pending = P
           /\ new.op = call.op /\ new.scope = call.scope /\ new.failed = call.failed
           /\ new.claims = call.claims /\ new.updated = call.updated
           /\ new.previousDevice = call.previousDevice /\ new.previousToken = call.previousToken
           /\ new.left = call.left /\ new.stale = call.stale
  BY DEF CallRecord

LEMMA Unhurried ==
    ASSUME PushInv, UNCHANGED history
    PROVE  HistoryOK' /\ watched' = watched /\ promised' = promised /\ calm' = calm
  BY DEF PushInv, TypesInv, HistoryOK, history

\* A read of a delete that is followed by all that still has to be done.
LEMMA DeleteGoesOn ==
    ASSUME PushInv, NEW c \in Callers, calls[c] # Idle, NEW q \in calls[c].pending, q.do \in DeleteReads,
           NEW more \in SUBSET (Reads \cup Removals), Continue(c, q, more), UNCHANGED <<indexes, history>>,
           \A m \in more : DeleteAsks(calls[c], m),
           \A r \in Reach(Held) : Pursues(q, r) => \E m \in more : Pursues(m, r),
           \A m \in more : m.do \in Indexes => RemoveAll(m.of) \subseteq more
    PROVE  PushInv'
  <1> DEFINE call == calls[c]
             P == (call.pending \ {q}) \cup more
             new == [call EXCEPT !.pending = P]
  <1>1. /\ Shaped(call) /\ call \in CallRecord /\ call.op \in Deletes /\ q.do \notin Indexes
        /\ call.op # "save" /\ call.op # "read" /\ call.op # "idle"
        /\ call.claims => ~call.failed
    BY CallOf, RequestOf DEF PushInv, Deletes
  <1>2. P \in SUBSET (Reads \cup Removals)
    BY <1>1 DEF CallRecord
  <1>3. calls' = [calls EXCEPT ![c] = new]
    BY DEF Continue
  <1> HIDE DEF P
  <1>4. /\ new \in CallRecord /\ new.pending = P /\ new.op = call.op /\ new.scope = call.scope
        /\ new.claims = call.claims /\ new.failed = call.failed
    BY <1>1, <1>2, PendingOnly
  <1> HIDE DEF new
  <1>5. \A p \in P : DeleteAsks(new, p)
    <2>1. \A p \in P : DeleteAsks(call, p)
      BY <1>1, RequestOf DEF P
    <2>2. QED
      BY <1>4, <2>1 DEF DeleteAsks
  <1>6. Shaped(new)
    BY <1>1, <1>4, <1>5, GoesOnShaped
  <1>7. IndexesOK' /\ HistoryOK' /\ watched' = watched /\ promised' = promised /\ calm' = calm
    BY Unhurried DEF PushInv, TypesInv, IndexesOK, indexes
  <1>8. MovesTo(c, new)
    <2>1. calm => ~call.failed
      BY <1>1 DEF PushInv, CalmInv
    <2>2. QED
      BY <1>3, <1>4, <1>6, <1>7, <2>1 DEF MovesTo
  <1>9. \A r : Clears(call, r, Held) => Clears(new, r, Held)
    BY <1>4 DEF Clears, P
  <1>10. Word(new, watched, Held)
    <2>1. Word(call, watched, Held)
      BY DEF PushInv, WatchedInv
    <2>2. QED
      BY <1>1, <1>4, <1>9, <2>1 DEF Word
  <1>11. ASSUME calm' PROVE Agrees(new, Held)
    <2>1. Agrees(call, Held)
      BY <1>7, <1>11 DEF PushInv, CalmInv
    <2>2. \A r \in new.scope : Clears(new, r, Held)
      BY <1>1, <1>4, <1>9, <2>1 DEF Agrees
    <2>3. ASSUME NEW p \in new.pending, p.do \in Indexes, p.of \in Reach(Held)
          PROVE  RemoveAll(p.of) \subseteq new.pending
      <3>1. CASE p \in more
        BY <1>4, <2>3, <3>1 DEF P
      <3>2. CASE p \in call.pending
        <4>1. RemoveAll(p.of) \subseteq call.pending
          BY <1>1, <2>1, <2>3, <3>2 DEF Agrees
        <4>2. q \notin RemoveAll(p.of)
          BY <1>1 DEF RemoveAll, Removal
        <4>3. QED
          BY <1>4, <4>1, <4>2 DEF P
      <3>3. QED
        BY <1>4, <3>1, <3>2 DEF P
    <2>4. QED
      BY <1>1, <1>4, <2>2, <2>3 DEF Agrees
  <1>12. \A i \in Indexes : \A r \in Registration : Covers(call, i, r) => Covers(new, i, r)
    BY <1>1, <1>4 DEF Covers, P
  <1>13. QED
    BY <1>1, <1>4, <1>8, <1>10, <1>11, <1>12, Asking

-----------------------------------------------------------------------------
(* The reads of a delete.                                                  *)

LEMMA PartsOf ==
    ASSUME NEW of \in Parts
    PROVE  /\ of.user \in Users /\ of.device \in Devices \cup {None} /\ of.token \in Tokens \cup {None}
           /\ \A d : LET new == [of EXCEPT !.device = d]
                     IN  new.user = of.user /\ new.device = d /\ new.token = of.token
                         /\ (d \in Devices \cup {None} => new \in Parts)
                         /\ (d \in Devices /\ of.token \in Tokens => new \in Registration)
           /\ \A t : LET new == [of EXCEPT !.token = t]
                     IN  new.user = of.user /\ new.device = of.device /\ new.token = t
                         /\ (t \in Tokens \cup {None} => new \in Parts)
                         /\ (of.device \in Devices /\ t \in Tokens => new \in Registration)
  BY DEF Parts, Registration

LEMMA WithinWhole ==
    ASSUME NEW part, NEW scope, Within(part, scope), part \in Registration
    PROVE  part \in scope
  BY DEF Within

\* The removals of all that names a registration of a delete's.
LEMMA AllIsRemoved ==
    ASSUME NEW call, NEW r \in Registration, r \in call.scope
    PROVE  /\ RemoveAll(r) \in SUBSET (Reads \cup Removals)
           /\ \A m \in RemoveAll(r) : DeleteAsks(call, m) /\ m.do \in Indexes /\ m.of = r
           /\ \E m \in RemoveAll(r) : Pursues(m, r)
  <1>1. ASSUME NEW i \in Indexes
        PROVE  LET m == Removal(i, r, "delete", {})
               IN  m \in Removals /\ m.do = i /\ m.of = r /\ DeleteAsks(call, m)
    <2> DEFINE m == Removal(i, r, "delete", {})
    <2>1. m \in Removals /\ m.do = i /\ m.of = r
      BY DEF Removal, Removals
    <2>2. i \notin {"device", "index", "token", "entries"}
      BY DEF Indexes
    <2>3. Within(r, call.scope)
      <3>1. ASSUME NEW x \in Registration, x.user = r.user, r.device \in {None, x.device},
                   r.token \in {None, x.token}
            PROVE  x \in call.scope
        <4>1. x = r
          BY <3>1, EntriesDiffer, SameRegistration
        <4>2. QED
          BY <4>1
      <3>2. QED
        BY <3>1 DEF Within
    <2> HIDE DEF m
    <2>4. DeleteAsks(call, m)
      <3>1. m = Removal(m.do, m.of, "delete", {})
        BY <2>1 DEF m
      <3>2. QED
        BY <2>1, <2>2, <2>3, <3>1 DEF DeleteAsks
    <2>5. QED
      BY <2>1, <2>4 DEF m
  <1>2. "pushTokens" \in Indexes
    BY DEF Indexes
  <1>3. \A m \in RemoveAll(r) : m \in Removals /\ DeleteAsks(call, m) /\ m.do \in Indexes /\ m.of = r
    BY <1>1 DEF RemoveAll
  <1>4. \E m \in RemoveAll(r) : Pursues(m, r)
    <2>1. Removal("pushTokens", r, "delete", {}) \in RemoveAll(r)
      BY <1>2 DEF RemoveAll
    <2>2. QED
      BY <1>3, <2>1 DEF Pursues
  <1>5. QED
    BY <1>3, <1>4

\* What reading of the indexes says of what is reachable.
LEMMA ReachSays ==
    ASSUME NEW r \in Reach(Held)
    PROVE  /\ r \in Registration
           /\ pushTokens[r.token] = [user |-> r.user, device |-> r.device]
           /\ devicePushTokens[r.device] = [user |-> r.user, token |-> r.token]
           /\ userPushDevices[r.user][r.device] = r.token
  <1>1. r \in Registration
    BY DEF Reach
  <1>2. QED
    BY <1>1, ReachableIsHeld DEF Reachable, PushTokenAssignment, DevicePushTokenAssignment

LEMMA DeleteReadOf ==
    ASSUME PushInv, NEW c \in Callers, calls[c] # Idle, NEW q \in calls[c].pending, q.do \in DeleteReads
    PROVE  /\ q \in Reads /\ q.of \in Parts /\ Within(q.of, calls[c].scope)
           /\ q.do \in {"device", "index"} => q.of.device \in Devices
           /\ q.do = "token" => q.of.token \in Tokens /\ q.of.device = None
           /\ q.do = "device" => q.of.token = None
           /\ q.do = "entries" => q.of.device = None /\ q.of.token = None
           /\ IndexesOK
  <1>1. DeleteAsks(calls[c], q) /\ q \in Reads
    BY CallOf, RequestOf DEF PushInv
  <1>2. QED
    BY <1>1 DEF DeleteAsks, Reads, PushInv, TypesInv

LEMMA ReadsDeviceKeeps ==
    ASSUME PushInv, NEW c \in Callers, calls[c] # Idle, NEW q \in calls[c].pending, ReadsDevice(c, q)
    PROVE  PushInv'
  <1> DEFINE assignment == devicePushTokens[q.of.device]
             assigned == IF assignment # None /\ assignment.user = q.of.user
                         THEN assignment.token ELSE None
             of == [q.of EXCEPT !.token = assigned]
             m == Read("index", of)
  <1>1. q.do = "device" /\ q.do \in DeleteReads /\ Continue(c, q, {m}) /\ UNCHANGED <<indexes, history>>
    BY DEF ReadsDevice, DeleteReads
  <1>2. /\ q.of \in Parts /\ Within(q.of, calls[c].scope)
        /\ q.of.device \in Devices /\ q.of.token = None /\ IndexesOK
    BY <1>1, DeleteReadOf
  <1>3. assigned \in Tokens \cup {None}
    <2>1. assignment \in DeviceEntry \cup {None}
      BY <1>2 DEF IndexesOK
    <2>2. QED
      BY <2>1 DEF DeviceEntry
  <1>4. ASSUME NEW r \in Reach(Held), q.of.user = r.user, q.of.device = r.device
        PROVE  assigned = r.token
    <2>1. r \in Registration /\ assignment = DevicePushTokenAssignment(r)
      BY <1>4, ReachSays DEF DevicePushTokenAssignment
    <2>2. assignment # None
      BY <2>1, EntriesDiffer
    <2>3. assignment.user = r.user /\ assignment.token = r.token
      BY <2>1 DEF DevicePushTokenAssignment
    <2>4. QED
      BY <1>4, <2>2, <2>3
  <1> HIDE DEF assigned, assignment
  <1>5. of \in Parts /\ of.user = q.of.user /\ of.device = q.of.device /\ of.token = assigned
    BY <1>2, <1>3, PartsOf
  <1> HIDE DEF of
  <1>6. m \in Reads /\ m.do = "index" /\ m.of = of /\ m.do \notin Indexes
    BY <1>5 DEF Read, Reads, DeleteReads, Indexes
  <1> HIDE DEF m
  <1>7. DeleteAsks(calls[c], m)
    <2>1. Within(of, calls[c].scope)
      BY <1>2, <1>5 DEF Within
    <2>2. "index" \in DeleteReads
      BY DEF DeleteReads
    <2>3. QED
      BY <1>2, <1>5, <1>6, <2>1, <2>2 DEF DeleteAsks
  <1>8. ASSUME NEW r \in Reach(Held), Pursues(q, r)
        PROVE  Pursues(m, r)
    <2>1. q.of.user = r.user /\ q.of.device = r.device
      BY <1>1, <1>8 DEF Pursues, Indexes
    <2>2. of.user = r.user /\ of.device = r.device /\ of.token = r.token
      BY <1>4, <1>5, <2>1
    <2>3. r \in Registration
      BY DEF Reach
    <2>4. of = r
      BY <1>5, <2>2, <2>3 DEF Parts, Registration
    <2>5. QED
      BY <1>6, <2>4 DEF Pursues
  <1>9. QED
    BY <1>1, <1>6, <1>7, <1>8, DeleteGoesOn

LEMMA ReadsIndexKeeps ==
    ASSUME PushInv, NEW c \in Callers, calls[c] # Idle, NEW q \in calls[c].pending, ReadsIndex(c, q)
    PROVE  PushInv'
  <1> DEFINE indexed == userPushDevices[q.of.user][q.of.device]
             token == IF q.of.token # None THEN q.of.token ELSE indexed
             of == [q.of EXCEPT !.token = token]
             more == IF token = None THEN {} ELSE RemoveAll(of)
  <1>1. q.do = "index" /\ q.do \in DeleteReads /\ Continue(c, q, more) /\ UNCHANGED <<indexes, history>>
    BY DEF ReadsIndex, DeleteReads
  <1>2. /\ q.of \in Parts /\ Within(q.of, calls[c].scope) /\ q.of.device \in Devices /\ IndexesOK
    BY <1>1, DeleteReadOf
  <1>3. token \in Tokens \cup {None} /\ (q.of.token # None => token = q.of.token)
    BY <1>2 DEF IndexesOK, Parts
  <1> HIDE DEF token
  <1>4. /\ of.user = q.of.user /\ of.device = q.of.device /\ of.token = token
        /\ token # None => of \in Registration
    BY <1>2, <1>3, PartsOf
  <1>5. token # None => of \in calls[c].scope
    <2>1. Within(of, calls[c].scope)
      BY <1>2, <1>3, <1>4 DEF Within
    <2>2. QED
      BY <1>4, <2>1, WithinWhole
  <1>6. token # None => /\ more \in SUBSET (Reads \cup Removals)
                        /\ \A m \in more : DeleteAsks(calls[c], m) /\ m.of = of
                        /\ \E m \in more : Pursues(m, of)
    BY <1>4, <1>5, AllIsRemoved
  <1>7. ASSUME NEW r \in Reach(Held), Pursues(q, r)
        PROVE  token # None /\ of = r
    <2>1. q.of = r /\ r \in Registration
      BY <1>1, <1>7 DEF Pursues, Indexes, Reach
    <2>2. token = r.token /\ token # None
      BY <1>3, <2>1, EntriesDiffer
    <2>3. QED
      BY <2>1, <2>2 DEF Registration
  <1>8. \A m \in more : m.do \in Indexes => RemoveAll(m.of) \subseteq more
    BY <1>6
  <1>9. /\ more \in SUBSET (Reads \cup Removals)
        /\ \A m \in more : DeleteAsks(calls[c], m)
        /\ \A r \in Reach(Held) : Pursues(q, r) => \E m \in more : Pursues(m, r)
    BY <1>6, <1>7
  <1> HIDE DEF more, of
  <1>10. QED
    BY <1>1, <1>8, <1>9, DeleteGoesOn

LEMMA ReadsTokenKeeps ==
    ASSUME PushInv, NEW c \in Callers, calls[c] # Idle, NEW q \in calls[c].pending, ReadsToken(c, q)
    PROVE  PushInv'
  <1> DEFINE assignment == pushTokens[q.of.token]
             ours == ~(assignment = None \/ assignment.user # q.of.user)
             of == [q.of EXCEPT !.device = assignment.device]
             more == IF ours THEN RemoveAll(of) ELSE {}
  <1>1. q.do = "token" /\ q.do \in DeleteReads /\ Continue(c, q, more) /\ UNCHANGED <<indexes, history>>
    BY DEF ReadsToken, DeleteReads
  <1>2. /\ q.of \in Parts /\ Within(q.of, calls[c].scope)
        /\ q.of.token \in Tokens /\ q.of.device = None /\ IndexesOK
    BY <1>1, DeleteReadOf
  <1>3. ours => assignment.device \in Devices
    <2>1. assignment \in PushTokenEntry \cup {None}
      BY <1>2 DEF IndexesOK
    <2>2. QED
      BY <2>1 DEF PushTokenEntry
  <1>4. ASSUME NEW r \in Reach(Held), q.of.user = r.user, q.of.token = r.token
        PROVE  ours /\ assignment.device = r.device
    <2>1. r \in Registration /\ assignment = PushTokenAssignment(r)
      BY <1>4, ReachSays DEF PushTokenAssignment
    <2>2. assignment # None
      BY <2>1, EntriesDiffer
    <2>3. assignment.user = r.user /\ assignment.device = r.device
      BY <2>1 DEF PushTokenAssignment
    <2>4. QED
      BY <1>4, <2>2, <2>3
  <1>5. of.user = q.of.user /\ of.device = assignment.device /\ of.token = q.of.token
        /\ (ours => of \in Registration)
    BY <1>2, <1>3, PartsOf
  <1> HIDE DEF ours, assignment, of
  <1>6. ours => of \in calls[c].scope
    <2>1. Within(of, calls[c].scope)
      BY <1>2, <1>5 DEF Within
    <2>2. QED
      BY <1>5, <2>1, WithinWhole
  <1>7. ours => /\ more \in SUBSET (Reads \cup Removals)
                /\ \A m \in more : DeleteAsks(calls[c], m) /\ m.of = of
                /\ \E m \in more : Pursues(m, of)
    BY <1>5, <1>6, AllIsRemoved
  <1>8. ASSUME NEW r \in Reach(Held), Pursues(q, r)
        PROVE  ours /\ of = r
    <2>1. q.of.user = r.user /\ q.of.token = r.token /\ r \in Registration
      BY <1>1, <1>8 DEF Pursues, Indexes, Reach
    <2>2. ours /\ of.device = r.device
      BY <1>4, <1>5, <2>1
    <2>3. QED
      BY <1>5, <2>1, <2>2, SameRegistration
  <1>9. \A m \in more : m.do \in Indexes => RemoveAll(m.of) \subseteq more
    BY <1>7
  <1>10. /\ more \in SUBSET (Reads \cup Removals)
         /\ \A m \in more : DeleteAsks(calls[c], m)
         /\ \A r \in Reach(Held) : Pursues(q, r) => \E m \in more : Pursues(m, r)
    BY <1>7, <1>8
  <1> HIDE DEF more
  <1>11. QED
    BY <1>1, <1>9, <1>10, DeleteGoesOn

LEMMA ReadsEntriesKeeps ==
    ASSUME PushInv, NEW c \in Callers, calls[c] # Idle, NEW q \in calls[c].pending, ReadsEntries(c, q)
    PROVE  PushInv'
  <1> DEFINE of(d) == [q.of EXCEPT !.device = d]
             more == {Read("device", of(d)) : d \in IndexedDevices(q.of.user)}
  <1>1. q.do = "entries" /\ q.do \in DeleteReads /\ Continue(c, q, more) /\ UNCHANGED <<indexes, history>>
    BY DEF ReadsEntries, DeleteReads
  <1>2. /\ q.of \in Parts /\ Within(q.of, calls[c].scope)
        /\ q.of.device = None /\ q.of.token = None /\ IndexesOK
    BY <1>1, DeleteReadOf
  <1>3. ASSUME NEW d \in Devices
        PROVE  of(d) \in Parts /\ of(d).user = q.of.user /\ of(d).device = d /\ of(d).token = None
    BY <1>2, PartsOf
  <1> HIDE DEF of
  <1>4. ASSUME NEW d \in Devices
        PROVE  LET m == Read("device", of(d))
               IN  m \in Reads /\ m.do = "device" /\ m.of = of(d) /\ DeleteAsks(calls[c], m)
    <2> DEFINE m == Read("device", of(d))
    <2>1. of(d) \in Parts
      BY <1>3
    <2>2. m \in Reads /\ m.do = "device" /\ m.of = of(d)
      BY <2>1 DEF Read, Reads, DeleteReads
    <2> HIDE DEF m
    <2>3. Within(of(d), calls[c].scope)
      BY <1>2, <1>3 DEF Within
    <2>4. "device" \in DeleteReads /\ "device" \notin Indexes
      BY DEF DeleteReads, Indexes
    <2>5. DeleteAsks(calls[c], m)
      BY <1>3, <2>2, <2>3, <2>4 DEF DeleteAsks
    <2>6. QED
      BY <2>2, <2>5 DEF m
  <1>5. \A m \in more : \E d \in Devices : m = Read("device", of(d))
    BY DEF IndexedDevices
  <1>6. \A m \in more : m \in Reads /\ m.do = "device" /\ DeleteAsks(calls[c], m)
    BY <1>4, <1>5
  <1>7. ASSUME NEW r \in Reach(Held), Pursues(q, r)
        PROVE  \E m \in more : Pursues(m, r)
    <2>1. q.of.user = r.user /\ r \in Registration
      BY <1>1, <1>7 DEF Pursues, Indexes, Reach
    <2>2. r.device \in IndexedDevices(q.of.user) /\ r.device \in Devices
      <3>1. r.device \in Devices /\ r.token # None
        BY <2>1, EntriesDiffer
      <3>2. userPushDevices[q.of.user][r.device] = r.token
        BY <2>1, ReachSays
      <3>3. QED
        BY <3>1, <3>2 DEF IndexedDevices
    <2>3. Read("device", of(r.device)) \in more
      BY <2>2
    <2>4. Pursues(Read("device", of(r.device)), r)
      BY <1>3, <1>4, <2>1, <2>2 DEF Pursues
    <2>5. QED
      BY <2>3, <2>4
  <1>8. \A m \in more : m.do \notin Indexes
    BY <1>6 DEF Indexes
  <1> HIDE DEF more
  <1>9. more \in SUBSET (Reads \cup Removals)
    BY <1>6
  <1>10. QED
    BY <1>1, <1>6, <1>7, <1>8, <1>9, DeleteGoesOn

-----------------------------------------------------------------------------
(* A removal is answered, or a request fails.                              *)

\* What is removed of a call's is not what it saves, and what follows is of the same.
LEMMA RemovalOf ==
    ASSUME PushInv, NEW c \in Callers, calls[c] # Idle, NEW q \in calls[c].pending, q.do \in Indexes
    PROVE  /\ q \in Removals /\ q.of \in Registration
           /\ Touches(calls[c], q.of) /\ ~Saves(calls[c], q.of)
           /\ calls[c].op = "save" => calls[c].updated
           /\ calls[c].op # "save" => q.more = {}
  <1> DEFINE call == calls[c]
  <1>1. /\ Shaped(call) /\ call.op \in Deletes \cup {"save", "read"} /\ q \in Removals
        /\ call.op = "save" => \A s \in call.scope : SaveAsks(call, s, q)
        /\ call.op \in Deletes => DeleteAsks(call, q)
        /\ call.op = "read" => ReadAsks(call, q)
    BY CallOf, RequestOf DEF PushInv
  <1>2. q.of \in Registration /\ Removing(call, q.of)
    BY <1>1 DEF Removals, Removing
  <1>3. q.do \notin SaveReads /\ q.do # "ownEntries" /\ q.do \notin {"checkToken", "checkDevice"}
    BY DEF Indexes, SaveReads
  <1>4. CASE call.op = "save"
    <2>1. PICK s \in Registration : call.scope = {s} /\ SaveAsks(call, s, q)
      BY <1>1, <1>4 DEF Shaped, SaveShaped
    <2>2. call.updated /\ q.of # s /\ (q.of.device = s.device \/ q.of.token = s.token)
      BY <1>3, <2>1 DEF SaveAsks
    <2>3. QED
      BY <1>1, <1>2, <1>4, <2>1, <2>2 DEF Touches, Saves
  <1>5. CASE call.op # "save"
    <2>1. Touches(call, q.of) /\ ~Saves(call, q.of)
      BY <1>1, <1>2, <1>5, WorksInScope DEF Saves
    <2>2. q.more = {}
      <3>1. CASE call.op \in Deletes
        <4>1. q = Removal(q.do, q.of, "delete", {})
          BY <1>1, <3>1 DEF DeleteAsks
        <4>2. QED
          BY <4>1 DEF Removal
      <3>2. CASE call.op = "read"
        BY <1>1, <1>3, <3>2 DEF ReadAsks, ReadReads
      <3>3. QED
        BY <1>1, <1>5, <3>1, <3>2
    <2>3. QED
      BY <1>1, <1>2, <1>5, <2>1, <2>2
  <1>6. QED
    BY <1>4, <1>5

LEMMA RemovesKeeps ==
    ASSUME PushInv, NEW c \in Callers, calls[c] # Idle, NEW q \in calls[c].pending, Removes(c, q)
    PROVE  PushInv'
  <1> DEFINE call == calls[c]
             chained(i) == [q EXCEPT !.do = i, !.more = {}]
             more == {chained(i) : i \in q.more}
             P == (call.pending \ {q}) \cup more
             new == [call EXCEPT !.pending = P]
  <1>1. /\ q.do \in Indexes /\ Continue(c, q, more) /\ UNCHANGED history
        /\ q \in Removals /\ q.of \in Registration /\ Touches(call, q.of) /\ ~Saves(call, q.of)
        /\ call.op = "save" => call.updated
        /\ call.op # "save" => q.more = {}
    BY RemovalOf DEF Removes
  <1>2. /\ Shaped(call) /\ call \in CallRecord /\ call.op \in Deletes \cup {"save", "read"}
        /\ call.op # "idle" /\ (call.claims => watched \in call.scope /\ ~call.failed)
        /\ watched \in Registration
    BY CallOf DEF PushInv
  <1>3. /\ IndexesOK'
        /\ \A i \in Indexes : \A r \in Registration :
              r \in Held'[i] <=> r \in Held[i] /\ ~(i = q.do /\ r = q.of)
    BY <1>1, HeldAfterRemoval DEF PushInv, TypesInv
  <1>4. HistoryOK' /\ watched' = watched /\ promised' = promised /\ calm' = calm
    BY <1>1, Unhurried
  <1>5. ASSUME NEW i \in q.more
        PROVE  chained(i) \in Removals /\ chained(i).do = i /\ chained(i).of = q.of /\ i \in Indexes
    BY <1>1 DEF Removals
  <1> HIDE DEF chained
  <1>6. \A m \in more : m \in Removals /\ m.do \in Indexes /\ m.of = q.of
    BY <1>5
  <1>7. \A i \in q.more : \E m \in more : m.do = i /\ m.of = q.of
    BY <1>5
  <1>8. q.more = {} => more = {}
    OBVIOUS
  <1> HIDE DEF more
  <1>9. P \in SUBSET (Reads \cup Removals)
    BY <1>2, <1>6 DEF CallRecord
  <1>10. calls' = [calls EXCEPT ![c] = new]
    BY <1>1 DEF Continue
  <1> HIDE DEF P
  <1>11. /\ new \in CallRecord /\ new.pending = P /\ new.op = call.op /\ new.scope = call.scope
         /\ new.claims = call.claims /\ new.failed = call.failed /\ new.updated = call.updated
         /\ new.stale = call.stale /\ new.left = call.left
    BY <1>2, <1>9, PendingOnly
  <1> HIDE DEF new
  <1>12. Shaped(new)
    <2>1. ASSUME call.op = "save", NEW s \in call.scope, NEW p \in P
          PROVE  SaveAsks(new, s, p)
      <3>1. SaveAsks(call, s, q)
        BY <1>2, <2>1, RequestOf
      <3>2. CASE p \in call.pending
        BY <1>2, <1>11, <2>1, <3>2, RequestOf DEF SaveAsks
      <3>3. CASE p \in more
        BY <1>1, <1>6, <1>11, <2>1, <3>1, <3>3 DEF SaveAsks
      <3>4. QED
        BY <3>2, <3>3 DEF P
    <2>2. ASSUME call.op \in Deletes, NEW p \in P
          PROVE  DeleteAsks(new, p)
      <3>1. p \in call.pending
        BY <1>1, <1>8, <2>2 DEF P, Deletes
      <3>2. QED
        BY <1>2, <1>11, <2>2, <3>1, RequestOf DEF DeleteAsks
    <2>3. ASSUME call.op = "read"
          PROVE  ReadShaped(new)
      <3>1. ASSUME NEW p \in P
            PROVE  ReadAsks(new, p)
        <4>1. p \in call.pending /\ p # q
          BY <1>1, <1>8, <2>3 DEF P
        <4>2. ReadAsks(call, p)
          BY <1>2, <2>3, <4>1, RequestOf
        <4>3. QED
          BY <1>11, <4>1, <4>2 DEF ReadAsks
      <3>2. QED
        BY <1>2, <1>11, <2>3, <3>1 DEF Shaped, ReadShaped
    <2>4. QED
      BY <1>2, <1>11, <2>1, <2>2, <2>3, GoesOnShaped
  <1>13. MovesTo(c, new)
    <2>1. calm => ~call.failed
      BY <1>2 DEF PushInv, CalmInv
    <2>2. QED
      BY <1>3, <1>4, <1>10, <1>11, <1>12, <2>1 DEF MovesTo
  <1>14. /\ \A r \in Reach(Held') : r \in Reach(Held) /\ ~(r = q.of)
         /\ \A r \in Reach(Held) : r \notin Reach(Held') => r = q.of
    BY <1>1, <1>3 DEF Reach
  <1>15. Gains(call, Held, Held')
    BY <1>3, HeldSets DEF Gains
  <1>16. Loses(call, Held, Held')
    BY <1>1, <1>14 DEF Loses, Removing
  <1>17. \A r : Removing(new, r) => Removing(call, r)
    BY <1>1, <1>6, <1>11 DEF Removing, P
  <1>18. \A r : Clears(call, r, Held) => Clears(new, r, Held')
    <2>1. ASSUME NEW r \in Reach(Held'), NEW p \in call.pending, Pursues(p, r)
          PROVE  p \in new.pending
      <3>1. p # q
        BY <1>1, <1>14, <2>1 DEF Pursues, Indexes
      <3>2. QED
        BY <1>11, <3>1 DEF P
    <2>2. QED
      BY <1>14, <2>1 DEF Clears
  <1>19. Word(new, watched, Held')
    <2>1. Word(call, watched, Held)
      BY DEF PushInv, WatchedInv
    <2>2. call.op = "save" /\ call.claims => Saves(call, watched)
      BY <1>2 DEF Saves
    <2>3. watched # q.of \/ ~(call.op = "save" /\ call.claims)
      BY <1>1, <2>2
    <2>4. QED
      BY <1>2, <1>11, <1>14, <1>18, <2>1, <2>3 DEF Word, Deletes
  <1>20. new.op = "read" /\ Threatens(new, watched) => Threatens(call, watched) \/ watched \notin Reach(Held)
    BY <1>11, <1>17 DEF Threatens
  <1>21. ASSUME calm'
         PROVE  Agrees(new, Held')
    <2>1. Agrees(call, Held)
      BY <1>4, <1>21 DEF PushInv, CalmInv
    <2>2. CASE call.op = "save"
      BY <1>1, <1>11, <1>14, <2>1, <2>2 DEF Agrees, Deletes
    <2>3. CASE call.op \in Deletes
      <3>1. call.op # "save" /\ call.op # "read"
        BY <2>3 DEF Deletes
      <3>2. \A r \in new.scope : Clears(new, r, Held')
        BY <1>11, <1>18, <2>1, <2>3 DEF Agrees
      <3>3. ASSUME NEW p \in new.pending, p.do \in Indexes, p.of \in Reach(Held')
            PROVE  RemoveAll(p.of) \subseteq new.pending
        <4>1. p \in call.pending /\ p.of \in Reach(Held) /\ p.of # q.of
          BY <1>1, <1>8, <1>11, <1>14, <3>1, <3>3 DEF P
        <4>2. RemoveAll(p.of) \subseteq call.pending
          BY <2>1, <2>3, <3>3, <4>1 DEF Agrees
        <4>3. q \notin RemoveAll(p.of)
          BY <4>1 DEF RemoveAll, Removal
        <4>4. QED
          BY <1>11, <4>2, <4>3 DEF P
      <3>4. QED
        BY <1>11, <2>3, <3>1, <3>2, <3>3 DEF Agrees
    <2>4. CASE call.op = "read"
      BY <1>11, <1>14, <1>17, <2>1, <2>4 DEF Agrees, Deletes
    <2>5. QED
      BY <1>2, <2>2, <2>3, <2>4
  <1>22. ASSUME calm', NEW i \in Indexes, NEW r \in Held'[i],
                r \notin Held[i] \/ r \in Reach(Held) \/ Covers(call, i, r)
         PROVE  r \in Reach(Held') \/ Covers(new, i, r)
    <2>1. r \in Registration /\ r \in Held[i] /\ ~(i = q.do /\ r = q.of)
      BY <1>3, HeldSets
    <2>2. CASE Covers(call, i, r)
      <3>1. PICK p \in call.pending : p.do \in Indexes /\ p.of = r /\ (p.do = i \/ i \in p.more)
        BY <2>2 DEF Covers
      <3>2. CASE p # q
        BY <1>2, <1>11, <3>1, <3>2 DEF Covers, P
      <3>3. CASE p = q
        <4>1. i \in q.more /\ q.of = r
          BY <2>1, <3>1, <3>3
        <4>2. PICK m \in more : m.do = i /\ m.of = q.of
          BY <1>7, <4>1
        <4>3. QED
          BY <1>2, <1>11, <4>1, <4>2 DEF Covers, P
      <3>4. QED
        BY <3>2, <3>3
    <2>3. CASE r \in Reach(Held) /\ r \notin Reach(Held')
      <3>1. r = q.of /\ i # q.do
        BY <1>14, <2>1, <2>3
      <3>2. Agrees(call, Held)
        BY <1>4, <1>22 DEF PushInv, CalmInv
      <3>3. CASE call.op = "save"
        <4>1. PICK s \in Registration : call.scope = {s} /\ SaveAsks(call, s, q)
          BY <1>2, <3>3 DEF Shaped, SaveShaped
        <4>2. q.of # s /\ (q.of.device = s.device \/ q.of.token = s.token) /\ call.updated
          BY <1>1, <3>3, <4>1 DEF SaveAsks
        <4>3. QED
          BY <2>3, <3>1, <3>2, <3>3, <4>1, <4>2 DEF Agrees
      <3>4. CASE call.op \in Deletes
        <4>1. RemoveAll(q.of) \subseteq call.pending
          BY <1>1, <2>3, <3>1, <3>2, <3>4 DEF Agrees
        <4>2. Removal(i, r, "delete", {}) \in call.pending
          BY <3>1, <4>1 DEF RemoveAll
        <4>3. Removal(i, r, "delete", {}).do = i /\ Removal(i, r, "delete", {}).of = r
          BY DEF Removal
        <4>4. Removal(i, r, "delete", {}) \in new.pending
          BY <1>11, <3>1, <4>2, <4>3 DEF P
        <4>5. QED
          BY <1>2, <1>11, <4>3, <4>4 DEF Covers
      <3>5. CASE call.op = "read"
        BY <1>1, <2>3, <3>1, <3>2, <3>5 DEF Agrees, Removing
      <3>6. QED
        BY <1>2, <3>3, <3>4, <3>5
    <2>4. QED
      BY <1>22, <2>1, <2>2, <2>3
  <1>23. QED
    BY <1>13, <1>15, <1>16, <1>19, <1>20, <1>21, <1>22, Moving

\* The update of a save gains what it saves, and loses what was registered of its
\* device or its token.
LEMMA WriteMoves ==
    ASSUME TypesInv, NEW c \in Callers, calls[c] # Idle, calls[c].op = "save",
           NEW s \in calls[c].scope, Write(s)
    PROVE  /\ IndexesOK' /\ s \in Registration /\ calls[c].scope = {s}
           /\ Gains(calls[c], Held, Held') /\ Loses(calls[c], Held, Held')
           /\ s \in Reach(Held')
           /\ \A r \in Reach(Held') : r = s \/ (r.device # s.device /\ r.token # s.token)
           /\ \A r \in Reach(Held) \ Reach(Held') : r # s /\ (r.device = s.device \/ r.token = s.token)
  <1> DEFINE call == calls[c]
  <1>1. Shaped(call) /\ IndexesOK
    BY CallOf DEF TypesInv
  <1>2. call.scope = {s} /\ s \in Registration
    BY <1>1 DEF Shaped, SaveShaped
  <1>3. /\ IndexesOK'
        /\ \A r \in Registration :
              /\ r \in Held'["pushTokens"] <=>
                    r = s \/ (r \in Held["pushTokens"] /\ r.token # s.token)
              /\ r \in Held'["devicePushTokens"] <=>
                    r = s \/ (r \in Held["devicePushTokens"] /\ r.device # s.device)
              /\ r \in Held'["userPushDevices"] <=>
                    r = s \/ (r \in Held["userPushDevices"] /\ ~(r.user = s.user /\ r.device = s.device))
    BY <1>1, <1>2, HeldAfterWrite
  <1>4. \A i \in Indexes : \A r \in Held'[i] : r \in Held[i] \/ r = s
    BY <1>3, HeldSets DEF Indexes
  <1>5. Gains(call, Held, Held')
    BY <1>2, <1>4 DEF Gains, Saves
  <1>6. s \in Reach(Held')
    BY <1>2, <1>3 DEF Reach, Indexes
  <1>7. \A r \in Reach(Held') : r = s \/ (r.device # s.device /\ r.token # s.token)
    BY <1>3 DEF Reach, Indexes
  <1>8. \A r \in Reach(Held) \ Reach(Held') : r # s /\ (r.device = s.device \/ r.token = s.token)
    BY <1>3, <1>6 DEF Reach, Indexes
  <1>9. Loses(call, Held, Held')
    BY <1>2, <1>8 DEF Loses, Touches, Saves
  <1>10. QED
    BY <1>2, <1>3, <1>5, <1>6, <1>7, <1>8, <1>9

\* What goes on after a failed request.
LEMMA GivenUp ==
    ASSUME PushInv, NEW c \in Callers, calls[c] # Idle, NEW failed, GivesUp(c, failed)
    PROVE  LET new == [calls[c] EXCEPT !.pending = @ \ failed, !.failed = TRUE, !.claims = FALSE]
           IN  /\ new.pending \subseteq calls[c].pending /\ new.op = calls[c].op
               /\ ~new.claims /\ new.op # "idle" /\ new.stale = calls[c].stale
               /\ ~calm' /\ (IndexesOK' => MovesTo(c, new))
  <1> DEFINE call == calls[c]
             P == call.pending \ failed
             new == [call EXCEPT !.pending = P, !.failed = TRUE, !.claims = FALSE]
  <1>1. /\ Shaped(call) /\ call \in CallRecord /\ call.op # "idle"
    BY CallOf DEF PushInv
  <1>2. P \in SUBSET (Reads \cup Removals) /\ P \subseteq call.pending
    BY <1>1 DEF CallRecord
  <1>3. calls' = [calls EXCEPT ![c] = new] /\ calm' = FALSE
    BY DEF GivesUp
  <1> HIDE DEF P
  <1>4. /\ new \in CallRecord /\ new.pending = P /\ new.op = call.op /\ new.scope = call.scope
        /\ new.claims = FALSE /\ new.failed = TRUE /\ new.updated = call.updated
        /\ new.stale = call.stale /\ new.left = call.left
    BY <1>1, <1>2 DEF CallRecord
  <1> HIDE DEF new
  <1>5. Shaped(new)
    <2>1. ASSUME call.op = "save", NEW s \in call.scope, NEW p \in P
          PROVE  SaveAsks(new, s, p)
      BY <1>1, <1>2, <1>4, <2>1, RequestOf DEF SaveAsks
    <2>2. ASSUME call.op \in Deletes, NEW p \in P
          PROVE  DeleteAsks(new, p)
      BY <1>1, <1>2, <1>4, <2>2, RequestOf DEF DeleteAsks
    <2>3. ASSUME call.op = "read"
          PROVE  ReadShaped(new)
      <3>1. ASSUME NEW p \in P
            PROVE  ReadAsks(new, p)
        <4>1. ReadAsks(call, p)
          BY <1>1, <1>2, <2>3, RequestOf
        <4>2. call.pending = {p} => P = {p}
          BY <1>2
        <4>3. QED
          BY <1>4, <4>1, <4>2 DEF ReadAsks
      <3>2. QED
        BY <1>1, <1>4, <2>3, <3>1 DEF Shaped, ReadShaped
    <2>4. QED
      BY <1>1, <1>4, <2>1, <2>2, <2>3, GoesOnShaped
  <1>6. HistoryOK' /\ watched' = watched /\ promised' = promised
    <2>1. /\ failures < MaxFailures /\ failures' = failures + 1 /\ calm' = FALSE
          /\ watched' = watched /\ promised' = promised /\ overlaps' = overlaps
      BY DEF GivesUp
    <2>2. HistoryOK
      BY DEF PushInv, TypesInv
    <2>3. failures' \in 0..MaxFailures
      BY <2>1, <2>2, BoundsAssumption DEF HistoryOK
    <2>4. calm' \in BOOLEAN
      BY <2>1
    <2>5. QED
      BY <2>1, <2>2, <2>3, <2>4 DEF HistoryOK
  <1>7. IndexesOK' => MovesTo(c, new)
    BY <1>3, <1>4, <1>5, <1>6 DEF MovesTo
  <1>8. /\ new.pending \subseteq calls[c].pending /\ new.op = calls[c].op
        /\ ~new.claims /\ new.op # "idle" /\ new.stale = calls[c].stale
        /\ ~calm' /\ (IndexesOK' => MovesTo(c, new))
    BY <1>1, <1>2, <1>3, <1>4, <1>7
  <1>9. new = [calls[c] EXCEPT !.pending = @ \ failed, !.failed = TRUE, !.claims = FALSE]
    BY DEF new, P
  <1>10. QED
    BY <1>8, <1>9

LEMMA GivingUpKeeps ==
    ASSUME PushInv, NEW c \in Callers, calls[c] # Idle, NEW failed, GivesUp(c, failed),
           \/ UNCHANGED indexes
           \/ calls[c].op = "save" /\ \E s \in calls[c].scope : Write(s)
    PROVE  PushInv'
  <1> DEFINE call == calls[c]
             new == [call EXCEPT !.pending = @ \ failed, !.failed = TRUE, !.claims = FALSE]
  <1>1. /\ new.pending \subseteq call.pending /\ new.op = call.op
        /\ ~new.claims /\ new.op # "idle" /\ new.stale = call.stale
        /\ ~calm' /\ (IndexesOK' => MovesTo(c, new))
    BY GivenUp
  <1> HIDE DEF new
  <1>2. new.op = "read" /\ Threatens(new, watched) => Threatens(call, watched)
    BY <1>1 DEF Threatens, Removing
  <1>3. \A H : Word(new, watched, H)
    BY <1>1 DEF Word
  <1>4. IndexesOK
    BY DEF PushInv, TypesInv
  <1>5. CASE UNCHANGED indexes
    <2>1. IndexesOK'
      BY <1>4, <1>5 DEF IndexesOK, indexes
    <2>2. QED
      BY <1>1, <1>2, <1>3, <1>5, <2>1, Asking
  <1>6. ASSUME call.op = "save", NEW s \in call.scope, Write(s)
        PROVE  PushInv'
    <2>1. IndexesOK' /\ Gains(call, Held, Held') /\ Loses(call, Held, Held')
      BY <1>6, WriteMoves DEF PushInv
    <2>2. QED
      BY <1>1, <1>2, <1>3, <2>1, Moving
  <1>7. QED
    BY <1>5, <1>6

LEMMA FailuresKeep ==
    ASSUME PushInv, NEW c \in Callers, calls[c] # Idle,
           \/ \E q \in calls[c].pending : Fails(c, q)
           \/ UpdateFails(c) \/ DeleteUserFails(c)
    PROVE  PushInv'
  <1>1. ASSUME NEW q, Fails(c, q) PROVE PushInv'
    BY <1>1, GivingUpKeeps DEF Fails
  <1>2. CASE UpdateFails(c)
    BY <1>2, GivingUpKeeps DEF UpdateFails, IsReadyToUpdate
  <1>3. CASE DeleteUserFails(c)
    BY <1>3, GivingUpKeeps DEF DeleteUserFails
  <1>4. QED
    BY <1>1, <1>2, <1>3

-----------------------------------------------------------------------------
(* The steps of a save.                                                    *)

LEMMA ReadsPreviousKeeps ==
    ASSUME PushInv, NEW c \in Callers, calls[c] # Idle, NEW q \in calls[c].pending, ReadsPrevious(c, q)
    PROVE  PushInv'
  <1> DEFINE call == calls[c]
             P == call.pending \ {q}
             newD == [call EXCEPT !.pending = P, !.previousDevice = devicePushTokens[q.of.device]]
             newT == [call EXCEPT !.pending = P, !.previousToken = pushTokens[q.of.token]]
             new == IF q.do = "previousDevice" THEN newD ELSE newT
  <1>1. /\ q.do \in SaveReads /\ UNCHANGED <<indexes, history>>
        /\ calls' = [calls EXCEPT ![c] = new]
    BY DEF ReadsPrevious, SaveReads
  <1>2. /\ Shaped(call) /\ call \in CallRecord /\ call.op = "save" /\ ~call.updated
        /\ call.scope = {q.of} /\ q.of \in Registration /\ (call.claims => ~call.failed)
    <2>1. Shaped(call) /\ call \in CallRecord /\ (call.claims => ~call.failed)
      BY CallOf DEF PushInv
    <2>2. call.op = "save" /\ ~call.updated /\ call.scope = {q.of}
      BY <1>1, <2>1, RequestOf
    <2>3. QED
      BY <2>1, <2>2 DEF CallRecord
  <1>3. P \in SUBSET (Reads \cup Removals) /\ P \subseteq call.pending
    BY <1>2 DEF CallRecord
  <1>4. /\ devicePushTokens[q.of.device] \in DeviceEntry \cup {None}
        /\ pushTokens[q.of.token] \in PushTokenEntry \cup {None}
    BY <1>2, EntriesDiffer DEF PushInv, TypesInv, IndexesOK
  <1>5. /\ new \in CallRecord /\ new.pending = P /\ new.op = call.op /\ new.scope = call.scope
        /\ new.claims = call.claims /\ new.failed = call.failed /\ new.updated = call.updated
        /\ new.previousDevice = (IF q.do = "previousDevice" THEN devicePushTokens[q.of.device]
                                 ELSE call.previousDevice)
        /\ new.previousToken = (IF q.do = "previousDevice" THEN call.previousToken
                                ELSE pushTokens[q.of.token])
    <2> HIDE DEF P
    <2>1. /\ newD \in CallRecord /\ newD.pending = P /\ newD.op = call.op /\ newD.scope = call.scope
          /\ newD.claims = call.claims /\ newD.failed = call.failed /\ newD.updated = call.updated
          /\ newD.previousDevice = devicePushTokens[q.of.device]
          /\ newD.previousToken = call.previousToken
      BY <1>2, <1>3, <1>4 DEF CallRecord
    <2>2. /\ newT \in CallRecord /\ newT.pending = P /\ newT.op = call.op /\ newT.scope = call.scope
          /\ newT.claims = call.claims /\ newT.failed = call.failed /\ newT.updated = call.updated
          /\ newT.previousDevice = call.previousDevice
          /\ newT.previousToken = pushTokens[q.of.token]
      BY <1>2, <1>3, <1>4 DEF CallRecord
    <2> HIDE DEF newD, newT
    <2>3. QED
      BY <2>1, <2>2
  <1> HIDE DEF new
  <1>6. "save" \notin Deletes /\ "save" # "read" /\ "save" # "idle"
    BY DEF Deletes
  <1>7. Shaped(new)
    <2>1. ASSUME NEW s \in call.scope, NEW p \in P
          PROVE  SaveAsks(new, s, p)
      BY <1>2, <1>3, <1>5, RequestOf DEF SaveAsks
    <2>2. QED
      BY <1>2, <1>5, <1>6, <2>1, GoesOnShaped
  <1>8. IndexesOK' /\ HistoryOK' /\ watched' = watched /\ promised' = promised /\ calm' = calm
    BY <1>1, Unhurried DEF PushInv, TypesInv, IndexesOK, indexes
  <1>9. MovesTo(c, new)
    <2>1. calm => ~call.failed
      BY <1>2, <1>6 DEF PushInv, CalmInv
    <2>2. QED
      BY <1>1, <1>5, <1>7, <1>8, <2>1 DEF MovesTo
  <1>10. Word(new, watched, Held) /\ new.op # "read"
    BY <1>2, <1>5, <1>6 DEF Word
  <1>11. ASSUME calm' PROVE Agrees(new, Held)
    <2>1. Agrees(call, Held)
      BY <1>8, <1>11 DEF PushInv, CalmInv
    <2>2. ASSUME NEW r \in Registration, NothingToRead(new, "previousDevice"), r.device = q.of.device,
                 r \in Held["devicePushTokens"]
          PROVE  new.previousDevice = DevicePushTokenAssignment(r)
      <3>1. CASE q.do = "previousDevice"
        BY <1>5, <2>2, <3>1, HeldBy
      <3>2. CASE q.do # "previousDevice"
        <4>1. NothingToRead(call, "previousDevice")
          BY <1>5, <2>2, <3>2 DEF NothingToRead
        <4>2. QED
          BY <1>2, <1>5, <2>1, <2>2, <3>2, <4>1 DEF Agrees
      <3>3. QED
        BY <3>1, <3>2
    <2>3. ASSUME NEW r \in Registration, NothingToRead(new, "previousToken"), r.token = q.of.token,
                 r \in Held["pushTokens"]
          PROVE  new.previousToken = PushTokenAssignment(r)
      <3>1. CASE q.do # "previousDevice"
        BY <1>5, <2>3, <3>1, HeldBy
      <3>2. CASE q.do = "previousDevice"
        <4>1. NothingToRead(call, "previousToken")
          BY <1>5, <2>3, <3>2 DEF NothingToRead
        <4>2. QED
          BY <1>2, <1>5, <2>1, <2>3, <3>2, <4>1 DEF Agrees
      <3>3. QED
        BY <3>1, <3>2
    <2>4. QED
      BY <1>2, <1>5, <1>6, <2>2, <2>3 DEF Agrees
  <1>12. \A i \in Indexes : \A r \in Registration : ~Covers(call, i, r)
    <2>1. \A p \in call.pending : p.do \in SaveReads
      BY <1>2, RequestOf DEF SaveAsks
    <2>2. QED
      BY <2>1 DEF Covers, SaveReads, Indexes
  <1>13. QED
    BY <1>1, <1>9, <1>10, <1>11, <1>12, Asking

\* What was on the device: its token, and its user's index if that user is another.
LEMMA DeviceCleanup ==
    ASSUME NEW s \in Registration, NEW previous \in DeviceEntry \cup {None}
    PROVE  /\ \A q \in CleanupPreviousDeviceAssignment(previous, s) :
                 q \in Removals /\ q.of # s /\ q.of.device = s.device
           /\ \A r \in Registration : r # s /\ r.device = s.device /\ previous = DevicePushTokenAssignment(r) =>
                 /\ r.token # s.token => \E q \in CleanupPreviousDeviceAssignment(previous, s) :
                       q.of = r /\ q.do = "pushTokens" /\ (r.user # s.user => "userPushDevices" \in q.more)
                 /\ r.token = s.token => \E q \in CleanupPreviousDeviceAssignment(previous, s) :
                       q.of = r /\ q.do = "userPushDevices"
  <1>1. CASE previous = None
    BY <1>1, EntriesDiffer DEF CleanupPreviousDeviceAssignment
  <1>2. CASE previous # None
    <2> DEFINE old == Registers(previous.user, s.device, previous.token)
               index == IF old.user # s.user THEN {"userPushDevices"} ELSE {}
               first == Removal("pushTokens", old, "device", index)
               other == Removal("userPushDevices", old, "device", {})
               cleanup == CleanupPreviousDeviceAssignment(previous, s)
    <2>1. /\ old \in Registration /\ old.user = previous.user /\ old.device = s.device
          /\ old.token = previous.token
      BY <1>2 DEF DeviceEntry, Registration, Registers
    <2>2. cleanup = IF old.token # s.token THEN {first}
                    ELSE {Removal(i, old, "device", {}) : i \in index}
      BY <1>2 DEF CleanupPreviousDeviceAssignment
    <2> HIDE DEF old, cleanup
    <2>3. /\ index \in SUBSET Indexes
          /\ first \in Removals /\ first.of = old /\ first.do = "pushTokens" /\ first.more = index
          /\ other \in Removals /\ other.of = old /\ other.do = "userPushDevices"
      BY <2>1 DEF Removal, Removals, Indexes
    <2>4. {Removal(i, old, "device", {}) : i \in index} = IF old.user # s.user THEN {other} ELSE {}
      OBVIOUS
    <2> HIDE DEF first, other
    <2>5. \A q \in cleanup : q \in Removals /\ q.of # s /\ q.of.device = s.device
      BY <2>1, <2>2, <2>3, <2>4
    <2>6. ASSUME NEW r \in Registration, r # s, r.device = s.device,
                 previous = DevicePushTokenAssignment(r)
          PROVE  /\ r.token # s.token => \E q \in cleanup :
                       q.of = r /\ q.do = "pushTokens" /\ (r.user # s.user => "userPushDevices" \in q.more)
                 /\ r.token = s.token => \E q \in cleanup : q.of = r /\ q.do = "userPushDevices"
      <3>1. previous.user = r.user /\ previous.token = r.token
        BY <2>6 DEF DevicePushTokenAssignment
      <3>2. old = r
        BY <2>1, <2>6, <3>1, SameRegistration
      <3>3. r.token = s.token => r.user # s.user
        BY <2>6, SameRegistration
      <3>4. QED
        BY <2>2, <2>3, <2>4, <3>2, <3>3
    <2>7. QED
      BY <2>5, <2>6 DEF cleanup
  <1>3. QED
    BY <1>1, <1>2

\* Where the token was: the device and its user's index.
LEMMA TokenCleanup ==
    ASSUME NEW s \in Registration, NEW previous \in PushTokenEntry \cup {None}
    PROVE  /\ \A q \in CleanupPreviousTokenAssignment(previous, s) :
                 q \in Removals /\ q.of # s /\ q.of.token = s.token
           /\ \A r \in Registration : r # s /\ r.token = s.token /\ previous = PushTokenAssignment(r) =>
                 \A i \in {"devicePushTokens", "userPushDevices"} :
                    \E q \in CleanupPreviousTokenAssignment(previous, s) : q.of = r /\ q.do = i
  <1> DEFINE cleanup == CleanupPreviousTokenAssignment(previous, s)
             both == {"devicePushTokens", "userPushDevices"}
  <1>1. CASE previous = None \/ previous = PushTokenAssignment(s)
    <2>1. cleanup = {}
      BY <1>1 DEF CleanupPreviousTokenAssignment
    <2>2. ASSUME NEW r \in Registration, r # s, r.token = s.token, previous = PushTokenAssignment(r)
          PROVE  FALSE
      BY <1>1, <2>2, EntriesDiffer, SameRegistration DEF PushTokenAssignment
    <2>3. QED
      BY <2>1, <2>2
  <1>2. CASE previous # None /\ previous # PushTokenAssignment(s)
    <2> DEFINE old == Registers(previous.user, previous.device, s.token)
               removal(i) == Removal(i, old, "token", {})
    <2>1. /\ old \in Registration /\ old.user = previous.user /\ old.device = previous.device
          /\ old.token = s.token
      BY <1>2 DEF PushTokenEntry, Registration, Registers
    <2>2. cleanup = {removal(i) : i \in both}
      BY <1>2 DEF CleanupPreviousTokenAssignment
    <2>3. old # s
      <3>1. previous = [user |-> previous.user, device |-> previous.device]
        BY <1>2 DEF PushTokenEntry
      <3>2. QED
        BY <1>2, <2>1, <3>1 DEF PushTokenAssignment
    <2> HIDE DEF old, cleanup
    <2>4. \A i \in both : removal(i) \in Removals /\ removal(i).of = old /\ removal(i).do = i
      BY <2>1 DEF Removal, Removals, Indexes
    <2> HIDE DEF removal, both
    <2>5. \A q \in cleanup : q \in Removals /\ q.of # s /\ q.of.token = s.token
      BY <2>1, <2>2, <2>3, <2>4
    <2>6. ASSUME NEW r \in Registration, r # s, r.token = s.token, previous = PushTokenAssignment(r),
                 NEW i \in both
          PROVE  \E q \in cleanup : q.of = r /\ q.do = i
      <3>1. previous.user = r.user /\ previous.device = r.device
        BY <2>6 DEF PushTokenAssignment
      <3>2. old = r
        BY <2>1, <2>6, <3>1, SameRegistration
      <3>3. QED
        BY <2>2, <2>4, <3>2
    <2>7. QED
      BY <2>5, <2>6 DEF cleanup, both
  <1>3. QED
    BY <1>1, <1>2

LEMMA UpdateKeeps ==
    ASSUME PushInv, NEW c \in Callers, calls[c] # Idle, Update(c)
    PROVE  PushInv'
  <1> DEFINE call == calls[c]
  <1>1. PICK s \in call.scope :
            /\ Write(s)
            /\ calls' = [calls EXCEPT ![c].updated = TRUE, ![c].pending =
                            CleanupPreviousDeviceAssignment(calls[c].previousDevice, s)
                              \cup CleanupPreviousTokenAssignment(calls[c].previousToken, s)]
    BY DEF Update
  <1> DEFINE D == CleanupPreviousDeviceAssignment(call.previousDevice, s)
             T == CleanupPreviousTokenAssignment(call.previousToken, s)
             new == [call EXCEPT !.updated = TRUE, !.pending = D \cup T]
  <1>2. /\ call.op = "save" /\ call.pending = {} /\ ~call.updated /\ ~call.failed /\ UNCHANGED history
        /\ calls' = [calls EXCEPT ![c] = new]
    BY <1>1 DEF Update, IsReadyToUpdate
  <1>3. call.claims => ~call.failed
    BY CallOf DEF PushInv
  <1>4. /\ IndexesOK' /\ s \in Registration /\ call.scope = {s}
        /\ Gains(call, Held, Held') /\ Loses(call, Held, Held') /\ s \in Reach(Held')
        /\ \A r \in Reach(Held') : r = s \/ (r.device # s.device /\ r.token # s.token)
        /\ \A r \in Reach(Held) \ Reach(Held') : r # s /\ (r.device = s.device \/ r.token = s.token)
    BY <1>1, <1>2, WriteMoves DEF PushInv
  <1>5. call.previousDevice \in DeviceEntry \cup {None} /\ call.previousToken \in PushTokenEntry \cup {None}
        /\ call \in CallRecord /\ Shaped(call)
    <2>1. Shaped(call) /\ call \in CallRecord
      BY CallOf DEF PushInv
    <2>2. QED
      BY <2>1 DEF CallRecord
  <1>6. \A q \in D \cup T : q \in Removals /\ q.of # s /\ (q.of.device = s.device \/ q.of.token = s.token)
    BY <1>4, <1>5, DeviceCleanup, TokenCleanup
  <1>7. D \cup T \in SUBSET (Reads \cup Removals)
    BY <1>6
  <1> HIDE DEF D, T
  <1>8. /\ new \in CallRecord /\ new.pending = D \cup T /\ new.op = call.op /\ new.scope = call.scope
        /\ new.claims = call.claims /\ new.failed = call.failed /\ new.updated = TRUE
    BY <1>5, <1>7 DEF CallRecord
  <1> HIDE DEF new
  <1>9. "save" \notin Deletes /\ "save" # "read" /\ "save" # "idle"
    BY DEF Deletes
  <1>10. Shaped(new)
    <2>1. ASSUME NEW q \in new.pending
          PROVE  SaveAsks(new, s, q)
      BY <1>6, <1>8 DEF SaveAsks, Removals
    <2>2. \A x \in call.scope : \A q \in new.pending : SaveAsks(new, x, q)
      BY <1>4, <2>1
    <2>3. new.claims => call.claims /\ ~new.failed
      BY <1>2, <1>8
    <2>4. call.op \notin Deletes /\ call.op # "read"
      BY <1>2, <1>9
    <2>5. QED
      BY <1>5, <1>8, <2>2, <2>3, <2>4, GoesOnShaped
  <1>11. HistoryOK' /\ watched' = watched /\ promised' = promised /\ calm' = calm
    BY <1>2, Unhurried
  <1>12. MovesTo(c, new)
    BY <1>2, <1>4, <1>8, <1>10, <1>11 DEF MovesTo
  <1>13. Word(new, watched, Held') /\ new.op # "read"
    <2>1. call.claims => watched = s
      BY <1>4, CallOf DEF PushInv
    <2>2. QED
      BY <1>2, <1>4, <1>8, <1>9, <2>1 DEF Word
  <1>14. Agrees(new, Held')
    BY <1>2, <1>4, <1>8, <1>9 DEF Agrees
  <1>15. ASSUME calm', NEW i \in Indexes, NEW r \in Held'[i],
                r \notin Held[i] \/ r \in Reach(Held) \/ Covers(call, i, r)
         PROVE  r \in Reach(Held') \/ Covers(new, i, r)
    <2>1. CASE r \notin Held[i]
      BY <1>4, <2>1 DEF Gains, Saves
    <2>2. CASE Covers(call, i, r)
      BY <1>2, <2>2 DEF Covers
    <2>3. CASE r \in Reach(Held) /\ r \notin Reach(Held')
      <3>1. r \in Registration /\ r # s /\ (r.device = s.device \/ r.token = s.token)
        BY <1>4, <2>3, HeldSets
      <3>2. /\ r.device = s.device => call.previousDevice = DevicePushTokenAssignment(r)
            /\ r.token = s.token => call.previousToken = PushTokenAssignment(r)
        <4>1. Agrees(call, Held)
          BY <1>11, <1>15 DEF PushInv, CalmInv
        <4>2. NothingToRead(call, "previousDevice") /\ NothingToRead(call, "previousToken")
          BY <1>2 DEF NothingToRead
        <4>3. r \in Held["devicePushTokens"] /\ r \in Held["pushTokens"]
          BY <2>3 DEF Reach, Indexes
        <4>4. QED
          BY <1>2, <1>4, <3>1, <4>1, <4>2, <4>3 DEF Agrees
      <3>3. /\ i = "pushTokens" => r.token # s.token
            /\ i = "devicePushTokens" => r.device # s.device
            /\ i = "userPushDevices" => ~(r.user = s.user /\ r.device = s.device)
        BY <1>1, <1>4, <3>1, HeldAfterWrite DEF PushInv, TypesInv
      <3>4. i \in {"pushTokens", "devicePushTokens", "userPushDevices"}
        BY DEF Indexes
      <3>5. \E q \in D \cup T : q.of = r /\ q \in Removals /\ (q.do = i \/ i \in q.more)
        <4>1. CASE r.device = s.device /\ r.token # s.token
          <5>1. PICK q \in D : q.of = r /\ q.do = "pushTokens" /\ (r.user # s.user => "userPushDevices" \in q.more)
            BY <1>4, <1>5, <3>1, <3>2, <4>1, DeviceCleanup DEF D
          <5>2. QED
            BY <1>6, <3>3, <3>4, <4>1, <5>1
        <4>2. CASE r.device = s.device /\ r.token = s.token
          <5>1. PICK q \in D : q.of = r /\ q.do = "userPushDevices"
            BY <1>4, <1>5, <3>1, <3>2, <4>2, DeviceCleanup DEF D
          <5>2. QED
            BY <1>6, <3>3, <3>4, <4>2, <5>1
        <4>3. CASE r.device # s.device
          <5>1. r.token = s.token /\ i \in {"devicePushTokens", "userPushDevices"}
            BY <3>1, <3>3, <3>4, <4>3
          <5>2. PICK q \in T : q.of = r /\ q.do = i
            BY <1>4, <1>5, <3>1, <3>2, <5>1, TokenCleanup DEF T
          <5>3. QED
            BY <1>6, <5>2
        <4>4. QED
          BY <4>1, <4>2, <4>3
      <3>6. PICK q \in D \cup T : q.of = r /\ q \in Removals /\ (q.do = i \/ i \in q.more)
        BY <3>5
      <3>7. q.do \in Indexes
        BY <3>6 DEF Removals
      <3>8. QED
        BY <1>2, <1>8, <1>9, <3>6, <3>7 DEF Covers
    <2>4. QED
      BY <1>15, <2>1, <2>2, <2>3
  <1>16. QED
    BY <1>4, <1>12, <1>13, <1>14, <1>15, Moving

-----------------------------------------------------------------------------
(* The steps of a read.                                                    *)

\* A read that goes on removes nothing that is reachable unless another call disturbed it.
LEMMA ReadGoesOn ==
    ASSUME PushInv, NEW c \in Callers, calls[c] # Idle, calls[c].op = "read",
           UNCHANGED <<indexes, history>>,
           NEW new \in CallRecord, calls' = [calls EXCEPT ![c] = new],
           new.op = "read", new.scope = calls[c].scope, new.claims = calls[c].claims,
           new.failed = calls[c].failed, ReadShaped(new),
           \A r \in Reach(Held) : Threatens(new, r) => Threatens(calls[c], r),
           \A i \in Indexes : \A r \in Registration : Covers(calls[c], i, r) => Covers(new, i, r)
    PROVE  PushInv'
  <1> DEFINE call == calls[c]
  <1>1. /\ Shaped(call) /\ ~call.claims /\ watched \in Registration
        /\ "read" # "idle" /\ "read" # "save" /\ "read" \notin Deletes
    BY CallOf DEF PushInv, Deletes
  <1>2. Shaped(new)
    BY <1>1, GoesOnShaped
  <1>3. IndexesOK' /\ HistoryOK' /\ watched' = watched /\ promised' = promised /\ calm' = calm
    BY Unhurried DEF PushInv, TypesInv, IndexesOK, indexes
  <1>4. MovesTo(c, new)
    BY <1>1, <1>2, <1>3 DEF MovesTo, PushInv, CalmInv
  <1>5. Word(new, watched, Held)
    BY <1>1 DEF Word
  <1>6. ASSUME calm' PROVE Agrees(new, Held)
    <2>1. Agrees(call, Held)
      BY <1>3, <1>6 DEF PushInv, CalmInv
    <2>2. \A r \in Reach(Held) : ~Threatens(call, r)
      BY <2>1 DEF Agrees, Threatens
    <2>3. \A r \in Reach(Held) : ~(new.stale = r \/ Removing(new, r))
      BY <2>2 DEF Threatens
    <2>4. QED
      BY <1>1, <2>3 DEF Agrees
  <1>7. new.op = "read" /\ Threatens(new, watched) => Threatens(call, watched) \/ watched \notin Reach(Held)
    OBVIOUS
  <1>8. QED
    BY <1>4, <1>5, <1>6, <1>7, Asking

LEMMA ReadRequestOf ==
    ASSUME PushInv, NEW c \in Callers, calls[c] # Idle, NEW q \in calls[c].pending, q.do \in ReadReads
    PROVE  /\ Shaped(calls[c]) /\ calls[c] \in CallRecord /\ calls[c].op = "read" /\ ReadShaped(calls[c])
           /\ ReadAsks(calls[c], q) /\ q \in Reads /\ q.of \in Parts /\ q.do \notin Indexes
           /\ IndexesOK /\ calls[c].scope \subseteq Registration
  <1>1. Shaped(calls[c]) /\ calls[c] \in CallRecord /\ calls[c].scope \subseteq Registration
    BY CallOf DEF PushInv
  <1>2. calls[c].op = "read" /\ q.do \notin Indexes /\ q \in Reads
    BY <1>1, RequestOf
  <1>3. ReadAsks(calls[c], q) /\ ReadShaped(calls[c])
    BY <1>1, <1>2, RequestOf DEF Shaped
  <1>4. QED
    BY <1>1, <1>2, <1>3 DEF Reads, PushInv, TypesInv

LEMMA ReadsOwnEntriesKeeps ==
    ASSUME PushInv, NEW c \in Callers, calls[c] # Idle, NEW q \in calls[c].pending, ReadsOwnEntries(c, q)
    PROVE  PushInv'
  <1> DEFINE call == calls[c]
             entry(d) == Registers(q.of.user, d, userPushDevices[q.of.user][d])
             L == {entry(d) : d \in IndexedDevices(q.of.user)}
             new == [call EXCEPT !.pending = {}, !.left = L]
  <1>1. q.do = "ownEntries" /\ q.do \in ReadReads /\ UNCHANGED <<indexes, history>>
        /\ calls' = [calls EXCEPT ![c] = new]
    BY DEF ReadsOwnEntries, ReadReads
  <1>2. /\ Shaped(call) /\ call \in CallRecord /\ call.op = "read" /\ ReadShaped(call)
        /\ ReadAsks(call, q) /\ q.of \in Parts /\ IndexesOK /\ q.do \notin Indexes
    BY <1>1, ReadRequestOf
  <1>3. /\ call.pending = {q} /\ q.of.device = None /\ q.of.token = None /\ Within(q.of, call.scope)
        /\ q.of.user \in Users
    BY <1>1, <1>2 DEF ReadAsks, Parts
  <1>4. ASSUME NEW d \in IndexedDevices(q.of.user)
        PROVE  entry(d) \in Registration /\ entry(d) \in call.scope
    <2>1. userPushDevices[q.of.user][d] \in Tokens /\ d \in Devices
      BY <1>2, <1>3 DEF IndexedDevices, IndexesOK
    <2>2. entry(d) \in Registration /\ entry(d).user = q.of.user
      BY <1>3, <2>1 DEF Registers, Registration
    <2> HIDE DEF entry
    <2>3. QED
      BY <1>3, <2>2 DEF Within
  <1> HIDE DEF entry
  <1>5. L \in SUBSET Registration /\ L \subseteq call.scope
    BY <1>4
  <1> HIDE DEF L
  <1>6. /\ new \in CallRecord /\ new.pending = {} /\ new.left = L /\ new.op = call.op
        /\ new.scope = call.scope /\ new.claims = call.claims /\ new.failed = call.failed
        /\ new.stale = call.stale
    BY <1>2, <1>5 DEF CallRecord
  <1> HIDE DEF new
  <1>7. ReadShaped(new)
    BY <1>2, <1>5, <1>6 DEF ReadShaped
  <1>8. \A r : Threatens(new, r) => Threatens(call, r)
    BY <1>2, <1>6 DEF Threatens, Removing
  <1>9. \A i \in Indexes : \A r \in Registration : ~Covers(call, i, r)
    BY <1>2, <1>3 DEF Covers
  <1>10. QED
    BY <1>1, <1>2, <1>6, <1>7, <1>8, <1>9, ReadGoesOn

LEMMA ChecksAssignmentKeeps ==
    ASSUME PushInv, NEW c \in Callers, calls[c] # Idle, NEW q \in calls[c].pending, ChecksAssignment(c, q)
    PROVE  PushInv'
  <1> DEFINE call == calls[c]
             P == call.pending \ {q}
             stale == IF IsConfirmed(q) THEN call.stale ELSE q.of
             new == [call EXCEPT !.pending = P, !.stale = stale]
  <1>1. q.do \in {"checkToken", "checkDevice"} /\ q.do \in ReadReads /\ UNCHANGED <<indexes, history>>
    BY DEF ChecksAssignment, ReadReads
  <1>2. calls' = [calls EXCEPT ![c] = new]
    BY DEF ChecksAssignment
  <1>3. /\ Shaped(call) /\ call \in CallRecord /\ call.op = "read" /\ ReadShaped(call)
        /\ ReadAsks(call, q) /\ IndexesOK /\ q.do \notin Indexes /\ call.scope \subseteq Registration
    BY <1>1, ReadRequestOf
  <1>4. q.of \in call.scope /\ q.of \in Registration
    BY <1>1, <1>3 DEF ReadAsks
  <1>5. q.of \in Reach(Held) => IsConfirmed(q)
    BY <1>4, ReachableIsHeld DEF Reachable, IsConfirmed
  <1>6. P \in SUBSET (Reads \cup Removals) /\ stale \in Registration \cup {None} /\ P \subseteq call.pending
        /\ stale \in call.scope \cup {None}
    BY <1>3, <1>4 DEF CallRecord, ReadShaped
  <1>7. \A r \in Reach(Held) : stale = r => call.stale = r
    BY <1>5
  <1> HIDE DEF P, stale
  <1>8. /\ new \in CallRecord /\ new.pending = P /\ new.stale = stale /\ new.op = call.op
        /\ new.scope = call.scope /\ new.claims = call.claims /\ new.failed = call.failed
        /\ new.left = call.left
    BY <1>3, <1>6 DEF CallRecord
  <1> HIDE DEF new
  <1>9. ReadShaped(new)
    <2>1. ASSUME NEW p \in P
          PROVE  ReadAsks(new, p)
      <3>1. ReadAsks(call, p)
        BY <1>3, <1>6, <2>1 DEF ReadShaped
      <3>2. call.pending = {p} => P = {p}
        BY <1>6, <2>1
      <3>3. QED
        BY <1>8, <3>1, <3>2 DEF ReadAsks
    <2>2. QED
      BY <1>3, <1>6, <1>8, <2>1 DEF ReadShaped
  <1>10. \A r \in Reach(Held) : Threatens(new, r) => Threatens(call, r)
    BY <1>3, <1>6, <1>7, <1>8 DEF Threatens, Removing
  <1>11. \A i \in Indexes : \A r \in Registration : Covers(call, i, r) => Covers(new, i, r)
    BY <1>3, <1>8 DEF Covers, P
  <1>12. QED
    BY <1>1, <1>2, <1>3, <1>8, <1>9, <1>10, <1>11, ReadGoesOn

LEMMA GoesOnKeeps ==
    ASSUME PushInv, NEW c \in Callers, calls[c] # Idle, GoesOn(c)
    PROVE  PushInv'
  <1> DEFINE call == calls[c]
  <1>1. /\ call.op = "read" /\ call.pending = {} /\ UNCHANGED <<indexes, history>>
        /\ Shaped(call) /\ call \in CallRecord /\ ReadShaped(call) /\ call.scope \subseteq Registration
    <2>1. Shaped(call) /\ call \in CallRecord /\ call.scope \subseteq Registration
      BY CallOf DEF PushInv
    <2>2. QED
      BY <2>1 DEF GoesOn, Shaped
  <1>2. \A i \in Indexes : \A r \in Registration : ~Covers(call, i, r)
    BY <1>1 DEF Covers
  <1>3. ASSUME call.stale # None,
               calls' = [calls EXCEPT ![c].stale = None, ![c].pending =
                            {Removal("userPushDevices", calls[c].stale, "read", {})}]
        PROVE  PushInv'
    <2> DEFINE q == Removal("userPushDevices", call.stale, "read", {})
               new == [call EXCEPT !.stale = None, !.pending = {q}]
    <2>1. call.stale \in call.scope /\ call.stale \in Registration
      BY <1>1, <1>3 DEF ReadShaped
    <2>2. /\ q \in Removals /\ q.do = "userPushDevices" /\ q.of = call.stale /\ q.more = {}
          /\ {q} \in SUBSET (Reads \cup Removals)
      BY <2>1 DEF Removal, Removals, Indexes
    <2>3. calls' = [calls EXCEPT ![c] = new]
      BY <1>3
    <2> HIDE DEF q
    <2>4. /\ new \in CallRecord /\ new.pending = {q} /\ new.stale = None /\ new.op = call.op
          /\ new.scope = call.scope /\ new.claims = call.claims /\ new.failed = call.failed
          /\ new.left = call.left
      BY <1>1, <2>2 DEF CallRecord
    <2> HIDE DEF new
    <2>5. ReadShaped(new)
      <3>1. ReadAsks(new, q)
        BY <2>1, <2>2, <2>4 DEF ReadAsks
      <3>2. QED
        BY <1>1, <2>4, <3>1 DEF ReadShaped
    <2>6. ASSUME NEW r \in Reach(Held), Threatens(new, r)
          PROVE  Threatens(call, r)
      <3>1. r # None
        BY EntriesDiffer DEF Reach
      <3>2. QED
        BY <1>1, <2>2, <2>4, <2>6, <3>1 DEF Threatens, Removing
    <2>7. QED
      BY <1>1, <1>2, <2>3, <2>4, <2>5, <2>6, ReadGoesOn
  <1>4. ASSUME NEW r \in call.left,
               calls' = [calls EXCEPT ![c].left = @ \ {r}, ![c].pending =
                            {Read("checkToken", r), Read("checkDevice", r)}]
        PROVE  PushInv'
    <2> DEFINE P == {Read("checkToken", r), Read("checkDevice", r)}
               L == call.left \ {r}
               new == [call EXCEPT !.left = L, !.pending = P]
    <2>1. r \in call.scope /\ r \in Registration /\ L \in SUBSET Registration /\ L \subseteq call.scope
      BY <1>1, <1>4 DEF ReadShaped
    <2>2. \A p \in P : p \in Reads /\ p.do \in {"checkToken", "checkDevice"} /\ p.of = r
      BY <2>1 DEF Read, Reads, ReadReads, Parts, Registration
    <2>3. calls' = [calls EXCEPT ![c] = new]
      BY <1>4
    <2> HIDE DEF P, L
    <2>4. P \in SUBSET (Reads \cup Removals)
      BY <2>2
    <2>5. /\ new \in CallRecord /\ new.pending = P /\ new.stale = call.stale /\ new.op = call.op
          /\ new.scope = call.scope /\ new.claims = call.claims /\ new.failed = call.failed
          /\ new.left = L
      BY <1>1, <2>1, <2>4 DEF CallRecord
    <2> HIDE DEF new
    <2>6. ReadShaped(new)
      <3>1. ASSUME NEW p \in P
            PROVE  ReadAsks(new, p)
        BY <2>1, <2>2, <2>5 DEF ReadAsks, ReadReads
      <3>2. QED
        BY <1>1, <2>1, <2>5, <3>1 DEF ReadShaped
    <2>7. ASSUME NEW x \in Reach(Held), Threatens(new, x)
          PROVE  Threatens(call, x)
      BY <1>1, <2>2, <2>5, <2>7 DEF Threatens, Removing, Indexes
    <2>8. QED
      BY <1>1, <1>2, <2>3, <2>5, <2>6, <2>7, ReadGoesOn
  <1>5. QED
    BY <1>3, <1>4 DEF GoesOn

-----------------------------------------------------------------------------
(* A call is over.                                                         *)

LEMMA QuietReturns ==
    ASSUME PushInv, NEW c \in Callers, calls[c] # Idle, SaveReturns(c) \/ DeleteReturns(c) \/ ReadReturns(c)
    PROVE  PushInv'
  <1>1. /\ calls[c].pending = {} /\ Return(c) /\ UNCHANGED indexes
        /\ calls[c].op = "save" => calls[c].updated \/ calls[c].failed
    <2>1. CASE SaveReturns(c)
      BY <2>1 DEF SaveReturns
    <2>2. CASE DeleteReturns(c)
      BY <2>2 DEF DeleteReturns, Deletes
    <2>3. CASE ReadReturns(c)
      BY <2>3 DEF ReadReturns
    <2>4. QED
      BY <2>1, <2>2, <2>3
  <1>2. Held' = Held /\ IndexesOK'
    BY <1>1, SameIndexesSameHeld DEF PushInv, TypesInv, IndexesOK, indexes
  <1>3. Gains(calls[c], Held, Held') /\ Loses(calls[c], Held, Held')
    BY <1>2 DEF Gains, Loses
  <1>4. \A i \in Indexes : \A r \in Held'[i] :
           r \notin Held[i] \/ r \in Reach(Held) => r \in Reach(Held')
    BY <1>2
  <1>5. QED
    BY <1>1, <1>2, <1>3, <1>4, Returning

\* The user's index is emptied when all that was reachable of it has been removed.
LEMMA DeleteUserReturnsKeeps ==
    ASSUME PushInv, NEW c \in Callers, calls[c] # Idle, DeleteUserReturns(c)
    PROVE  PushInv'
  <1> DEFINE call == calls[c]
             mine(r) == \E s \in call.scope : s.user = r.user
  <1>1. /\ call.op = "deleteUser" /\ call.pending = {} /\ Return(c)
        /\ call.op \in Deletes /\ call.op # "save" /\ call.op # "read"
    BY DEF DeleteUserReturns, Deletes
  <1>2. Shaped(call) /\ DeleteShaped(call) /\ call.scope \subseteq Registration
    <2>1. Shaped(call) /\ call.scope \subseteq Registration
      BY CallOf DEF PushInv
    <2>2. QED
      BY <1>1, <2>1 DEF Shaped
  <1>3. /\ IndexesOK'
        /\ \A i \in Indexes : \A r \in Registration :
              r \in Held'[i] <=> r \in Held[i] /\ ~(i = "userPushDevices" /\ mine(r))
    BY <1>2, HeldAfterClearing DEF PushInv, TypesInv
  <1>4. \A r \in Registration : mine(r) => r \in call.scope
    BY <1>1, <1>2 DEF DeleteShaped
  <1> HIDE DEF mine
  <1>5. Gains(call, Held, Held')
    BY <1>3, HeldSets DEF Gains
  <1>6. \A r \in Reach(Held) \ Reach(Held') : r \in Registration /\ mine(r)
    BY <1>3 DEF Reach
  <1>7. Loses(call, Held, Held')
    BY <1>1, <1>4, <1>6 DEF Loses, Touches, Saves
  <1>8. ASSUME calm, NEW i \in Indexes, NEW r \in Held'[i], r \notin Held[i] \/ r \in Reach(Held)
        PROVE  r \in Reach(Held')
    <2>1. r \in Registration /\ r \in Reach(Held)
      BY <1>3, <1>8, HeldSets
    <2>2. Agrees(call, Held)
      BY <1>8 DEF PushInv, CalmInv
    <2>3. r \notin call.scope
      BY <1>1, <2>1, <2>2 DEF Agrees, Clears
    <2>4. QED
      BY <1>4, <1>6, <2>1, <2>3
  <1>9. QED
    BY <1>1, <1>3, <1>5, <1>7, <1>8, Returning

-----------------------------------------------------------------------------
(* The invariant holds.                                                    *)

LEMMA NothingIsHeld ==
    ASSUME Init
    PROVE  \A i \in Indexes : Held[i] = {}
  <1>1. ASSUME NEW r \in Registration, NEW i \in Indexes
        PROVE  r \notin Held[i]
    <2>1. /\ pushTokens[r.token] = None /\ devicePushTokens[r.device] = None
          /\ userPushDevices[r.user][r.device] = None
      BY EntriesDiffer DEF Init
    <2>2. QED
      BY <2>1, HeldBy, EntriesDiffer DEF Indexes
  <1>2. QED
    BY <1>1, HeldSets

LEMMA InitPush ==
    ASSUME Init
    PROVE  PushInv
  <1>1. \A c \in Callers : calls[c] = Idle
    BY DEF Init
  <1>2. Idle.op = "idle" /\ Idle.scope = {}
    BY DEF Idle
  <1>3. TypesInv
    <2>1. IndexesOK
      BY DEF Init, IndexesOK
    <2>2. HistoryOK
      BY BoundsAssumption DEF Init, HistoryOK
    <2>3. CallsOK
      BY DEF Init, CallsOK
    <2>4. QED
      BY <2>1, <2>2, <2>3 DEF TypesInv
  <1>4. WatchedInv(calls, watched, promised, Held)
    <2>1. promised = "nothing"
      BY DEF Init
    <2>2. QED
      BY <1>1, <1>2, <2>1 DEF WatchedInv, Word, Deletes
  <1>5. CalmInv(calls, Held)
    <2>1. \A i \in Indexes : Held[i] = {}
      BY NothingIsHeld
    <2>2. \A s : ~Saves(Idle, s)
      BY <1>2 DEF Saves
    <2>3. Agrees(Idle, Held)
      BY <1>2 DEF Agrees, Deletes
    <2>4. QED
      BY <1>1, <1>2, <2>1, <2>2, <2>3 DEF CalmInv
  <1>6. QED
    BY <1>3, <1>4, <1>5 DEF PushInv

LEMMA NextPush ==
    ASSUME PushInv, Next
    PROVE  PushInv'
  <1>1. PICK c \in Callers :
            \/ Starts(c)
            \/ calls[c] # Idle /\ \E q \in calls[c].pending : Answered(c, q)
            \/ Update(c) \/ UpdateFails(c) \/ SaveReturns(c)
            \/ DeleteReturns(c) \/ DeleteUserReturns(c) \/ DeleteUserFails(c)
            \/ GoesOn(c) \/ ReadReturns(c)
    BY DEF Next
  <1>2. CASE Starts(c)
    BY <1>2, StartsKeep
  <1>3. ASSUME calls[c] # Idle, NEW q \in calls[c].pending, Answered(c, q)
        PROVE  PushInv'
    BY <1>3, RemovesKeeps, FailuresKeep, ReadsPreviousKeeps, ReadsDeviceKeeps, ReadsIndexKeeps,
       ReadsTokenKeeps, ReadsEntriesKeeps, ReadsOwnEntriesKeeps, ChecksAssignmentKeeps DEF Answered
  <1>4. CASE \/ Update(c) \/ UpdateFails(c) \/ SaveReturns(c) \/ DeleteReturns(c)
             \/ DeleteUserReturns(c) \/ DeleteUserFails(c) \/ GoesOn(c) \/ ReadReturns(c)
    <2>1. calls[c].op \in Deletes \cup {"save", "read"}
      BY <1>4 DEF Update, UpdateFails, IsReadyToUpdate, SaveReturns, DeleteReturns, DeleteUserReturns,
         DeleteUserFails, GoesOn, ReadReturns, Deletes
    <2>2. calls[c] # Idle
      BY <2>1 DEF Idle, Deletes
    <2>3. QED
      BY <1>4, <2>2, UpdateKeeps, FailuresKeep, QuietReturns, DeleteUserReturnsKeeps, GoesOnKeeps
  <1>5. QED
    BY <1>1, <1>2, <1>3, <1>4

LEMMA StutterPush ==
    ASSUME PushInv, UNCHANGED vars
    PROVE  PushInv'
  <1>1. /\ UNCHANGED indexes /\ calls' = calls /\ watched' = watched /\ promised' = promised
        /\ calm' = calm /\ overlaps' = overlaps /\ failures' = failures
    BY DEF vars, history
  <1>2. Held' = Held
    BY <1>1, SameIndexesSameHeld
  <1>3. TypesInv'
    BY <1>1 DEF PushInv, TypesInv, IndexesOK, HistoryOK, CallsOK, indexes
  <1>4. QED
    BY <1>1, <1>2, <1>3 DEF PushInv

LEMMA PushInductive == Spec => []PushInv
  BY InitPush, NextPush, StutterPush, PTL DEF Spec

LEMMA TypesGiveTypeOK ==
    ASSUME PushInv
    PROVE  TypeOK
  <1>1. IndexesOK /\ HistoryOK
    BY DEF PushInv, TypesInv
  <1>2. ASSUME NEW c \in Callers, calls[c] # Idle
        PROVE  /\ calls[c].scope \subseteq Registration
               /\ calls[c].claims => calls[c].op # "read" /\ watched \in calls[c].scope
    BY <1>2, CallOf DEF PushInv
  <1>3. QED
    BY <1>1, <1>2 DEF TypeOK, IndexesOK, HistoryOK, PushTokenEntry, DeviceEntry

\* The shapes of the indexes and the promises hold whatever calls overlap or fail
\* (pushTokenStore.ts, pushTokenAssignments.ts).
THEOREM PushTokensStayTyped == Spec => []TypeOK
  BY PushInductive, TypesGiveTypeOK, PTL

\* A device that was saved while nothing else touched its device, token or user stays
\* reachable until a later call touches it (savePushTokenToDb and the
\* remove...IfMatches transactions).
THEOREM RegistrationsAlwaysHold == Spec => []RegistrationsHold
  <1>1. PushInv => RegistrationsHold
    <2>1. ASSUME PushInv, promised = "registered"
          PROVE  Reachable(watched)
      BY <2>1, ReachableIsHeld DEF PushInv, WatchedInv, TypesInv, HistoryOK
    <2>2. QED
      BY <2>1 DEF RegistrationsHold
  <1>2. QED
    BY <1>1, PushInductive, PTL

\* What a delete removed that nobody was saving stays unreachable until it is saved
\* again (deleteDevicePushTokenFromDb, deletePushTokensFromDb, deleteUserPushTokensFromDb).
THEOREM RevokedAlwaysUnreachable == Spec => []RevokedStaysUnreachable
  <1>1. PushInv => RevokedStaysUnreachable
    <2>1. ASSUME PushInv, promised = "revoked"
          PROVE  ~Reachable(watched)
      BY <2>1, ReachableIsHeld DEF PushInv, WatchedInv, TypesInv, HistoryOK
    <2>2. QED
      BY <2>1 DEF RevokedStaysUnreachable
  <1>2. QED
    BY <1>1, PushInductive, PTL

\* Where nothing overlapped what it touched and nothing failed, the three indexes say the
\* same once no call is at work (cleanupPreviousDeviceAssignment,
\* cleanupPreviousTokenAssignment).
THEOREM IndexesAlwaysAgree == Spec => []IndexesAgree
  <1>1. PushInv => IndexesAgree
    <2>1. ASSUME PushInv, calm, \A c \in Callers : calls[c] = Idle, NEW r \in Registration,
                 NEW i \in Indexes, r \in Held[i]
          PROVE  Reachable(r)
      <3>1. \A c \in Callers : calls[c].op = "idle"
        BY <2>1 DEF Idle
      <3>2. r \in Reach(Held)
        BY <2>1, <3>1 DEF PushInv, CalmInv, Covers
      <3>3. QED
        BY <3>2, ReachableIsHeld
    <2>2. "pushTokens" \in Indexes /\ "devicePushTokens" \in Indexes /\ "userPushDevices" \in Indexes
      BY DEF Indexes
    <2>3. ASSUME PushInv, calm, \A c \in Callers : calls[c] = Idle, NEW r \in Registration
          PROVE  /\ userPushDevices[r.user][r.device] = r.token => Reachable(r)
                 /\ pushTokens[r.token] = PushTokenAssignment(r) => Reachable(r)
                 /\ devicePushTokens[r.device] = DevicePushTokenAssignment(r) => Reachable(r)
      BY <2>1, <2>2, <2>3, HeldBy
    <2>4. QED
      BY <2>3, TypesGiveTypeOK DEF IndexesAgree
  <1>2. QED
    BY <1>1, PushInductive, PTL
=============================================================================
