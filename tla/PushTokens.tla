----------------------------- MODULE PushTokens -----------------------------
(***************************************************************************)
(* The push token store (src/src/services/firebase/pushTokenStore.ts and   *)
(* pushTokenAssignments.ts): three indexes in the realtime database, token *)
(* to device, device to token, user to devices.  Saving reads what device  *)
(* and token were assigned to, writes all three paths in one atomic update *)
(* and then clears what it read, one transaction per path that removes an  *)
(* entry only if it still is the one expected.  Every database request of  *)
(* a call is a step, so calls interleave between any two of them, and any  *)
(* request may fail.                                                       *)
(*                                                                         *)
(* Users, devices and tokens are model values: trimming and the base64url  *)
(* keys of the database are one to one on what is stored.                  *)
(***************************************************************************)
EXTENDS Naturals, FiniteSets, TLC

CONSTANTS
    Users, Devices, Tokens,
    Callers,   \* requests and jobs at work at the same time
    MaxOverlaps, MaxFailures,   \* bounds: calls that start beside another one, failed requests
    None       \* no entry

ASSUME BoundsAssumption == MaxOverlaps \in Nat /\ MaxFailures \in Nat
ASSUME NoneAssumption ==
    /\ None \notin Users \cup Devices \cup Tokens
    /\ None \notin [user : Users, device : Devices] \cup [user : Users, token : Tokens]
    /\ None \notin [user : Users, device : Devices, token : Tokens]

VARIABLES
    pushTokens,         \* token |-> the user and device it is assigned to
    devicePushTokens,   \* device |-> the user and token it is assigned to
    userPushDevices,    \* user |-> device |-> token
    calls,              \* what each caller is doing
    watched,            \* history: an arbitrary registration, whose fate is
    promised,           \*   "registered" since an undisturbed save, "revoked" since
                        \*   an undisturbed delete, or "nothing"
    calm,               \* history: no call was disturbed or failed so far
    overlaps, failures  \* bounded counters

indexes == <<pushTokens, devicePushTokens, userPushDevices>>
history == <<watched, promised, calm, overlaps, failures>>
vars == <<indexes, calls, history>>

Registration == [user : Users, device : Devices, token : Tokens]
Registers(u, d, t) == [user |-> u, device |-> d, token |-> t]

\* What the token's and the device's entry say of a registration.
PushTokenAssignment(r) == [user |-> r.user, device |-> r.device]
DevicePushTokenAssignment(r) == [user |-> r.user, token |-> r.token]

Idle == [op |-> "idle", scope |-> {}]
Deletes == {"deleteDevice", "deletePushTokens", "deleteUser"}

Indexes == {"pushTokens", "devicePushTokens", "userPushDevices"}

\* A request that is under way: a read, or the removal of an entry if it is the
\* expected one (see Removes).  The requests of one set run in parallel.
Read(what, r) == [do |-> what, of |-> r]
Removal(index, r, by, more) == [do |-> index, of |-> r, by |-> by, more |-> more]

Init ==
    /\ pushTokens = [t \in Tokens |-> None]
    /\ devicePushTokens = [d \in Devices |-> None]
    /\ userPushDevices = [u \in Users |-> [d \in Devices |-> None]]
    /\ calls = [c \in Callers |-> Idle]
    /\ watched \in Registration /\ promised = "nothing" /\ calm = TRUE
    /\ overlaps = 0 /\ failures = 0

-----------------------------------------------------------------------------
(* History: which calls disturb which.                                     *)

\* A save moves its device and its token, a delete removes what is in its scope,
\* and a read may remove index entries of its user that a save is about to renew.
Touches(call, r) ==
    \/ call.op = "save" /\ \E s \in call.scope : s.device = r.device \/ s.token = r.token
    \/ call.op \in Deletes \cup {"read"} /\ r \in call.scope

\* A save needs its device, token and user to itself, a delete that nobody saves
\* what it removes.
Disturbs(call, other, r) ==
    \/ other.op = "save" /\ Touches(call, r)
    \/ other.op \in Deletes /\ call.op = "save" /\ r \in call.scope

\* A call starts, with a claim if what is watched is in its scope, and with its first
\* requests.  A save remembers what was assigned before, a read what it has left to
\* check and what it found stale.
Start(c, op, scope, requests) ==
    LET asked == [op |-> op, scope |-> scope, pending |-> requests, failed |-> FALSE,
                  claims |-> op # "read" /\ watched \in scope,
                  updated |-> FALSE, previousDevice |-> None, previousToken |-> None,
                  left |-> {}, stale |-> None]
        undisturbed == \A x \in Callers : ~Disturbs(calls[x], asked, watched)
        Conflict(call) == \/ \E r \in scope : Disturbs(call, asked, r)
                          \/ \E r \in call.scope : Disturbs(asked, call, r)
    IN /\ calls[c] = Idle
       /\ calls' = [x \in Callers |->
             IF x = c THEN [asked EXCEPT !.claims = @ /\ undisturbed]
             ELSE IF Disturbs(asked, calls[x], watched) THEN [calls[x] EXCEPT !.claims = FALSE]
             ELSE calls[x]]
       /\ promised' = IF \/ promised = "registered" /\ op # "read" /\ Touches(asked, watched)
                         \/ promised = "revoked" /\ op = "save" /\ watched \in scope
                      THEN "nothing" ELSE promised
       /\ calm' = (calm /\ \A x \in Callers : ~Conflict(calls[x]))
       /\ overlaps' = overlaps + (IF \E x \in Callers : calls[x] # Idle THEN 1 ELSE 0)
       /\ overlaps' <= MaxOverlaps
       /\ UNCHANGED <<indexes, watched, failures>>

\* A call is over; what it still claims is now promised.
Return(c) ==
    /\ calls' = [calls EXCEPT ![c] = Idle]
    /\ promised' = IF ~calls[c].claims THEN promised
                   ELSE IF calls[c].op = "save" THEN "registered" ELSE "revoked"
    /\ UNCHANGED <<watched, calm, overlaps, failures>>

-----------------------------------------------------------------------------
(* Requests.                                                               *)

\* The caller's request q is answered and followed by others.
Continue(c, q, more) == calls' = [calls EXCEPT ![c].pending = (@ \ {q}) \cup more]

\* FAULTY: a plain removal of the path.
MatchesAlways(q) == TRUE

\* The entry still is the expected one.
Matches(q) ==
    CASE q.do = "pushTokens" -> pushTokens[q.of.token] = PushTokenAssignment(q.of)
      [] q.do = "devicePushTokens" -> devicePushTokens[q.of.device] = DevicePushTokenAssignment(q.of)
      [] OTHER -> userPushDevices[q.of.user][q.of.device] = q.of.token

\* remove...IfMatches: a transaction that removes the entry if it is the expected
\* one, and the request that follows it in its chain.
Removes(c, q) ==
    LET Cleared(index) == q.do = index /\ Matches(q) IN
    /\ q.do \in Indexes
    /\ pushTokens' = [t \in Tokens |->
          IF Cleared("pushTokens") /\ t = q.of.token THEN None ELSE pushTokens[t]]
    /\ devicePushTokens' = [d \in Devices |->
          IF Cleared("devicePushTokens") /\ d = q.of.device THEN None ELSE devicePushTokens[d]]
    /\ userPushDevices' = [u \in Users |-> [d \in Devices |->
          IF Cleared("userPushDevices") /\ u = q.of.user /\ d = q.of.device
          THEN None ELSE userPushDevices[u][d]]]
    /\ Continue(c, q, {[q EXCEPT !.do = index, !.more = {}] : index \in q.more})
    /\ UNCHANGED history

\* All that names a registration, removed in parallel.
RemoveAll(r) == {Removal(index, r, "delete", {}) : index \in Indexes}

\* Any request may fail: what would have followed does not happen, what runs
\* beside it goes on, and the call promises nothing.
GivesUp(c, failed) ==
    /\ failures < MaxFailures /\ failures' = failures + 1
    /\ calls' = [calls EXCEPT ![c].pending = @ \ failed, ![c].failed = TRUE, ![c].claims = FALSE]
    /\ calm' = FALSE
    /\ UNCHANGED <<watched, promised, overlaps>>

Fails(c, q) == GivesUp(c, {q}) /\ UNCHANGED indexes

-----------------------------------------------------------------------------
(* savePushTokenToDb.                                                      *)

StartSave(c, r) ==
    Start(c, "save", {r}, {Read("previousDevice", r), Read("previousToken", r)})

ReadsPrevious(c, q) ==
    /\ \/ /\ q.do = "previousDevice"
          /\ calls' = [calls EXCEPT ![c].pending = @ \ {q},
                                    ![c].previousDevice = devicePushTokens[q.of.device]]
       \/ /\ q.do = "previousToken"
          /\ calls' = [calls EXCEPT ![c].pending = @ \ {q},
                                    ![c].previousToken = pushTokens[q.of.token]]
    /\ UNCHANGED <<indexes, history>>

\* The token that was on the device, then the index of the user it belonged to.
CleanupPreviousDeviceAssignment(previous, r) ==
    IF previous = None THEN {}
    ELSE LET old == Registers(previous.user, r.device, previous.token)
             index == IF old.user # r.user THEN {"userPushDevices"} ELSE {}
         IN IF old.token # r.token THEN {Removal("pushTokens", old, "device", index)}
            ELSE {Removal(i, old, "device", {}) : i \in index}

\* FAULTY: a token that stays with its user is taken for one that did not move.
CleanupOfOtherUsersOnly(previous, r) ==
    IF previous = None \/ previous.user = r.user THEN {}
    ELSE LET old == Registers(previous.user, previous.device, r.token)
         IN {Removal(index, old, "token", {}) : index \in {"devicePushTokens", "userPushDevices"}}

\* The device the token was on and its user's index, in parallel.
CleanupPreviousTokenAssignment(previous, r) ==
    IF previous = None \/ previous = PushTokenAssignment(r) THEN {}
    ELSE LET old == Registers(previous.user, previous.device, r.token)
         IN {Removal(index, old, "token", {}) : index \in {"devicePushTokens", "userPushDevices"}}

\* The atomic update of three paths.
Write(r) ==
    /\ pushTokens' = [pushTokens EXCEPT ![r.token] = PushTokenAssignment(r)]
    /\ devicePushTokens' =
          [devicePushTokens EXCEPT ![r.device] = DevicePushTokenAssignment(r)]
    /\ userPushDevices' = [userPushDevices EXCEPT ![r.user][r.device] = r.token]

IsReadyToUpdate(call) ==
    call.op = "save" /\ call.pending = {} /\ ~call.updated /\ ~call.failed

Update(c) ==
    /\ IsReadyToUpdate(calls[c])
    /\ \E r \in calls[c].scope :
          /\ Write(r)
          /\ calls' = [calls EXCEPT ![c].updated = TRUE, ![c].pending =
                          CleanupPreviousDeviceAssignment(calls[c].previousDevice, r)
                            \cup CleanupPreviousTokenAssignment(calls[c].previousToken, r)]
    /\ UNCHANGED history

\* An update that is reported as failed may have been made.
UpdateFails(c) ==
    /\ IsReadyToUpdate(calls[c])
    /\ GivesUp(c, {})
    /\ UNCHANGED indexes \/ \E r \in calls[c].scope : Write(r)

SaveReturns(c) ==
    /\ calls[c].op = "save" /\ calls[c].pending = {}
    /\ calls[c].updated \/ calls[c].failed
    /\ Return(c) /\ UNCHANGED indexes

-----------------------------------------------------------------------------
(* deleteDevicePushTokenFromDb, deletePushTokensFromDb and                 *)
(* deleteUserPushTokensFromDb.                                             *)

StartDeleteDevice(c, u, d) ==
    Start(c, "deleteDevice", {Registers(u, d, t) : t \in Tokens},
          {Read("device", Registers(u, d, None))})

\* FAULTY: only the first of the tokens is worked on.
StartDeleteFirstPushToken(c, u, tokens) ==
    \E first \in tokens :
        Start(c, "deletePushTokens", {Registers(u, d, t) : d \in Devices, t \in tokens},
              {Read("token", Registers(u, None, first))})

StartDeletePushTokens(c, u, tokens) ==
    Start(c, "deletePushTokens", {Registers(u, d, t) : d \in Devices, t \in tokens},
          {Read("token", Registers(u, None, t)) : t \in tokens})

StartDeleteUser(c, u) ==
    Start(c, "deleteUser", {r \in Registration : r.user = u},
          {Read("entries", Registers(u, None, None))})

\* The device's assignment is read first, then the user's index, which counts if
\* the device is another user's.
ReadsDevice(c, q) ==
    LET assignment == devicePushTokens[q.of.device]
        assigned == IF assignment # None /\ assignment.user = q.of.user
                    THEN assignment.token ELSE None
    IN /\ q.do = "device"
       /\ Continue(c, q, {Read("index", [q.of EXCEPT !.token = assigned])})
       /\ UNCHANGED <<indexes, history>>

ReadsIndex(c, q) ==
    LET indexed == userPushDevices[q.of.user][q.of.device]
        token == IF q.of.token # None THEN q.of.token ELSE indexed
    IN /\ q.do = "index"
       /\ Continue(c, q, IF token = None THEN {} ELSE RemoveAll([q.of EXCEPT !.token = token]))
       /\ UNCHANGED <<indexes, history>>

\* A token that is not the user's is left alone.
ReadsToken(c, q) ==
    LET assignment == pushTokens[q.of.token]
    IN /\ q.do = "token"
       /\ Continue(c, q, IF assignment = None \/ assignment.user # q.of.user THEN {}
                         ELSE RemoveAll([q.of EXCEPT !.device = assignment.device]))
       /\ UNCHANGED <<indexes, history>>

\* Devices a user's index has an entry for.
IndexedDevices(u) == {d \in Devices : userPushDevices[u][d] # None}

ReadsEntries(c, q) ==
    /\ q.do = "entries"
    /\ Continue(c, q, {Read("device", [q.of EXCEPT !.device = d]) :
                           d \in IndexedDevices(q.of.user)})
    /\ UNCHANGED <<indexes, history>>

DeleteReturns(c) ==
    /\ calls[c].op \in Deletes /\ calls[c].pending = {}
    /\ calls[c].op = "deleteUser" => calls[c].failed
    /\ Return(c) /\ UNCHANGED indexes

\* When its devices are done, the last request of deleteUserPushTokensFromDb
\* removes what the user's index holds by then.
DeleteUserReturns(c) ==
    /\ calls[c].op = "deleteUser" /\ calls[c].pending = {} /\ ~calls[c].failed
    /\ userPushDevices' = [u \in Users |->
          IF \E r \in calls[c].scope : r.user = u THEN [d \in Devices |-> None]
          ELSE userPushDevices[u]]
    /\ Return(c) /\ UNCHANGED <<pushTokens, devicePushTokens>>

DeleteUserFails(c) ==
    /\ calls[c].op = "deleteUser" /\ calls[c].pending = {} /\ ~calls[c].failed
    /\ GivesUp(c, {}) /\ UNCHANGED indexes

-----------------------------------------------------------------------------
(* getPushTokensFromDb.                                                    *)

StartRead(c, u) ==
    Start(c, "read", {r \in Registration : r.user = u},
          {Read("ownEntries", Registers(u, None, None))})

ReadsOwnEntries(c, q) ==
    /\ q.do = "ownEntries"
    /\ calls' = [calls EXCEPT ![c].pending = {}, ![c].left =
                    {Registers(q.of.user, d, userPushDevices[q.of.user][d]) :
                        d \in IndexedDevices(q.of.user)}]
    /\ UNCHANGED <<indexes, history>>

\* isCurrentAssignment reads both assignments in parallel; an entry that one of
\* them does not confirm is stale.
IsConfirmed(q) ==
    IF q.do = "checkToken" THEN pushTokens[q.of.token] = PushTokenAssignment(q.of)
    ELSE devicePushTokens[q.of.device] = DevicePushTokenAssignment(q.of)

ChecksAssignment(c, q) ==
    /\ q.do \in {"checkToken", "checkDevice"}
    /\ calls' = [calls EXCEPT ![c].pending = @ \ {q},
                              ![c].stale = IF IsConfirmed(q) THEN @ ELSE q.of]
    /\ UNCHANGED <<indexes, history>>

\* Entries one after the other: a stale one is removed before the next is checked.
GoesOn(c) ==
    /\ calls[c].op = "read" /\ calls[c].pending = {} /\ ~calls[c].failed
    /\ \/ /\ calls[c].stale # None
          /\ calls' = [calls EXCEPT ![c].stale = None, ![c].pending =
                          {Removal("userPushDevices", calls[c].stale, "read", {})}]
       \/ /\ calls[c].stale = None
          /\ \E r \in calls[c].left :
                calls' = [calls EXCEPT ![c].left = @ \ {r}, ![c].pending =
                             {Read("checkToken", r), Read("checkDevice", r)}]
    /\ UNCHANGED <<indexes, history>>

ReadReturns(c) ==
    /\ calls[c].op = "read" /\ calls[c].pending = {}
    /\ calls[c].failed \/ (calls[c].left = {} /\ calls[c].stale = None)
    /\ Return(c) /\ UNCHANGED indexes

-----------------------------------------------------------------------------
Starts(c) ==
    \/ \E r \in Registration : StartSave(c, r)
    \/ \E u \in Users, d \in Devices : StartDeleteDevice(c, u, d)
    \/ \E u \in Users, tokens \in SUBSET Tokens \ {{}} : StartDeletePushTokens(c, u, tokens)
    \/ \E u \in Users : StartDeleteUser(c, u) \/ StartRead(c, u)

Answered(c, q) ==
    \/ Removes(c, q) \/ Fails(c, q)
    \/ ReadsPrevious(c, q)
    \/ ReadsDevice(c, q) \/ ReadsIndex(c, q) \/ ReadsToken(c, q) \/ ReadsEntries(c, q)
    \/ ReadsOwnEntries(c, q) \/ ChecksAssignment(c, q)

Next ==
    \E c \in Callers :
        \/ Starts(c)
        \/ calls[c] # Idle /\ \E q \in calls[c].pending : Answered(c, q)
        \/ Update(c) \/ UpdateFails(c) \/ SaveReturns(c)
        \/ DeleteReturns(c) \/ DeleteUserReturns(c) \/ DeleteUserFails(c)
        \/ GoesOn(c) \/ ReadReturns(c)

Spec == Init /\ [][Next]_vars

-----------------------------------------------------------------------------
(* Properties.                                                             *)

\* What a read would return: all three indexes say so.
Reachable(r) ==
    /\ userPushDevices[r.user][r.device] = r.token
    /\ pushTokens[r.token] = PushTokenAssignment(r)
    /\ devicePushTokens[r.device] = DevicePushTokenAssignment(r)

\* The indexes hold entries of these shapes, and only what a call is about is claimed.
TypeOK ==
    /\ pushTokens \in [Tokens -> [user : Users, device : Devices] \cup {None}]
    /\ devicePushTokens \in [Devices -> [user : Users, token : Tokens] \cup {None}]
    /\ userPushDevices \in [Users -> [Devices -> Tokens \cup {None}]]
    /\ watched \in Registration /\ promised \in {"nothing", "registered", "revoked"}
    /\ calm \in BOOLEAN /\ overlaps \in 0..MaxOverlaps /\ failures \in 0..MaxFailures
    /\ \A c \in Callers : calls[c] # Idle =>
          /\ calls[c].scope \subseteq Registration
          /\ calls[c].claims => calls[c].op # "read" /\ watched \in calls[c].scope

\* A device that was saved while nothing else touched its device, token or user
\* gets its user's notifications until a later call touches it: the cleanups of
\* other saves, deletes and reads, failed ones too, leave it alone
\* (savePushTokenToDb, the remove...IfMatches transactions).
RegistrationsHold == promised = "registered" => Reachable(watched)

\* What a delete removed while it was not being saved gets no notifications
\* until it is saved again, whatever was left over before and whatever runs later
\* (deleteDevicePushTokenFromDb, deletePushTokensFromDb, deleteUserPushTokensFromDb).
RevokedStaysUnreachable == promised = "revoked" => ~Reachable(watched)

\* Where nothing overlapped what it touched and nothing failed, the cleanups
\* leave the three indexes saying the same and no entry that only one of them
\* knows (cleanupPreviousDeviceAssignment, cleanupPreviousTokenAssignment).
IndexesAgree ==
    TypeOK /\ (calm /\ (\A c \in Callers : calls[c] = Idle) =>
        \A r \in Registration :
            /\ userPushDevices[r.user][r.device] = r.token => Reachable(r)
            /\ pushTokens[r.token] = PushTokenAssignment(r) => Reachable(r)
            /\ devicePushTokens[r.device] = DevicePushTokenAssignment(r) => Reachable(r))
=============================================================================
