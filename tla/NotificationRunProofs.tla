----------------------- MODULE NotificationRunProofs -----------------------
(***************************************************************************)
(* For any number of runs, users, releases and failures: two runs are in   *)
(* progress at a time only when one outlived its lock, and every user is   *)
(* told of each release by one message, however often the sidecar repeats  *)
(* it.  For the second, one lemma per step shows what it does to the       *)
(* releases a run has to tell a user (NewsMoves, RunStep).                 *)
(***************************************************************************)
EXTENDS NotificationRun, Integers, TLAPS

\* Inductive: a run in progress that did not outlive the lock has it.
HasTheLock ==
    /\ runs \in [Runs -> {"idle", "listing", "working", "releasing", "over"}]
    /\ \A r \in Runs : InProgress(r) /\ r \notin outlived => lock = r

LEMMA HasTheLockInit == Init => HasTheLock
  BY DEF Init, HasTheLock, InProgress

\* Only the steps of a run move it, and these leave the others where they are.
LEMMA HasTheLockStep == HasTheLock /\ [Next]_vars => HasTheLock'
<1> SUFFICES ASSUME HasTheLock, [Next]_vars PROVE HasTheLock'
    OBVIOUS
<1> USE DEF HasTheLock, InProgress
<1>1. ASSUME NEW r \in Runs, AcquireLock(r) PROVE HasTheLock'
    BY <1>1, NotificationAssumption DEF AcquireLock, Goes
<1>2. ASSUME NEW r \in Runs, ListUsers(r) PROVE HasTheLock'
    BY <1>2 DEF ListUsers, Goes
<1>3. ASSUME NEW r \in Runs, FinishUsers(r) PROVE HasTheLock'
    BY <1>3 DEF FinishUsers, Goes
<1>4. ASSUME NEW r \in Runs, ReleaseLock(r) PROVE HasTheLock'
    BY <1>4 DEF ReleaseLock, Goes, Unlocked
<1>5. ASSUME NEW r \in Runs, ServerStops(r) PROVE HasTheLock'
    BY <1>5 DEF ServerStops, Goes
<1>6. CASE LockExpires
    BY <1>6 DEF LockExpires
<1>7. CASE UNCHANGED <<lock, runs, outlived>>
    BY <1>7
<1>8. ASSUME NEW r \in Runs, NEW u \in Users,
             \/ BeginUser(r, u) \/ EndSearch(r, u) \/ Address(r, u)
             \/ BeginMessage(r, u) \/ EndMessage(r, u) \/ SendData(r, u)
      PROVE  UNCHANGED <<lock, runs, outlived>>
    BY <1>8 DEF BeginUser, EndSearch, Address, BeginMessage, EndMessage, SendData
<1>9. Publish \/ UNCHANGED vars => UNCHANGED <<lock, runs, outlived>>
    BY DEF Publish, vars
<1>10. QED
    BY <1>1, <1>2, <1>3, <1>4, <1>5, <1>6, <1>7, <1>8, <1>9 DEF Next

\* Whatever fails, stops or runs out, the lock keeps two runs apart that are both
\* within its time (newReleaseNotificationRunner.ts, daprLockStore.ts).
THEOREM RunsKeptApart == Spec => []OneRunAtATime
<1>1. HasTheLock => OneRunAtATime
    BY DEF HasTheLock, OneRunAtATime
<1>2. QED
    BY <1>1, HasTheLockInit, HasTheLockStep, PTL DEF Spec

-----------------------------------------------------------------------------
(* Each release by one message: the invariant.                             *)

Work == [at : {"waiting", "searching", "addressing", "telling", "done"},
         seen : SUBSET Releases, todo : SUBSET Releases, sending : SUBSET Releases,
         senders : Int, failed : BOOLEAN]

Pending(w) == w.todo \cup w.sending
IsTelling(w) == w.at \in {"addressing", "telling"}
IsSearching(w) == w.at = "searching" /\ ~w.failed

WorkTyped ==
    /\ work \in [Runs -> [Users -> Work]]
    /\ published \in SUBSET Releases
    /\ known \in [Users -> SUBSET Releases]
    /\ told \in [Users -> [Releases -> Nat]]
    /\ resent \in [Users -> [Releases -> Nat]]

\* What a run has to do for a user it knows of; while it searches nothing else becomes
\* known to the user, unless a lock was outlived.
IsInOrder(w, knownOf, isExcused, at, calm) ==
    /\ ~IsTelling(w) => Pending(w) = {}
    /\ w.at = "addressing" => w.sending = {}
    /\ w.todo \cap w.sending = {}
    /\ Pending(w) \subseteq knownOf
    /\ w.at = "searching" => w.seen \subseteq knownOf
    /\ w.failed => isExcused
    /\ IsSearching(w) => at = "working" /\ (calm => w.seen = knownOf)

InOrder ==
    \A r \in Runs, u \in Users :
        IsInOrder(work[r][u], known[u], u \in excused, runs[r], outlived = {})

\* What is known was told or is about to be told.
Reached ==
    \A u \in Users, x \in Releases :
        x \in known[u] /\ u \notin excused =>
            told[u][x] > 0 \/ \E r \in Runs : x \in Pending(work[r][u])

\* What was told or is about to be told is not told by another message: of a release
\* that some message is still to tell, nothing was delivered yet.
Once ==
    \A u \in Users, x \in Releases :
        /\ told[u][x] > 0 => x \in known[u]
        /\ outlived = {} =>
              /\ told[u][x] <= 1 + resent[u][x] /\ resent[u][x] <= ProviderRetries
              /\ told[u][x] = 0 => resent[u][x] = 0
              /\ \A r \in Runs : x \in Pending(work[r][u]) =>
                    told[u][x] = 0 /\ \A s \in Runs : x \in Pending(work[s][u]) => r = s

ToldInv == HasTheLock /\ WorkTyped /\ InOrder /\ Reached /\ Once

LEMMA ToldInit == Init => ToldInv
<1> SUFFICES ASSUME Init PROVE ToldInv
    OBVIOUS
<1> USE DEF Init, NotBegun
<1>1. HasTheLock
    BY HasTheLockInit
<1>2. WorkTyped
    BY DEF WorkTyped, Work
<1>3. InOrder
    BY DEF InOrder, IsInOrder, IsTelling, IsSearching, Pending
<1>4. Reached /\ Once
    BY NotificationAssumption DEF Reached, Once, Pending
<1>5. QED
    BY <1>1, <1>2, <1>3, <1>4 DEF ToldInv

-----------------------------------------------------------------------------
(* A step of one run for one user, by what it does to that user's news: a  *)
(* release is told when it leaves the list, by any number of attempts,     *)
(* comes on the list only when nobody knows it, and leaves the list untold *)
(* only for an excused user.                                               *)

NewsMoves(r, u, w, k, t, d) ==
    /\ UNCHANGED <<lock, runs, published, outlived>> /\ Does(r, u, w)
    /\ known' = [known EXCEPT ![u] = k] /\ told' = [told EXCEPT ![u] = t]
    /\ resent' = [resent EXCEPT ![u] = d]
    /\ excused \subseteq excused' /\ excused' \subseteq excused \cup {u}
    /\ w \in Work /\ k \in SUBSET Releases
    /\ t \in [Releases -> Nat] /\ d \in [Releases -> Nat]
    /\ known[u] \subseteq k /\ (k # known[u] => IsSearching(work[r][u]))
    /\ IsInOrder(w, k, u \in excused', runs[r], outlived = {})
    /\ \A x \in Releases :
          \/ t[x] = told[u][x] /\ d[x] = resent[u][x]
          \/ /\ x \in Pending(work[r][u]) /\ x \notin Pending(w)
             /\ told[u][x] = 0 /\ resent[u][x] = 0 =>
                   t[x] <= 1 + d[x] /\ d[x] <= ProviderRetries /\ (t[x] = 0 => d[x] = 0)
             /\ t[x] >= told[u][x]
    /\ \A x \in Pending(w) : x \in Pending(work[r][u]) \/ (outlived = {} => x \notin known[u])
    /\ u \notin excused' => \A x \in k :
          t[x] > 0 \/ x \in Pending(w) \/ (x \in known[u] /\ x \notin Pending(work[r][u]))

LEMMA WorkStep ==
    ASSUME ToldInv, NEW r \in Runs, NEW u \in Users, NEW w, NEW k, NEW t, NEW d,
           NewsMoves(r, u, w, k, t, d)
    PROVE  WorkTyped' /\ InOrder' /\ Reached' /\ Once'
<1> USE DEF ToldInv, NewsMoves
<1>1. /\ work'[r][u] = w /\ known'[u] = k /\ told'[u] = t /\ resent'[u] = d
      /\ \A s \in Runs, v \in Users : s # r \/ v # u => work'[s][v] = work[s][v]
      /\ \A v \in Users : v # u => known'[v] = known[v] /\ told'[v] = told[v]
                                         /\ resent'[v] = resent[v]
    BY DEF WorkTyped, Does
<1>2. WorkTyped'
    BY DEF WorkTyped, Does
<1>3. Pending(w) \subseteq k /\ \A s \in Runs, v \in Users : Pending(work[s][v]) \subseteq known[v]
    BY DEF InOrder, IsInOrder
<1>4. ASSUME NEW s \in Runs, s # r, k # known[u], outlived = {}
      PROVE  ~IsSearching(work[s][u])
  <2>1. IsSearching(work[s][u]) => runs[s] = "working" /\ runs[r] = "working"
      BY <1>4 DEF InOrder, IsInOrder
  <2>2. QED
      BY <1>4, <2>1 DEF HasTheLock, InProgress
<1>5. InOrder'
  <2>1. ASSUME NEW s \in Runs, NEW v \in Users
        PROVE  IsInOrder(work'[s][v], known'[v], v \in excused', runs[s], outlived = {})
    <3>1. CASE s = r /\ v = u
        BY <3>1, <1>1
    <3>2. CASE v # u
      <4>1. IsInOrder(work[s][v], known[v], v \in excused, runs[s], outlived = {})
          BY DEF InOrder
      <4>2. v \in excused' <=> v \in excused
          BY <3>2
      <4>3. QED
          BY <4>1, <4>2, <3>2, <1>1
    <3>3. CASE v = u /\ s # r
      <4>1. IsInOrder(work[s][u], known[u], u \in excused, runs[s], outlived = {})
          BY DEF InOrder
      <4>2. IsInOrder(work[s][u], k, u \in excused', runs[s], outlived = {})
          BY <4>1, <3>3, <1>4 DEF IsInOrder
      <4>3. QED
          BY <4>2, <3>3, <1>1
    <3>4. QED
        BY <3>1, <3>2, <3>3
  <2>2. QED
      BY <2>1 DEF InOrder
<1>6. Reached'
  <2>1. ASSUME NEW v \in Users, NEW x \in Releases, x \in known'[v], v \notin excused'
        PROVE  told'[v][x] > 0 \/ \E s \in Runs : x \in Pending(work'[s][v])
    <3>1. CASE v # u
        BY <2>1, <3>1, <1>1 DEF Reached
    <3>2. CASE v = u
      <4>1. CASE t[x] > 0 \/ x \in Pending(w)
          BY <4>1, <3>2, <1>1
      <4>2. CASE x \in known[u] /\ x \notin Pending(work[r][u])
        <5>1. told[u][x] > 0 \/ \E s \in Runs : x \in Pending(work[s][u])
            BY <2>1, <3>2, <4>2 DEF Reached
        <5>2. CASE told[u][x] > 0
            BY <5>2, <3>2, <1>1 DEF WorkTyped
        <5>3. CASE \E s \in Runs : x \in Pending(work[s][u])
            BY <5>3, <4>2, <3>2, <1>1
        <5>4. QED
            BY <5>1, <5>2, <5>3
      <4>3. QED
          BY <2>1, <3>2, <4>1, <4>2, <1>1
    <3>3. QED
        BY <3>1, <3>2
  <2>2. QED
      BY <2>1 DEF Reached
<1>7. Once'
  <2>1. ASSUME NEW v \in Users, NEW x \in Releases PROVE told'[v][x] > 0 => x \in known'[v]
    <3>1. CASE v # u
        BY <3>1, <1>1 DEF Once
    <3>2. CASE v = u
        BY <3>2, <1>1, <1>3 DEF Once
    <3>3. QED
        BY <3>1, <3>2
  <2>2. ASSUME outlived = {}, NEW v \in Users, NEW x \in Releases
        PROVE  /\ told'[v][x] <= 1 + resent'[v][x] /\ resent'[v][x] <= ProviderRetries
               /\ told'[v][x] = 0 => resent'[v][x] = 0
               /\ \A s \in Runs : x \in Pending(work'[s][v]) =>
                    told'[v][x] = 0 /\ \A q \in Runs : x \in Pending(work'[q][v]) => s = q
    <3>1. CASE v # u
        BY <2>2, <3>1, <1>1 DEF Once
    <3>2. CASE v = u
      <4>1. /\ told[u][x] <= 1 + resent[u][x] /\ resent[u][x] <= ProviderRetries
            /\ (told[u][x] = 0 => resent[u][x] = 0) /\ (told[u][x] > 0 => x \in known[u])
            /\ \A s \in Runs : x \in Pending(work[s][u]) =>
                  told[u][x] = 0 /\ \A q \in Runs : x \in Pending(work[q][u]) => s = q
          BY <2>2 DEF Once
      <4>2. told[u][x] \in Nat /\ resent[u][x] \in Nat
          BY DEF WorkTyped
      <4>3. t[x] <= 1 + d[x] /\ d[x] <= ProviderRetries /\ (t[x] = 0 => d[x] = 0)
        <5>1. CASE t[x] = told[u][x] /\ d[x] = resent[u][x]
            BY <5>1, <4>1
        <5>2. CASE x \in Pending(work[r][u])
            BY <5>2, <4>1
        <5>3. QED
            BY <5>1, <5>2
      <4>4. ASSUME x \in Pending(w)
            PROVE  t[x] = 0 /\ \A q \in Runs : q # r => x \notin Pending(work[q][u])
          BY <4>4, <4>1, <4>2, <2>2, <1>3
      <4>5. ASSUME NEW s \in Runs, s # r, x \in Pending(work[s][u])
            PROVE  t[x] = 0 /\ x \notin Pending(w)
                   /\ \A q \in Runs : x \in Pending(work[q][u]) => s = q
        <5>1. x \notin Pending(work[r][u])
            BY <4>5, <4>1
        <5>2. QED
            BY <5>1, <4>5, <4>4, <4>1
      <4>6. QED
          BY <3>2, <4>3, <4>4, <4>5, <1>1
    <3>3. QED
        BY <3>1, <3>2
  <2>3. QED
      BY <2>1, <2>2 DEF Once
<1>8. QED
    BY <1>2, <1>5, <1>6, <1>7

-----------------------------------------------------------------------------
(* The steps for a user.                                                   *)

LEMMA Unpacked ==
    ASSUME ToldInv, NEW r \in Runs, NEW u \in Users
    PROVE  /\ work[r][u] \in Work /\ known[u] \in SUBSET Releases
           /\ told[u] \in [Releases -> Nat] /\ published \in SUBSET Releases
           /\ resent[u] \in [Releases -> Nat]
           /\ known = [known EXCEPT ![u] = known[u]] /\ told = [told EXCEPT ![u] = told[u]]
           /\ resent = [resent EXCEPT ![u] = resent[u]]
           /\ IsInOrder(work[r][u], known[u], u \in excused, runs[r], outlived = {})
  BY DEF ToldInv, WorkTyped, InOrder

LEMMA BeginUserTold ==
    ASSUME ToldInv, NEW r \in Runs, NEW u \in Users, BeginUser(r, u)
    PROVE  WorkTyped' /\ InOrder' /\ Reached' /\ Once'
<1> DEFINE begun == [work[r][u] EXCEPT !.at = "searching", !.seen = known[u]]
<1>1. PICK w \in {begun, [begun EXCEPT !.failed = TRUE]} :
        Does(r, u, w) /\ excused' = (IF w.failed THEN excused \cup {u} ELSE excused)
    BY Unpacked DEF BeginUser, FailsFor, Work
<1>2. /\ w \in Work /\ Pending(w) = {} /\ Pending(work[r][u]) = {}
      /\ w.at = "searching" /\ w.seen = known[u] /\ w.todo = {} /\ w.sending = {}
  <2>1. work[r][u].todo = {} /\ work[r][u].sending = {}
      BY Unpacked DEF BeginUser, Pending, IsInOrder, IsTelling
  <2>2. QED
      BY <1>1, <2>1, Unpacked DEF Work, Pending
<1>3. /\ UNCHANGED <<lock, runs, published, outlived>> /\ runs[r] = "working"
      /\ known' = known /\ told' = told /\ resent' = resent
    BY DEF BeginUser
<1>4. IsInOrder(w, known[u], u \in excused', runs[r], outlived = {})
    BY <1>1, <1>2, <1>3 DEF IsInOrder, IsTelling, IsSearching
<1>5. NewsMoves(r, u, w, known[u], told[u], resent[u])
    BY <1>1, <1>2, <1>3, <1>4, Unpacked DEF NewsMoves
<1>6. QED
    BY <1>5, WorkStep

LEMMA EndSearchTold ==
    ASSUME ToldInv, NEW r \in Runs, NEW u \in Users, EndSearch(r, u)
    PROVE  WorkTyped' /\ InOrder' /\ Reached' /\ Once'
<1> DEFINE old == work[r][u]
           news == published \ old.seen
           found == [old EXCEPT !.at = IF news = {} THEN "done" ELSE "addressing", !.todo = news]
           broken == [old EXCEPT !.failed = TRUE]
<1>1. /\ old \in Work /\ IsSearching(old) /\ Pending(old) = {}
      /\ old.todo = {} /\ old.sending = {} /\ old.seen \subseteq known[u]
      /\ old.at = "searching" /\ ~old.failed
      /\ runs[r] = "working" /\ (outlived = {} => old.seen = known[u])
    BY Unpacked DEF EndSearch, IsInOrder, IsTelling, IsSearching, Pending
<1>2. UNCHANGED <<lock, runs, published, outlived>> /\ told' = told /\ resent' = resent
    BY DEF EndSearch
<1>3. CASE /\ known' = [known EXCEPT ![u] = @ \cup published]
           /\ Does(r, u, found) /\ UNCHANGED excused
  <2>1. /\ found \in Work /\ Pending(found) = news /\ found.todo = news /\ found.sending = {}
        /\ ~found.failed /\ found.at \in {"done", "addressing"} /\ (found.at = "done" => news = {})
      BY <1>1, Unpacked DEF Work, Pending
  <2>2. IsInOrder(found, known[u] \cup published, u \in excused', runs[r], outlived = {})
      BY <1>1, <2>1 DEF IsInOrder, IsTelling, IsSearching
  <2>3. NewsMoves(r, u, found, known[u] \cup published, told[u], resent[u])
      BY <1>1, <1>2, <1>3, <2>1, <2>2, Unpacked DEF NewsMoves
  <2>4. QED
      BY <2>3, WorkStep
<1>4. ASSUME NEW some \in SUBSET news, known' = [known EXCEPT ![u] = @ \cup some],
             Does(r, u, broken), excused' = excused \cup {u}
      PROVE  WorkTyped' /\ InOrder' /\ Reached' /\ Once'
  <2>1. /\ broken \in Work /\ Pending(broken) = {} /\ broken.failed
        /\ broken.todo = {} /\ broken.sending = {} /\ broken.seen = old.seen
      BY <1>1 DEF Work, Pending
  <2>2. IsInOrder(broken, known[u] \cup some, u \in excused', runs[r], outlived = {})
      BY <1>1, <1>4, <2>1 DEF IsInOrder, IsTelling, IsSearching
  <2>3. NewsMoves(r, u, broken, known[u] \cup some, told[u], resent[u])
      BY <1>1, <1>2, <1>4, <2>1, <2>2, Unpacked DEF NewsMoves
  <2>4. QED
      BY <2>3, WorkStep
<1>5. QED
    BY <1>3, <1>4 DEF EndSearch, FailsFor

LEMMA AddressTold ==
    ASSUME ToldInv, NEW r \in Runs, NEW u \in Users, Address(r, u)
    PROVE  WorkTyped' /\ InOrder' /\ Reached' /\ Once'
<1> DEFINE old == work[r][u]
<1>1. /\ old \in Work /\ old.at = "addressing" /\ ~old.failed /\ old.sending = {}
      /\ Pending(old) = old.todo /\ Pending(old) \subseteq known[u]
    BY Unpacked DEF Address, IsInOrder, Pending
<1>2. PICK w \in {[old EXCEPT !.at = "telling", !.senders = MessagesAtOnce],
                  [old EXCEPT !.at = "done", !.todo = {}], [old EXCEPT !.failed = TRUE]} :
        /\ Does(r, u, w)
        /\ excused' = (IF w.at = "telling" THEN excused ELSE excused \cup {u})
  <2>1. old.at # "telling" /\ [old EXCEPT !.at = "telling", !.senders = MessagesAtOnce].at = "telling"
        /\ [old EXCEPT !.at = "done", !.todo = {}].at = "done"
        /\ [old EXCEPT !.failed = TRUE].at = "addressing"
      BY <1>1 DEF Work
  <2>2. QED
      BY <2>1 DEF Address, FailsFor
<1>3. /\ w \in Work /\ w.sending = {} /\ w.at \in {"telling", "done", "addressing"}
      /\ (w.failed => u \in excused') /\ (w.at = "done" => u \in excused')
      /\ (IF w.at = "done" THEN w.todo = {} ELSE w.todo = old.todo)
  <2>1. CASE w = [old EXCEPT !.at = "telling", !.senders = MessagesAtOnce]
    <3>1. MessagesAtOnce \in Int
        BY NotificationAssumption
    <3>2. QED
        BY <1>1, <1>2, <2>1, <3>1 DEF Work
  <2>2. CASE w = [old EXCEPT !.at = "done", !.todo = {}]
      BY <1>1, <1>2, <2>2 DEF Work
  <2>3. CASE w = [old EXCEPT !.failed = TRUE]
      BY <1>1, <1>2, <2>3 DEF Work
  <2>4. QED
      BY <1>2, <2>1, <2>2, <2>3
<1>4. Pending(w) = w.todo
    BY <1>3 DEF Pending
<1>5. UNCHANGED <<lock, runs, published, outlived>> /\ known' = known /\ told' = told /\ resent' = resent
    BY DEF Address
<1>6. IsInOrder(w, known[u], u \in excused', runs[r], outlived = {})
    BY <1>1, <1>3, <1>4 DEF IsInOrder, IsTelling, IsSearching
<1>7. NewsMoves(r, u, w, known[u], told[u], resent[u])
    BY <1>1, <1>2, <1>3, <1>4, <1>5, <1>6, Unpacked DEF NewsMoves
<1>8. QED
    BY <1>7, WorkStep

LEMMA BeginMessageTold ==
    ASSUME ToldInv, NEW r \in Runs, NEW u \in Users, BeginMessage(r, u)
    PROVE  WorkTyped' /\ InOrder' /\ Reached' /\ Once'
<1> DEFINE old == work[r][u]
<1>1. PICK x \in old.todo : Does(r, u, [old EXCEPT !.todo = @ \ {x}, !.sending = @ \cup {x}])
    BY DEF BeginMessage
<1> DEFINE w == [old EXCEPT !.todo = @ \ {x}, !.sending = @ \cup {x}]
<1>2. /\ w \in Work /\ w.at = "telling" /\ w.failed = old.failed
      /\ w.todo = old.todo \ {x} /\ w.sending = old.sending \cup {x}
  <2>1. old \in Work /\ old.at = "telling" /\ x \in Releases
      BY Unpacked DEF BeginMessage, Work
  <2>2. old.todo \ {x} \in SUBSET Releases /\ old.sending \cup {x} \in SUBSET Releases
      BY <2>1 DEF Work
  <2>3. QED
      BY <2>1, <2>2 DEF Work
<1>3. Pending(w) = Pending(old)
    BY <1>1, <1>2 DEF Pending
<1>4. /\ UNCHANGED <<lock, runs, published, outlived>>
      /\ known' = known /\ told' = told /\ resent' = resent /\ excused' = excused
    BY DEF BeginMessage
<1>5. IsInOrder(w, known[u], u \in excused', runs[r], outlived = {})
    BY <1>2, <1>3, <1>4, Unpacked DEF IsInOrder, IsTelling, IsSearching
<1>6. NewsMoves(r, u, w, known[u], told[u], resent[u])
    BY <1>1, <1>2, <1>3, <1>4, <1>5, Unpacked DEF NewsMoves
<1>7. QED
    BY <1>6, WorkStep

\* A message that is rejected or fails may have been told all the same; the user is
\* excused then.
LEMMA EndMessageTold ==
    ASSUME ToldInv, NEW r \in Runs, NEW u \in Users, EndMessage(r, u)
    PROVE  WorkTyped' /\ InOrder' /\ Reached' /\ Once'
<1> DEFINE old == work[r][u]
<1>1. PICK x \in old.sending : \E n \in 0 .. 1 + ProviderRetries :
        LET sent == [old EXCEPT !.sending = @ \ {x}]
        IN /\ Delivers(u, x, n)
           /\ \/ n > 0 /\ Does(r, u, sent) /\ UNCHANGED excused
              \/ Does(r, u, sent) /\ excused' = excused \cup {u}
              \/ /\ Does(r, u, [[sent EXCEPT !.senders = @ - 1] EXCEPT !.failed = TRUE])
                 /\ excused' = excused \cup {u}
    BY DEF EndMessage, FailsFor
<1> DEFINE sent == [old EXCEPT !.sending = @ \ {x}]
<1>2. PICK n \in 0 .. 1 + ProviderRetries :
        /\ Delivers(u, x, n)
        /\ \/ n > 0 /\ Does(r, u, sent) /\ UNCHANGED excused
           \/ Does(r, u, sent) /\ excused' = excused \cup {u}
           \/ /\ Does(r, u, [[sent EXCEPT !.senders = @ - 1] EXCEPT !.failed = TRUE])
              /\ excused' = excused \cup {u}
    BY <1>1
<1> DEFINE t == [told[u] EXCEPT ![x] = @ + n]
           d == [resent[u] EXCEPT ![x] = @ + (IF n > 0 THEN n - 1 ELSE 0)]
<1>3. PICK w \in {sent, [[sent EXCEPT !.senders = @ - 1] EXCEPT !.failed = TRUE]} :
        /\ Does(r, u, w) /\ (w.failed => u \in excused \/ u \in excused')
        /\ excused' \in {excused, excused \cup {u}}
        /\ n > 0 \/ u \in excused'
  <2>1. sent.failed => u \in excused
      BY Unpacked DEF Work, IsInOrder
  <2>2. QED
      BY <1>2, <2>1
<1>4. x \in Releases /\ old.at = "telling"
    BY Unpacked DEF Work, EndMessage
<1>5. /\ w \in Work /\ w.at = "telling" /\ (w.failed => u \in excused')
      /\ w.todo = old.todo /\ w.sending = old.sending \ {x}
  <2>1. old \in Work /\ old.sending \ {x} \in SUBSET Releases /\ old.senders - 1 \in Int
      BY Unpacked DEF Work
  <2>2. CASE w = sent
      BY <1>3, <1>4, <2>1, <2>2 DEF Work
  <2>3. CASE w = [[sent EXCEPT !.senders = @ - 1] EXCEPT !.failed = TRUE]
    <3>1. sent \in Work /\ sent.senders = old.senders /\ sent.at = "telling"
          /\ sent.todo = old.todo /\ sent.sending = old.sending \ {x}
        BY <1>4, <2>1 DEF Work
    <3>2. [sent EXCEPT !.senders = @ - 1] \in Work
        BY <2>1, <3>1 DEF Work
    <3>3. w.failed /\ (w.failed => u \in excused')
        BY <1>3, <2>3, <3>1 DEF Work
    <3>4. QED
        BY <2>3, <3>1, <3>2, <3>3 DEF Work
  <2>4. QED
      BY <1>3, <2>2, <2>3
<1>6. Pending(w) = Pending(old) \ {x} /\ x \in Pending(old)
  <2>1. old.todo \cap old.sending = {}
      BY Unpacked DEF IsInOrder
  <2>2. QED
      BY <1>1, <1>5, <2>1 DEF Pending
<1>7. UNCHANGED <<lock, runs, published, outlived>> /\ known' = known
    BY DEF EndMessage
<1>8. IsInOrder(w, known[u], u \in excused', runs[r], outlived = {})
  <2>1. IsInOrder(old, known[u], u \in excused, runs[r], outlived = {}) /\ old \in Work
      BY Unpacked
  <2>2. Pending(w) \subseteq known[u] /\ w.todo \cap w.sending = {}
      BY <2>1, <1>5, <1>6 DEF IsInOrder
  <2>3. QED
      BY <2>2, <1>5 DEF IsInOrder, IsTelling, IsSearching
<1>9. /\ told' = [told EXCEPT ![u] = t] /\ resent' = [resent EXCEPT ![u] = d]
    BY <1>2 DEF Delivers
<1>10. PICK rep \in Nat : /\ rep = (IF n > 0 THEN n - 1 ELSE 0)
                         /\ rep <= ProviderRetries /\ n <= 1 + rep /\ (n = 0 => rep = 0)
    BY NotificationAssumption
<1>11. /\ t \in [Releases -> Nat] /\ t[x] = told[u][x] + n
       /\ \A y \in Releases : y # x => t[y] = told[u][y]
  <2>1. told[u] \in [Releases -> Nat] /\ n \in Nat
      BY Unpacked, NotificationAssumption
  <2>2. QED
      BY <2>1, <1>4
<1>12. /\ d \in [Releases -> Nat] /\ d[x] = resent[u][x] + rep
       /\ \A y \in Releases : y # x => d[y] = resent[u][y]
  <2>1. resent[u] \in [Releases -> Nat]
      BY Unpacked
  <2>2. QED
      BY <2>1, <1>4, <1>10
<1>13. told[u][x] \in Nat /\ resent[u][x] \in Nat /\ n \in Nat /\ ProviderRetries \in Nat
    BY <1>4, Unpacked, NotificationAssumption
<1> HIDE DEF t, d
<1>14. ASSUME NEW y \in Releases
       PROVE  \/ t[y] = told[u][y] /\ d[y] = resent[u][y]
              \/ /\ y \in Pending(old) /\ y \notin Pending(w)
                 /\ told[u][y] = 0 /\ resent[u][y] = 0 =>
                       t[y] <= 1 + d[y] /\ d[y] <= ProviderRetries /\ (t[y] = 0 => d[y] = 0)
                 /\ t[y] >= told[u][y]
  <2>1. CASE y # x
      BY <2>1, <1>11, <1>12
  <2>2. CASE y = x
    <3>1. t[x] >= told[u][x]
        BY <1>11, <1>13
    <3>2. ASSUME told[u][x] = 0, resent[u][x] = 0
          PROVE  t[x] <= 1 + d[x] /\ d[x] <= ProviderRetries /\ (t[x] = 0 => d[x] = 0)
        BY <3>2, <1>10, <1>11, <1>12, <1>13
    <3>3. QED
        BY <2>2, <3>1, <3>2, <1>6
  <2>3. QED
      BY <2>1, <2>2
<1>15. u \notin excused' => \A y \in known[u] :
          t[y] > 0 \/ y \in Pending(w) \/ (y \in known[u] /\ y \notin Pending(old))
  <2>1. u \notin excused' => t[x] > 0
      BY <1>3, <1>11, <1>13
  <2>2. QED
      BY <2>1, <1>6
<1>16. NewsMoves(r, u, w, known[u], t, d)
    BY <1>3, <1>5, <1>6, <1>7, <1>8, <1>9, <1>11, <1>12, <1>14, <1>15, Unpacked DEF NewsMoves
<1>17. QED
    BY <1>16, WorkStep

LEMMA SendDataTold ==
    ASSUME ToldInv, NEW r \in Runs, NEW u \in Users, SendData(r, u)
    PROVE  WorkTyped' /\ InOrder' /\ Reached' /\ Once'
<1> DEFINE old == work[r][u]
<1>1. PICK w \in {[old EXCEPT !.at = "done"], [old EXCEPT !.failed = TRUE]} :
        Does(r, u, w) /\ excused' = (IF w.failed THEN excused \cup {u} ELSE excused)
    BY Unpacked DEF SendData, FailsFor, Work
<1>2. /\ w \in Work /\ w.at \in {"telling", "done"} /\ w.todo = {} /\ w.sending = {}
      /\ Pending(w) = {} /\ Pending(old) = {}
  <2>1. old \in Work /\ old.at = "telling" /\ old.todo = {} /\ old.sending = {}
      BY Unpacked DEF SendData
  <2>2. QED
      BY <1>1, <2>1 DEF Work, Pending
<1>3. UNCHANGED <<lock, runs, published, outlived>> /\ known' = known /\ told' = told /\ resent' = resent
    BY DEF SendData
<1>4. IsInOrder(w, known[u], u \in excused', runs[r], outlived = {})
    BY <1>1, <1>2 DEF IsInOrder, IsTelling, IsSearching
<1>5. NewsMoves(r, u, w, known[u], told[u], resent[u])
    BY <1>1, <1>2, <1>3, <1>4, Unpacked DEF NewsMoves
<1>6. QED
    BY <1>5, WorkStep

-----------------------------------------------------------------------------
(* The steps of a run and its lock.  A lock is never taken back from those *)
(* who outlived it, so that calm is lost for good.                         *)

LEMMA RunStep ==
    ASSUME ToldInv, UNCHANGED <<work, known, told, resent, excused>>, published' \in SUBSET Releases,
           outlived \subseteq outlived',
           \A r \in Runs : runs[r] = "working" =>
               runs'[r] = "working" \/ \A u \in Users : ~IsSearching(work[r][u])
    PROVE  WorkTyped' /\ InOrder' /\ Reached' /\ Once'
<1> USE DEF ToldInv
<1>1. WorkTyped'
    BY DEF WorkTyped
<1>2. outlived' = {} => outlived = {}
    OBVIOUS
<1>3. ASSUME NEW r \in Runs, NEW u \in Users
      PROVE  IsInOrder(work[r][u], known[u], u \in excused, runs'[r], outlived' = {})
  <2>1. IsInOrder(work[r][u], known[u], u \in excused, runs[r], outlived = {})
      BY DEF InOrder
  <2>2. QED
      BY <2>1, <1>2 DEF IsInOrder
<1>4. InOrder'
    BY <1>3 DEF InOrder
<1>5. Reached' /\ Once'
    BY <1>2 DEF Reached, Once
<1>6. QED
    BY <1>1, <1>4, <1>5

LEMMA ServerStopsTold ==
    ASSUME ToldInv, NEW r \in Runs, ServerStops(r)
    PROVE  WorkTyped' /\ InOrder' /\ Reached' /\ Once'
<1> DEFINE over == [NotBegun EXCEPT !.at = "done"]
<1>1. /\ UNCHANGED <<published, known, told, resent, outlived>> /\ excused \subseteq excused'
      /\ excused' = excused \cup
             {u \in Users : IsWorking(work[r][u]) \/ work[r][u].sending # {}}
      /\ runs' = [runs EXCEPT ![r] = "over"]
    BY DEF ServerStops, Goes
<1>2. /\ over \in Work /\ Pending(over) = {} /\ over.todo = {} /\ over.sending = {}
      /\ over.at = "done" /\ ~over.failed
  <2>1. /\ NotBegun \in Work /\ NotBegun.todo = {} /\ NotBegun.sending = {}
        /\ ~NotBegun.failed
      BY DEF Work, NotBegun
  <2>2. QED
      BY <2>1 DEF Work, Pending
<1>3. WorkTyped'
    BY <1>1, <1>2 DEF ServerStops, ToldInv, WorkTyped
<1>4. /\ \A u \in Users : work'[r][u] = over
      /\ \A s \in Runs, u \in Users : s # r => work'[s][u] = work[s][u] /\ runs'[s] = runs[s]
    BY <1>1 DEF ServerStops, ToldInv, WorkTyped, HasTheLock
<1>5. ASSUME NEW s \in Runs, NEW u \in Users
      PROVE  IsInOrder(work'[s][u], known[u], u \in excused', runs'[s], outlived = {})
  <2>1. CASE s = r
      BY <2>1, <1>2, <1>4 DEF IsInOrder, IsTelling, IsSearching
  <2>2. CASE s # r
    <3>1. IsInOrder(work[s][u], known[u], u \in excused, runs[s], outlived = {})
        BY Unpacked
    <3>2. IsInOrder(work[s][u], known[u], u \in excused', runs[s], outlived = {})
        BY <3>1, <1>1 DEF IsInOrder
    <3>3. QED
        BY <2>2, <3>2, <1>4
  <2>3. QED
      BY <2>1, <2>2
<1>6. InOrder'
    BY <1>1, <1>5 DEF InOrder
<1>7. \A u \in Users : u \notin excused' => Pending(work[r][u]) = {}
  <2> SUFFICES ASSUME NEW u \in Users, u \notin excused' PROVE Pending(work[r][u]) = {}
      OBVIOUS
  <2>1. ~IsWorking(work[r][u]) /\ u \notin excused
      BY <1>1
  <2>2. ~IsTelling(work[r][u])
      BY <2>1, Unpacked DEF IsWorking, IsReturned, IsTelling, IsInOrder
  <2>3. QED
      BY <2>2, Unpacked DEF IsInOrder
<1>8. Reached'
    BY <1>1, <1>4, <1>7 DEF ToldInv, Reached
<1>9. Once'
    BY <1>1, <1>2, <1>4 DEF ToldInv, Once
<1>10. QED
    BY <1>3, <1>6, <1>8, <1>9

LEMMA LockAndRunTold ==
    ASSUME ToldInv, NEW r \in Runs,
           AcquireLock(r) \/ ListUsers(r) \/ FinishUsers(r) \/ ReleaseLock(r)
    PROVE  WorkTyped' /\ InOrder' /\ Reached' /\ Once'
<1>1. UNCHANGED newsVars /\ outlived \subseteq outlived'
    BY DEF AcquireLock, ListUsers, FinishUsers, ReleaseLock
<1>2. \A s \in Runs : runs[s] = "working" =>
          runs'[s] = "working" \/ \A u \in Users : ~IsSearching(work[s][u])
  <2>1. CASE FinishUsers(r)
      BY <2>1 DEF FinishUsers, EndsUsers, IsReturned, IsSearching, Goes, ToldInv, HasTheLock
  <2>2. CASE AcquireLock(r) \/ ListUsers(r) \/ ReleaseLock(r)
    <3>1. runs[r] # "working" /\ \A s \in Runs : s # r => runs'[s] = runs[s]
        BY <2>2 DEF AcquireLock, ListUsers, ReleaseLock, Goes, ToldInv, HasTheLock
    <3>2. QED
        BY <3>1
  <2>3. QED
      BY <2>1, <2>2
<1>3. published' \in SUBSET Releases
    BY <1>1 DEF newsVars, ToldInv, WorkTyped
<1>4. QED
    BY <1>1, <1>2, <1>3, RunStep DEF newsVars

-----------------------------------------------------------------------------

LEMMA ToldStep == ToldInv /\ [Next]_vars => ToldInv'
<1> SUFFICES ASSUME ToldInv, [Next]_vars PROVE ToldInv'
    OBVIOUS
<1>1. HasTheLock'
    BY HasTheLockStep DEF ToldInv
<1>2. ASSUME NEW r \in Runs, NEW u \in Users,
             \/ BeginUser(r, u) \/ EndSearch(r, u) \/ Address(r, u)
             \/ BeginMessage(r, u) \/ EndMessage(r, u) \/ SendData(r, u)
      PROVE  WorkTyped' /\ InOrder' /\ Reached' /\ Once'
    BY <1>2, BeginUserTold, EndSearchTold, AddressTold, BeginMessageTold, EndMessageTold, SendDataTold
<1>3. ASSUME NEW r \in Runs,
             \/ AcquireLock(r) \/ ListUsers(r) \/ FinishUsers(r) \/ ReleaseLock(r)
             \/ ServerStops(r)
      PROVE  WorkTyped' /\ InOrder' /\ Reached' /\ Once'
    BY <1>3, LockAndRunTold, ServerStopsTold
<1>4. ASSUME LockExpires \/ Publish \/ UNCHANGED vars
      PROVE  WorkTyped' /\ InOrder' /\ Reached' /\ Once'
  <2>1. /\ UNCHANGED <<runs, work, known, told, resent, excused>>
        /\ published' \in SUBSET Releases /\ outlived \subseteq outlived'
      BY <1>4 DEF LockExpires, Publish, newsVars, vars, ToldInv, WorkTyped
  <2>2. QED
      BY <2>1, RunStep
<1>5. QED
    BY <1>1, <1>2, <1>3, <1>4 DEF Next, ToldInv

\* However many runs overlap, stop and fail, no search of one swallows news that
\* another user, run or request does not excuse; and no run that lives within its
\* lock tells it by a second message or more often than the sidecar tries one
\* (newReleaseNotificationRunner.ts, pushNotificationDelivery.ts, resiliency.yaml).
THEOREM ToldByOne == Spec => []ToldByOneMessage
<1>1. ASSUME ToldInv PROVE ToldByOneMessage
  <2>1. ASSUME NEW u \in Users, NEW x \in Releases, outlived = {}
        PROVE  told[u][x] <= 1 + resent[u][x] /\ resent[u][x] <= ProviderRetries
      BY <1>1, <2>1 DEF ToldInv, Once
  <2>2. ASSUME NEW u \in Users, NEW x \in Releases, NEW r \in Runs, x \in Pending(work[r][u])
        PROVE  IsToTell(u, x)
      BY <1>1, <2>2, Unpacked DEF IsToTell, IsInOrder, IsTelling, Pending
  <2>3. QED
      BY <1>1, <2>1, <2>2 DEF ToldByOneMessage, ToldInv, Reached
<1>2. QED
    BY <1>1, ToldInit, ToldStep, PTL DEF Spec
=============================================================================
