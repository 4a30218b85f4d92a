-------------------------- MODULE NotificationRun --------------------------
(***************************************************************************)
(* Runs that look for new releases of every user and tell them             *)
(* (newReleaseNotificationRunner.ts), the lock of the lock service that    *)
(* keeps two of them apart (notificationRunLockStore.ts, daprLockStore.ts) *)
(* and the sending of the messages (pushNotificationDelivery.ts).          *)
(*                                                                         *)
(* A run works on some users at a time; for each it searches, reads the    *)
(* push tokens and sends one message per release and one that carries data *)
(* only.  A server may stop with a run on it.  The search is ArtistLibrary *)
(* in brief: it reads what is known, and what it returns is known then.    *)
(***************************************************************************)
EXTENDS Naturals, FiniteSets

CONSTANTS Runs, Users, Releases,
          UsersAtOnce,          \* newReleaseNotificationUserConcurrency
          MessagesAtOnce,       \* userVisibleNotificationConcurrency
          ProviderRetries,      \* expoRetry.maxRetries of the sidecar (resiliency.yaml)
          MaxFailures,          \* bound on failing requests and stopping servers
          NoRun

ASSUME NotificationAssumption ==
    /\ IsFiniteSet(Users) /\ IsFiniteSet(Releases) /\ NoRun \notin Runs
    /\ UsersAtOnce \in Nat \ {0} /\ MessagesAtOnce \in Nat \ {0} /\ MaxFailures \in Nat
    /\ ProviderRetries \in Nat

VARIABLES
    lock,        \* the run the lock service has the lock for, or NoRun
    runs,        \* per run, how far it is
    work,        \* per run and user, how far the run is with the user
    published,   \* the releases there are
    known,       \* per user, the releases that were found by a search
    tokens,      \* per user: "good", "malformed" or "none", the push tokens stored
    failures,
    told,        \* ghost: per user and release, how often the user was told of it
    resent,      \* ghost: of these, the times the sidecar repeated a message it had delivered
    outlived,    \* ghost: the runs that lost the lock to its expiry or never had it
    excused      \* ghost: users not told because they have no device, their message was
                 \* rejected or a request failed

vars == <<lock, runs, work, published, known, tokens, failures, told, resent, outlived, excused>>

NotBegun == [at |-> "waiting", seen |-> {}, todo |-> {}, sending |-> {},
             senders |-> 0, failed |-> FALSE]

Init ==
    /\ lock = NoRun /\ runs = [r \in Runs |-> "idle"]
    /\ work = [r \in Runs |-> [u \in Users |-> NotBegun]]
    /\ published = {} /\ known = [u \in Users |-> {}]
    /\ tokens \in [Users -> {"good", "malformed", "none"}]
    /\ failures = 0 /\ outlived = {} /\ excused = {}
    /\ told = [u \in Users |-> [x \in Releases |-> 0]] /\ resent = told

Fails == failures < MaxFailures /\ failures' = failures + 1
Succeeds == UNCHANGED failures

InProgress(r) == runs[r] \in {"listing", "working", "releasing"}

Goes(r, at) == runs' = [runs EXCEPT ![r] = at]

newsVars == <<work, published, known, tokens, told, resent, excused>>

-----------------------------------------------------------------------------
(* The lock.                                                               *)

\* tryAcquireDaprLock: a conflict skips the run and a failure ends it, even one
\* that got the lock; an answer that cannot be parsed counts as the lock.
AcquireLock(r) ==
    /\ runs[r] = "idle"
    /\ \/ lock = NoRun /\ lock' = r /\ Succeeds /\ Goes(r, "listing") /\ UNCHANGED outlived
       \/ lock # NoRun /\ Succeeds /\ Goes(r, "over") /\ UNCHANGED <<lock, outlived>>
       \/ /\ Fails /\ Goes(r, "over") /\ UNCHANGED outlived
          /\ UNCHANGED lock \/ (lock = NoRun /\ lock' = r)
       \/ lock # NoRun /\ Fails /\ Goes(r, "listing") /\ outlived' = outlived \cup {r} /\ UNCHANGED lock
    /\ UNCHANGED newsVars

\* The time the lock was taken for runs out.
LockExpires ==
    /\ lock # NoRun /\ lock' = NoRun
    /\ outlived' = IF InProgress(lock) THEN outlived \cup {lock} ELSE outlived
    /\ UNCHANGED <<runs, failures, newsVars>>

\* FAULTY: whoever's lock it is.
UnlockedAnyway(r) == NoRun

\* The service frees the lock of this owner only.
Unlocked(r) == IF lock = r THEN NoRun ELSE lock

\* releaseNotifyNewReleasesLock, whose failure is logged.
ReleaseLock(r) ==
    /\ runs[r] = "releasing" /\ Goes(r, "over")
    /\ \/ lock' = Unlocked(r) /\ Succeeds
       \/ lock' \in {lock, Unlocked(r)} /\ Fails
    /\ UNCHANGED <<outlived, newsVars>>

-----------------------------------------------------------------------------
(* The run and its users.                                                  *)

\* getAllUsers; a failure ends the run, which gives the lock back.
ListUsers(r) ==
    /\ runs[r] = "listing"
    /\ (Succeeds /\ Goes(r, "working")) \/ (Fails /\ Goes(r, "releasing"))
    /\ UNCHANGED <<lock, outlived, newsVars>>

\* The call for this user returned to the run, with an error or without one.
IsReturned(w) == w.failed \/ w.at = "done"
IsWorking(w) == w.at # "waiting" /\ ~IsReturned(w)

\* FAULTY: the first error ends the run.
EndsUsersOrFails(r) ==
    \/ \A u \in Users : IsReturned(work[r][u])
    \/ \E u \in Users : work[r][u].failed

\* Errors of a user are caught: the next one's turn comes all the same.
EndsUsers(r) == \A u \in Users : IsReturned(work[r][u])

FinishUsers(r) ==
    /\ runs[r] = "working" /\ EndsUsers(r)
    /\ Goes(r, "releasing")
    /\ UNCHANGED <<lock, failures, outlived, newsVars>>

\* A server stops; what it was doing, messages too, does not go on.
ServerStops(r) ==
    /\ InProgress(r) /\ Fails
    /\ Goes(r, "over")
    /\ excused' = excused \cup {u \in Users : IsWorking(work[r][u]) \/ work[r][u].sending # {}}
    /\ work' = [work EXCEPT ![r] = [u \in Users |-> [NotBegun EXCEPT !.at = "done"]]]
    /\ UNCHANGED <<lock, published, known, tokens, told, resent, outlived>>

Does(r, u, w) == work' = [work EXCEPT ![r][u] = w]

\* notifyUserAboutNewReleases returns without a delivery.
FailsFor(r, u, w) ==
    /\ Fails /\ Does(r, u, [w EXCEPT !.failed = TRUE])
    /\ excused' = excused \cup {u}

\* getNewReleases reads what the user knows ...
BeginUser(r, u) ==
    /\ runs[r] = "working" /\ work[r][u].at = "waiting" /\ ~work[r][u].failed
    /\ Cardinality({x \in Users : IsWorking(work[r][x])}) < UsersAtOnce
    /\ LET w == [work[r][u] EXCEPT !.at = "searching", !.seen = known[u]]
       IN \/ Succeeds /\ Does(r, u, w) /\ UNCHANGED excused
          \/ FailsFor(r, u, w)
    /\ UNCHANGED <<lock, runs, published, known, tokens, told, resent, outlived>>

\* ... fetches what there is and makes it known.  When that fails some of it is
\* known and the news is not returned.
EndSearch(r, u) ==
    /\ work[r][u].at = "searching" /\ ~work[r][u].failed
    /\ LET w == work[r][u]
           news == published \ w.seen
       IN \/ /\ known' = [known EXCEPT ![u] = @ \cup published] /\ Succeeds
             /\ Does(r, u, [w EXCEPT !.at = IF news = {} THEN "done" ELSE "addressing", !.todo = news])
             /\ UNCHANGED excused
          \/ /\ \E some \in SUBSET news : known' = [known EXCEPT ![u] = @ \cup some]
             /\ FailsFor(r, u, w)
    /\ UNCHANGED <<lock, runs, published, tokens, told, resent, outlived>>

\* getValidPushTokens reads the tokens and removes the malformed ones first.
Address(r, u) ==
    /\ work[r][u].at = "addressing" /\ ~work[r][u].failed
    /\ LET w == work[r][u]
       IN \/ /\ tokens[u] = "good" /\ Succeeds /\ UNCHANGED <<tokens, excused>>
             /\ Does(r, u, [w EXCEPT !.at = "telling", !.senders = MessagesAtOnce])
          \/ /\ tokens[u] # "good" /\ Succeeds /\ tokens' = [tokens EXCEPT ![u] = "none"]
             /\ Does(r, u, [w EXCEPT !.at = "done", !.todo = {}])
             /\ excused' = excused \cup {u}
          \/ FailsFor(r, u, w) /\ UNCHANGED tokens
    /\ UNCHANGED <<lock, runs, published, known, told, resent, outlived>>

\* A sender of the pool takes the next release, also when another one has failed
\* and the user is given up by the run.
BeginMessage(r, u) ==
    /\ work[r][u].at = "telling"
    /\ Cardinality(work[r][u].sending) < work[r][u].senders
    /\ \E x \in work[r][u].todo :
          Does(r, u, [work[r][u] EXCEPT !.todo = @ \ {x}, !.sending = @ \cup {x}])
    /\ UNCHANGED <<lock, runs, published, known, tokens, failures, told, resent, outlived, excused>>

\* The sidecar posts a message again when the provider answers with an error or too
\* late, and the program sees the last answer only: every one of the 1 +
\* ProviderRetries attempts may have told the user.
Delivers(u, x, n) ==
    /\ told' = [told EXCEPT ![u][x] = @ + n]
    /\ resent' = [resent EXCEPT ![u][x] = @ + IF n > 0 THEN n - 1 ELSE 0]

\* A ticket that names a token as unusable has it removed.
TokensKeptOrRemoved(u) == {tokens, [tokens EXCEPT ![u] = "none"]}

\* sendPushNotificationToTokens: the last attempt is accepted, or its ticket rejects
\* the message and the token may be removed, or the request for one of the two fails.
EndMessage(r, u) ==
    /\ work[r][u].at = "telling"
    /\ \E x \in work[r][u].sending, n \in 0 .. 1 + ProviderRetries :
          LET w == [work[r][u] EXCEPT !.sending = @ \ {x}]
          IN /\ Delivers(u, x, n)
             /\ \/ n > 0 /\ Succeeds /\ Does(r, u, w) /\ UNCHANGED <<tokens, excused>>
                \/ /\ n <= ProviderRetries /\ Succeeds /\ Does(r, u, w)
                   /\ tokens' \in TokensKeptOrRemoved(u)
                   /\ excused' = excused \cup {u}
                \/ /\ FailsFor(r, u, [w EXCEPT !.senders = @ - 1])
                   /\ tokens' \in TokensKeptOrRemoved(u)
    /\ UNCHANGED <<lock, runs, published, known, outlived>>

\* The message that carries data only follows when all the others were sent.
SendData(r, u) ==
    /\ work[r][u].at = "telling" /\ ~work[r][u].failed
    /\ work[r][u].todo = {} /\ work[r][u].sending = {}
    /\ \/ Succeeds /\ Does(r, u, [work[r][u] EXCEPT !.at = "done"]) /\ UNCHANGED excused
       \/ FailsFor(r, u, work[r][u])
    /\ tokens' \in TokensKeptOrRemoved(u)
    /\ UNCHANGED <<lock, runs, published, known, told, resent, outlived>>

\* A release comes out that every user is to be told of.
Publish ==
    /\ \E x \in Releases \ published : published' = published \cup {x}
    /\ UNCHANGED <<lock, runs, work, known, tokens, failures, told, resent, outlived, excused>>

-----------------------------------------------------------------------------

Next ==
    \/ \E r \in Runs :
          \/ AcquireLock(r) \/ ListUsers(r) \/ FinishUsers(r) \/ ReleaseLock(r) \/ ServerStops(r)
          \/ \E u \in Users :
                \/ BeginUser(r, u) \/ EndSearch(r, u) \/ Address(r, u)
                \/ BeginMessage(r, u) \/ EndMessage(r, u) \/ SendData(r, u)
    \/ LockExpires \/ Publish

Spec == Init /\ [][Next]_vars

-----------------------------------------------------------------------------
(* Properties.                                                             *)

\* Two runs are in progress at a time only if one of them outlived the time of its
\* lock, or took an answer it could not read for the lock: neither a run that
\* ends late nor one whose server stopped frees the lock of another
\* (releaseDaprLock names the owner).
OneRunAtATime ==
    \A r, s \in Runs : r # s /\ InProgress(r) /\ InProgress(s) => {r, s} \cap outlived # {}

\* Some run is yet to tell the user.
IsToTell(u, x) ==
    \E r \in Runs : work[r][u].at \in {"addressing", "telling"}
                    /\ x \in work[r][u].todo \cup work[r][u].sending

\* A user is told of a release by one message, whichever run finds it and although
\* messages may go on after the run has given the user up; only a run that outlived
\* its lock adds another.  The user may get the message more than once all the same:
\* as often as the sidecar tries it again after an answer it takes for an error.
\* And no search makes a release known that the user is then not told of, but for
\* users without a device or with a rejected one and those for whom a request
\* failed: errors of one user cost no other user the news.
ToldByOneMessage ==
    \A u \in Users, x \in Releases :
        /\ outlived = {} => told[u][x] <= 1 + resent[u][x] /\ resent[u][x] <= ProviderRetries
        /\ x \in known[u] /\ u \notin excused => told[u][x] > 0 \/ IsToTell(u, x)
=============================================================================
