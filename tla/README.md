# Pawify in TLA+

Pawify is the server of a music release tracker: clients follow artists, read
release data, have covers, lyrics and images fetched in the background and are
notified of new releases. It is one Node process with in-memory state (tasks,
deduplicated reads, rate limiters) in front of Firestore, the Firebase realtime
database, a Dapr state store and third-party APIs. This directory models the
parts in which steps of several requests, timers and workers interleave, checks
them with TLC and proves the safety properties with TLAPS.

Paths below are relative to `src/src/` of the repository checkout.

## Inventory

| Component | State | Operations | Hard behaviour | What makes it correct |
|---|---|---|---|---|
| Task runtime (`services/tasks`, `services/backgroundTaskWorkers.ts`) | maps of tasks, sessions, active and recent dedupe keys; a queue with a slot counter | queue a chunked task, start / settle / time out a page, complete a task and its parent, release a slot, cleanup pass, poll | requests between a page settling and its slot's release; expiry of queued tasks; retention of parents and subtasks | no page or subtask lost or counted twice; slots used and not exceeded; dedupe maps lead to the right task; answers never regress; every task ends and is forgotten |
| Request deduper (`common/request/requestDeduper.ts`) | recent results, calls in flight, key generations | run, invalidate, cleanup, promise continuations | reads that overlap writes and their invalidation | nobody joins or is served a read that a write flow invalidated |
| Provider rate limiter (`services/musicApi/rateLimiter.ts`) | queue, counter, flag, one timer, backoff deadline | acquire, release, setBackoff, processQueue | one timer with four users; late timers; answers out of order | order, limit, spacing and backoff kept; nobody waits for ever |
| Provider client (`services/musicApi/httpClient.ts`) | two counters of foreground requests | fetch with priority and abort | background requests look at the foreground before they wait for their own slot | every counter and slot is given back; background yields |
| Progress notifier (`services/tasks/taskCompletionNotifier.ts`) | per task: time of the last message, a pending one, a timer | progress, completed, failed | a parent's last progress is handled before its completion; throttled message against final one | nothing about a task after its final message; state is dropped |
| Push token store (`services/firebase/pushTokenStore.ts`, `pushTokenAssignments.ts`) | three indexes: token to device, device to token, user to devices | save, delete device / tokens / user, read | multi-step cleanup after an atomic update, concurrent saves | a registered device stays reachable, by its last user only |
| Cache (`services/cacheService.ts`, `services/cache/`) | values in Dapr state, whole or in chunks | get, replace, delete | a write deletes before it saves; metadata and chunks are read in several calls | a reader gets one written value or none |
| Asset workers (`services/coverArt*`, `services/tasks/workers/`) | cached records that lookups read, extend and write back as a whole | cover, lyrics and image lookups, fallbacks between groups and releases | lookups of one record beside each other, providers that do not answer, time-outs | a transient failure is not taken for a miss; a found asset is not forgotten |
| Asset planners (`services/backgroundAssets/`, `services/cache/partitionCachedAssets.ts`, `releaseTaskQueue.ts`) | none | split requested assets into cached and pending, cut them into pages, queue them | the pending set changes between requests that share a dedupe key; two contracts | everything asked for is resolved or pending |
| Release caches (`utils/helpers/cacheUpdateHelpers.ts` and others) | cached pages of releases | update after a removal or a refetch | the read-modify-write of the asset workers | - |
| Following and known releases (`services/firebase/followingStore.ts`, `artistStore.ts`, `knownReleasesStore.ts`) | Firestore documents with whole-map values | follow, unfollow, refresh summaries, merge known releases | read-modify-write of a whole map | an unfollowed artist stays unfollowed |
| New releases (`services/firebase/newReleasesStore.ts`, `utils/helpers/newReleaseHelpers.ts`, `services/musicbrainz/newReleaseDetection.ts`) | stored new releases, known release ids | detect, store, remove | known ids written before the release is stored and notified | no release is notified a second time by another message |
| Notification run (`services/notifications/newReleaseNotificationRunner.ts`, `services/firebase/notificationRunLockStore.ts`) | a Dapr lock with a time to live | run, per-user delivery, receipts | a run longer than its lock; errors in one user's delivery | one run at a time, every user tried |
| Account and password reset (`services/account/`, `services/firebase/userStore.ts`, `features/auth/`) | OTP document, user documents | send and verify OTP, delete account | attempts counted after an await; partial deletion | attempts are bounded; nothing of a deleted account is left |
| MusicBrainz catalog (`services/musicbrainz/`, `infrastructure/musicbrainz/`) | cached release lists | queries, pagination, mapping | partial pages | a cached list is complete |
| HTTP layer, settings, health, logging, Sentry, Dapr and Firebase clients, email, configuration | none of their own, or one document | request validation and forwarding | none | - |

How they interact: a route calls a use case; reads go through the request
deduper; the use case asks an asset planner, which looks into the cache and queues
the rest in the task runtime; the runtime's workers call providers through the
client and its rate limiters and write the cache; completions go to the progress
notifier, which reads push tokens. Write flows store first and invalidate the
deduper afterwards. A cron binding starts a notification run.

## Modules

| Module | What it is |
|---|---|
| `TaskRuntime` | the runtime, one action per handler |
| `TaskRuntimeProofs` | the queue, the registry of tasks and sessions, and the notifier |
| `TaskUpdates` | the progress notifier, composed with `TaskRuntime` (EXTENDS) |
| `MCTaskUpdates` | plans and symmetry for the two runs of tasks |
| `RequestDeduper` | the deduper with a versioned source |
| `MCRequestDeduper` | one key |
| `RequestDeduperProofs` | `DeduperSafe` and what follows from it |
| `Throttle` | what a rate limiter promises (abstract) |
| `RateLimiter` | the limiter with its timer and flag; `Abstract!Spec` is its refinement |
| `MCRateLimiter` | requests |
| `RateLimiterProofs` | safety and the refinement |
| `PushTokens` | the push token store, a step per database request |
| `MCPushTokens` | symmetry |
| `PushTokenProofs` | `RegistrationsAlwaysHold`, `RevokedAlwaysUnreachable`, `IndexesAlwaysAgree` |
| `ArtistLibrary` | one user's followed artists, known and new releases, settings; a step per database request |
| `MCArtistLibrary` | artists of the releases, editions, symmetry, the constraint |
| `LibraryInvariants` | the four invariants that the proofs about the library go by |
| `LibraryProofs` | `FollowingAlwaysAsWanted`, `KnownAlwaysHeard`, `DismissedAlwaysStaysAway`, `ShownAlwaysKnown`, `NewsAlwaysStored`, `RemovedAlwaysForAReason`, `NewsAlwaysNews` |
| `AssetStates` | what is cached of covers, lyrics and images, and the rules that read it (no behaviour) |
| `AssetLookups` | pages of background work: every lookup, a step per request |
| `BackgroundAssets` | the planners and the tasks they queue, composed with `AssetLookups` (EXTENDS) |
| `MCBackgroundAssets` | two groups, three releases, two tracks, an artist; the constraints |
| `AssetProofs` | `OnlyTheSureIsKept`, `FoundAlwaysKept`, `LegacyTasksAnswer`, `PagesAlwaysBounded` |
| `Account` | one account, its data and its reset code; a step per request |
| `MCAccount` | symmetry and the constraint |
| `AccountProofs` | `AccountTypeCorrect`, `NothingIsLeft`, `LiveAccountIsSafe`, `LockedOutOnlyByFailures`, `CodesAreSpent` |
| `NotificationRun` | runs over all users, the lock, the messages |
| `MCNotificationRun` | symmetry and the constraint |
| `NotificationRunProofs` | `RunsKeptApart`, `ToldByOne` |

Operators marked `FAULTY` in a comment are wrong variants of the definition that
follows them. No specification uses them; each shows that a property would notice
the mistake.

### TaskRuntime

JavaScript runs a handler until its first `await`, so one action is one such
stretch. `queueChunkedTask` has none: creating a parent, its subtasks, pushing all
pages and finalizing is one action, `StartTask`, and the three outcomes of
`resolveDedupeTask` are `JoinActiveTask`, `ReuseRecentTask` and `StartTask`. Each
begins with the cleanup pass, as `createTaskSessionRecord` does; the pass a poll
makes is `CleanupExpiredTasks`, since a poll changes nothing else. The pass itself
is written as the value each map is left in; the loop's order (a parent before its
subtasks, because `Map.entries()` follows insertion) is worked into the
definitions.

A page's worker settles in `PageAnswers`, `PageFails` or `PageTimesOut`: the
processor's last stretch together with the completion of the task and, through
`updateParentSubtaskCompletion`, of its parent. The `finally` of the queue's `run`
is a later continuation, `ReleaseSlot`. Between the two a request may run, with
the slot still counted.

Reduced: task ids are numbers in creation order; a result is only whether it
holds an undefined value (`undef`), which decides whether a finished task is
reused; `pagesReceived` equals `totalPages` outside a handler; notifications are
in `TaskUpdates` and logging is left out; `addTaskUser` is called by a use case for the user it has
just queued for, so it repeats a link that is already there.

`unmapped` is a history variable. A task that ends deletes the active mapping of its
dedupe key without looking whose it is (`deleteActiveDedupeTask`); the tasks that lose
theirs to another one's end while they are pending are kept there
(`UnmappedAfterCleanup`, and the end of `PageSettles`). `OnePendingTaskPerKey` says of
every other pending task that its key leads to it as long as it is no older than the
retention window, and that a second pending task of its key was created later than the
window after it: with the default settings (60 s retention, 5 min worker timeout) a task
may outlive the window, and `resolveDedupeTask` then starts the work again on purpose
("stale active dedupe task detected"). That deserves a reader's attention: once a task
has outlived its window and a second one was started beside it, the end of the first
takes the second one's mapping away, and the next request starts the same work a third
time although the second task is young. A task can become unmapped only in this way,
beside an older pending task of its key.

### TaskUpdates

Every action of `TaskRuntime` together with what the notifier does in the same
stretch: for each parent whose subtasks were counted, one progress report per
subtask (`ProgressStateAfter`), and for each task that ended, unless it is a
subtask, its final message (`IsAnnounced`, `StateAfterFinal`). `ProgressTimerFires`
is the timer of a report that had to wait; the clock stops at a timer that is due,
so timers are punctual here and late ones are not told apart. `told` records what
was sent about a task and to whom, and `joinedLate` who was handed a task that was
over by then. `FinalIsTrue` compares both with `task.userIds`: whoever can look a
finished task up was sent its final message or came late, never both. The order within a
request's handler matters here, since its own cleanup pass may end the very task it then
links its user to (`Receivers`, `JoinsLate`). A message counts as sent when it is handed to
`notificationPublisher`: the pushes themselves run in parallel and may reach the
phone in another order.

### AssetStates, AssetLookups and BackgroundAssets

A cached state is absent, the picture or text of an item, a miss or unknown, good
until some time or for ever; the picture of another item is a fallback (`MapState`,
`MapFallback`, `IsUsable`). A cache key holds a
record of such states: the covers of an artist's groups, of a group's releases, the
lyrics of a release. A lookup is one mapper call of a worker; an action is the
answer to one of its requests, to the cache or a provider, together with the code
up to the next one. `ReadsToWrite`, `DeletesRecord` and `SavesRecord` are the three
requests of a read-modify-write through `setCachedData`, which deletes before it
saves. A request to a provider finds, misses or does not know (`Answered`), and what
it does not know may exist. Pages time out (`TimesOut`): the lookups learn of it at
their next request and stop.

`BackgroundAssets` adds the planner: it reads the cache (`PartitionReads`), answers
what it has and queues the rest (v2, `createCacheFirstAssetPlanner`) or queues
everything (v1, `createLegacyAssetPlanner`), cut into pages (`Chunks`), under a key
that another request may join while the task is pending or recent (`IsShared`). The keys
of new releases and of artists name everything that is asked for; those of an artist's
covers, of a group's releases and of a release's lyrics name the artist, the group or
the release only (`NamesAll`, `Named`), so a client with another list joins them too.
Queueing, slots and retention are `TaskRuntime`'s; here pages just start, in any
order, and tasks are forgotten after they ended.

Two lookups that write the same record beside each other overwrite each other; no
lock prevents it. `intact` turns false at the first such write or failed one, and
`FoundIsKept` speaks of intact histories. What that leaves out, and what else the
properties are silent about, deserves a reader's attention:

- the release lookups of one batch (`coverArtService.ts`:157-204) read and write
  the whole record of their group each, so that of two that end together one is
  lost;
- a reader between the deletion and the save of a write sees no record and writes
  back one that holds its own item only; two updates of cached artist details from
  older copies overwrite each other in the same way;
- `getFallbackReleaseCover` stores misses of releases as confirmed although the
  group's own cover was only transiently unknown; they are what the provider said of
  the releases, so `NoFalseMiss` holds;
- a lyrics page of which one lookup fails writes nothing of the others;
- a client that joins a task is told to wait for it, although the task may not look
  everything up that this client asked for. `OnlyStaleIsLeftOut` says what is left out:
  of the keys that name no list, the items that the first client did not list; and,
  under the second contract, those that the first planner found in the cache and this
  one did not. The latter have run out since (the miss of a group also when a release
  belies it), could not be read now (a failed request, or a write that had deleted and
  not yet saved), or may have been written over (`MayBeLost`). In `background_assets`
  occur: an item that is not listed, one that ran out and one that was being written.
  The others do not meet a client that joins within its bounds; random simulation of a
  larger instance (4 pages, 3 ticks, 2 failures) showed failed reads and records written
  over and no violation;
- a planner's reads do not interleave with those of another planner (`request` is one
  client at a time), only with pages at work. Two planners that both queue would add
  tasks of other keys, or join as a later client does;
- `artistProfileImageTaskWorker.ts`:334-337 rewrites a cached image that lacks the
  fields of the present form. The cache of the model is empty at first and every writer
  of this version stores the present form, so no record it could rewrite exists;
- `HasUnknown`: a failed task whose result holds no undefined value is handed out
  as a recent one.

### RequestDeduper

A source is a version number that `Write` increases and `Invalidate` catches up
with, in that order and in two steps, as the write flows do (`followArtist.ts`,
`unfollowArtists.ts`, `authUseCases.ts`). `StartCall` is the synchronous part of
`run`; `ReadSource` the moment the worker's read takes effect; `Resolve` the
`then`, `Settle` the `finally`, which is a later continuation. Serving a recent
result or joining a call changes only what the cleanup pass changes, so it is
`CleanupExpiredResults`. A worker may take longer than the in-flight age
(`MaxWorkerTime` is a bound of the instance only), after which readers no longer join
its call and the next one replaces it in the map. Two history variables: `purged`, the
calls whose key's generation entry was dropped while they ran, and `replaced`, those in
whose place a newer call of the key was entered while they ran.

### RateLimiter and Throttle

The code compares only differences of `Date.now()`, so the model keeps the ticks
until the timer is due, since the last dispatch and until the backoff ends, and
needs no bound on the clock. A timer may fire late (`Tick` does not wait for it).
`holders` are the requests between the grant and the `finally` of
`fetchDaprProvider`. `Throttle` knows no timer, flag or counter: it says in which
order, how many at a time, how far apart and when grants may happen. The
refinement maps the limiter's queue to the waiting sequence.

### PushTokens

Three indexes and, per caller, the requests under way (`pending`), so that what
`Promise.all` starts together runs together and what is awaited one by one runs in
order. `Matches` and `Removes` are the three `remove...IfMatches` transactions,
`Update` the multi-path write with the cleanups it starts, `GoesOn` the loop of
`getPushTokensFromDb`. Any request may fail (`Fails`, `UpdateFails`,
`DeleteUserFails`): requests beside it go on, what would follow does not happen.
A failed update may have been made.

What a call achieves is followed for one arbitrary registration, `watched` (a
history variable chosen at the start, so a symmetric one stands for all): a save
or delete *claims* it, loses the claim when a call that touches the same starts
before it ends, and otherwise `promised` remembers it until a later call touches
it. `calm` says that no two calls touched the same at the same time and nothing
failed.

Two orders are excluded from `RegistrationsHold` because the code does not promise
them, and they deserve a reader's attention. A read that finds an old index entry
of the user stale, then sees the same device and token saved again, removes the
new entry (the value is the same): the device is unreachable until it registers
again, although its save succeeded. And a cleanup of an earlier save of a device
or token that is moved back at the same time may remove the entry of the newer
one, whose value equals the expected one.

### ArtistLibrary

Four documents of one user and, around them, the catalogue of MusicBrainz, which
changes at any time. A caller's call has pieces of work that run in parallel
(`mapWithConcurrency`), each with its next request (`do`) and what it read so far;
an action is the answer to one request together with the code up to the next one.
`GoesOn` is what follows when all pieces of a stage are done. The operations
are named after the use cases: `follow`, `unfollow`, `details`
(`getArtistDetails`, which removes a missing artist), `refresh` (`getFollowing`),
`detect` (`getNewReleases` with the notification), `dismiss`
(`removeNewReleases`), `verify` (`verifyReleaseExistence`) and `settings`.
Following and new releases are written whole over what was read
(`WriteFollowing`, `WriteNewReleases`), except that a search merges what it found;
known releases are paths that are set, merged or removed one by one.

Reduced: releases are numbers in the order `localeCompare` gives their ids; the
editions that `isDuplicateRelease` recognizes are a constant; settings tell apart
whether old releases count; a list of an artist's releases is a subset of the
catalogue when it comes from the cache or breaks off, and complete otherwise. A
failed request changes nothing; it may in truth have been carried out. Pushing to
the phones itself is one step, `Tells`.

History variables state what the user knows of: `familiar` (was there when an
artist was followed or the settings were changed, or was told), `heard` (the same,
never taken back), `dismissed`, `wanted`. The code promises little to calls that
overwrite each other, and the properties do not either: `intact` turns false when
a document is written over a stale copy, when two calls that rewrite the same run
at once, or when a change of settings fails; `listed` when a list was incomplete
or a shown release had vanished from it. `IsIntact` and
`IsUnderWay` are constraints that leave out what follows, the second one after
the calls that are under way have ended. What they leave out deserves a reader's
attention, since no lock and no transaction prevents it:

- two artists' prunings in one search, or a pruning and a dismissal, write the
  list of new releases back over each other;
- two missing artists found by one refresh are removed at the same time and the
  second write of the list brings the first one back;
- an artist unfollowed during a search comes back with the search's write of the
  list, and so do its known releases;
- a rebuild that fails leaves known releases that fit neither settings;
- an artist followed again, or a rebuild, while a shown release is gone from the
  catalogue leaves the release on the list with no entry that could remove it;
- a search that fails after its first write has made releases known that the user
  is never told of, since the next search finds them known: `KnownWasHeard`
  speaks of histories without failed requests only, and so does
  `RemovedForAReason`, since such a search may also fail to put a release back on
  the list that another artist's pruning removes.

### Account

One account, what the server keeps for it and the document of its reset code. A
call is a process, an action one request to Auth, Firestore, the realtime database
or the mail service, with the code up to the next one. Any request may fail, and
one that failed may have been carried out (`Fails`). The deletion is
`RevokeRefreshTokens`, `DisableUser`, four times `CleanupStep`, and then
`DeleteUser` or, after any failure, `ReEnableUser` up to `ReEnableAttempts` times;
an account found gone at one of the first two is only cleaned up
(`FindsAccountGone`). `verifyOtp` reads the document (`ReadReset`), decides
(`Verdict`) and then makes a token, deletes or counts. The owner's other calls are
reduced to one that is let in while the account is enabled and writes later
(`BeginUse`, `WriteData`). The four removals of the cleanup are one step each,
`deleteUserPushTokensFromDb` too, whose own requests are in `PushTokens`.

History variables say where the code promises nothing: `late` is data written by a
call that was let in before the deletion and writes during it, and stays behind;
`disableLost` is a disabling that was carried out but answered with a failure,
which leaves the account disabled with nothing removed; `raced` are codes that two
overlapping verifications were about, which may be tried more often than
`MAX_OTP_ATTEMPTS` or give two tokens; `shared` (in a deletion) says that another
deletion ran at the same time. Two such deletions deserve attention: when one fails
and enables the account again, the other goes on removing data of an account that
is then live, against the comment at `userStore.ts`:76.

### NotificationRun

Runs of `notifyNewReleases` on any server, the lock with its expiry, and per run
and user how far the run is: search, push tokens, one message per release (a pool
of `MessagesAtOnce`), the data message. `mapWithConcurrency` rejects at the first
error while other mappers go on: at the users' level errors are caught
(`IsReturned`), at the messages' level they are not, so the run gives the user up
(`failed`) while the remaining senders take more releases. A server may stop with a
run on it; the lock is then freed by its expiry only. The sidecar posts a
message again when the provider answers with an error or too late (`expoRetry` in
`src/dapr/components/resiliency.yaml`), which the program does not see: `EndMessage`
delivers a message any number of times up to `1 + ProviderRetries`, and the last answer
accepts it, rejects it in its ticket, after which the token may be removed and the run
goes on, or fails. `told` counts deliveries, `resent` those of them that the sidecar
repeated, `excused` the users with a failed request, without a device or with a rejected
message, `outlived` the runs that lost the lock to its expiry or took an unreadable
answer for it. `ToldByOneMessage` says that the program itself sends a release to a user
once: whatever a user gets more than once was repeated by the sidecar.

Left to a reader's attention: releases are known before they are told, so a failed
message, a rejected one or a stopped server loses the notification for good (`excused`);
a retry of the sidecar may deliver the same notification up to four times (`maxRetries`
is 3); an answer
of the lock service that cannot be parsed counts as the lock
(`daprLockStore.ts`:33); and the `return` in the `finally` of `notifyNewReleases`
swallows the error of a failed acquisition, so such a run ends without one.

## Runs

| Run | Instance | Shows |
|---|---|---|
| `task_calls` | 2 users, 1 key, plans of no page, of 1 page and of two chunks with 1 and 2 pages, 4 task ids, 1 slot, retention 1, orphan TTL 1, timeout 2, throttle 1, requests until 2, clock to 4 | counters, slots, sessions, dedupe maps, what a poll answers, who gets the final message |
| `task_updates` | 1 user, 2 keys, plans of 1 page and of 4 chunks, 5 ids, 1 slot, retention 1, orphan TTL 0, timeout 1, throttle 1, requests at time 0, clock to 6 | progress and final messages; under fairness every task is answered, also those that expire in the queue, then forgotten |
| `deduper_fresh` | 1 key, 3 calls, 2 writes, TTL and in-flight age 1, worker time 2, clock to 4 | fresh joins, stale values only after a purge or a replacement |
| `deduper_purge` | 1 key, 2 calls, 2 writes, TTL 2, clock to 4 | the first finding |
| `limiter` | 5 requests, 3 slots, spacing 2, backoffs 0, 2, 5, longest timer 3 | no stall, implements `Throttle`, every request granted |
| `push_disturbed` | 2 users, 2 devices, 2 tokens, 2 callers, any number of calls, of which 1 starts beside another or 1 request fails | registrations and removals last, indexes agree |
| `library_calls` | 2 artists, a joint release and one more, editions of one; 1 caller, any number of follows, unfollows, searches and changes of settings, 2 changes of the catalogue or one and a failed request | nothing told twice, swallowed, left behind or removed too early |
| `library_overlaps` | 2 artists, a joint release; 2 callers, any number of calls except changes of settings, 1 of which starts beside another; 1 change | what is found is on the list, what is dismissed stays away, the user follows what was asked for |
| `library_old_news` | 1 caller, follow and search, 1 change, 1 failed request | the second finding |
| `background_assets` | 2 groups, 3 releases, 2 tracks, 1 artist; 2 pages of up to 2 items, each kind of request by both contracts, lyrics with two lists; one of a tick, a failed request or time-out, a record written over | misses are misses, fallbacks provisional, what is found is kept, a shared task leaves out only what is stale or not listed |
| `account` | 2 calls at a time, 2 deletions, 4 failures, 3 attempts to take one back, 2 codes, 3 guesses | data and account go together, nobody is locked out by few failures, codes are spent |
| `notification_run` | 3 runs, 2 users, 2 releases, 1 user and 2 messages at a time, 1 retry of the sidecar, 2 failures or stops, any message rejected | one run at a time, every user told by one message |

Why the bounds are enough. Four task ids hold a composite with two subtasks and
one more task of the same key, so every interaction of the code (two tasks of a
key, parent and subtask, a task that waits for another's slot) occurs. Retention,
orphan TTL and timeout of one or two ticks make all orders of these deadlines
possible within the clock's bound. In `task_updates` a slot is held for one tick and the
orphan TTL is 0, so that queued subtasks and a queued single task expire while another
page has the slot. With four chunks one progress report is sent,
one waits and one replaces it. Keys of the deduper are independent except that one
prefix covers several, which only groups their invalidations; one key with three
calls has an overtaken call, the one that replaces it and a newer one, and worker time
beyond the in-flight age makes readers stop joining a call while it runs. Three slots and five
requests let a queue build up behind full slots and drain; the longest backoff
exceeds the longest timer, so the clamp is used. Two users, devices and tokens let
a device change its user and its token and a token its device in one history; calls
in sequence are not bounded, so an overlap or a failure happens after every history
of them. In the library a release by both artists and one by the first only give
every way in which two entries can share or not share a release; two changes of the
catalogue let a release appear, be replaced by another edition and vanish.

The three newer runs carry constraints of their MC module. `MCBackgroundAssets`:
what has no part in a request is left out of the instance (`OneScene`); at most two
lookups are at work and only on the same record, since others meet nowhere, and
only one of three disturbances happens, most of them with no second task after
them or with fewer pictures that exist (`FewThings`); a planner of anything but
lyrics is not interrupted, and nothing is followed any more once a client has joined a
task with another list or found other things cached than its planner (`PlansAtOnce`);
a third client, of covers, asks after the clock has moved (`ThirdAsksLate`). `MCAccount`: more than two failures meet
deletions only, and a second code meets no deletion (`OneScene`); four failures are
one more than the rollback takes. `MCNotificationRun`: a third run is there to find
the lock taken, freed or freed wrongly, when nothing is published; two releases,
which fill the pool of senders, meet rejected messages but no failed request and no run
that outlived its lock; and the sidecar repeats one message of one user.

`CHECK_DEADLOCK FALSE` stands where a bounded clock, bounded ids or runs that happen
once end a behaviour. The limiter, the push tokens, the library and the account have
no such bound on what can still happen and their deadlock is checked.

### Fairness

`TaskRuntime` and `TaskUpdates`: a running job's timeout, the release of a slot, the
cleanup interval (`setInterval` in `startCleanup`), the timers of waiting progress
reports and the clock are weakly fair. Workers need not answer and nobody has to
send a request. `RateLimiter`: the timer fires, time passes, and a request that
holds a slot ends some time (the `finally` of `fetchDaprProvider`; the HTTP call is
assumed to end). Nothing is assumed of callers. The other modules state safety only:
their requests may fail and their servers stop at any time.

## Findings

`cleanupExpiredResults` drops a key's generation entry when the entry is older
than the TTL, whatever calls are in flight. `deduper_purge`: the key was once
invalidated (generation 1); a read starts and captures 1; the entry turns older
than the TTL and is dropped; a write commits and invalidates, which starts again
from 0 and gives 1; the read resolves, finds 1 = 1 and caches the value from
before the write for a full TTL. The comment above the code says that a stale
promise whose entry was purged "merely skips caching, never serves stale data".
The read needs no unusual latency, only to be in flight when the entry expires.
`StaleOnlyIfLostSight` shows that there is one other way only, which needs a slow
worker: a read that is older than the in-flight age is replaced in the map by a newer
call; when that one fails, its `finally` removes the key's entry, a write then finds
nothing of the key to invalidate, and the first read resolves and is cached.

`library_old_news`: `fetchAllReleaseIdsForArtist` takes a page that fails for the
end of the list. An artist followed at that moment is saved with no known
releases, and the next search tells of the whole catalogue as new. Lists of the
search itself (`fetchAllReleasesForArtist`) do not have this: there a failed page
ends in an error.

## Proofs

TLAPS proves, for every value of the constants that satisfies the named
assumptions:

- `TaskRuntimeProofs`: `QueueSafe` (`Spec => []QueueInv`). `QueueInv` is the type
  invariant with `SlotsUsed`, plus the finiteness of the sets of jobs that
  `Cardinality` needs and that no task beyond `created` exists. Each action is a
  step; `Pump` is a lemma, used by `StartTask` and `ReleaseSlot`. `TypeCorrect`
  and `SlotsUsedAlways` follow.
- The registry, in the same module: `TasksSafe` (`Spec => []TasksInv`), from which
  `PagesAlwaysAccounted`, `SubtasksAlwaysAccounted`, `ParentAlwaysSumsUp`,
  `MappingsAlwaysHold`, `OnePendingTask`, `NoReplyRegresses` and
  `SecondPassDoesNothing` follow. None of these is inductive alone. `TasksInv` adds
  that a session is there exactly while its task is pending and that a page waits or
  runs (`LiveInv`), that parents and subtasks name each other (`TreeInv`), what a
  session counts of its jobs (`LeafInv`) and of its subtasks (`ParentInv`), where the
  dedupe maps lead (`MapsInv`) and that a pending task
  which is not unmapped is the one its key leads to or older than the retention
  window, and was so when any later pending task of its key was created
  (`SharingInv`). Its parts are formulas about the four
  tables they relate, not about the variables, since most actions change the tables
  twice: a cleanup pass first, then the handler. One lemma says what each change
  makes of such tables, and an action's step composes two or three of them.
- The notifier, in the same module: `UpdatesImplementTasks` (every step of
  `TaskUpdates` is one of `TaskRuntime` or a stutter, so all of the above holds of it
  too), `FinalAlwaysTrue`, `ProgressAlwaysCatchesUp`, `NotifierAlwaysForgets` and the
  action property `NothingAfterTheFinal`. `IsToldOf` relates one task, what the
  notifier keeps of it and what was sent about it; what a step makes of one task, as
  far as its users are told, is its course (`CourseTo`), and a course keeps `IsToldOf`
  whatever action took it.
- `RequestDeduperProofs`: `DeduperSafe`, the inductive invariant `DeduperInv`: the
  types; `CallsInv`, that calls are numbered as they are made, have a value once they
  have read, and that no floor is ahead of its source; and `JoinersAreFresh`, which follows as `JoinersAlwaysFresh`.
  `StaleOnlyLostSight` adds `LiveAccounted`: a live call is the entry in flight, and then
  nothing was invalidated since it read, or its key's generation is past the one it
  captured, or it was purged or replaced. No assumption is made on how long a worker
  takes.
- `RateLimiterProofs`: `LimiterSafe`, `LimiterNeverStalls` and
  `LimiterImplementsThrottle`. The invariant ties the counter to the holders and
  the flag to the timer; with it each step is a step of `Throttle` or a stutter.
- `AccountProofs`: `AccountTypeCorrect`, `NothingIsLeft` and `LiveAccountIsSafe`,
  for any number of callers, failures, codes and deletions. `GoneLeavesNothing` is
  not inductive: `DeleteUser` needs to know that all four parts are settled
  (`Cleaned`), which grows with the steps of the cleanup and rests on nobody
  starting in the middle (`Fresh`). `Locked` says that an account whose deletion is
  alone is not enabled while it cleans up; it is kept by `ReEnableUser` of another
  call because two deletions know of each other (`Paired`). A step that is no
  deletion's preserves all of it because it leaves deletions alone and writes only
  what is late or settled already (`OtherStep`).
- `LockedOutOnlyByFailures`, in the same module over the same invariant:
  `IsPaid` counts: a deletion at its attempts to enable the account has behind it the
  failure that made it roll back and one for each attempt so far. `IsLocked`, a
  disabled account with few failures, has a deletion that will enable or delete it.
- `CodesAreSpent`, in the same module: for a code that is not `raced`, what the
  document counts, the tokens given, the misses and what the one verification under
  way read are tied together (`CodeSpent`, `OtpCalls`), so that the attempt limit and
  the single token follow from the document alone. The other calls only move on
  (`OtpGoesOn`) or remove the document (`ResetGoesOn`).
- `NotificationRunProofs`: `RunsKeptApart`, from `HasTheLock`: a run in progress
  that did not outlive the lock is the one the service has it for. The release names
  its owner, so it keeps that of every other run.
- `ToldByOne`, in the same module: that `ToldByOneMessage` always holds, for any number
  of retries of the sidecar. `Reached` and `Once` say that what an unexcused user knows is
  told or on some run's list; that no other list has a release that is on one, and
  nothing of it was delivered yet; and that the sidecar repeated what was delivered
  beyond once, the latter two unless a lock was outlived. They need `InOrder`: what a run has read
  is still all that the user knows while it searches. That holds because only a
  search adds to it, and `HasTheLock` leaves at most one run searching unless a lock
  was outlived. `WorkStep` carries all of it over any step of one run for one user
  that suits `NewsMoves`; each action is then shown to suit it.
- `PushTokenProofs`: `PushTokensStayTyped`, `RegistrationsAlwaysHold`,
  `RevokedAlwaysUnreachable` and `IndexesAlwaysAgree`, for any users, devices, tokens,
  callers, overlaps and failures. The indexes are taken as the sets of registrations
  that each of them names (`Held`): a step removes from them what its requests are
  about, and the update of a save adds one registration. `WatchedInv` says that
  against what is claimed or promised nobody else works; `CalmInv`, that an entry
  which not all indexes agree on is about to be removed by a request that is pending
  or will follow one (`Covers`), and what each call knows from its reads (`Agrees`).
- `AssetProofs`: `OnlyTheSureIsKept` (`WhatIsKeptIsSure`), for any items, times,
  pages and failures. A state goes through copies, misses and results of lookups
  before it is kept, so the invariant says how sure each of these is at the time it
  was read (`LookupsSure`); that does not depend on who writes beside it, which is why
  it holds of overlapping writes too.
- `LegacyTasksAnswer` and `PagesAlwaysBounded`, in the same module, for any requests,
  item limit and packing. The first is the part of `OnlyStaleIsLeftOut` that is about the
  first contract, where a task is queued for everything its client lists: the task a
  client is given looks up all it asked for, but for items that the key does not name and
  the first client did not list. `Packed` says that chunks hold what is asked for, each item
  once and none beyond the limit. `ChunksArePacked` shows it of whatever the planner
  cuts and packs: `FilledChunks` goes over the pieces a chunk list is filled from,
  `FlatChunks` over the groups they come from. Both are inductions, over sets of
  numbers: `Induction` follows from the well-foundedness of the naturals, and
  `FoldedChunks` and `FlattenedSeqs` unfold the folds of the community modules into the
  chain of values they go through. `PlansHold` is what holds of every state: the pages
  of a task share out its items and stay the chunks it was queued with (`PagesShare`), a
  task answers for its key (`TasksAnswer`), and who is told of a task is told of one with
  that key (`RequestHasTask`). A page becomes complete only once all its lookups are
  done, also if its time ran out on the way (`PageGoesOn`).
- `FoundAlwaysKept`, in the same module, for any number of pages and lookups at
  once. A page and each of its lookups is a hand that may hold a copy of a record
  (`Hands`). As long as no record was written over, a hand lacks nothing that is
  cached, and one that is writing is alone with what it writes (`HandsHold`); so what is
  cached or in a writing hand is never lost (`SafeItems` only grows). There are four
  kinds of steps: a hand reads, deletes, saves or does neither, with one lemma for each
  (`ReadHands`, `DeleteHands`, `SaveHands`, `QuietHands`). `PageKept` says in whose hand the
  result of a lookup is until it is safe. An artist's image is the exception: it is
  written without being read, so two hands may hold it, but none of them without a value.
- `LibraryProofs`: `LibraryHolds` (`LibraryInv`), `FollowingAlwaysAsWanted`,
  `KnownAlwaysHeard` and `DismissedAlwaysStaysAway`, for any artists, releases,
  editions, callers and changes of the catalogue. The shape of a call says which
  requests an operation may have under way at each stage (`Shaped`). As long as nothing was
  spoiled (`intact`), one call at a time rewrites the library, so the list of followed
  artists differs from what was asked for only by what that call is removing or adding
  (`FollowInv`), and a release that is known and not heard of is one that a search has yet
  to tell of (`HeardInv`). Most answers are plain in these respects; the lemmas about
  the few that do more say what they do to the tables.
- `ShownAlwaysKnown`, in the same module on top of `LibraryInv`: what is shown and no
  longer kept by a followed artist is what the one call that rewrites the library is
  going to take off the list (`Sole`), and without such a call there is nothing of the
  kind (`Quiet`). The case that is hard is a refresh that removes several artists at
  once, each piece of work with its own stale copy of the followed artists: of two of
  them one was taken off the list first and is in the other's copy (`Nested`), so a
  release that only removed artists know is taken off by one that was not in the others'
  copies (`LaterOf`). A search and a change of settings prune what they no longer
  list, and each release they drop is either kept by another artist or pruned by a piece
  of work still pending (`WillLeave`). `listed` is needed because a list that ended early
  drops a shown release from what is known and nobody removes it.
- `NewsAlwaysStored` and `RemovedAlwaysForAReason`, on top of `LibraryInv` and without
  any condition on failures of the former: what a search found is about to be stored by
  a piece of its work, or it is known and on the list, or the user dismissed it
  meanwhile (`SearchKeeps`). The hard case is a release that one artist's search finds
  while another artist's prunes it from a copy of the list read before; a piece may only
  take off what is no news of its search and known to nobody, or what goes back anyway
  (`PieceSearches`). What a removal leaves out of the list is known to none that is still
  followed (`Forgets`), and what a dismissal or the removal of a release that is gone
  takes off was asked for (`AskedFor`).
- `NewsAlwaysNews`, on top of both: a followed artist knows whatever the user is
  familiar with of its releases, but for what the settings leave out, unless a change of
  settings is just rebuilding it (`KnownOrRebuilt`). So what a search compares the
  catalogue with lacks nothing the user is familiar with (`FamiliarSearch`), and what it
  finds for one artist reaches the others before it ends, or it is not told
  (`MergesKnown` in the stage "merge"). `listed` is needed: a list that ended early makes
  less known than there was when the artist was followed.

Constants are assumed to be what the modules declare: bounds are natural numbers, the
kinds of items of `AssetStates` are disjoint, `None` of `PushTokens` is no user, device,
token or registration.

A client's request is assumed to name finitely many items (`RequestsAssumption`); the
proof about chunks needs the size of what it cuts.

Only model-checked: the liveness properties `EveryTaskAnswered` and
`EveryTaskForgotten` of `TaskUpdates` and `EveryRequestGranted` of `RateLimiter`, which
need fairness and `ENABLED` and are beyond the prover; and, of the second contract,
`OnlyStaleIsLeftOut`: what a planner found in the cache is still there later unless it
has run out or was written over, which is an invariant about whole histories of copies
like that of `FoundAlwaysKept` and is not proved. Every other safety and action property
of a passing run has a theorem.

## Not modelled, and the plan

What a continuation would take first: the proof of `OnlyStaleIsLeftOut`, planners that
overlap, and the chunks of a cached value, read and written piece by piece.

Not modelled, and why:

- `httpClient.ts` beyond its slot of the limiter: background requests look at the
  foreground's counters before they wait, and nothing promises that the two kinds
  never run together. Parsing, aborts and retries end a request or do not.
- Push receipts: they come minutes after the run and at most remove tokens, which
  `PushTokens` allows at any time.
- Release caches, the MusicBrainz catalog and release use cases: pass-through,
  paging and mapping; what a broken-off list does is in `ArtistLibrary`.
- Sign-in, sign-up, changes of the mail address: one call to Auth each.
- HTTP routing, validation, logging, Sentry, configuration and the clients of Dapr,
  Firebase and email: no state of their own.
