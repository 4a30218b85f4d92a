---------------------------- MODULE TaskRuntime ----------------------------
(***************************************************************************)
(* The in-memory background task runtime (src/src/services/tasks): the     *)
(* registry of tasks, sessions and dedupe maps, the bounded job queue, the *)
(* page processor with its timeout, the completion of leaf tasks and of    *)
(* composite parents, and the cleanup pass that expires orphans and drops  *)
(* results whose retention is over.                                        *)
(*                                                                         *)
(* JavaScript runs each handler to its first await, so one action is one   *)
(* uninterrupted stretch of code: a whole queueChunkedTask call (it has no *)
(* await), a page settling, the release of a queue slot in the promise     *)
(* continuation after it, one cleanup pass.  A request may run between a   *)
(* page settling and the slot release: both can be continuations of the    *)
(* same promise, as requests and workers share deduplicated reads.         *)
(*                                                                         *)
(* A Map entry that is missing is a record whose status is "absent" or     *)
(* whose open is FALSE.  Task ids are numbered in the order randomUUID     *)
(* hands them out, which is the order Map.entries() visits them in.        *)
(***************************************************************************)
EXTENDS Integers, Sequences, FiniteSets

CONSTANTS
    Users,              \* authenticated callers
    DedupeKeys,         \* trimmed, non-empty dedupe keys
    NoKey,              \* a session without one, as every subtask's
    Plans,              \* what a call may queue: plan[i] is the chunk of page i
    MaxTasks,           \* bound: task ids handed out in a behaviour
    MaxConcurrency,     \* backgroundTaskConfig.maxConcurrency
    ResultRetention,    \* resultRetentionMs, in clock ticks
    PendingOrphanTtl,   \* pendingOrphanTtlMs
    WorkerTimeout,      \* workerTimeoutMs
    LastRequestTime,    \* bound: no request after this tick
    MaxTime             \* bound: the clock stops here

\* A plan lists its pages in submission order: chunks are numbered from 1,
\* each has a page, and all pages of a chunk come before those of the next.
IsPlan(plan) ==
    /\ plan \in Seq(Nat \ {0})
    /\ \A i, j \in DOMAIN plan : i < j => plan[i] <= plan[j]
    /\ plan # <<>> => \A c \in 1 .. plan[Len(plan)] : \E i \in DOMAIN plan : plan[i] = c

ASSUME ConfigAssumption ==
    /\ MaxTasks \in Nat /\ MaxConcurrency \in Nat \ {0}
    /\ ResultRetention \in Nat /\ PendingOrphanTtl \in Nat /\ WorkerTimeout \in Nat
    /\ LastRequestTime \in Nat /\ MaxTime \in Nat
    /\ NoKey \notin DedupeKeys

ASSUME PlansAssumption == \A plan \in Plans : IsPlan(plan)

TaskIds == 1 .. MaxTasks
NoTask == 0

VARIABLES
    now,                     \* Date.now()
    created,                 \* how many task ids have been handed out
    tasks,                   \* registry.tasks
    sessions,                \* registry.sessions
    activeTaskByDedupeKey,   \* NoTask where the map has no entry
    recentTaskByDedupeKey,   \* task = NoTask where the map has no entry
    pendingJobs,             \* queue.pendingJobs
    running,                 \* jobs whose worker has not settled
    activeJobs,              \* queue.activeJobs
    unmapped                 \* history: tasks whose active mapping the end of another
                             \* task of their key removed while they were pending

registry == <<tasks, sessions, activeTaskByDedupeKey, recentTaskByDedupeKey>>
vars == <<now, created, registry, pendingJobs, running, activeJobs, unmapped>>

-----------------------------------------------------------------------------
(* Records.                                                                *)

Statuses == {"absent", "pending", "completed", "failed"}

\* undef stands for hasUndefinedValue(task.result): some page returned an
\* entry it could not resolve.  subtasks = {} for a task that is no composite
\* parent.
Task == [status : Statuses, users : SUBSET Users, createdAt : Nat, completedAt : Nat,
         parent : TaskIds \cup {NoTask}, subtasks : SUBSET TaskIds,
         completedSubtasks : SUBSET TaskIds, undef : BOOLEAN]

\* pagesReceived equals totalPages whenever a handler is not running, because
\* the call that submits the pages also finalizes.
Session == [open : BOOLEAN, totalPages : Nat, tasksHandled : Nat, activeWorkers : Nat,
            lastActivityAt : Nat, failed : BOOLEAN, dedupeKey : DedupeKeys \cup {NoKey}]

AbsentTask == [status |-> "absent", users |-> {}, createdAt |-> 0, completedAt |-> 0,
               parent |-> NoTask, subtasks |-> {}, completedSubtasks |-> {}, undef |-> FALSE]

ClosedSession == [open |-> FALSE, totalPages |-> 0, tasksHandled |-> 0, activeWorkers |-> 0,
                  lastActivityAt |-> 0, failed |-> FALSE, dedupeKey |-> NoKey]

NoRecent == [task |-> NoTask, expiresAt |-> 0]

\* Jobs are told apart by their task and the position of their page in the plan.
Job == [task : TaskIds, page : Nat]
RunningJob == [task : TaskIds, page : Nat, startedAt : Nat]

Finished(task) == task.status \in {"completed", "failed"}

Init ==
    /\ now = 0
    /\ created = 0
    /\ tasks = [t \in TaskIds |-> AbsentTask]
    /\ sessions = [t \in TaskIds |-> ClosedSession]
    /\ activeTaskByDedupeKey = [k \in DedupeKeys |-> NoTask]
    /\ recentTaskByDedupeKey = [k \in DedupeKeys |-> NoRecent]
    /\ pendingJobs = {}
    /\ running = {}
    /\ activeJobs = 0
    /\ unmapped = {}

-----------------------------------------------------------------------------
(* The queue.  The array is kept as a set: jobs are pushed in the order of *)
(* their task ids and pages (a later call gets later ids, a call submits   *)
(* its chunks in order), and removals leave the others in place.           *)

Before(i, j) == i.task < j.task \/ (i.task = j.task /\ i.page < j.page)

IsFront(first, jobs) == \A i \in first, j \in jobs \ first : Before(i, j)

\* The processor's first stretch: a job whose session is gone returns at once
\* (it only occupies its slot), any other counts itself in and starts its worker.
SessionsAfterStart(table, jobs) ==
    [t \in TaskIds |->
        LET mine == {j \in jobs : j.task = t}
        IN  IF table[t].open /\ mine # {}
            THEN [table[t] EXCEPT !.activeWorkers = @ + Cardinality(mine), !.lastActivityAt = now]
            ELSE table[t]]

WorkersStarted(table, jobs) ==
    {[task |-> j.task, page |-> j.page, startedAt |-> now] : j \in {i \in jobs : table[i.task].open}}

\* FAULTY: pump without its limit.
PumpWithoutLimit(table, jobs, busy) ==
    /\ sessions' = SessionsAfterStart(table, jobs)
    /\ running' = running \cup WorkersStarted(table, jobs)
    /\ pendingJobs' = {}
    /\ activeJobs' = busy + Cardinality(jobs)

\* pump starts jobs from the front while a slot is free; pumping after each push
\* of a call or once after all of them starts the same jobs.
Pump(table, jobs, busy) ==
    \E first \in SUBSET jobs :
        /\ IsFront(first, jobs)
        /\ busy + Cardinality(first) <= MaxConcurrency
        /\ first = jobs \/ busy + Cardinality(first) = MaxConcurrency
        /\ sessions' = SessionsAfterStart(table, first)
        /\ running' = running \cup WorkersStarted(table, first)
        /\ pendingJobs' = jobs \ first
        /\ activeJobs' = busy + Cardinality(first)

-----------------------------------------------------------------------------
(* cleanupExpiredTasks, as the state each map is left in.  The loop visits *)
(* a parent before its subtasks, so what it does to one task depends on    *)
(* others only as written here.                                            *)

HasPendingSubtasks(t) == \E s \in tasks[t].subtasks : tasks[s].status = "pending"

LastActivityAt(t) == IF sessions[t].open THEN sessions[t].lastActivityAt ELSE tasks[t].createdAt

Orphaned(t) ==
    /\ tasks[t].status = "pending"
    /\ ~(sessions[t].open /\ sessions[t].activeWorkers > 0)
    /\ ~(sessions[t].open /\ HasPendingSubtasks(t))
    /\ now - LastActivityAt(t) > PendingOrphanTtl

OrphanedSubtasks(p) == {s \in tasks[p].subtasks : Orphaned(s)}

\* FAULTY: expiring a subtask tells its parent nothing.
ParentHearsNothing(p) == FALSE

\* Expiring a subtask reports it to its parent, which may complete the parent.
ParentHears(p) ==
    tasks[p].status = "pending" /\ sessions[p].open /\ OrphanedSubtasks(p) # {}

HandledAfterExpiry(p) == sessions[p].tasksHandled + Cardinality(OrphanedSubtasks(p))

ParentCompletes(p) ==
    ParentHears(p) /\ sessions[p].totalPages > 0 /\ HandledAfterExpiry(p) = sessions[p].totalPages

OutOfRetention(completedAt) == now - completedAt > ResultRetention

\* FAULTY: a subtask is retained on its own.
ForgottenAlone(t) == Finished(tasks[t]) /\ OutOfRetention(tasks[t].completedAt)

\* FAULTY: a subtask waits for the pass after the one that dropped its parent.
ForgottenAfterParent(t) ==
    /\ Finished(tasks[t]) /\ OutOfRetention(tasks[t].completedAt)
    /\ tasks[t].parent # NoTask => tasks[tasks[t].parent].status = "absent"

\* FAULTY: a parent that is gone counts as one that is still pending.
ForgottenUnlessSubtask(t) ==
    Finished(tasks[t]) /\ OutOfRetention(tasks[t].completedAt) /\ tasks[t].parent = NoTask

\* A subtask follows its parent's retention while the parent is there, and the
\* parent was visited first: its own time counts once the parent is gone.
Forgotten(t) ==
    LET p == tasks[t].parent
    IN  /\ Finished(tasks[t]) /\ OutOfRetention(tasks[t].completedAt)
        /\ p # NoTask =>
              \/ tasks[p].status = "absent"
              \/ Finished(tasks[p]) /\ OutOfRetention(tasks[p].completedAt)

TasksAfterCleanup ==
    [t \in TaskIds |->
        CASE Orphaned(t) -> [tasks[t] EXCEPT !.status = "failed", !.completedAt = now]
          [] ParentHears(t) ->
                [tasks[t] EXCEPT
                    !.status = IF ParentCompletes(t) THEN "failed" ELSE @,
                    !.completedAt = IF ParentCompletes(t) THEN now ELSE @,
                    !.completedSubtasks = @ \cup OrphanedSubtasks(t),
                    !.undef = @ \/ \E s \in OrphanedSubtasks(t) : tasks[s].undef]
          [] Forgotten(t) -> AbsentTask
          [] OTHER -> tasks[t]]

SessionsAfterCleanup ==
    [t \in TaskIds |->
        CASE Orphaned(t) \/ ParentCompletes(t) -> ClosedSession
          [] ParentHears(t) /\ ~ParentCompletes(t) ->
                [sessions[t] EXCEPT !.tasksHandled = HandledAfterExpiry(t),
                                    !.lastActivityAt = now, !.failed = TRUE]
          [] OTHER -> sessions[t]]

\* FAULTY: an expired task stays mapped.
ActiveAfterCleanupKept == activeTaskByDedupeKey

\* The key is cleared whichever task the map holds for it.
ActiveAfterCleanup ==
    [k \in DedupeKeys |->
        IF \E t \in TaskIds : (Orphaned(t) \/ ParentCompletes(t)) /\ sessions[t].dedupeKey = k
        THEN NoTask ELSE activeTaskByDedupeKey[k]]

\* The pending tasks that this leaves without the mapping they had.
UnmappedAfterCleanup ==
    unmapped \cup
        {t \in TaskIds : TasksAfterCleanup[t].status = "pending" /\
            \E k \in DedupeKeys : activeTaskByDedupeKey[k] = t /\ ActiveAfterCleanup[k] = NoTask}

\* Of two parents of one key that complete in the pass, the later is remembered.
RecentAfterCleanup ==
    [k \in DedupeKeys |->
        LET done == {p \in TaskIds : ParentCompletes(p) /\ sessions[p].dedupeKey = k}
            kept == recentTaskByDedupeKey[k]
        IN  IF done # {}
            THEN [task |-> CHOOSE p \in done : \A q \in done : q <= p,
                  expiresAt |-> now + ResultRetention]
            ELSE IF kept.expiresAt <= now THEN NoRecent ELSE kept]

JobsAfterCleanup == {j \in pendingJobs : ~Orphaned(j.task)}

\* The timer's pass; getTaskResultForUser makes the same pass and then only reads.
CleanupExpiredTasks ==
    /\ tasks' = TasksAfterCleanup
    /\ sessions' = SessionsAfterCleanup
    /\ activeTaskByDedupeKey' = ActiveAfterCleanup
    /\ recentTaskByDedupeKey' = RecentAfterCleanup
    /\ pendingJobs' = JobsAfterCleanup
    /\ unmapped' = UnmappedAfterCleanup
    /\ UNCHANGED <<now, created, running, activeJobs>>

-----------------------------------------------------------------------------
(* Requests: queueChunkedTask, on the state its cleanup pass leaves.       *)

\* FAULTY: the users are replaced instead of extended.
LinkTaskTreeReplacing(table, t, u) ==
    [x \in TaskIds |->
        IF x = t \/ (x \in table[t].subtasks /\ table[x].status # "absent")
        THEN [table[x] EXCEPT !.users = {u}]
        ELSE table[x]]

\* linkTaskTree
LinkTaskTree(table, t, u) ==
    [x \in TaskIds |->
        IF x = t \/ (x \in table[t].subtasks /\ table[x].status # "absent")
        THEN [table[x] EXCEPT !.users = @ \cup {u}]
        ELSE table[x]]

\* FAULTY: a task no page of which has started is not shared.
ActiveIsSharedWhenWorking(k) ==
    LET t == ActiveAfterCleanup[k]
    IN  t # NoTask /\ SessionsAfterCleanup[t].activeWorkers > 0

ActiveIsShared(k) ==
    LET t == ActiveAfterCleanup[k]
    IN  /\ t # NoTask
        /\ TasksAfterCleanup[t].status = "pending"
        /\ now - TasksAfterCleanup[t].createdAt <= ResultRetention

\* An active mapping to a finished task links the user before it is dropped.
TasksAfterActive(k, u) ==
    LET t == ActiveAfterCleanup[k]
    IN  IF t # NoTask /\ Finished(TasksAfterCleanup[t])
        THEN LinkTaskTree(TasksAfterCleanup, t, u)
        ELSE TasksAfterCleanup

TaskOrSubtasksHaveUndefinedResult(table, t) ==
    \/ table[t].undef
    \/ \E s \in table[t].subtasks : table[s].status = "absent" \/ table[s].undef

RecentIsShared(k) ==
    LET recent == RecentAfterCleanup[k]
    IN  /\ recent.task # NoTask /\ recent.expiresAt > now
        /\ TasksAfterCleanup[recent.task].status # "absent"
        /\ ~TaskOrSubtasksHaveUndefinedResult(TasksAfterCleanup, recent.task)

\* The caller joins the pending task the key is active for.
JoinActiveTask(u, k) ==
    /\ now <= LastRequestTime
    /\ ActiveIsShared(k)
    /\ tasks' = LinkTaskTree(TasksAfterCleanup, ActiveAfterCleanup[k], u)
    /\ sessions' = SessionsAfterCleanup
    /\ activeTaskByDedupeKey' = ActiveAfterCleanup
    /\ recentTaskByDedupeKey' = RecentAfterCleanup
    /\ pendingJobs' = JobsAfterCleanup
    /\ unmapped' = UnmappedAfterCleanup
    /\ UNCHANGED <<now, created, running, activeJobs>>

\* The caller is handed the finished task the key was last used for.
ReuseRecentTask(u, k) ==
    /\ now <= LastRequestTime
    /\ ~ActiveIsShared(k) /\ RecentIsShared(k)
    /\ tasks' = LinkTaskTree(TasksAfterActive(k, u), RecentAfterCleanup[k].task, u)
    /\ sessions' = SessionsAfterCleanup
    /\ activeTaskByDedupeKey' = [ActiveAfterCleanup EXCEPT ![k] = NoTask]
    /\ recentTaskByDedupeKey' = RecentAfterCleanup
    /\ pendingJobs' = JobsAfterCleanup
    /\ unmapped' = UnmappedAfterCleanup
    /\ UNCHANGED <<now, created, running, activeJobs>>

ChunkCount(plan) == IF plan = <<>> THEN 0 ELSE plan[Len(plan)]
IsComposite(plan) == ChunkCount(plan) > 1
PagesOfChunk(plan, c) == Cardinality({i \in DOMAIN plan : plan[i] = c})

\* The task a page belongs to: the subtask of its chunk, or the only task.
Owner(id, plan, i) == IF IsComposite(plan) THEN id + plan[i] ELSE id

Subtasks(id, plan) == IF IsComposite(plan) THEN (id + 1) .. (id + ChunkCount(plan)) ELSE {}

NewTask(u, subtasks, parent) ==
    [AbsentTask EXCEPT !.status = "pending", !.users = {u}, !.createdAt = now,
                       !.parent = parent, !.subtasks = subtasks]

NewSession(totalPages, key) ==
    [ClosedSession EXCEPT !.open = TRUE, !.totalPages = totalPages,
                          !.lastActivityAt = now, !.dedupeKey = key]

TasksAfterQueueing(table, u, id, plan) ==
    [t \in TaskIds |->
        CASE t = id /\ plan # <<>> -> NewTask(u, Subtasks(id, plan), NoTask)
          [] t = id /\ plan = <<>> ->
                [NewTask(u, {}, NoTask) EXCEPT !.status = "completed", !.completedAt = now]
          [] t \in Subtasks(id, plan) -> NewTask(u, {}, id)
          [] OTHER -> table[t]]

SessionsAfterQueueing(table, k, id, plan) ==
    [t \in TaskIds |->
        CASE t = id /\ plan # <<>> ->
                NewSession(IF IsComposite(plan) THEN ChunkCount(plan) ELSE Len(plan), k)
          [] t \in Subtasks(id, plan) -> NewSession(PagesOfChunk(plan, t - id), NoKey)
          [] OTHER -> table[t]]

NewJobs(id, plan) == {[task |-> Owner(id, plan, i), page |-> i] : i \in DOMAIN plan}

\* Nothing to share: a task of the caller's own, its pages queued and started as
\* far as there are slots.  Without pages it completes on the spot.
StartTask(u, k, plan) ==
    LET id == created + 1
        last == IF IsComposite(plan) THEN id + ChunkCount(plan) ELSE id
    IN  /\ now <= LastRequestTime /\ last <= MaxTasks
        /\ ~ActiveIsShared(k) /\ ~RecentIsShared(k)
        /\ created' = last
        /\ tasks' = TasksAfterQueueing(TasksAfterActive(k, u), u, id, plan)
        /\ activeTaskByDedupeKey' =
              [ActiveAfterCleanup EXCEPT ![k] = IF plan = <<>> THEN NoTask ELSE id]
        /\ recentTaskByDedupeKey' =
              [RecentAfterCleanup EXCEPT ![k] =
                  IF plan = <<>>
                  THEN [task |-> id, expiresAt |-> now + ResultRetention]
                  ELSE NoRecent]
        /\ Pump(SessionsAfterQueueing(SessionsAfterCleanup, k, id, plan),
                JobsAfterCleanup \cup NewJobs(id, plan), activeJobs)
        /\ unmapped' = UnmappedAfterCleanup
        /\ UNCHANGED now

-----------------------------------------------------------------------------
(* Pages.                                                                  *)

\* FAULTY: only a page that succeeds is counted as handled.
PageHandledIfGood(t, failed) ==
    [sessions[t] EXCEPT !.activeWorkers = IF @ > 0 THEN @ - 1 ELSE 0,
                        !.tasksHandled = IF failed THEN @ ELSE @ + 1,
                        !.lastActivityAt = now, !.failed = @ \/ failed]

\* One more page of t handled, one worker less.
PageHandled(t, failed) ==
    [sessions[t] EXCEPT !.activeWorkers = IF @ > 0 THEN @ - 1 ELSE 0, !.tasksHandled = @ + 1,
                        !.lastActivityAt = now, !.failed = @ \/ failed]

\* One more subtask of p handled.
SubtaskHandled(p, failed) ==
    [sessions[p] EXCEPT !.tasksHandled = @ + 1, !.lastActivityAt = now, !.failed = @ \/ failed]

\* maybeCompleteTaskSession: what becomes of a task and its session.
AllHandled(s) == s.totalPages > 0 /\ s.tasksHandled = s.totalPages

Conclude(task, s) ==
    IF AllHandled(s)
    THEN [task EXCEPT !.status = IF s.failed THEN "failed" ELSE "completed", !.completedAt = now]
    ELSE task

SessionLeft(s) == IF AllHandled(s) THEN ClosedSession ELSE s

\* The processor's last stretch for job j, up to and including the completion
\* of its task and of the task's parent.  failed: the worker threw or timed out;
\* undef: it answered with an entry it could not resolve.
PageSettles(j, failed, undef) ==
    LET t == j.task
        s == PageHandled(t, failed)
        task == Conclude([tasks[t] EXCEPT !.undef = @ \/ undef], s)
        p == tasks[t].parent
        parentHears == AllHandled(s) /\ p # NoTask /\ tasks[p].status = "pending" /\ sessions[p].open
        ps == SubtaskHandled(p, s.failed)
        parent == Conclude([tasks[p] EXCEPT !.completedSubtasks = @ \cup {t},
                                            !.undef = @ \/ task.undef], ps)
        \* the tasks of key k that complete in this step
        closing(k) == {x \in {t} : AllHandled(s) /\ s.dedupeKey = k}
                        \cup {x \in {p} : parentHears /\ AllHandled(ps) /\ ps.dedupeKey = k}
    IN  /\ running' = running \ {j}
        /\ tasks' = [x \in TaskIds |-> CASE x = t -> task
                                         [] x = p /\ parentHears -> parent
                                         [] OTHER -> tasks[x]]
        /\ sessions' = [x \in TaskIds |-> CASE x = t -> SessionLeft(s)
                                            [] x = p /\ parentHears -> SessionLeft(ps)
                                            [] OTHER -> sessions[x]]
        /\ activeTaskByDedupeKey' = [k \in DedupeKeys |->
                IF closing(k) = {} THEN activeTaskByDedupeKey[k] ELSE NoTask]
        /\ recentTaskByDedupeKey' = [k \in DedupeKeys |->
                IF closing(k) = {} THEN recentTaskByDedupeKey[k]
                ELSE [task |-> IF p \in closing(k) THEN p ELSE t,
                      expiresAt |-> now + ResultRetention]]
        /\ unmapped' = unmapped \cup {x \in TaskIds : \E k \in DedupeKeys :
                closing(k) # {} /\ activeTaskByDedupeKey[k] = x /\ x \notin closing(k)}
        /\ UNCHANGED <<now, created, pendingJobs, activeJobs>>

PageAnswers(j) == \E undef \in BOOLEAN : PageSettles(j, FALSE, undef)

PageFails(j) == PageSettles(j, TRUE, FALSE)

\* FAULTY: no timeout races the worker.
PageTimesOutNever(j) == FALSE

PageTimesOut(j) ==
    /\ now - j.startedAt >= WorkerTimeout
    /\ PageSettles(j, TRUE, FALSE)

\* FAULTY: the slot is released but the queue not pumped.
ReleaseSlotWithoutPump ==
    /\ Cardinality(running) < activeJobs
    /\ activeJobs' = activeJobs - 1
    /\ UNCHANGED <<now, created, registry, pendingJobs, running, unmapped>>

\* The finally of run, in the continuation after the processor returned.
ReleaseSlot ==
    /\ Cardinality(running) < activeJobs
    /\ Pump(sessions, pendingJobs, activeJobs - 1)
    /\ UNCHANGED <<now, created, tasks, activeTaskByDedupeKey, recentTaskByDedupeKey, unmapped>>

\* A tick is long against the latency of a timer or of a promise continuation:
\* the clock does not pass a due timeout or a slot that is about to be released.
Tick ==
    /\ now < MaxTime
    /\ \A j \in running : now - j.startedAt < WorkerTimeout
    /\ Cardinality(running) = activeJobs
    /\ now' = now + 1
    /\ UNCHANGED <<created, registry, pendingJobs, running, activeJobs, unmapped>>

Next ==
    \/ \E u \in Users, k \in DedupeKeys :
          \/ JoinActiveTask(u, k)
          \/ ReuseRecentTask(u, k)
          \/ \E plan \in Plans : StartTask(u, k, plan)
    \/ \E j \in running : PageAnswers(j) \/ PageFails(j) \/ PageTimesOut(j)
    \/ ReleaseSlot
    \/ CleanupExpiredTasks
    \/ Tick

Spec == Init /\ [][Next]_vars

\* A worker's promise settles or its timer fires, continuations and the cleanup
\* interval run, the clock advances.  Nobody has to send a request.
Fairness ==
    /\ WF_vars(\E j \in running : PageTimesOut(j))
    /\ WF_vars(ReleaseSlot)
    /\ WF_vars(CleanupExpiredTasks)
    /\ WF_vars(Tick)

FairSpec == Spec /\ Fairness

-----------------------------------------------------------------------------
(* Properties.                                                             *)

\* Every variable holds values of the kind its code declares.
TypeOK ==
    /\ now \in Nat
    /\ created \in 0 .. MaxTasks
    /\ tasks \in [TaskIds -> Task]
    /\ sessions \in [TaskIds -> Session]
    /\ activeTaskByDedupeKey \in [DedupeKeys -> TaskIds \cup {NoTask}]
    /\ recentTaskByDedupeKey \in [DedupeKeys -> [task : TaskIds \cup {NoTask}, expiresAt : Nat]]
    /\ pendingJobs \in SUBSET Job
    /\ running \in SUBSET RunningJob
    /\ activeJobs \in 0 .. MaxConcurrency
    /\ unmapped \subseteq TaskIds

\* The queue never runs more than its limit and never idles: while a job waits,
\* every slot is taken, also right after a cleanup pass dropped jobs
\* (taskQueue.ts pump, run, removeByTaskId).
SlotsUsed ==
    /\ Cardinality(running) <= activeJobs
    /\ pendingJobs # {} => activeJobs = MaxConcurrency

\* A session is there exactly while its task is pending, and a queued or running
\* job's task has one: no job starts for a task that is gone and no worker comes
\* back to a session that was closed under it.
SessionsAreLive ==
    /\ \A t \in TaskIds : sessions[t].open <=> tasks[t].status = "pending"
    /\ \A j \in pendingJobs \cup running : sessions[j.task].open

\* Each page of a pending task is waiting, being worked on or handled, and not
\* all are handled: the counters that decide completion neither lose nor repeat
\* a page, whatever times out or expires in between.
PagesAccounted ==
    SessionsAreLive /\ \A t \in TaskIds :
        sessions[t].open /\ tasks[t].subtasks = {} =>
            LET s == sessions[t]
                waiting == {j \in pendingJobs : j.task = t}
            IN  /\ s.activeWorkers = Cardinality({j \in running : j.task = t})
                /\ s.totalPages = s.tasksHandled + s.activeWorkers + Cardinality(waiting)
                /\ s.tasksHandled < s.totalPages

\* A pending parent has counted exactly its finished subtasks, each once, and
\* still has one to wait for; so it completes with the last of them.
SubtasksAccounted ==
    \A p \in TaskIds :
        tasks[p].status = "pending" /\ tasks[p].subtasks # {} =>
            /\ tasks[p].completedSubtasks = {s \in tasks[p].subtasks : Finished(tasks[s])}
            /\ sessions[p].tasksHandled = Cardinality(tasks[p].completedSubtasks)
            /\ sessions[p].totalPages = Cardinality(tasks[p].subtasks)
            /\ HasPendingSubtasks(p)

\* While a parent can be looked up so can all its subtasks, by the same users,
\* and it reports a failure or an unresolved entry exactly when one of the
\* subtasks it has heard of does (getTaskRetentionCompletedAt, linkTaskTree,
\* updateParentSubtaskCompletion).
ParentSumsUp ==
    \A p \in TaskIds :
        tasks[p].subtasks # {} =>
            LET heard == {s \in tasks[p].subtasks : Finished(tasks[s])}
            IN  /\ \A s \in tasks[p].subtasks :
                     tasks[s].status # "absent" /\ tasks[s].users = tasks[p].users
                /\ (tasks[p].status = "failed" \/ sessions[p].failed) <=>
                     \E s \in heard : tasks[s].status = "failed"
                /\ tasks[p].undef <=> \E s \in heard : tasks[s].undef
                /\ Finished(tasks[p]) => heard = tasks[p].subtasks

\* An active mapping leads to a pending task of that key, and to the newest one,
\* although an older task of the key clears the mapping without looking at whose
\* it is (deleteActiveDedupeTask).
ActiveMappingIsNewest ==
    \A k \in DedupeKeys :
        LET t == activeTaskByDedupeKey[k]
        IN  t # NoTask =>
                /\ tasks[t].status = "pending" /\ sessions[t].dedupeKey = k
                /\ \A x \in TaskIds : x > t => sessions[x].dedupeKey # k

\* A recent mapping that has not run out leads to a finished task that is still
\* there: the mapping and the result it promises end together.
RecentMappingIsKept ==
    \A k \in DedupeKeys :
        LET recent == recentTaskByDedupeKey[k]
        IN  recent.task # NoTask /\ recent.expiresAt >= now => Finished(tasks[recent.task])

\* A request that comes again is answered by the task that the two maps promise,
\* pending or finished (resolveDedupeTask).
MappingsHold == ActiveMappingIsNewest /\ RecentMappingIsKept

\* What getTaskResultForUser answers.
Reply(t, u) ==
    IF tasks[t].status = "absent" THEN "missing"
    ELSE IF u \notin tasks[t].users THEN "forbidden"
    ELSE IF tasks[t].status = "pending" THEN "pending" ELSE tasks[t].status

\* A client that polls sees its task pending, then one final answer, then nothing:
\* no answer is withdrawn, changed or given early, and a task id is never reused.
RepliesNeverRegress ==
    [][\A t \in TaskIds, u \in Users :
        LET before == Reply(t, u)
            after == Reply(t, u)'
        IN  /\ before = "pending" => after \in {"pending", "completed", "failed"}
            /\ before \in {"completed", "failed"} => after \in {before, "missing"}
            /\ before = "missing" /\ t <= created => after = "missing"]_vars

\* Running the cleanup pass twice at one instant does no more than running it
\* once, so the passes a composite request repeats for each subtask change
\* nothing, and the order in which the Map is visited does not matter.
OneCleanupPassSuffices ==
    [][CleanupExpiredTasks =>
        /\ TasksAfterCleanup' = tasks'
        /\ SessionsAfterCleanup' = sessions'
        /\ JobsAfterCleanup' = pendingJobs']_vars

\* Concurrent identical requests share one run of the work: while a pending task is
\* no older than the retention window its key leads to it, and a second task of the
\* key is pending beside it only when that one was started after the window
\* (resolveDedupeTask).  The exception are tasks whose mapping the end of an older
\* task of the key removed, since deleteActiveDedupeTask does not look at whose
\* mapping it deletes: the next request starts the work again however young they are.
OnePendingTaskPerKey ==
    \A t \in TaskIds \ unmapped :
        sessions[t].open /\ sessions[t].dedupeKey # NoKey =>
            /\ now - tasks[t].createdAt <= ResultRetention =>
                  activeTaskByDedupeKey[sessions[t].dedupeKey] = t
            /\ \A x \in TaskIds :
                  sessions[x].open /\ sessions[x].dedupeKey = sessions[t].dedupeKey /\ t < x
                  => tasks[x].createdAt - tasks[t].createdAt > ResultRetention

\* Every task gets its answer although workers may hang, jobs wait for slots and
\* pages are lost to expiry.
EveryTaskAnswered ==
    \A t \in TaskIds : tasks[t].status = "pending" ~> tasks[t].status # "pending"

\* No task is kept forever: finished tasks, parents and subtasks leave the
\* registry once their retention is over.
EveryTaskForgotten ==
    \A t \in TaskIds : tasks[t].status # "absent" ~> tasks[t].status = "absent"

=============================================================================
