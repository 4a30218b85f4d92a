------------------------- MODULE TaskRuntimeProofs -------------------------
(***************************************************************************)
(* Proofs about TaskRuntime for every number of users, keys, task ids and  *)
(* slots, every set of plans and all time limits.  The first part is about *)
(* the queue: types and slots.  The second is about the registry of tasks  *)
(* and sessions: every page and every subtask is accounted for, parents    *)
(* sum up what their subtasks say, the dedupe maps lead where they         *)
(* promise.  The third is about the notifier: what users are told of their *)
(* tasks is true, complete and the last word.                              *)
(***************************************************************************)
EXTENDS TaskUpdates, FiniteSetTheorems, WellFoundedInduction, TLAPS

\* Task ids are a finite set, so sets of them have a size.
LEMMA TaskIdsFinite == IsFiniteSet(TaskIds)
  BY ConfigAssumption, FS_Interval DEF TaskIds

LEMMA SizeOfTaskSet == ASSUME NEW S \in SUBSET TaskIds PROVE IsFiniteSet(S) /\ Cardinality(S) \in Nat
  BY TaskIdsFinite, FS_Subset, FS_CardinalityType

\* A non-empty set of task ids has a greatest element: the one nearest MaxTasks.
LEMMA GreatestTask ==
  ASSUME NEW S \in SUBSET TaskIds, S # {}
  PROVE  \E m \in S : \A q \in S : q <= m
  <1> DEFINE gaps == {MaxTasks - q : q \in S}
             less == {p \in Nat \X Nat : p[1] < p[2]}
  <1>1. gaps \subseteq Nat /\ gaps # {}
    <2>1. \A q \in S : MaxTasks - q \in Nat
      BY ConfigAssumption DEF TaskIds
    <2>2. PICK q \in S : TRUE
      OBVIOUS
    <2>3. QED
      BY <2>1, <2>2
  <1>2. PICK g \in gaps : \A y \in gaps : <<y, g>> \notin less
    <2>1. IsWellFoundedOn(less, Nat)
      BY NatLessThanWellFounded DEF OpToRel
    <2> HIDE DEF gaps
    <2> HIDE DEF less
    <2>2. QED
      BY <1>1, <2>1, WFMin
  <1>3. \A y \in gaps : ~(y < g)
    BY <1>1, <1>2
  <1>4. PICK m \in S : g = MaxTasks - m
    BY <1>2
  <1>5. ASSUME NEW q \in S PROVE q <= m
    <2>1. ~(MaxTasks - q < MaxTasks - m)
      BY <1>3, <1>4
    <2>2. QED
      BY <2>1, ConfigAssumption DEF TaskIds
  <1>6. QED
    BY <1>5

\* What the cleanup pass leaves is of the declared kinds.
LEMMA CleanupTasksTyped == TypeOK => TasksAfterCleanup \in [TaskIds -> Task]
  <1> SUFFICES ASSUME TypeOK, NEW t \in TaskIds PROVE TasksAfterCleanup[t] \in Task
    BY DEF TasksAfterCleanup
  <1> USE DEF TypeOK
  <1>1. OrphanedSubtasks(t) \subseteq TaskIds
    BY DEF OrphanedSubtasks, Task
  <1>2. AbsentTask \in Task
    BY DEF AbsentTask, Task, Statuses, NoTask
  <1>3. QED
    BY <1>1, <1>2 DEF TasksAfterCleanup, Task, Statuses

LEMMA CleanupSessionsTyped == TypeOK => SessionsAfterCleanup \in [TaskIds -> Session]
  <1> SUFFICES ASSUME TypeOK, NEW t \in TaskIds PROVE SessionsAfterCleanup[t] \in Session
    BY DEF SessionsAfterCleanup
  <1> USE DEF TypeOK
  <1>1. Cardinality(OrphanedSubtasks(t)) \in Nat
    BY SizeOfTaskSet DEF OrphanedSubtasks, Task
  <1>2. ClosedSession \in Session
    BY DEF ClosedSession, Session
  <1>3. HandledAfterExpiry(t) \in Nat
    BY <1>1 DEF HandledAfterExpiry, Session
  <1>4. QED
    BY <1>2, <1>3 DEF SessionsAfterCleanup, Session

LEMMA CleanupJobsTyped == TypeOK => JobsAfterCleanup \subseteq Job
  BY DEF TypeOK, JobsAfterCleanup

LEMMA CleanupDedupeTyped ==
  TypeOK => /\ ActiveAfterCleanup \in [DedupeKeys -> TaskIds \cup {NoTask}]
            /\ RecentAfterCleanup \in [DedupeKeys -> [task : TaskIds \cup {NoTask}, expiresAt : Nat]]
  <1> SUFFICES ASSUME TypeOK
               PROVE /\ ActiveAfterCleanup \in [DedupeKeys -> TaskIds \cup {NoTask}]
                     /\ RecentAfterCleanup \in [DedupeKeys -> [task : TaskIds \cup {NoTask}, expiresAt : Nat]]
    OBVIOUS
  <1> USE DEF TypeOK
  <1>1. ActiveAfterCleanup \in [DedupeKeys -> TaskIds \cup {NoTask}]
    BY DEF ActiveAfterCleanup
  <1>2. ASSUME NEW k \in DedupeKeys
        PROVE RecentAfterCleanup[k] \in [task : TaskIds \cup {NoTask}, expiresAt : Nat]
    <2> DEFINE done == {p \in TaskIds : ParentCompletes(p) /\ sessions[p].dedupeKey = k}
    <2>1. CASE done = {}
      BY <2>1 DEF RecentAfterCleanup, NoRecent
    <2>2. CASE done # {}
      <3>1. PICK m \in done : \A q \in done : q <= m
        BY <2>2, GreatestTask
      <3> DEFINE r == CHOOSE p \in done : \A q \in done : q <= p
      <3>2. r \in done
        BY <3>1
      <3>3. RecentAfterCleanup[k] = [task |-> r, expiresAt |-> now + ResultRetention]
        BY <2>2 DEF RecentAfterCleanup
      <3>4. QED
        BY <3>2, <3>3, ConfigAssumption
    <2>3. QED
      BY <2>1, <2>2
  <1>3. QED
    BY <1>1, <1>2 DEF RecentAfterCleanup

\* Linking a user keeps every record a task.
LEMMA LinkTyped ==
  ASSUME NEW table \in [TaskIds -> Task], NEW t, NEW u \in Users
  PROVE  LinkTaskTree(table, t, u) \in [TaskIds -> Task]
  BY DEF LinkTaskTree, Task

\* What the pump starts is typed, and starts no more workers than jobs.
LEMMA StartTyped ==
  ASSUME now \in Nat, NEW table \in [TaskIds -> Session], NEW first \in SUBSET Job, IsFiniteSet(first)
  PROVE  /\ SessionsAfterStart(table, first) \in [TaskIds -> Session]
         /\ WorkersStarted(table, first) \subseteq RunningJob
         /\ IsFiniteSet(WorkersStarted(table, first))
         /\ Cardinality(WorkersStarted(table, first)) <= Cardinality(first)
  <1>1. ASSUME NEW t \in TaskIds PROVE SessionsAfterStart(table, first)[t] \in Session
    <2> DEFINE mine == {j \in first : j.task = t}
    <2>1. Cardinality(mine) \in Nat
      BY FS_Subset, FS_CardinalityType
    <2>2. table[t] \in Session
      OBVIOUS
    <2>3. table[t].activeWorkers + Cardinality(mine) \in Nat
      BY <2>1, <2>2 DEF Session
    <2>4. \A n \in Nat : [table[t] EXCEPT !.activeWorkers = n, !.lastActivityAt = now] \in Session
      BY <2>2 DEF Session
    <2>5. QED
      BY <2>2, <2>3, <2>4 DEF SessionsAfterStart
  <1>2. WorkersStarted(table, first) \subseteq RunningJob
    BY DEF WorkersStarted, Job, RunningJob
  <1>3. /\ IsFiniteSet(WorkersStarted(table, first))
        /\ Cardinality(WorkersStarted(table, first)) <= Cardinality(first)
    <2> DEFINE from == {j \in first : table[j.task].open}
               run == [j \in from |-> [task |-> j.task, page |-> j.page, startedAt |-> now]]
    <2>1. IsFiniteSet(from) /\ Cardinality(from) <= Cardinality(first)
      BY FS_Subset
    <2>2. run \in Surjection(from, WorkersStarted(table, first))
      BY DEF Surjection, WorkersStarted
    <2>3. /\ IsFiniteSet(WorkersStarted(table, first))
          /\ Cardinality(WorkersStarted(table, first)) <= Cardinality(from)
      BY <2>1, <2>2, FS_Surjection
    <2>4. QED
      BY <2>1, <2>3, FS_CardinalityType
  <1>4. QED
    BY <1>1, <1>2, <1>3 DEF SessionsAfterStart

-----------------------------------------------------------------------------
(* Type correctness.  Counting needs the sets of jobs to be finite.        *)

TypeInv == TypeOK /\ IsFiniteSet(pendingJobs) /\ IsFiniteSet(running)

\* The four variables a pump assigns keep their kinds, and the queue ends up with
\* no more workers than slots taken and no waiting job beside a free slot.
LEMMA PumpTyped ==
  ASSUME TypeInv, NEW table \in [TaskIds -> Session], NEW jobs \in SUBSET Job, IsFiniteSet(jobs),
         NEW busy \in 0 .. MaxConcurrency, Cardinality(running) <= busy, Pump(table, jobs, busy)
  PROVE  /\ sessions' \in [TaskIds -> Session]
         /\ pendingJobs' \in SUBSET Job /\ IsFiniteSet(pendingJobs')
         /\ running' \in SUBSET RunningJob /\ IsFiniteSet(running')
         /\ activeJobs' \in 0 .. MaxConcurrency
         /\ Cardinality(running') <= activeJobs'
         /\ pendingJobs' # {} => activeJobs' = MaxConcurrency
  <1>1. PICK first \in SUBSET jobs :
            /\ busy + Cardinality(first) <= MaxConcurrency
            /\ first = jobs \/ busy + Cardinality(first) = MaxConcurrency
            /\ sessions' = SessionsAfterStart(table, first)
            /\ running' = running \cup WorkersStarted(table, first)
            /\ pendingJobs' = jobs \ first
            /\ activeJobs' = busy + Cardinality(first)
    BY DEF Pump
  <1>2. IsFiniteSet(first) /\ Cardinality(first) \in Nat
    BY FS_Subset, FS_CardinalityType
  <1> DEFINE started == WorkersStarted(table, first)
  <1>3. /\ SessionsAfterStart(table, first) \in [TaskIds -> Session]
        /\ started \subseteq RunningJob /\ IsFiniteSet(started)
        /\ Cardinality(started) <= Cardinality(first)
    BY <1>2, StartTyped DEF TypeInv, TypeOK
  <1> HIDE DEF started
  <1>4. IsFiniteSet(running \cup started)
        /\ Cardinality(running \cup started) <= Cardinality(running) + Cardinality(started)
    <2>1. IsFiniteSet(running \cap started)
      BY FS_Intersection DEF TypeInv
    <2>2. /\ IsFiniteSet(running \cup started)
          /\ Cardinality(running \cup started)
               = Cardinality(running) + Cardinality(started) - Cardinality(running \cap started)
      BY <1>3, FS_Union DEF TypeInv
    <2>3. /\ Cardinality(running) \in Nat /\ Cardinality(started) \in Nat
          /\ Cardinality(running \cap started) \in Nat
      BY <1>3, <2>1, FS_CardinalityType DEF TypeInv
    <2>4. QED
      BY <2>2, <2>3
  <1>5. Cardinality(running') <= activeJobs'
    <2>1. /\ Cardinality(running) \in Nat /\ Cardinality(started) \in Nat
          /\ Cardinality(running \cup started) \in Nat
      BY <1>3, <1>4, FS_CardinalityType DEF TypeInv
    <2>2. QED
      BY <1>1, <1>2, <1>3, <1>4, <2>1 DEF started
  <1>6. IsFiniteSet(pendingJobs')
    BY <1>1, FS_Subset
  <1>7. activeJobs' \in 0 .. MaxConcurrency
    BY <1>1, <1>2, ConfigAssumption
  <1>8. QED
    BY <1>1, <1>3, <1>4, <1>5, <1>6, <1>7 DEF started, TypeInv, TypeOK

\* The tasks, sessions and jobs of one call have ids that may be handed out.
LEMMA QueueingTyped ==
  ASSUME TypeInv, NEW u \in Users, NEW k \in DedupeKeys, NEW plan \in Plans,
         NEW id, id = created + 1,
         (IF IsComposite(plan) THEN id + ChunkCount(plan) ELSE id) <= MaxTasks,
         NEW T \in [TaskIds -> Task], NEW S \in [TaskIds -> Session]
  PROVE  /\ id \in TaskIds /\ ChunkCount(plan) \in Nat
         /\ Subtasks(id, plan) \subseteq TaskIds
         /\ TasksAfterQueueing(T, u, id, plan) \in [TaskIds -> Task]
         /\ SessionsAfterQueueing(S, k, id, plan) \in [TaskIds -> Session]
         /\ NewJobs(id, plan) \subseteq Job /\ IsFiniteSet(NewJobs(id, plan))
  <1>1. /\ plan \in Seq(Nat \ {0})
        /\ \A i, j \in DOMAIN plan : i < j => plan[i] <= plan[j]
    BY PlansAssumption DEF IsPlan
  <1>2. Len(plan) \in Nat /\ DOMAIN plan = 1 .. Len(plan)
    BY <1>1
  <1>3. ChunkCount(plan) \in Nat
    BY <1>1, <1>2 DEF ChunkCount
  <1>4. ASSUME NEW i \in DOMAIN plan PROVE plan[i] \in 1 .. ChunkCount(plan)
    <2>1. plan # <<>> /\ Len(plan) \in DOMAIN plan
      BY <1>2
    <2>2. plan[i] \in Nat \ {0} /\ plan[Len(plan)] \in Nat \ {0}
      BY <1>1, <1>2, <2>1
    <2>3. plan[i] <= plan[Len(plan)]
      <3>1. i < Len(plan) \/ i = Len(plan)
        BY <1>2
      <3>2. CASE i < Len(plan)
        BY <1>1, <2>1, <3>2
      <3>3. QED
        BY <2>2, <3>1, <3>2
    <2>4. QED
      BY <2>1, <2>2, <2>3 DEF ChunkCount
  <1>5. created \in Nat /\ MaxTasks \in Nat /\ now \in Nat
    BY ConfigAssumption DEF TypeInv, TypeOK
  <1>6. id \in TaskIds
    BY <1>3, <1>5 DEF TaskIds
  <1>7. Subtasks(id, plan) \subseteq TaskIds
    BY <1>3, <1>5 DEF TaskIds, Subtasks
  <1>8. ASSUME NEW i \in DOMAIN plan PROVE Owner(id, plan, i) \in TaskIds
    BY <1>3, <1>4, <1>5, <1>6 DEF TaskIds, Owner
  <1>9. ASSUME NEW t \in TaskIds PROVE TasksAfterQueueing(T, u, id, plan)[t] \in Task
    <2>1. NewTask(u, Subtasks(id, plan), NoTask) \in Task
      BY <1>5, <1>7 DEF NewTask, AbsentTask, Task, Statuses
    <2>2. NewTask(u, {}, id) \in Task
      BY <1>5, <1>6 DEF NewTask, AbsentTask, Task, Statuses
    <2>3. [NewTask(u, {}, NoTask) EXCEPT !.status = "completed", !.completedAt = now] \in Task
      BY <1>5 DEF NewTask, AbsentTask, Task, Statuses
    <2>4. QED
      BY <2>1, <2>2, <2>3 DEF TasksAfterQueueing
  <1>10. ASSUME NEW t \in TaskIds PROVE SessionsAfterQueueing(S, k, id, plan)[t] \in Session
    <2>1. ASSUME NEW n \in Nat, NEW key \in DedupeKeys \cup {NoKey}
          PROVE NewSession(n, key) \in Session
      BY <1>5 DEF NewSession, ClosedSession, Session
    <2>2. PagesOfChunk(plan, t - id) \in Nat
      <3>1. IsFiniteSet(DOMAIN plan)
        BY <1>2, FS_Interval
      <3>2. QED
        BY <3>1, FS_Subset, FS_CardinalityType DEF PagesOfChunk
    <2>3. QED
      BY <1>2, <1>3, <2>1, <2>2 DEF SessionsAfterQueueing
  <1>11. NewJobs(id, plan) \subseteq Job
    BY <1>2, <1>8 DEF NewJobs, Job
  <1>12. IsFiniteSet(NewJobs(id, plan))
    <2> DEFINE job == [i \in DOMAIN plan |-> [task |-> Owner(id, plan, i), page |-> i]]
    <2>1. job \in Surjection(DOMAIN plan, NewJobs(id, plan))
      BY DEF Surjection, NewJobs
    <2>2. IsFiniteSet(DOMAIN plan)
      BY <1>2, FS_Interval
    <2>3. QED
      BY <2>1, <2>2, FS_Surjection
  <1>13. QED
    BY <1>3, <1>6, <1>7, <1>9, <1>10, <1>11, <1>12 DEF TasksAfterQueueing, SessionsAfterQueueing

-----------------------------------------------------------------------------
(* Typing and the use of the slots, together: neither is inductive alone,  *)
(* as the number of slots taken stays in range because of the one and the  *)
(* other needs the sets it counts to be finite.                            *)

QueueInv == TypeInv /\ SlotsUsed

LEMMA InitQueueInv == Init => QueueInv
  <1> SUFFICES ASSUME Init PROVE QueueInv
    OBVIOUS
  <1>1. AbsentTask \in Task
    BY DEF AbsentTask, Task, Statuses
  <1>2. ClosedSession \in Session
    BY DEF ClosedSession, Session
  <1>3. IsFiniteSet({}) /\ Cardinality({}) = 0
    BY FS_EmptySet
  <1>4. TypeOK
    BY <1>1, <1>2, ConfigAssumption DEF Init, TypeOK, NoRecent
  <1>5. QED
    BY <1>3, <1>4 DEF Init, QueueInv, TypeInv, SlotsUsed

\* What a pass leaves when it does nothing else: the slots are as they were, and
\* jobs were only taken away.
LEMMA CleanupQueueInv ==
  ASSUME QueueInv, tasks' \in [TaskIds -> Task], sessions' = SessionsAfterCleanup,
         activeTaskByDedupeKey' \in [DedupeKeys -> TaskIds \cup {NoTask}],
         recentTaskByDedupeKey' \in [DedupeKeys -> [task : TaskIds \cup {NoTask}, expiresAt : Nat]],
         pendingJobs' = JobsAfterCleanup, unmapped' = UnmappedAfterCleanup,
         UNCHANGED <<now, created, running, activeJobs>>
  PROVE  QueueInv'
  <1>1. IsFiniteSet(JobsAfterCleanup) /\ JobsAfterCleanup \subseteq pendingJobs
    BY FS_Subset DEF JobsAfterCleanup, QueueInv, TypeInv
  <1>2. TypeOK'
    BY <1>1, CleanupSessionsTyped DEF QueueInv, TypeInv, TypeOK, UnmappedAfterCleanup
  <1>3. SlotsUsed'
    BY <1>1 DEF QueueInv, SlotsUsed
  <1>4. QED
    BY <1>1, <1>2, <1>3 DEF QueueInv, TypeInv

\* Handling a page or a subtask, and completing, keep sessions and tasks typed.
LEMMA HandledTyped ==
  ASSUME TypeOK, NEW t \in TaskIds, NEW failed \in BOOLEAN
  PROVE  PageHandled(t, failed) \in Session /\ SubtaskHandled(t, failed) \in Session
  <1> USE DEF TypeOK
  <1>1. sessions[t] \in Session
    OBVIOUS
  <1>2. (IF sessions[t].activeWorkers > 0 THEN sessions[t].activeWorkers - 1 ELSE 0) \in Nat
    BY <1>1 DEF Session
  <1>3. sessions[t].tasksHandled + 1 \in Nat
    BY <1>1 DEF Session
  <1>4. \A w \in Nat, h \in Nat, f \in BOOLEAN :
            [sessions[t] EXCEPT !.activeWorkers = w, !.tasksHandled = h,
                                !.lastActivityAt = now, !.failed = f] \in Session
    BY <1>1 DEF Session
  <1>5. \A h \in Nat, f \in BOOLEAN :
            [sessions[t] EXCEPT !.tasksHandled = h, !.lastActivityAt = now, !.failed = f] \in Session
    BY <1>1 DEF Session
  <1>6. QED
    BY <1>2, <1>3, <1>4, <1>5 DEF PageHandled, SubtaskHandled

LEMMA ConcludeTyped ==
  ASSUME now \in Nat, NEW task \in Task, NEW s \in Session
  PROVE  Conclude(task, s) \in Task /\ SessionLeft(s) \in Session
  <1>1. Conclude(task, s) \in Task
    BY DEF Conclude, Task, Statuses
  <1>2. SessionLeft(s) \in Session
    BY DEF SessionLeft, ClosedSession, Session
  <1>3. QED
    BY <1>1, <1>2

LEMMA PageSettlesQueueInv ==
  ASSUME QueueInv, NEW j \in running, NEW failed \in BOOLEAN, NEW undef \in BOOLEAN,
         PageSettles(j, failed, undef)
  PROVE  QueueInv'
  <1> DEFINE t == j.task
             p == tasks[t].parent
             s == PageHandled(t, failed)
             task == Conclude([tasks[t] EXCEPT !.undef = @ \/ undef], s)
             ps == SubtaskHandled(p, s.failed)
             parent == Conclude([tasks[p] EXCEPT !.completedSubtasks = @ \cup {t},
                                                 !.undef = @ \/ task.undef], ps)
  <1> USE DEF QueueInv, TypeInv, TypeOK
  <1>1. /\ t \in TaskIds /\ tasks[t] \in Task /\ p \in TaskIds \cup {NoTask}
        /\ now + ResultRetention \in Nat
    BY ConfigAssumption DEF RunningJob, Task
  <1>2. s \in Session /\ s.failed \in BOOLEAN
    BY <1>1, HandledTyped DEF Session
  <1>3. task \in Task /\ SessionLeft(s) \in Session
    <2>1. [tasks[t] EXCEPT !.undef = @ \/ undef] \in Task
      BY <1>1 DEF Task
    <2>2. QED
      BY <1>2, <2>1, ConcludeTyped
  <1>4. ASSUME p \in TaskIds PROVE parent \in Task /\ SessionLeft(ps) \in Session
    <2>1. ps \in Session
      BY <1>2, <1>4, HandledTyped
    <2>2. task.undef \in BOOLEAN /\ tasks[p] \in Task
      BY <1>3, <1>4 DEF Task
    <2> HIDE DEF task
    <2>3. [tasks[p] EXCEPT !.completedSubtasks = @ \cup {t}, !.undef = @ \/ task.undef] \in Task
      BY <1>1, <2>2 DEF Task
    <2>4. QED
      BY <2>1, <2>3, ConcludeTyped
  <1>5. tasks' \in [TaskIds -> Task] /\ sessions' \in [TaskIds -> Session]
    BY <1>1, <1>3, <1>4 DEF PageSettles
  <1>6. activeTaskByDedupeKey' \in [DedupeKeys -> TaskIds \cup {NoTask}]
    BY DEF PageSettles
  <1>7. recentTaskByDedupeKey' \in [DedupeKeys -> [task : TaskIds \cup {NoTask}, expiresAt : Nat]]
    BY <1>1 DEF PageSettles
  <1>8. running' = running \ {j} /\ UNCHANGED <<now, created, pendingJobs, activeJobs>>
    BY DEF PageSettles
  <1>9. /\ IsFiniteSet(running') /\ Cardinality(running') <= Cardinality(running)
        /\ Cardinality(running') \in Nat /\ Cardinality(running) \in Nat
    BY <1>8, FS_Subset, FS_CardinalityType
  <1>10. SlotsUsed'
    BY <1>8, <1>9 DEF SlotsUsed
  <1>11. unmapped' \subseteq TaskIds
    BY DEF PageSettles
  <1>12. QED
    BY <1>5, <1>6, <1>7, <1>8, <1>9, <1>10, <1>11

LEMMA NextQueueInv == QueueInv /\ [Next]_vars => QueueInv'
  <1> SUFFICES ASSUME QueueInv, [Next]_vars PROVE QueueInv'
    OBVIOUS
  <1> USE DEF QueueInv, TypeInv
  <1>1. /\ TasksAfterCleanup \in [TaskIds -> Task]
        /\ SessionsAfterCleanup \in [TaskIds -> Session]
        /\ ActiveAfterCleanup \in [DedupeKeys -> TaskIds \cup {NoTask}]
        /\ RecentAfterCleanup \in [DedupeKeys -> [task : TaskIds \cup {NoTask}, expiresAt : Nat]]
        /\ JobsAfterCleanup \subseteq Job /\ IsFiniteSet(JobsAfterCleanup)
    <2>1. IsFiniteSet(JobsAfterCleanup)
      BY FS_Subset DEF JobsAfterCleanup
    <2>2. QED
      BY <2>1, CleanupTasksTyped, CleanupSessionsTyped, CleanupDedupeTyped, CleanupJobsTyped
  <1>2. \A k \in DedupeKeys, u \in Users : TasksAfterActive(k, u) \in [TaskIds -> Task]
    BY <1>1, LinkTyped DEF TasksAfterActive
  <1>3. ASSUME NEW u \in Users, NEW k \in DedupeKeys, JoinActiveTask(u, k)
        PROVE QueueInv'
    BY <1>1, <1>3, LinkTyped, CleanupQueueInv DEF JoinActiveTask
  <1>4. ASSUME NEW u \in Users, NEW k \in DedupeKeys, ReuseRecentTask(u, k)
        PROVE QueueInv'
    <2>1. tasks' \in [TaskIds -> Task]
      BY <1>2, <1>4, LinkTyped DEF ReuseRecentTask
    <2>2. activeTaskByDedupeKey' \in [DedupeKeys -> TaskIds \cup {NoTask}]
      BY <1>1, <1>4 DEF ReuseRecentTask
    <2>3. QED
      BY <1>1, <1>4, <2>1, <2>2, CleanupQueueInv DEF ReuseRecentTask
  <1>5. ASSUME NEW u \in Users, NEW k \in DedupeKeys, NEW plan \in Plans, StartTask(u, k, plan)
        PROVE QueueInv'
    <2> DEFINE id == created + 1
               S == SessionsAfterQueueing(SessionsAfterCleanup, k, id, plan)
               jobs == JobsAfterCleanup \cup NewJobs(id, plan)
    <2>1. (IF IsComposite(plan) THEN id + ChunkCount(plan) ELSE id) <= MaxTasks
      BY <1>5 DEF StartTask
    <2>2. /\ id \in TaskIds /\ ChunkCount(plan) \in Nat
          /\ tasks' \in [TaskIds -> Task] /\ S \in [TaskIds -> Session]
          /\ NewJobs(id, plan) \subseteq Job /\ IsFiniteSet(NewJobs(id, plan))
      BY <1>1, <1>2, <1>5, <2>1, QueueingTyped DEF StartTask
    <2>3. jobs \subseteq Job /\ IsFiniteSet(jobs)
      BY <1>1, <2>2, FS_Union
    <2>4. Pump(S, jobs, activeJobs)
      BY <1>5 DEF StartTask
    <2>5. /\ sessions' \in [TaskIds -> Session]
          /\ pendingJobs' \in SUBSET Job /\ IsFiniteSet(pendingJobs')
          /\ running' \in SUBSET RunningJob /\ IsFiniteSet(running')
          /\ activeJobs' \in 0 .. MaxConcurrency
          /\ Cardinality(running') <= activeJobs'
          /\ pendingJobs' # {} => activeJobs' = MaxConcurrency
      <3> HIDE DEF S, jobs
      <3>1. activeJobs \in 0 .. MaxConcurrency /\ Cardinality(running) <= activeJobs
        BY DEF TypeOK, SlotsUsed
      <3>2. QED
        BY <2>2, <2>3, <2>4, <3>1, PumpTyped
    <2>6. created' \in 0 .. MaxTasks
      BY <1>5, <2>1, <2>2, ConfigAssumption DEF StartTask, TaskIds
    <2>7. activeTaskByDedupeKey' \in [DedupeKeys -> TaskIds \cup {NoTask}]
      BY <1>1, <1>5, <2>2 DEF StartTask
    <2>8. recentTaskByDedupeKey' \in [DedupeKeys -> [task : TaskIds \cup {NoTask}, expiresAt : Nat]]
      <3>1. now + ResultRetention \in Nat
        BY ConfigAssumption DEF TypeOK
      <3>2. QED
        BY <1>1, <1>5, <2>2, <3>1 DEF StartTask, NoRecent
    <2>9. now' \in Nat /\ unmapped' \subseteq TaskIds
      BY <1>5 DEF StartTask, TypeOK, UnmappedAfterCleanup
    <2>10. QED
      BY <2>2, <2>5, <2>6, <2>7, <2>8, <2>9 DEF TypeOK, SlotsUsed
  <1>6. ASSUME NEW j \in running, PageAnswers(j) \/ PageFails(j) \/ PageTimesOut(j)
        PROVE QueueInv'
    BY <1>6, PageSettlesQueueInv DEF PageAnswers, PageFails, PageTimesOut
  <1>7. CASE ReleaseSlot
    <2>1. activeJobs - 1 \in 0 .. MaxConcurrency /\ Cardinality(running) <= activeJobs - 1
      <3>1. Cardinality(running) \in Nat /\ Cardinality(running) < activeJobs
        BY <1>7, FS_CardinalityType DEF ReleaseSlot
      <3>2. QED
        BY <3>1, ConfigAssumption DEF TypeOK
    <2>2. Pump(sessions, pendingJobs, activeJobs - 1)
      BY <1>7 DEF ReleaseSlot
    <2>3. /\ sessions' \in [TaskIds -> Session]
          /\ pendingJobs' \in SUBSET Job /\ IsFiniteSet(pendingJobs')
          /\ running' \in SUBSET RunningJob /\ IsFiniteSet(running')
          /\ activeJobs' \in 0 .. MaxConcurrency
          /\ Cardinality(running') <= activeJobs'
          /\ pendingJobs' # {} => activeJobs' = MaxConcurrency
      BY <2>1, <2>2, PumpTyped DEF TypeOK
    <2>4. QED
      BY <1>7, <2>3 DEF ReleaseSlot, TypeOK, SlotsUsed
  <1>8. CASE CleanupExpiredTasks
    BY <1>1, <1>8, CleanupQueueInv DEF CleanupExpiredTasks
  <1>9. CASE Tick
    BY <1>9 DEF Tick, registry, TypeOK, SlotsUsed
  <1>10. CASE UNCHANGED vars
    BY <1>10 DEF vars, registry, TypeOK, SlotsUsed
  <1>11. QED
    BY <1>3, <1>4, <1>5, <1>6, <1>7, <1>8, <1>9, <1>10 DEF Next

\* Every reachable state is typed and uses its slots: the queue never exceeds
\* maxConcurrency, and no job waits beside a free slot, for any number of slots,
\* tasks, keys and pages.
THEOREM QueueSafe == Spec => []QueueInv
  <1>1. Init => QueueInv
    BY InitQueueInv
  <1>2. QueueInv /\ [Next]_vars => QueueInv'
    BY NextQueueInv
  <1>3. QED
    BY <1>1, <1>2, PTL DEF Spec

\* The variables keep the kinds of values the code declares for them.
THEOREM TypeCorrect == Spec => []TypeOK
  <1>1. QueueInv => TypeOK
    BY DEF QueueInv, TypeInv
  <1>2. QED
    BY <1>1, QueueSafe, PTL

\* The bounded queue is work-conserving (taskQueue.ts pump and run).
THEOREM SlotsUsedAlways == Spec => []SlotsUsed
  <1>1. QueueInv => SlotsUsed
    BY DEF QueueInv
  <1>2. QED
    BY <1>1, QueueSafe, PTL

-----------------------------------------------------------------------------
(* The registry.  An action is a cleanup pass and then one or two changes  *)
(* more, so the invariant is stated of tables (T of tasks, S of sessions,  *)
(* J and R of waiting and running jobs) and each change of a table has a   *)
(* lemma of its own.                                                       *)

JobsOf(jobs, t) == {j \in jobs : j.task = t}

\* A session is there exactly while its task is pending, jobs are of leaf tasks that
\* are pending, and a page waits or runs, not both.
LiveInv(T, S, J, R) ==
    /\ \A t \in TaskIds : S[t].open <=> T[t].status = "pending"
    /\ \A t \in TaskIds : ~S[t].open => S[t] = ClosedSession
    /\ \A j \in J \cup R : S[j.task].open /\ T[j.task].subtasks = {}
    /\ \A j \in J, r \in R : j.task = r.task => j.page # r.page

\* Tasks and their subtasks name each other while both are there, and a subtask does
\* not outlast its parent unfinished.
TreeInv(T, n) ==
    /\ \A t \in TaskIds : t > n \/ T[t].status = "absent" => T[t] = AbsentTask
    /\ \A p \in TaskIds : \A s \in T[p].subtasks : T[s].status # "absent" /\ T[s].parent = p
    /\ \A s \in TaskIds :
          LET p == T[s].parent
          IN  p # NoTask =>
                /\ p < s /\ T[s].subtasks = {}
                /\ T[p].status # "absent" => s \in T[p].subtasks
                /\ T[s].status = "pending" => T[p].status = "pending"

\* The counters of a task without subtasks.
LeafCounts(s, running_, waiting) ==
    /\ s.activeWorkers = running_
    /\ s.totalPages = s.tasksHandled + s.activeWorkers + waiting
    /\ s.tasksHandled < s.totalPages

LeafInv(T, S, J, R) ==
    \A t \in TaskIds :
        S[t].open /\ T[t].subtasks = {} =>
            LeafCounts(S[t], Cardinality(JobsOf(R, t)), Cardinality(JobsOf(J, t)))

HeardOf(T, p) == {s \in T[p].subtasks : Finished(T[s])}

\* What a parent has counted of its subtasks and says of them.
ParentInv(T, S) ==
    \A p \in TaskIds :
        T[p].subtasks # {} =>
            /\ T[p].status = "pending" =>
                  /\ T[p].completedSubtasks = HeardOf(T, p)
                  /\ S[p].tasksHandled = Cardinality(HeardOf(T, p))
                  /\ S[p].totalPages = Cardinality(T[p].subtasks)
                  /\ HeardOf(T, p) # T[p].subtasks
            /\ \A s \in T[p].subtasks : T[s].users = T[p].users
            /\ (T[p].status = "failed" \/ S[p].failed) <=> \E s \in HeardOf(T, p) : T[s].status = "failed"
            /\ T[p].undef <=> \E s \in HeardOf(T, p) : T[s].undef

RegistryInv(T, S, J, R, n) ==
    LiveInv(T, S, J, R) /\ TreeInv(T, n) /\ LeafInv(T, S, J, R) /\ ParentInv(T, S)

\* Where the dedupe maps A and M (active and recent) lead.
MapsInv(T, S, A, M) ==
    /\ \A t \in TaskIds : S[t].dedupeKey # NoKey => T[t].parent = NoTask
    /\ \A k \in DedupeKeys :
          A[k] # NoTask => /\ S[A[k]].open /\ S[A[k]].dedupeKey = k
                           /\ \A x \in TaskIds : x > A[k] => S[x].dedupeKey # k
    /\ \A k \in DedupeKeys :
          M[k].task # NoTask /\ M[k].expiresAt >= now =>
              /\ Finished(T[M[k].task]) /\ T[M[k].task].parent = NoTask
              /\ M[k].expiresAt <= T[M[k].task].completedAt + ResultRetention

\* A pending task that is not in U is the active one of its key while it is young,
\* and no other task of the key was started while it was.
SharingInv(T, S, A, U) ==
    /\ \A t \in TaskIds : T[t].createdAt <= now
    /\ \A t \in TaskIds \ U :
          S[t].dedupeKey # NoKey =>
              A[S[t].dedupeKey] = t \/ now - T[t].createdAt > ResultRetention
    /\ \A t \in TaskIds \ U : \A x \in TaskIds :
          S[t].dedupeKey = S[x].dedupeKey /\ S[t].dedupeKey # NoKey /\ t < x =>
              T[x].createdAt - T[t].createdAt > ResultRetention

TasksInv ==
    /\ QueueInv
    /\ RegistryInv(tasks, sessions, pendingJobs, running, created)
    /\ MapsInv(tasks, sessions, activeTaskByDedupeKey, recentTaskByDedupeKey)
    /\ SharingInv(tasks, sessions, activeTaskByDedupeKey, unmapped)

\* The tables hold values of their kinds, and the jobs can be counted.
TablesTyped(T, S, J, R) ==
    /\ T \in [TaskIds -> Task] /\ S \in [TaskIds -> Session]
    /\ J \subseteq Job /\ IsFiniteSet(J)
    /\ R \subseteq RunningJob /\ IsFiniteSet(R)

Registry == TypeInv /\ RegistryInv(tasks, sessions, pendingJobs, running, created)

-----------------------------------------------------------------------------
(* The cleanup pass.                                                       *)

\* Tasks whose session a pass closes.
Closes(t) == Orphaned(t) \/ ParentCompletes(t)

\* Only a leaf task expires, and only while none of its workers runs: a parent that
\* is pending has a pending subtask.
LEMMA OnlyIdleLeavesExpire ==
  ASSUME Registry, NEW t \in TaskIds, Orphaned(t)
  PROVE  /\ tasks[t].status = "pending" /\ sessions[t].open
         /\ tasks[t].subtasks = {} /\ ~ParentHears(t) /\ ~Forgotten(t)
         /\ JobsOf(running, t) = {}
  <1> USE DEF Registry, TypeInv, TypeOK
  <1>1. tasks[t].status = "pending" /\ sessions[t].open
    BY DEF Orphaned, RegistryInv, LiveInv
  <1>2. tasks[t].subtasks = {}
    <2> SUFFICES ASSUME tasks[t].subtasks # {} PROVE FALSE
      OBVIOUS
    <2>1. PICK s \in tasks[t].subtasks : ~Finished(tasks[s])
      BY <1>1 DEF RegistryInv, ParentInv, HeardOf
    <2>2. s \in TaskIds /\ tasks[s].status # "absent" /\ tasks[s].status \in Statuses
      BY <2>1 DEF RegistryInv, TreeInv, Task
    <2>3. HasPendingSubtasks(t)
      BY <2>1, <2>2 DEF HasPendingSubtasks, Finished, Statuses
    <2>4. QED
      BY <1>1, <2>3 DEF Orphaned
  <1>3. JobsOf(running, t) = {}
    <2>1. IsFiniteSet(JobsOf(running, t))
      BY FS_Subset DEF JobsOf
    <2>2. sessions[t].activeWorkers = Cardinality(JobsOf(running, t))
      BY <1>1, <1>2 DEF RegistryInv, LeafInv, LeafCounts
    <2>3. Cardinality(JobsOf(running, t)) \in Nat /\ ~(sessions[t].activeWorkers > 0)
      BY <1>1, <2>1, FS_CardinalityType DEF Orphaned
    <2>4. Cardinality(JobsOf(running, t)) = 0
      BY <2>2, <2>3
    <2>5. QED
      BY <2>1, <2>4, FS_EmptySet
  <1>4. QED
    BY <1>1, <1>2, <1>3 DEF ParentHears, OrphanedSubtasks, Forgotten, Finished

\* What a pass makes of one task and its session, field by field.
LEMMA PassOfOne ==
  ASSUME Registry, NEW t \in TaskIds
  PROVE  LET task == TasksAfterCleanup[t]
             session == SessionsAfterCleanup[t]
         IN  /\ Forgotten(t) => /\ task = AbsentTask /\ ~Closes(t) /\ ~ParentHears(t)
                                /\ session = sessions[t] /\ ~sessions[t].open
             /\ ~Forgotten(t) =>
                  /\ task.users = tasks[t].users /\ task.createdAt = tasks[t].createdAt
                  /\ task.parent = tasks[t].parent /\ task.subtasks = tasks[t].subtasks
                  /\ Closes(t) => task.status = "failed" /\ task.completedAt = now
                  /\ ~Closes(t) => task.status = tasks[t].status
                                   /\ task.completedAt = tasks[t].completedAt
                  /\ ParentHears(t) =>
                       /\ task.completedSubtasks = tasks[t].completedSubtasks \cup OrphanedSubtasks(t)
                       /\ task.undef <=> tasks[t].undef \/ \E s \in OrphanedSubtasks(t) : tasks[s].undef
                  /\ ~ParentHears(t) => /\ task.completedSubtasks = tasks[t].completedSubtasks
                                        /\ task.undef <=> tasks[t].undef
             /\ ~Closes(t) /\ ~ParentHears(t) =>
                  session = sessions[t] /\ (~Forgotten(t) => task = tasks[t])
             /\ Closes(t) => session = ClosedSession /\ sessions[t].open
                             /\ tasks[t].status = "pending"
             /\ ~Closes(t) /\ ParentHears(t) =>
                  /\ session.open /\ session.failed
                  /\ session.tasksHandled = HandledAfterExpiry(t)
                  /\ session.totalPages = sessions[t].totalPages
                  /\ session.dedupeKey = sessions[t].dedupeKey
             /\ ParentHears(t) => tasks[t].status = "pending" /\ sessions[t].open /\ tasks[t].subtasks # {}
  <1> USE DEF Registry, TypeInv, TypeOK
  <1> DEFINE task == TasksAfterCleanup[t]
             session == SessionsAfterCleanup[t]
  <1>1. tasks[t] \in Task /\ sessions[t] \in Session
    OBVIOUS
  <1>2. ParentHears(t) => tasks[t].status = "pending" /\ sessions[t].open /\ tasks[t].subtasks # {}
    BY DEF ParentHears, OrphanedSubtasks
  <1>3. ParentCompletes(t) => ParentHears(t)
    BY DEF ParentCompletes
  <1>4. CASE Orphaned(t)
    <2>1. /\ task = [tasks[t] EXCEPT !.status = "failed", !.completedAt = now]
          /\ session = ClosedSession
      BY <1>3, <1>4, OnlyIdleLeavesExpire DEF TasksAfterCleanup, SessionsAfterCleanup
    <2>2. QED
      BY <1>1, <1>3, <1>4, <2>1, OnlyIdleLeavesExpire DEF Closes, Task
  <1>5. CASE ~Orphaned(t) /\ ParentHears(t)
    <2>1. ~Forgotten(t)
      BY <1>2, <1>5 DEF Forgotten, Finished
    <2>2. /\ task = [tasks[t] EXCEPT
                    !.status = IF ParentCompletes(t) THEN "failed" ELSE @,
                    !.completedAt = IF ParentCompletes(t) THEN now ELSE @,
                    !.completedSubtasks = @ \cup OrphanedSubtasks(t),
                    !.undef = @ \/ \E s \in OrphanedSubtasks(t) : tasks[s].undef]
      BY <1>5, <2>1 DEF TasksAfterCleanup
    <2>3. /\ ParentCompletes(t) => session = ClosedSession
          /\ ~ParentCompletes(t) =>
                session = [sessions[t] EXCEPT !.tasksHandled = HandledAfterExpiry(t),
                                              !.lastActivityAt = now, !.failed = TRUE]
      BY <1>5 DEF SessionsAfterCleanup
    <2>4. ~ParentCompletes(t) =>
             /\ session.open /\ session.failed
             /\ session.tasksHandled = HandledAfterExpiry(t)
             /\ session.totalPages = sessions[t].totalPages
             /\ session.dedupeKey = sessions[t].dedupeKey
      <3>1. sessions[t].open
        BY <1>2, <1>5
      <3> HIDE DEF session, task, Registry, TypeInv, TypeOK
      <3>2. QED
        BY <1>1, <2>3, <3>1 DEF Session
    <2>5. /\ task.users = tasks[t].users /\ task.createdAt = tasks[t].createdAt
          /\ task.parent = tasks[t].parent /\ task.subtasks = tasks[t].subtasks
          /\ ParentCompletes(t) => task.status = "failed" /\ task.completedAt = now
          /\ ~ParentCompletes(t) => task.status = tasks[t].status
                                    /\ task.completedAt = tasks[t].completedAt
          /\ task.completedSubtasks = tasks[t].completedSubtasks \cup OrphanedSubtasks(t)
      BY <1>1, <2>2 DEF Task
    <2>6. task.undef <=> tasks[t].undef \/ \E s \in OrphanedSubtasks(t) : tasks[s].undef
      BY <1>1, <2>2 DEF Task
    <2>7. QED
      BY <1>2, <1>5, <2>1, <2>3, <2>4, <2>5, <2>6 DEF Closes
  <1>6. CASE ~Orphaned(t) /\ ~ParentHears(t) /\ Forgotten(t)
    <2>1. task = AbsentTask /\ session = sessions[t]
      BY <1>3, <1>6 DEF TasksAfterCleanup, SessionsAfterCleanup
    <2>2. ~sessions[t].open
      BY <1>6 DEF Forgotten, Finished, RegistryInv, LiveInv
    <2>3. QED
      BY <1>3, <1>6, <2>1, <2>2 DEF Closes
  <1>7. CASE ~Orphaned(t) /\ ~ParentHears(t) /\ ~Forgotten(t)
    <2>1. task = tasks[t] /\ session = sessions[t]
      BY <1>3, <1>7 DEF TasksAfterCleanup, SessionsAfterCleanup
    <2>2. QED
      BY <1>3, <1>7, <2>1 DEF Closes
  <1>8. QED
    BY <1>4, <1>5, <1>6, <1>7

\* A subtask of a task that stays: it stays too, and at most expires.
LEMMA PassOfSubtask ==
  ASSUME Registry, NEW p \in TaskIds, ~Forgotten(p), NEW s \in tasks[p].subtasks
  PROVE  LET task == TasksAfterCleanup[s]
         IN  /\ s \in TaskIds /\ tasks[s].parent = p /\ tasks[p].parent = NoTask
             /\ task.users = tasks[s].users /\ task.parent = p /\ task.subtasks = {}
             /\ task.undef <=> tasks[s].undef
             /\ tasks[s].subtasks = {} /\ ~Forgotten(s) /\ ~ParentHears(s)
             /\ task.status # "absent"
             /\ Orphaned(s) => task.status = "failed"
             /\ ~Orphaned(s) => task = tasks[s] /\ SessionsAfterCleanup[s] = sessions[s]
  <1> USE DEF Registry, TypeInv, TypeOK
  <1>1. s \in TaskIds /\ tasks[s].parent = p /\ tasks[s].status # "absent" /\ p # NoTask
    <2>1. s \in TaskIds
      BY DEF Task
    <2>2. tasks[s].parent = p /\ tasks[s].status # "absent"
      BY DEF RegistryInv, TreeInv
    <2>3. p # NoTask
      BY DEF TaskIds, NoTask
    <2>4. QED
      BY <2>1, <2>2, <2>3
  <1>2. tasks[s].subtasks = {} /\ (tasks[s].status = "pending" => tasks[p].status = "pending")
    BY <1>1 DEF RegistryInv, TreeInv
  <1>3. tasks[p].parent = NoTask
    <2>1. tasks[p].parent # NoTask => tasks[p].subtasks = {}
      BY DEF RegistryInv, TreeInv
    <2>2. QED
      BY <2>1
  <1>4. tasks[p].status # "absent"
    <2>1. tasks[p].status = "absent" => tasks[p] = AbsentTask
      BY DEF RegistryInv, TreeInv
    <2>2. QED
      BY <2>1 DEF AbsentTask
  <1>5. ~Forgotten(s)
    BY <1>1, <1>3, <1>4 DEF Forgotten
  <1>6. ~ParentHears(s) /\ ~ParentCompletes(s)
    BY <1>2 DEF ParentHears, ParentCompletes, OrphanedSubtasks
  <1>7. Closes(s) <=> Orphaned(s)
    BY <1>6 DEF Closes
  <1>8. QED
    BY <1>1, <1>2, <1>3, <1>5, <1>6, <1>7, PassOfOne

\* A pending parent that hears of expired subtasks adds them to those it has heard
\* of, and completes with them exactly when that is all of them.
LEMMA ExpiredAreCounted ==
  ASSUME Registry, NEW p \in TaskIds, tasks[p].status = "pending", tasks[p].subtasks # {}
  PROVE  LET heard == HeardOf(tasks, p) \cup OrphanedSubtasks(p)
         IN  /\ HandledAfterExpiry(p) = Cardinality(heard)
             /\ ParentHears(p) <=> OrphanedSubtasks(p) # {}
             /\ ParentCompletes(p) <=> heard = tasks[p].subtasks
  <1> USE DEF Registry, TypeInv, TypeOK
  <1> DEFINE old == HeardOf(tasks, p)
             new == OrphanedSubtasks(p)
             all == tasks[p].subtasks
  <1>1. old \subseteq all /\ new \subseteq all /\ all \subseteq TaskIds
    BY DEF HeardOf, OrphanedSubtasks, Task
  <1>2. IsFiniteSet(all) /\ IsFiniteSet(old) /\ IsFiniteSet(new)
    BY <1>1, TaskIdsFinite, FS_Subset
  <1>3. old \cap new = {}
    BY <1>1, OnlyIdleLeavesExpire DEF HeardOf, OrphanedSubtasks, Finished
  <1>4. /\ IsFiniteSet(old \cup new)
        /\ Cardinality(old \cup new) = Cardinality(old) + Cardinality(new)
    <2>1. Cardinality(old \cap new) = 0
      BY <1>3, FS_EmptySet
    <2>2. /\ IsFiniteSet(old \cup new)
          /\ Cardinality(old \cup new) = Cardinality(old) + Cardinality(new) - Cardinality(old \cap new)
      BY <1>2, FS_Union
    <2>3. Cardinality(old) \in Nat /\ Cardinality(new) \in Nat
      BY <1>2, FS_CardinalityType
    <2>4. QED
      BY <2>1, <2>2, <2>3
  <1>5. /\ sessions[p].tasksHandled = Cardinality(old)
        /\ sessions[p].totalPages = Cardinality(all)
        /\ sessions[p].open /\ old # all
    BY DEF RegistryInv, ParentInv, LiveInv
  <1>6. HandledAfterExpiry(p) = Cardinality(old \cup new)
    BY <1>4, <1>5 DEF HandledAfterExpiry
  <1>7. ParentHears(p) <=> new # {}
    BY <1>5 DEF ParentHears
  <1>8. Cardinality(all) > 0
    <2>1. Cardinality(all) # 0 /\ Cardinality(all) \in Nat
      BY <1>2, FS_EmptySet, FS_CardinalityType
    <2>2. QED
      BY <2>1
  <1>9. Cardinality(old \cup new) = Cardinality(all) <=> old \cup new = all
    BY <1>1, <1>2, FS_Subset
  <1>10. ParentCompletes(p) <=> old \cup new = all
    <2> HIDE DEF old, new, all
    <2>1. ParentCompletes(p) <=> new # {} /\ Cardinality(old \cup new) = Cardinality(all)
      BY <1>5, <1>6, <1>7, <1>8 DEF ParentCompletes
    <2>2. QED
      BY <1>5, <1>9, <2>1
  <1>11. QED
    BY <1>6, <1>7, <1>10

\* What a parent has heard of after a pass it outlives.
LEMMA HeardAfterPass ==
  ASSUME Registry, NEW p \in TaskIds, ~Forgotten(p)
  PROVE  HeardOf(TasksAfterCleanup, p) = HeardOf(tasks, p) \cup OrphanedSubtasks(p)
  <1>1. TasksAfterCleanup[p].subtasks = tasks[p].subtasks
    BY PassOfOne
  <1>2. \A s \in tasks[p].subtasks :
           Finished(TasksAfterCleanup[s]) <=> Finished(tasks[s]) \/ Orphaned(s)
    BY PassOfSubtask DEF Finished
  <1>3. QED
    BY <1>1, <1>2 DEF HeardOf, OrphanedSubtasks

\* The parts of the invariant, one at a time, across a pass.
LEMMA PassKeepsLive ==
  ASSUME Registry
  PROVE  LiveInv(TasksAfterCleanup, SessionsAfterCleanup, JobsAfterCleanup, running)
  <1> USE DEF Registry, TypeInv, TypeOK
  <1>1. ASSUME NEW t \in TaskIds
        PROVE /\ SessionsAfterCleanup[t].open <=> TasksAfterCleanup[t].status = "pending"
              /\ ~SessionsAfterCleanup[t].open => SessionsAfterCleanup[t] = ClosedSession
    <2>1. /\ sessions[t].open <=> tasks[t].status = "pending"
          /\ ~sessions[t].open => sessions[t] = ClosedSession
      BY DEF RegistryInv, LiveInv
    <2>2. CASE Forgotten(t)
      BY <2>1, <2>2, PassOfOne DEF AbsentTask
    <2>3. CASE ~Forgotten(t) /\ Closes(t)
      <3>1. ~ClosedSession.open
        BY DEF ClosedSession
      <3>2. SessionsAfterCleanup[t] = ClosedSession /\ TasksAfterCleanup[t].status = "failed"
        BY <2>3, PassOfOne
      <3>3. QED
        BY <3>1, <3>2
    <2>4. CASE ~Forgotten(t) /\ ~Closes(t)
      BY <2>1, <2>4, PassOfOne
    <2>5. QED
      BY <2>2, <2>3, <2>4
  <1>2. ASSUME NEW t \in TaskIds, sessions[t].open, tasks[t].subtasks = {}, ~Orphaned(t)
        PROVE SessionsAfterCleanup[t].open /\ TasksAfterCleanup[t].subtasks = {}
    <2>1. ~Forgotten(t)
      BY <1>2 DEF Forgotten, Finished, RegistryInv, LiveInv
    <2>2. ~ParentHears(t) /\ ~Closes(t)
      BY <1>2 DEF ParentHears, ParentCompletes, OrphanedSubtasks, Closes
    <2>3. QED
      BY <1>2, <2>1, <2>2, PassOfOne
  <1>3. ASSUME NEW j \in JobsAfterCleanup \cup running
        PROVE SessionsAfterCleanup[j.task].open /\ TasksAfterCleanup[j.task].subtasks = {}
    <2>1. j \in pendingJobs \cup running /\ j.task \in TaskIds
      BY DEF JobsAfterCleanup, Job, RunningJob
    <2>2. ~Orphaned(j.task)
      <3>1. CASE j \in JobsAfterCleanup
        BY <3>1 DEF JobsAfterCleanup
      <3>2. CASE j \in running
        BY <2>1, <3>2, OnlyIdleLeavesExpire DEF JobsOf
      <3>3. QED
        BY <3>1, <3>2
    <2>3. sessions[j.task].open /\ tasks[j.task].subtasks = {}
      BY <2>1 DEF RegistryInv, LiveInv
    <2>4. QED
      BY <1>2, <2>1, <2>2, <2>3
  <1>4. ASSUME NEW j \in JobsAfterCleanup, NEW r \in running, j.task = r.task PROVE j.page # r.page
    BY <1>4 DEF JobsAfterCleanup, RegistryInv, LiveInv
  <1>5. QED
    BY <1>1, <1>3, <1>4 DEF LiveInv

LEMMA PassKeepsTree == Registry => TreeInv(TasksAfterCleanup, created)
  <1> SUFFICES ASSUME Registry PROVE TreeInv(TasksAfterCleanup, created)
    OBVIOUS
  <1> USE DEF Registry, TypeInv, TypeOK
  <1> DEFINE T == TasksAfterCleanup
  <1>1. ASSUME NEW t \in TaskIds, t > created \/ T[t].status = "absent" PROVE T[t] = AbsentTask
    <2>1. CASE Forgotten(t)
      BY <2>1, PassOfOne
    <2>2. CASE ~Forgotten(t)
      <3>1. t > created \/ tasks[t].status = "absent"
        BY <1>1, <2>2, PassOfOne
      <3>2. tasks[t] = AbsentTask
        BY <3>1 DEF RegistryInv, TreeInv
      <3>3. ~Closes(t) /\ ~ParentHears(t)
        BY <3>2, PassOfOne DEF AbsentTask
      <3>4. QED
        BY <2>2, <3>2, <3>3, PassOfOne
    <2>3. QED
      BY <2>1, <2>2
  <1>2. ASSUME NEW p \in TaskIds, NEW s \in T[p].subtasks
        PROVE T[s].status # "absent" /\ T[s].parent = p
    <2>1. ~Forgotten(p) /\ s \in tasks[p].subtasks
      BY PassOfOne DEF AbsentTask
    <2>2. QED
      BY <2>1, PassOfSubtask
  <1>3. ASSUME NEW s \in TaskIds, T[s].parent # NoTask
        PROVE LET p == T[s].parent
              IN  /\ p < s /\ T[s].subtasks = {}
                  /\ T[p].status # "absent" => s \in T[p].subtasks
                  /\ T[s].status = "pending" => T[p].status = "pending"
    <2> DEFINE p == tasks[s].parent
    <2>1. ~Forgotten(s) /\ T[s].parent = p /\ T[s].subtasks = tasks[s].subtasks
      BY <1>3, PassOfOne DEF AbsentTask
    <2>2. p # NoTask /\ p \in TaskIds
      BY <1>3, <2>1 DEF Task
    <2>3. /\ p < s /\ tasks[s].subtasks = {}
          /\ tasks[p].status # "absent" => s \in tasks[p].subtasks
          /\ tasks[s].status = "pending" => tasks[p].status = "pending"
      BY <2>2 DEF RegistryInv, TreeInv
    <2>4. tasks[p].status = "absent" => tasks[p] = AbsentTask
      BY <2>2 DEF RegistryInv, TreeInv
    <2>5. ASSUME T[p].status # "absent" PROVE s \in T[p].subtasks
      <3>1. ~Forgotten(p)
        BY <2>2, <2>5, PassOfOne DEF AbsentTask
      <3>2. tasks[p].status # "absent"
        BY <2>2, <2>4, <2>5, <3>1, PassOfOne DEF AbsentTask
      <3>3. QED
        BY <2>2, <2>3, <3>1, <3>2, PassOfOne
    <2>6. ASSUME T[s].status = "pending" PROVE T[p].status = "pending"
      <3>1. tasks[s].status = "pending" /\ ~Orphaned(s)
        BY <2>1, <2>6, PassOfOne DEF Closes
      <3>2. tasks[p].status = "pending" /\ s \in tasks[p].subtasks
        BY <2>3, <3>1
      <3>3. ~Orphaned(p) /\ ~Forgotten(p)
        BY <2>2, <3>2, OnlyIdleLeavesExpire DEF Forgotten, Finished
      <3>4. s \notin HeardOf(tasks, p) \cup OrphanedSubtasks(p)
        BY <3>1 DEF HeardOf, OrphanedSubtasks, Finished
      <3>5. ~ParentCompletes(p)
        BY <2>2, <3>2, <3>4, ExpiredAreCounted
      <3>6. QED
        BY <2>2, <3>2, <3>3, <3>5, PassOfOne DEF Closes
    <2>7. QED
      BY <2>1, <2>3, <2>5, <2>6
  <1> HIDE DEF T
  <1>4. QED
    BY <1>1, <1>2, <1>3 DEF TreeInv, T

LEMMA PassKeepsLeaves ==
  ASSUME Registry
  PROVE  LeafInv(TasksAfterCleanup, SessionsAfterCleanup, JobsAfterCleanup, running)
  <1> USE DEF Registry, TypeInv, TypeOK
  <1> SUFFICES ASSUME NEW t \in TaskIds, SessionsAfterCleanup[t].open, TasksAfterCleanup[t].subtasks = {}
               PROVE  LeafCounts(SessionsAfterCleanup[t], Cardinality(JobsOf(running, t)),
                                 Cardinality(JobsOf(JobsAfterCleanup, t)))
    BY DEF LeafInv
  <1>1. ~Closes(t) /\ ~Forgotten(t)
    BY PassOfOne DEF ClosedSession
  <1>2. tasks[t].subtasks = {}
    BY <1>1, PassOfOne
  <1>3. ~ParentHears(t)
    BY <1>2, PassOfOne
  <1>4. SessionsAfterCleanup[t] = sessions[t]
    BY <1>1, <1>3, PassOfOne
  <1>5. JobsOf(JobsAfterCleanup, t) = JobsOf(pendingJobs, t)
    BY <1>1 DEF JobsOf, JobsAfterCleanup, Closes
  <1>6. QED
    BY <1>2, <1>4, <1>5 DEF RegistryInv, LeafInv

LEMMA PassKeepsParents == Registry => ParentInv(TasksAfterCleanup, SessionsAfterCleanup)
  <1> USE DEF Registry, TypeInv, TypeOK
  <1> SUFFICES ASSUME Registry, NEW p \in TaskIds, TasksAfterCleanup[p].subtasks # {}
               PROVE  LET T == TasksAfterCleanup
                          S == SessionsAfterCleanup
                      IN  /\ T[p].status = "pending" =>
                               /\ T[p].completedSubtasks = HeardOf(T, p)
                               /\ S[p].tasksHandled = Cardinality(HeardOf(T, p))
                               /\ S[p].totalPages = Cardinality(T[p].subtasks)
                               /\ HeardOf(T, p) # T[p].subtasks
                          /\ \A s \in T[p].subtasks : T[s].users = T[p].users
                          /\ (T[p].status = "failed" \/ S[p].failed) <=>
                               \E s \in HeardOf(T, p) : T[s].status = "failed"
                          /\ T[p].undef <=> \E s \in HeardOf(T, p) : T[s].undef
    BY DEF ParentInv
  <1> DEFINE T == TasksAfterCleanup
             S == SessionsAfterCleanup
             old == HeardOf(tasks, p)
             new == OrphanedSubtasks(p)
  <1>1. ~Forgotten(p) /\ T[p].subtasks = tasks[p].subtasks /\ tasks[p].subtasks # {}
    BY PassOfOne DEF AbsentTask
  <1>2. HeardOf(T, p) = old \cup new
    BY <1>1, HeardAfterPass
  <1>3. ~Orphaned(p) /\ (Closes(p) <=> ParentCompletes(p)) /\ (ParentCompletes(p) => ParentHears(p))
    BY <1>1, OnlyIdleLeavesExpire DEF Closes, ParentCompletes
  <1>4. /\ tasks[p].status = "pending" =>
             /\ tasks[p].completedSubtasks = old
             /\ sessions[p].tasksHandled = Cardinality(old)
             /\ sessions[p].totalPages = Cardinality(tasks[p].subtasks)
             /\ old # tasks[p].subtasks
        /\ \A s \in tasks[p].subtasks : tasks[s].users = tasks[p].users
        /\ (tasks[p].status = "failed" \/ sessions[p].failed) <=> \E s \in old : tasks[s].status = "failed"
        /\ tasks[p].undef <=> \E s \in old : tasks[s].undef
    BY <1>1 DEF RegistryInv, ParentInv
  <1>5. old \subseteq tasks[p].subtasks /\ new \subseteq tasks[p].subtasks
    BY DEF HeardOf, OrphanedSubtasks
  <1>6. ASSUME NEW s \in tasks[p].subtasks
        PROVE /\ T[s].users = tasks[s].users /\ (T[s].undef <=> tasks[s].undef)
              /\ s \in new => T[s].status = "failed"
              /\ s \in old => T[s] = tasks[s]
    <2>1. s \in old => ~Orphaned(s)
      BY <1>1, PassOfSubtask, OnlyIdleLeavesExpire DEF HeardOf, Finished
    <2>2. QED
      BY <1>1, <2>1, PassOfSubtask DEF OrphanedSubtasks
  <1>7. \A s \in T[p].subtasks : T[s].users = T[p].users
    BY <1>1, <1>4, <1>6, PassOfOne
  <1>8. ASSUME T[p].status = "pending"
        PROVE /\ T[p].completedSubtasks = old \cup new
              /\ S[p].tasksHandled = Cardinality(old \cup new)
              /\ S[p].totalPages = Cardinality(tasks[p].subtasks)
              /\ old \cup new # tasks[p].subtasks
    <2>1. tasks[p].status = "pending" /\ ~Closes(p)
      BY <1>1, <1>8, PassOfOne
    <2>2. /\ HandledAfterExpiry(p) = Cardinality(old \cup new)
          /\ ParentHears(p) <=> new # {}
          /\ old \cup new # tasks[p].subtasks
      BY <1>1, <1>3, <2>1, ExpiredAreCounted
    <2>3. CASE ParentHears(p)
      BY <1>1, <1>4, <2>1, <2>2, <2>3, PassOfOne
    <2>4. CASE ~ParentHears(p)
      <3>1. S[p] = sessions[p] /\ T[p] = tasks[p] /\ new = {}
        BY <1>1, <2>1, <2>2, <2>4, PassOfOne
      <3>2. QED
        BY <1>4, <2>1, <2>2, <3>1
    <2>5. QED
      BY <2>3, <2>4
  <1>9. /\ (T[p].status = "failed" \/ S[p].failed) <=> \E s \in old \cup new : T[s].status = "failed"
        /\ T[p].undef <=> \E s \in old \cup new : T[s].undef
    <2>1. CASE ParentHears(p)
      <3>1. new # {}
        BY <2>1 DEF ParentHears
      <3>2. T[p].status = "failed" \/ S[p].failed
        BY <1>1, <2>1, PassOfOne
      <3>3. T[p].undef <=> tasks[p].undef \/ \E s \in new : tasks[s].undef
        BY <1>1, <2>1, PassOfOne
      <3>4. QED
        BY <1>4, <1>5, <1>6, <3>1, <3>2, <3>3
    <2>2. CASE ~ParentHears(p)
      <3>1. S[p] = sessions[p] /\ T[p] = tasks[p]
        BY <1>1, <1>3, <2>2, PassOfOne
      <3>2. new = {}
        <4>1. ASSUME NEW s \in new PROVE tasks[p].status = "pending"
          <5>1. s \in TaskIds /\ tasks[s].parent = p /\ p # NoTask
            BY <1>1, PassOfSubtask DEF OrphanedSubtasks, TaskIds, NoTask
          <5>2. tasks[s].status = "pending"
            BY <5>1, OnlyIdleLeavesExpire DEF OrphanedSubtasks
          <5>3. QED
            BY <5>1, <5>2 DEF RegistryInv, TreeInv
        <4>2. QED
          BY <1>1, <2>2, <4>1, ExpiredAreCounted
      <3>3. QED
        BY <1>4, <1>5, <1>6, <3>1, <3>2
    <2>3. QED
      BY <2>1, <2>2
  <1> HIDE DEF T, S, old, new
  <1>10. QED
    BY <1>1, <1>2, <1>7, <1>8, <1>9 DEF T, S

\* Everything a pass leaves, as the later stretches of a request find it.
Cleaned ==
    /\ TablesTyped(TasksAfterCleanup, SessionsAfterCleanup, JobsAfterCleanup, running)
    /\ RegistryInv(TasksAfterCleanup, SessionsAfterCleanup, JobsAfterCleanup, running, created)
    /\ MapsInv(TasksAfterCleanup, SessionsAfterCleanup, ActiveAfterCleanup, RecentAfterCleanup)
    /\ SharingInv(TasksAfterCleanup, SessionsAfterCleanup, ActiveAfterCleanup, UnmappedAfterCleanup)

\* A session keeps its key until it is closed.
LEMMA PassKeepsKeys ==
  ASSUME Registry, NEW t \in TaskIds, SessionsAfterCleanup[t].dedupeKey # NoKey
  PROVE  /\ SessionsAfterCleanup[t].dedupeKey = sessions[t].dedupeKey
         /\ sessions[t].open /\ ~Closes(t) /\ ~Forgotten(t)
         /\ TasksAfterCleanup[t].createdAt = tasks[t].createdAt
         /\ TasksAfterCleanup[t].parent = tasks[t].parent
  <1>1. ~Closes(t)
    BY PassOfOne DEF ClosedSession
  <1>2. SessionsAfterCleanup[t].dedupeKey = sessions[t].dedupeKey
    BY <1>1, PassOfOne
  <1>3. sessions[t].open
    BY <1>2 DEF Registry, RegistryInv, LiveInv, ClosedSession
  <1>4. ~Forgotten(t)
    BY <1>3, PassOfOne
  <1>5. QED
    BY <1>1, <1>2, <1>3, <1>4, PassOfOne

LEMMA PassKeepsMaps ==
  ASSUME TasksInv
  PROVE  MapsInv(TasksAfterCleanup, SessionsAfterCleanup, ActiveAfterCleanup, RecentAfterCleanup)
  <1> USE DEF QueueInv, TypeInv, TypeOK
  <1> DEFINE T == TasksAfterCleanup
             S == SessionsAfterCleanup
             A == ActiveAfterCleanup
             M == RecentAfterCleanup
  <1>1. Registry
    BY DEF TasksInv, Registry
  <1>2. MapsInv(tasks, sessions, activeTaskByDedupeKey, recentTaskByDedupeKey)
    BY DEF TasksInv
  <1>3. ASSUME NEW t \in TaskIds, S[t].dedupeKey # NoKey PROVE T[t].parent = NoTask
    BY <1>1, <1>2, <1>3, PassKeepsKeys DEF MapsInv
  <1>4. ASSUME NEW k \in DedupeKeys, A[k] # NoTask
        PROVE  /\ S[A[k]].open /\ S[A[k]].dedupeKey = k
               /\ \A x \in TaskIds : x > A[k] => S[x].dedupeKey # k
    <2> DEFINE a == activeTaskByDedupeKey[k]
    <2>1. /\ A[k] = a
          /\ \A t \in TaskIds : Closes(t) => sessions[t].dedupeKey # k
      BY <1>4 DEF ActiveAfterCleanup, Closes
    <2>2. a \in TaskIds /\ k # NoKey
      BY <1>4, <2>1, ConfigAssumption DEF TasksInv
    <2>3. /\ sessions[a].open /\ sessions[a].dedupeKey = k
          /\ \A x \in TaskIds : x > a => sessions[x].dedupeKey # k
      BY <1>2, <1>4, <2>1 DEF MapsInv
    <2>4. ~Closes(a)
      BY <2>1, <2>2, <2>3
    <2>5. S[a].open /\ S[a].dedupeKey = k
      BY <1>1, <2>2, <2>3, <2>4, PassOfOne
    <2>6. \A x \in TaskIds : x > a => S[x].dedupeKey # k
      BY <1>1, <2>2, <2>3, PassKeepsKeys
    <2>7. QED
      BY <2>1, <2>5, <2>6
  <1>5. ASSUME NEW k \in DedupeKeys, M[k].task # NoTask, M[k].expiresAt >= now
        PROVE  /\ Finished(T[M[k].task]) /\ T[M[k].task].parent = NoTask
               /\ M[k].expiresAt <= T[M[k].task].completedAt + ResultRetention
    <2> DEFINE done == {p \in TaskIds : ParentCompletes(p) /\ sessions[p].dedupeKey = k}
    <2>1. CASE done # {}
      <3>1. PICK m \in done : \A q \in done : q <= m
        BY <2>1, GreatestTask
      <3> DEFINE r == CHOOSE p \in done : \A q \in done : q <= p
      <3>2. r \in done
        BY <3>1
      <3>3. M[k].task = r /\ M[k].expiresAt = now + ResultRetention
        BY <2>1 DEF RecentAfterCleanup
      <3>4. r \in TaskIds /\ Closes(r)
        BY <3>2 DEF Closes
      <3>5. sessions[r].dedupeKey = k /\ k # NoKey
        BY <3>2, ConfigAssumption
      <3>6. tasks[r].parent = NoTask
        BY <1>2, <3>4, <3>5 DEF MapsInv
      <3>7. ~Forgotten(r)
        BY <1>1, <3>4, PassOfOne
      <3>8. T[r].status = "failed" /\ T[r].completedAt = now /\ T[r].parent = NoTask
        BY <1>1, <3>4, <3>6, <3>7, PassOfOne
      <3>9. now + ResultRetention <= now + ResultRetention
        BY ConfigAssumption DEF TasksInv
      <3>10. QED
        BY <3>3, <3>8, <3>9 DEF Finished
    <2>2. CASE done = {}
      <3> DEFINE m == recentTaskByDedupeKey[k].task
                 e == recentTaskByDedupeKey[k].expiresAt
      <3>1. M[k] = recentTaskByDedupeKey[k] /\ ~(e <= now)
        BY <1>5, <2>2 DEF RecentAfterCleanup, NoRecent
      <3>2. m \in TaskIds /\ e \in Nat /\ now \in Nat
        BY <1>5, <3>1 DEF TasksInv
      <3>3. e >= now
        BY <3>1, <3>2
      <3>4. Finished(tasks[m]) /\ tasks[m].parent = NoTask /\ e <= tasks[m].completedAt + ResultRetention
        BY <1>2, <1>5, <3>1, <3>3 DEF MapsInv
      <3>5. ~Forgotten(m)
        <4>1. tasks[m].completedAt \in Nat /\ ResultRetention \in Nat
          BY <3>2, ConfigAssumption DEF TasksInv, Task
        <4>2. ~OutOfRetention(tasks[m].completedAt)
          BY <3>1, <3>2, <3>4, <4>1 DEF OutOfRetention
        <4>3. QED
          BY <4>2 DEF Forgotten
      <3>6. ~Closes(m) /\ ~ParentHears(m)
        BY <1>1, <3>2, <3>4, PassOfOne DEF Finished
      <3>7. T[m] = tasks[m]
        BY <1>1, <3>2, <3>5, <3>6, PassOfOne
      <3>8. QED
        BY <3>1, <3>4, <3>7
    <2>3. QED
      BY <2>1, <2>2
  <1> HIDE DEF T, S, A, M
  <1>6. QED
    BY <1>3, <1>4, <1>5 DEF MapsInv, T, S, A, M

LEMMA PassKeepsSharing ==
  ASSUME TasksInv
  PROVE  SharingInv(TasksAfterCleanup, SessionsAfterCleanup, ActiveAfterCleanup, UnmappedAfterCleanup)
  <1> USE DEF QueueInv, TypeInv, TypeOK
  <1> DEFINE T == TasksAfterCleanup
             S == SessionsAfterCleanup
             A == ActiveAfterCleanup
             U == UnmappedAfterCleanup
  <1>1. Registry /\ now \in Nat /\ ResultRetention \in Nat
    BY ConfigAssumption DEF TasksInv, Registry
  <1>2. SharingInv(tasks, sessions, activeTaskByDedupeKey, unmapped)
    BY DEF TasksInv
  <1>3. ASSUME NEW t \in TaskIds PROVE T[t].createdAt <= now
    <2>1. tasks[t].createdAt <= now
      BY <1>2 DEF SharingInv
    <2>2. QED
      BY <1>1, <2>1, PassOfOne DEF AbsentTask
  <1>4. ASSUME NEW t \in TaskIds \ U, NEW x \in TaskIds,
               S[t].dedupeKey = S[x].dedupeKey, S[t].dedupeKey # NoKey, t < x
        PROVE T[x].createdAt - T[t].createdAt > ResultRetention
    <2>1. t \notin unmapped
      BY <1>4 DEF UnmappedAfterCleanup
    <2>2. /\ sessions[t].dedupeKey = S[t].dedupeKey /\ sessions[x].dedupeKey = S[x].dedupeKey
          /\ T[t].createdAt = tasks[t].createdAt /\ T[x].createdAt = tasks[x].createdAt
      BY <1>1, <1>4, PassKeepsKeys
    <2>3. QED
      BY <1>2, <1>4, <2>1, <2>2 DEF SharingInv
  <1>5. ASSUME NEW t \in TaskIds \ U, S[t].dedupeKey # NoKey
        PROVE A[S[t].dedupeKey] = t \/ now - T[t].createdAt > ResultRetention
    <2> DEFINE k == sessions[t].dedupeKey
    <2>1. /\ S[t].dedupeKey = k /\ k # NoKey /\ k \in DedupeKeys
          /\ T[t].createdAt = tasks[t].createdAt /\ sessions[t].open /\ ~Closes(t) /\ ~Forgotten(t)
      BY <1>1, <1>5, PassKeepsKeys DEF TasksInv, Session
    <2>2. t \notin unmapped
      BY <1>5 DEF UnmappedAfterCleanup
    <2>3. activeTaskByDedupeKey[k] = t \/ now - T[t].createdAt > ResultRetention
      BY <1>2, <2>1, <2>2 DEF SharingInv
    <2>4. ASSUME activeTaskByDedupeKey[k] = t PROVE A[k] = t
      <3>1. A[k] = t \/ A[k] = NoTask
        BY <2>1, <2>4 DEF ActiveAfterCleanup
      <3>2. T[t].status = "pending"
        BY <1>1, <2>1, PassOfOne DEF Registry, RegistryInv, LiveInv
      <3>3. A[k] = NoTask => t \in U
        BY <2>1, <2>4, <3>2 DEF UnmappedAfterCleanup
      <3>4. QED
        BY <1>5, <3>1, <3>3
    <2>5. QED
      BY <2>1, <2>3, <2>4
  <1> HIDE DEF T, S, A, U
  <1>6. QED
    BY <1>3, <1>4, <1>5 DEF SharingInv, T, S, A, U

LEMMA PassCleans == TasksInv => Cleaned
  <1> SUFFICES ASSUME TasksInv PROVE Cleaned
    OBVIOUS
  <1>1. Registry
    BY DEF TasksInv, QueueInv, Registry
  <1>2. TablesTyped(TasksAfterCleanup, SessionsAfterCleanup, JobsAfterCleanup, running)
    <2>1. TypeOK /\ IsFiniteSet(pendingJobs) /\ IsFiniteSet(running)
      BY <1>1 DEF Registry, TypeInv
    <2>2. IsFiniteSet(JobsAfterCleanup)
      BY <2>1, FS_Subset DEF JobsAfterCleanup
    <2>3. running \subseteq RunningJob
      BY <2>1 DEF TypeOK
    <2>4. QED
      BY <2>1, <2>2, <2>3, CleanupTasksTyped, CleanupSessionsTyped, CleanupJobsTyped DEF TablesTyped
  <1>3. RegistryInv(TasksAfterCleanup, SessionsAfterCleanup, JobsAfterCleanup, running, created)
    BY <1>1, PassKeepsLive, PassKeepsTree, PassKeepsLeaves, PassKeepsParents DEF RegistryInv
  <1>4. QED
    BY <1>2, <1>3, PassKeepsMaps, PassKeepsSharing DEF Cleaned

-----------------------------------------------------------------------------
(* Linking a user to a task and its subtasks.                              *)

\* Linking changes who may look, nothing else.
LEMMA LinkOfOne ==
  ASSUME NEW T \in [TaskIds -> Task], NEW t \in TaskIds, NEW u \in Users, NEW x \in TaskIds
  PROVE  LET new == LinkTaskTree(T, t, u)[x]
         IN  /\ new.status = T[x].status /\ new.createdAt = T[x].createdAt
             /\ new.completedAt = T[x].completedAt /\ new.parent = T[x].parent
             /\ new.subtasks = T[x].subtasks /\ new.completedSubtasks = T[x].completedSubtasks
             /\ new.undef <=> T[x].undef
             /\ x = t \/ (x \in T[t].subtasks /\ T[x].status # "absent") => new.users = T[x].users \cup {u}
             /\ ~(x = t \/ (x \in T[t].subtasks /\ T[x].status # "absent")) => new = T[x]
  <1>1. T[x] \in Task
    OBVIOUS
  <1>2. CASE x = t \/ (x \in T[t].subtasks /\ T[x].status # "absent")
    <2>1. LinkTaskTree(T, t, u)[x] = [T[x] EXCEPT !.users = @ \cup {u}]
      BY <1>2 DEF LinkTaskTree
    <2>2. QED
      BY <1>1, <1>2, <2>1 DEF Task
  <1>3. CASE ~(x = t \/ (x \in T[t].subtasks /\ T[x].status # "absent"))
    BY <1>3 DEF LinkTaskTree
  <1>4. QED
    BY <1>2, <1>3

\* Linking a task that is no subtask and is there keeps the registry in order.
LEMMA LinkKeepsRegistry ==
  ASSUME NEW S, NEW J, NEW R, NEW n, NEW T, TablesTyped(T, S, J, R), RegistryInv(T, S, J, R, n),
         NEW t \in TaskIds, NEW u \in Users, T[t].status # "absent", T[t].parent = NoTask
  PROVE  /\ TablesTyped(LinkTaskTree(T, t, u), S, J, R)
         /\ RegistryInv(LinkTaskTree(T, t, u), S, J, R, n)
  <1> DEFINE L == LinkTaskTree(T, t, u)
  <1>1. T \in [TaskIds -> Task]
    BY DEF TablesTyped
  <1>2. TablesTyped(L, S, J, R)
    BY <1>1, LinkTyped DEF TablesTyped
  <1>3. \A x \in TaskIds :
           /\ L[x].status = T[x].status /\ L[x].parent = T[x].parent
           /\ L[x].subtasks = T[x].subtasks /\ L[x].completedSubtasks = T[x].completedSubtasks
           /\ L[x].undef <=> T[x].undef
    BY <1>1, LinkOfOne
  <1>4. \A x \in TaskIds : T[x].status = "absent" => L[x] = T[x]
    BY <1>1, LinkOfOne
  <1>5. \A j \in J \cup R : j.task \in TaskIds
    BY DEF TablesTyped, Job, RunningJob
  <1>6. \A p \in TaskIds : T[p].subtasks \subseteq TaskIds /\ T[p].parent \in TaskIds \cup {NoTask}
    BY <1>1 DEF Task
  <1>7. \A p \in TaskIds : HeardOf(L, p) = HeardOf(T, p)
    BY <1>3, <1>6 DEF HeardOf, Finished
  <1>8. ASSUME NEW p \in TaskIds, NEW s \in T[p].subtasks PROVE L[s].users = L[p].users
    <2>1. /\ s \in TaskIds /\ T[s].parent = p /\ T[s].status # "absent" /\ p # NoTask
          /\ T[s].users = T[p].users
      BY <1>6 DEF RegistryInv, TreeInv, ParentInv, TaskIds, NoTask
    <2>2. s # t /\ p \notin T[t].subtasks
      <3>1. p \in T[t].subtasks => T[p].parent = t /\ t # NoTask
        BY DEF RegistryInv, TreeInv, TaskIds, NoTask
      <3>2. T[p].parent # NoTask => T[p].subtasks = {}
        BY DEF RegistryInv, TreeInv
      <3>3. QED
        BY <2>1, <3>1, <3>2
    <2>3. CASE p = t
      <3>1. L[p].users = T[p].users \cup {u}
        BY <1>1, <2>3, LinkOfOne
      <3>2. L[s].users = T[s].users \cup {u}
        BY <1>1, <2>1, <2>3, LinkOfOne
      <3>3. QED
        BY <2>1, <3>1, <3>2
    <2>4. CASE p # t
      <3>1. s \notin T[t].subtasks
        BY <2>1, <2>4 DEF RegistryInv, TreeInv
      <3>2. L[s] = T[s] /\ L[p] = T[p]
        BY <1>1, <2>1, <2>2, <2>4, <3>1, LinkOfOne
      <3>3. QED
        BY <2>1, <3>2
    <2>5. QED
      BY <2>3, <2>4
  <1> HIDE DEF L
  <1>9. LiveInv(L, S, J, R)
    BY <1>3, <1>5 DEF RegistryInv, LiveInv
  <1>10. TreeInv(L, n)
    <2>1. ASSUME NEW x \in TaskIds, x > n \/ L[x].status = "absent" PROVE L[x] = AbsentTask
      <3>1. T[x] = AbsentTask
        BY <1>3, <2>1 DEF RegistryInv, TreeInv
      <3>2. T[x].status = "absent"
        BY <3>1 DEF AbsentTask
      <3>3. QED
        BY <1>4, <3>1, <3>2
    <2>2. \A p \in TaskIds : \A s \in L[p].subtasks : L[s].status # "absent" /\ L[s].parent = p
      BY <1>3, <1>6 DEF RegistryInv, TreeInv
    <2>3. \A s \in TaskIds :
             LET p == L[s].parent
             IN  p # NoTask =>
                   /\ p < s /\ L[s].subtasks = {}
                   /\ L[p].status # "absent" => s \in L[p].subtasks
                   /\ L[s].status = "pending" => L[p].status = "pending"
      BY <1>3, <1>6 DEF RegistryInv, TreeInv
    <2>4. QED
      BY <2>1, <2>2, <2>3 DEF TreeInv
  <1>11. LeafInv(L, S, J, R)
    BY <1>3 DEF RegistryInv, LeafInv
  <1>12. ParentInv(L, S)
    <2> SUFFICES ASSUME NEW p \in TaskIds, L[p].subtasks # {}
                 PROVE  /\ L[p].status = "pending" =>
                              /\ L[p].completedSubtasks = HeardOf(L, p)
                              /\ S[p].tasksHandled = Cardinality(HeardOf(L, p))
                              /\ S[p].totalPages = Cardinality(L[p].subtasks)
                              /\ HeardOf(L, p) # L[p].subtasks
                        /\ \A s \in L[p].subtasks : L[s].users = L[p].users
                        /\ (L[p].status = "failed" \/ S[p].failed) <=>
                              \E s \in HeardOf(L, p) : L[s].status = "failed"
                        /\ L[p].undef <=> \E s \in HeardOf(L, p) : L[s].undef
      BY DEF ParentInv
    <2>1. /\ T[p].status = "pending" =>
                /\ T[p].completedSubtasks = HeardOf(T, p)
                /\ S[p].tasksHandled = Cardinality(HeardOf(T, p))
                /\ S[p].totalPages = Cardinality(T[p].subtasks)
                /\ HeardOf(T, p) # T[p].subtasks
          /\ (T[p].status = "failed" \/ S[p].failed) <=>
                \E s \in HeardOf(T, p) : T[s].status = "failed"
          /\ T[p].undef <=> \E s \in HeardOf(T, p) : T[s].undef
      BY <1>3 DEF RegistryInv, ParentInv
    <2>2. \A s \in HeardOf(T, p) : s \in TaskIds
      BY <1>6 DEF HeardOf
    <2>3. QED
      BY <1>3, <1>7, <1>8, <2>1, <2>2
  <1>13. QED
    BY <1>2, <1>9, <1>10, <1>11, <1>12 DEF RegistryInv, L

\* It keeps the dedupe maps leading where they led.
LEMMA LinkKeepsMaps ==
  ASSUME NEW T \in [TaskIds -> Task], NEW S, NEW A, NEW M, NEW U, NEW t \in TaskIds, NEW u \in Users,
         M \in [DedupeKeys -> [task : TaskIds \cup {NoTask}, expiresAt : Nat]],
         MapsInv(T, S, A, M), SharingInv(T, S, A, U)
  PROVE  MapsInv(LinkTaskTree(T, t, u), S, A, M) /\ SharingInv(LinkTaskTree(T, t, u), S, A, U)
  <1> DEFINE L == LinkTaskTree(T, t, u)
  <1>1. \A x \in TaskIds :
           /\ L[x].status = T[x].status /\ L[x].parent = T[x].parent
           /\ L[x].createdAt = T[x].createdAt /\ L[x].completedAt = T[x].completedAt
    BY LinkOfOne
  <1>2. \A k \in DedupeKeys : M[k].task \in TaskIds \cup {NoTask}
    OBVIOUS
  <1> HIDE DEF L
  <1>3. MapsInv(L, S, A, M)
    <2>1. \A x \in TaskIds : S[x].dedupeKey # NoKey => L[x].parent = NoTask
      BY <1>1 DEF MapsInv
    <2>2. \A k \in DedupeKeys :
             M[k].task # NoTask /\ M[k].expiresAt >= now =>
               /\ Finished(L[M[k].task]) /\ L[M[k].task].parent = NoTask
               /\ M[k].expiresAt <= L[M[k].task].completedAt + ResultRetention
      BY <1>1, <1>2 DEF MapsInv, Finished
    <2>3. QED
      BY <2>1, <2>2 DEF MapsInv
  <1>4. SharingInv(L, S, A, U)
    BY <1>1 DEF SharingInv
  <1>5. QED
    BY <1>3, <1>4 DEF L

-----------------------------------------------------------------------------
(* Queueing a call's tasks and pages.                                      *)

\* How many chunks a plan has, and that none of them is empty.
LEMMA ChunksOfPlan ==
  ASSUME NEW plan \in Plans
  PROVE  /\ Len(plan) \in Nat /\ DOMAIN plan = 1 .. Len(plan) /\ IsFiniteSet(DOMAIN plan)
         /\ ChunkCount(plan) \in Nat
         /\ plan = <<>> <=> Len(plan) = 0
         /\ plan = <<>> => ~IsComposite(plan)
         /\ \A i \in DOMAIN plan : plan[i] \in 1 .. ChunkCount(plan)
         /\ \A c \in 1 .. ChunkCount(plan) : PagesOfChunk(plan, c) \in Nat /\ PagesOfChunk(plan, c) > 0
  <1>1. /\ plan \in Seq(Nat \ {0})
        /\ \A i, j \in DOMAIN plan : i < j => plan[i] <= plan[j]
        /\ plan # <<>> => \A c \in 1 .. plan[Len(plan)] : \E i \in DOMAIN plan : plan[i] = c
    BY PlansAssumption DEF IsPlan
  <1>2. Len(plan) \in Nat /\ DOMAIN plan = 1 .. Len(plan) /\ (plan = <<>> <=> Len(plan) = 0)
    BY <1>1
  <1>3. IsFiniteSet(DOMAIN plan)
    BY <1>2, FS_Interval
  <1>4. ChunkCount(plan) \in Nat
    BY <1>1, <1>2 DEF ChunkCount
  <1>5. ASSUME NEW i \in DOMAIN plan PROVE plan[i] \in 1 .. ChunkCount(plan)
    <2>1. plan # <<>> /\ Len(plan) \in DOMAIN plan
      BY <1>2
    <2>2. plan[i] \in Nat \ {0} /\ plan[Len(plan)] \in Nat \ {0}
      BY <1>1, <1>2, <2>1
    <2>3. plan[i] <= plan[Len(plan)]
      <3>1. i < Len(plan) \/ i = Len(plan)
        BY <1>2
      <3>2. CASE i < Len(plan)
        BY <1>1, <2>1, <3>2
      <3>3. QED
        BY <2>2, <3>1, <3>2
    <2>4. QED
      BY <2>1, <2>2, <2>3 DEF ChunkCount
  <1>6. ASSUME NEW c \in 1 .. ChunkCount(plan)
        PROVE PagesOfChunk(plan, c) \in Nat /\ PagesOfChunk(plan, c) > 0
    <2> DEFINE pages == {i \in DOMAIN plan : plan[i] = c}
    <2>1. IsFiniteSet(pages)
      BY <1>3, FS_Subset
    <2>2. pages # {}
      BY <1>1 DEF ChunkCount
    <2>3. Cardinality(pages) # 0 /\ Cardinality(pages) \in Nat
      BY <2>1, <2>2, FS_EmptySet, FS_CardinalityType
    <2>4. QED
      BY <2>3 DEF PagesOfChunk
  <1>7. plan = <<>> => ~IsComposite(plan)
    BY DEF IsComposite, ChunkCount
  <1>8. QED
    BY <1>2, <1>3, <1>4, <1>5, <1>6, <1>7

\* A task's new jobs are as many as the pages that are its own.
LEMMA CountNewJobs ==
  ASSUME NEW plan \in Plans, NEW id, NEW t
  PROVE  LET pages == {i \in DOMAIN plan : Owner(id, plan, i) = t}
         IN  /\ IsFiniteSet(JobsOf(NewJobs(id, plan), t))
             /\ Cardinality(JobsOf(NewJobs(id, plan), t)) = Cardinality(pages)
  <1> DEFINE pages == {i \in DOMAIN plan : Owner(id, plan, i) = t}
             mine == JobsOf(NewJobs(id, plan), t)
             job == [i \in pages |-> [task |-> t, page |-> i]]
  <1>1. mine = {[task |-> t, page |-> i] : i \in pages}
    BY DEF JobsOf, NewJobs
  <1>2. job \in Surjection(pages, mine) /\ job \in Injection(pages, mine)
    BY <1>1 DEF Surjection, Injection, IsInjective
  <1>3. IsFiniteSet(pages)
    BY ChunksOfPlan, FS_Subset
  <1> HIDE DEF pages, mine, job
  <1>4. IsFiniteSet(mine) /\ Cardinality(mine) = Cardinality(pages)
    BY <1>2, <1>3, FS_Surjection
  <1>5. QED
    BY <1>4 DEF pages, mine

\* A call may queue a plan: its ids are the next ones and within bounds.
Queueable(T, S, J, id, plan) ==
    /\ TypeInv
    /\ TablesTyped(T, S, J, running) /\ RegistryInv(T, S, J, running, created)
    /\ id = created + 1
    /\ (IF IsComposite(plan) THEN id + ChunkCount(plan) ELSE id) <= MaxTasks

\* The ids of a call are fresh: nothing is there under them, nor under later ones.
LEMMA FreshIds ==
  ASSUME NEW T, NEW S, NEW J, NEW id, NEW plan \in Plans, Queueable(T, S, J, id, plan)
  PROVE  /\ id \in TaskIds /\ Subtasks(id, plan) \subseteq TaskIds /\ id \notin Subtasks(id, plan)
         /\ \A s \in Subtasks(id, plan) : s > id /\ s - id \in 1 .. ChunkCount(plan)
         /\ \A x \in TaskIds : x <= created => x # id /\ x \notin Subtasks(id, plan) /\ x < id
         /\ \A x \in TaskIds : ~(x <= created) => x >= id
         /\ \A x \in TaskIds : ~(x <= created) => T[x] = AbsentTask /\ S[x] = ClosedSession
         /\ \A j \in J \cup running : j.task \in TaskIds /\ j.task <= created
         /\ created \in Nat /\ created < id
         /\ id <= (IF IsComposite(plan) THEN id + ChunkCount(plan) ELSE id)
         /\ \A s \in Subtasks(id, plan) : s <= (IF IsComposite(plan) THEN id + ChunkCount(plan) ELSE id)
  <1> DEFINE last == IF IsComposite(plan) THEN id + ChunkCount(plan) ELSE id
  <1> USE DEF Queueable
  <1>1. created \in Nat /\ id = created + 1 /\ ChunkCount(plan) \in Nat /\ MaxTasks \in Nat /\ last <= MaxTasks
    BY ChunksOfPlan, ConfigAssumption DEF TypeInv, TypeOK
  <1>2. id \in TaskIds /\ id <= last
    BY <1>1 DEF TaskIds
  <1>3. ASSUME NEW s \in Subtasks(id, plan)
        PROVE s \in TaskIds /\ s > id /\ s - id \in 1 .. ChunkCount(plan) /\ s <= last
    BY <1>1 DEF Subtasks, TaskIds
  <1>4. ASSUME NEW x \in TaskIds, x <= created
        PROVE x # id /\ x \notin Subtasks(id, plan) /\ x < id
    BY <1>1, <1>3, <1>4 DEF TaskIds, Subtasks
  <1>5. ASSUME NEW x \in TaskIds, ~(x <= created)
        PROVE T[x] = AbsentTask /\ S[x] = ClosedSession /\ x >= id
    <2>1. x > created /\ x >= id
      BY <1>1, <1>5 DEF TaskIds
    <2>2. T[x] = AbsentTask
      BY <2>1 DEF RegistryInv, TreeInv
    <2>3. ~S[x].open
      BY <2>2 DEF RegistryInv, LiveInv, AbsentTask
    <2>4. QED
      BY <2>1, <2>2, <2>3 DEF RegistryInv, LiveInv
  <1>6. ASSUME NEW j \in J \cup running PROVE j.task \in TaskIds /\ j.task <= created
    <2>1. j.task \in TaskIds
      BY DEF TablesTyped, Job, RunningJob
    <2>2. S[j.task].open /\ ~ClosedSession.open
      BY DEF RegistryInv, LiveInv, ClosedSession
    <2>3. QED
      BY <1>5, <2>1, <2>2
  <1>7. id \notin Subtasks(id, plan)
    BY <1>1, <1>3
  <1> HIDE DEF last
  <1>8. QED
    BY <1>1, <1>2, <1>3, <1>4, <1>5, <1>6, <1>7 DEF last

\* What queueing makes of one task and its session.
LEMMA QueueOfOne ==
  ASSUME NEW T, NEW S, NEW J, NEW id, NEW plan \in Plans, Queueable(T, S, J, id, plan),
         NEW u \in Users, NEW k \in DedupeKeys, NEW x \in TaskIds
  PROVE  LET task == TasksAfterQueueing(T, u, id, plan)[x]
             session == SessionsAfterQueueing(S, k, id, plan)[x]
         IN  /\ x <= created => task = T[x] /\ session = S[x]
             /\ x = id =>
                  /\ task.users = {u} /\ task.createdAt = now /\ task.parent = NoTask
                  /\ task.subtasks = Subtasks(id, plan) /\ task.completedSubtasks = {}
                  /\ ~task.undef
                  /\ plan = <<>> => /\ task.status = "completed" /\ task.completedAt = now
                                    /\ session = ClosedSession
                  /\ plan # <<>> =>
                       /\ task.status = "pending" /\ session.open /\ session.dedupeKey = k
                       /\ session.totalPages = IF IsComposite(plan) THEN ChunkCount(plan) ELSE Len(plan)
                       /\ session.tasksHandled = 0 /\ session.activeWorkers = 0 /\ ~session.failed
             /\ x \in Subtasks(id, plan) =>
                  /\ task.users = {u} /\ task.createdAt = now /\ task.parent = id
                  /\ task.subtasks = {} /\ task.completedSubtasks = {} /\ ~task.undef /\ task.status = "pending"
                  /\ session.open /\ session.dedupeKey = NoKey
                  /\ session.totalPages = PagesOfChunk(plan, x - id)
                  /\ session.tasksHandled = 0 /\ session.activeWorkers = 0 /\ ~session.failed
             /\ ~(x <= created) /\ x # id /\ x \notin Subtasks(id, plan) =>
                  task = AbsentTask /\ session = ClosedSession
  <1> DEFINE task == TasksAfterQueueing(T, u, id, plan)[x]
             session == SessionsAfterQueueing(S, k, id, plan)[x]
  <1>1. CASE x <= created
    <2>1. x # id /\ x \notin Subtasks(id, plan)
      BY <1>1, FreshIds
    <2>2. task = T[x] /\ session = S[x]
      BY <2>1 DEF TasksAfterQueueing, SessionsAfterQueueing
    <2>3. QED
      BY <1>1, <2>1, <2>2
  <1>2. CASE x = id /\ plan = <<>>
    <2>1. task = [NewTask(u, {}, NoTask) EXCEPT !.status = "completed", !.completedAt = now]
      BY <1>2, FreshIds DEF TasksAfterQueueing
    <2>2. session = S[x] /\ S[x] = ClosedSession /\ ~(x <= created)
      <3>1. ~(x <= created) /\ x \notin Subtasks(id, plan)
        BY <1>2, FreshIds
      <3>2. S[x] = ClosedSession
        BY <3>1, FreshIds
      <3>3. session = S[x]
        BY <1>2, <3>1 DEF SessionsAfterQueueing
      <3>4. QED
        BY <3>1, <3>2, <3>3
    <2>3. Subtasks(id, plan) = {}
      BY <1>2, ChunksOfPlan DEF Subtasks
    <2>4. QED
      BY <1>2, <2>1, <2>2, <2>3 DEF NewTask, AbsentTask
  <1>3. CASE x = id /\ plan # <<>>
    <2>1. ~(x <= created) /\ x \notin Subtasks(id, plan)
      BY <1>3, FreshIds
    <2>2. task = NewTask(u, Subtasks(id, plan), NoTask)
      BY <1>3, <2>1 DEF TasksAfterQueueing
    <2>3. session = NewSession(IF IsComposite(plan) THEN ChunkCount(plan) ELSE Len(plan), k)
      BY <1>3, <2>1 DEF SessionsAfterQueueing
    <2>4. QED
      BY <1>3, <2>1, <2>2, <2>3 DEF NewTask, AbsentTask, NewSession, ClosedSession
  <1>4. CASE x \in Subtasks(id, plan)
    <2>1. ~(x <= created) /\ x # id
      BY <1>4, FreshIds
    <2>2. task = NewTask(u, {}, id) /\ session = NewSession(PagesOfChunk(plan, x - id), NoKey)
      BY <1>4, <2>1 DEF TasksAfterQueueing, SessionsAfterQueueing
    <2>3. QED
      BY <1>4, <2>1, <2>2 DEF NewTask, AbsentTask, NewSession, ClosedSession
  <1>5. CASE ~(x <= created) /\ x # id /\ x \notin Subtasks(id, plan)
    <2>1. task = T[x] /\ session = S[x]
      BY <1>5 DEF TasksAfterQueueing, SessionsAfterQueueing
    <2>2. QED
      BY <1>5, <2>1, FreshIds
  <1>6. QED
    BY <1>1, <1>2, <1>3, <1>4, <1>5

\* How many new jobs each task of a call gets: a subtask those of its chunk, a task
\* without subtasks all of them, a parent and any other task none.
LEMMA NewJobsOf ==
  ASSUME NEW T, NEW S, NEW J, NEW id, NEW plan \in Plans, Queueable(T, S, J, id, plan), NEW x \in TaskIds
  PROVE  /\ IsFiniteSet(JobsOf(NewJobs(id, plan), x))
         /\ x \in Subtasks(id, plan) =>
              Cardinality(JobsOf(NewJobs(id, plan), x)) = PagesOfChunk(plan, x - id)
         /\ x = id /\ ~IsComposite(plan) => Cardinality(JobsOf(NewJobs(id, plan), x)) = Len(plan)
         /\ ~(x \in Subtasks(id, plan) \/ (x = id /\ ~IsComposite(plan))) =>
              JobsOf(NewJobs(id, plan), x) = {}
  <1> DEFINE pages == {i \in DOMAIN plan : Owner(id, plan, i) = x}
  <1>1. /\ IsFiniteSet(JobsOf(NewJobs(id, plan), x))
        /\ Cardinality(JobsOf(NewJobs(id, plan), x)) = Cardinality(pages)
    BY CountNewJobs
  <1>2. /\ id \in Int /\ x \in Int
        /\ \A i \in DOMAIN plan : plan[i] \in 1 .. ChunkCount(plan)
        /\ ChunkCount(plan) \in Nat
    BY FreshIds, ChunksOfPlan DEF TaskIds
  <1>3. ASSUME x \in Subtasks(id, plan) PROVE Cardinality(pages) = PagesOfChunk(plan, x - id)
    <2>1. IsComposite(plan)
      BY <1>3 DEF Subtasks
    <2>2. pages = {i \in DOMAIN plan : plan[i] = x - id}
      BY <1>2, <2>1 DEF Owner
    <2>3. QED
      BY <2>2 DEF PagesOfChunk
  <1>4. ASSUME x = id, ~IsComposite(plan) PROVE Cardinality(pages) = Len(plan)
    <2>1. pages = 1 .. Len(plan) /\ Len(plan) \in Nat
      BY <1>4, ChunksOfPlan DEF Owner
    <2>2. ASSUME NEW n \in Nat PROVE Cardinality(1 .. n) = n
      BY FS_Interval
    <2>3. QED
      BY <2>1, <2>2
  <1>5. ASSUME ~(x \in Subtasks(id, plan) \/ (x = id /\ ~IsComposite(plan)))
        PROVE JobsOf(NewJobs(id, plan), x) = {}
    BY <1>2, <1>5 DEF JobsOf, NewJobs, Owner, Subtasks
  <1>6. QED
    BY <1>1, <1>3, <1>4, <1>5

\* The parts of the invariant, one at a time, across the queueing of a call.
LEMMA QueueingKeepsLive ==
  ASSUME NEW T, NEW S, NEW J, NEW id, NEW plan \in Plans, Queueable(T, S, J, id, plan),
         NEW u \in Users, NEW k \in DedupeKeys
  PROVE  LiveInv(TasksAfterQueueing(T, u, id, plan), SessionsAfterQueueing(S, k, id, plan),
                 J \cup NewJobs(id, plan), running)
  <1> DEFINE T2 == TasksAfterQueueing(T, u, id, plan)
             S2 == SessionsAfterQueueing(S, k, id, plan)
  <1>1. ~ClosedSession.open /\ AbsentTask.status = "absent"
    BY DEF ClosedSession, AbsentTask
  <1>2. ASSUME NEW t \in TaskIds
        PROVE /\ S2[t].open <=> T2[t].status = "pending"
              /\ ~S2[t].open => S2[t] = ClosedSession
    <2>1. CASE t <= created
      <3>1. T2[t] = T[t] /\ S2[t] = S[t]
        BY <2>1, QueueOfOne
      <3>2. QED
        BY <3>1 DEF Queueable, RegistryInv, LiveInv
    <2>2. CASE t = id /\ plan = <<>>
      BY <1>1, <2>2, QueueOfOne
    <2>3. CASE t = id /\ plan # <<>>
      BY <2>3, QueueOfOne
    <2>4. CASE t \in Subtasks(id, plan)
      BY <2>4, QueueOfOne
    <2>5. CASE ~(t <= created) /\ t # id /\ t \notin Subtasks(id, plan)
      BY <1>1, <2>5, QueueOfOne
    <2>6. QED
      BY <2>1, <2>2, <2>3, <2>4, <2>5
  <1>3. ASSUME NEW j \in J \cup running PROVE S2[j.task].open /\ T2[j.task].subtasks = {}
    <2>1. j.task \in TaskIds /\ j.task <= created
      BY FreshIds
    <2>2. S2[j.task] = S[j.task] /\ T2[j.task] = T[j.task]
      BY <2>1, QueueOfOne
    <2>3. QED
      BY <2>2 DEF Queueable, RegistryInv, LiveInv
  <1>4. ASSUME NEW j \in NewJobs(id, plan)
        PROVE S2[j.task].open /\ T2[j.task].subtasks = {} /\ ~(j.task <= created)
    <2>1. PICK i \in DOMAIN plan : j = [task |-> Owner(id, plan, i), page |-> i]
      BY DEF NewJobs
    <2>2. plan # <<>> /\ plan[i] \in 1 .. ChunkCount(plan) /\ ChunkCount(plan) \in Nat
      BY ChunksOfPlan
    <2>3. id \in TaskIds /\ ~(id <= created) /\ Subtasks(id, plan) \subseteq TaskIds
      BY FreshIds
    <2>4. CASE IsComposite(plan)
      <3>1. j.task \in Subtasks(id, plan)
        BY <2>1, <2>2, <2>3, <2>4 DEF Owner, Subtasks, TaskIds
      <3>2. QED
        BY <2>3, <3>1, QueueOfOne, FreshIds
    <2>5. CASE ~IsComposite(plan)
      <3>1. j.task = id /\ Subtasks(id, plan) = {}
        BY <2>1, <2>5 DEF Owner, Subtasks
      <3>2. QED
        BY <2>2, <2>3, <3>1, QueueOfOne
    <2>6. QED
      BY <2>4, <2>5
  <1>5. ASSUME NEW j \in J \cup NewJobs(id, plan), NEW r \in running, j.task = r.task
        PROVE j.page # r.page
    <2>1. r.task <= created
      BY FreshIds
    <2>2. j \in J
      BY <1>4, <1>5, <2>1
    <2>3. QED
      BY <1>5, <2>2 DEF Queueable, RegistryInv, LiveInv
  <1> HIDE DEF T2, S2
  <1>6. QED
    BY <1>2, <1>3, <1>4, <1>5 DEF LiveInv, T2, S2

LEMMA QueueingKeepsTree ==
  ASSUME NEW T, NEW S, NEW J, NEW id, NEW plan \in Plans, Queueable(T, S, J, id, plan),
         NEW u \in Users, NEW k \in DedupeKeys
  PROVE  TreeInv(TasksAfterQueueing(T, u, id, plan),
                 IF IsComposite(plan) THEN id + ChunkCount(plan) ELSE id)
  <1> DEFINE T2 == TasksAfterQueueing(T, u, id, plan)
             last == IF IsComposite(plan) THEN id + ChunkCount(plan) ELSE id
  <1>1. AbsentTask.status = "absent" /\ AbsentTask.subtasks = {} /\ AbsentTask.parent = NoTask
    BY DEF AbsentTask
  <1>2. T \in [TaskIds -> Task]
    BY DEF Queueable, TablesTyped
  <1>3. created \in Int /\ last \in Int /\ created < last /\ id \in TaskIds /\ id <= last /\ id # NoTask
    BY FreshIds, ChunksOfPlan DEF TaskIds, NoTask
  <1>4. ASSUME NEW t \in TaskIds, t > last \/ T2[t].status = "absent" PROVE T2[t] = AbsentTask
    <2>1. CASE t <= created
      <3>1. T2[t] = T[t] /\ ~(t > last)
        BY <1>3, <2>1, QueueOfOne DEF TaskIds
      <3>2. QED
        BY <1>4, <3>1 DEF Queueable, RegistryInv, TreeInv
    <2>2. CASE t = id
      <3>1. T2[t].status # "absent" /\ ~(t > last)
        BY <1>3, <2>2, QueueOfOne DEF TaskIds
      <3>2. QED
        BY <1>4, <3>1
    <2>3. CASE t \in Subtasks(id, plan)
      <3>1. T2[t].status # "absent" /\ t <= last
        BY <2>3, QueueOfOne, FreshIds
      <3>2. QED
        BY <1>3, <1>4, <3>1 DEF TaskIds
    <2>4. CASE ~(t <= created) /\ t # id /\ t \notin Subtasks(id, plan)
      BY <2>4, QueueOfOne
    <2>5. QED
      BY <2>1, <2>2, <2>3, <2>4
  <1>5. ASSUME NEW p \in TaskIds, NEW s \in T2[p].subtasks
        PROVE T2[s].status # "absent" /\ T2[s].parent = p
    <2>1. CASE p <= created
      <3>1. T2[p] = T[p] /\ s \in TaskIds
        BY <1>2, <2>1, QueueOfOne DEF Task
      <3>2. T[s].status # "absent" /\ T[s].parent = p
        BY <3>1 DEF Queueable, RegistryInv, TreeInv
      <3>3. s <= created
        BY <1>1, <3>1, <3>2, FreshIds
      <3>4. QED
        BY <3>1, <3>2, <3>3, QueueOfOne
    <2>2. CASE p = id
      <3>1. s \in Subtasks(id, plan)
        BY <2>2, QueueOfOne
      <3>2. s \in TaskIds
        BY <3>1, FreshIds
      <3>3. QED
        BY <2>2, <3>1, <3>2, QueueOfOne
    <2>3. CASE p \in Subtasks(id, plan)
      BY <2>3, QueueOfOne
    <2>4. CASE ~(p <= created) /\ p # id /\ p \notin Subtasks(id, plan)
      BY <1>1, <2>4, QueueOfOne
    <2>5. QED
      BY <2>1, <2>2, <2>3, <2>4
  <1>6. ASSUME NEW s \in TaskIds, T2[s].parent # NoTask
        PROVE LET p == T2[s].parent
              IN  /\ p < s /\ T2[s].subtasks = {}
                  /\ T2[p].status # "absent" => s \in T2[p].subtasks
                  /\ T2[s].status = "pending" => T2[p].status = "pending"
    <2>1. CASE s <= created
      <3> DEFINE p == T[s].parent
      <3>1. T2[s] = T[s]
        BY <2>1, QueueOfOne
      <3>2. p # NoTask /\ p \in TaskIds
        BY <1>2, <1>6, <3>1 DEF Task
      <3>3. /\ p < s /\ T[s].subtasks = {}
            /\ T[p].status # "absent" => s \in T[p].subtasks
            /\ T[s].status = "pending" => T[p].status = "pending"
        BY <3>2 DEF Queueable, RegistryInv, TreeInv
      <3>4. p <= created
        BY <1>3, <2>1, <3>2, <3>3 DEF TaskIds
      <3>5. T2[p] = T[p]
        BY <3>2, <3>4, QueueOfOne
      <3>6. QED
        BY <3>1, <3>3, <3>5
    <2>2. CASE s = id
      BY <1>6, <2>2, QueueOfOne
    <2>3. CASE s \in Subtasks(id, plan)
      <3>1. T2[s].parent = id /\ T2[s].subtasks = {} /\ s > id
        BY <2>3, QueueOfOne, FreshIds
      <3>2. plan # <<>>
        BY <2>3, ChunksOfPlan DEF Subtasks
      <3>3. T2[id].subtasks = Subtasks(id, plan) /\ T2[id].status = "pending"
        BY <1>3, <3>2, QueueOfOne
      <3>4. QED
        BY <1>3, <2>3, <3>1, <3>3 DEF TaskIds
    <2>4. CASE ~(s <= created) /\ s # id /\ s \notin Subtasks(id, plan)
      BY <1>1, <1>6, <2>4, QueueOfOne
    <2>5. QED
      BY <2>1, <2>2, <2>3, <2>4
  <1> HIDE DEF T2, last
  <1>7. QED
    BY <1>4, <1>5, <1>6 DEF TreeInv, T2, last

LEMMA QueueingKeepsLeaves ==
  ASSUME NEW T, NEW S, NEW J, NEW id, NEW plan \in Plans, Queueable(T, S, J, id, plan),
         NEW u \in Users, NEW k \in DedupeKeys
  PROVE  LeafInv(TasksAfterQueueing(T, u, id, plan), SessionsAfterQueueing(S, k, id, plan),
                 J \cup NewJobs(id, plan), running)
  <1> DEFINE T2 == TasksAfterQueueing(T, u, id, plan)
             S2 == SessionsAfterQueueing(S, k, id, plan)
             all == J \cup NewJobs(id, plan)
  <1> SUFFICES ASSUME NEW t \in TaskIds, S2[t].open, T2[t].subtasks = {}
               PROVE  LeafCounts(S2[t], Cardinality(JobsOf(running, t)), Cardinality(JobsOf(all, t)))
    BY DEF LeafInv
  <1>1. ~ClosedSession.open
    BY DEF ClosedSession
  <1>2. ~(t <= created) => JobsOf(J, t) = {} /\ JobsOf(running, t) = {}
    BY FreshIds DEF JobsOf
  <1>3. JobsOf(all, t) = JobsOf(J, t) \cup JobsOf(NewJobs(id, plan), t)
    BY DEF JobsOf
  <1>4. Cardinality({}) = 0
    BY FS_EmptySet
  <1>5. CASE t <= created
    <2>1. T2[t] = T[t] /\ S2[t] = S[t]
      BY <1>5, QueueOfOne
    <2>2. t # id /\ t \notin Subtasks(id, plan)
      BY <1>5, FreshIds
    <2>3. JobsOf(NewJobs(id, plan), t) = {}
      BY <2>2, NewJobsOf
    <2>4. JobsOf(all, t) = JobsOf(J, t)
      BY <1>3, <2>3
    <2>5. QED
      BY <2>1, <2>4 DEF Queueable, RegistryInv, LeafInv
  <1>6. CASE t = id
    <2>1. plan # <<>> /\ ~(t <= created)
      BY <1>1, <1>6, QueueOfOne, FreshIds
    <2>2. ~IsComposite(plan)
      <3>1. T2[t].subtasks = Subtasks(id, plan)
        BY <1>6, QueueOfOne
      <3>2. id + 1 \in Subtasks(id, plan) \/ ~IsComposite(plan)
        BY <1>6, ChunksOfPlan DEF Subtasks, IsComposite, TaskIds
      <3>3. QED
        BY <3>1, <3>2
    <2>3. JobsOf(all, t) = JobsOf(NewJobs(id, plan), t) /\ JobsOf(running, t) = {}
      BY <1>2, <1>3, <2>1
    <2>4. Cardinality(JobsOf(all, t)) = Len(plan)
      BY <1>6, <2>2, <2>3, NewJobsOf
    <2>5. S2[t].totalPages = Len(plan) /\ S2[t].tasksHandled = 0 /\ S2[t].activeWorkers = 0
      BY <1>6, <2>1, <2>2, QueueOfOne
    <2>6. Len(plan) \in Nat /\ Len(plan) > 0
      BY <2>1, ChunksOfPlan
    <2> HIDE DEF S2, all
    <2>7. QED
      BY <1>4, <2>3, <2>4, <2>5, <2>6 DEF LeafCounts
  <1>7. CASE t \in Subtasks(id, plan)
    <2>1. t - id \in 1 .. ChunkCount(plan) /\ ~(t <= created)
      BY <1>7, FreshIds
    <2>2. JobsOf(all, t) = JobsOf(NewJobs(id, plan), t) /\ JobsOf(running, t) = {}
      BY <1>2, <1>3, <2>1
    <2>3. Cardinality(JobsOf(all, t)) = PagesOfChunk(plan, t - id)
      BY <1>7, <2>2, NewJobsOf
    <2>4. /\ S2[t].totalPages = PagesOfChunk(plan, t - id)
          /\ S2[t].tasksHandled = 0 /\ S2[t].activeWorkers = 0
      BY <1>7, QueueOfOne
    <2>5. PagesOfChunk(plan, t - id) \in Nat /\ PagesOfChunk(plan, t - id) > 0
      BY <2>1, ChunksOfPlan
    <2> HIDE DEF S2, all
    <2>6. QED
      BY <1>4, <2>2, <2>3, <2>4, <2>5 DEF LeafCounts
  <1>8. CASE ~(t <= created) /\ t # id /\ t \notin Subtasks(id, plan)
    BY <1>1, <1>8, QueueOfOne
  <1>9. QED
    BY <1>5, <1>6, <1>7, <1>8

LEMMA QueueingKeepsParents ==
  ASSUME NEW T, NEW S, NEW J, NEW id, NEW plan \in Plans, Queueable(T, S, J, id, plan),
         NEW u \in Users, NEW k \in DedupeKeys
  PROVE  ParentInv(TasksAfterQueueing(T, u, id, plan), SessionsAfterQueueing(S, k, id, plan))
  <1> DEFINE T2 == TasksAfterQueueing(T, u, id, plan)
             S2 == SessionsAfterQueueing(S, k, id, plan)
  <1> SUFFICES ASSUME NEW p \in TaskIds, T2[p].subtasks # {}
               PROVE  /\ T2[p].status = "pending" =>
                           /\ T2[p].completedSubtasks = HeardOf(T2, p)
                           /\ S2[p].tasksHandled = Cardinality(HeardOf(T2, p))
                           /\ S2[p].totalPages = Cardinality(T2[p].subtasks)
                           /\ HeardOf(T2, p) # T2[p].subtasks
                      /\ \A s \in T2[p].subtasks : T2[s].users = T2[p].users
                      /\ (T2[p].status = "failed" \/ S2[p].failed) <=>
                           \E s \in HeardOf(T2, p) : T2[s].status = "failed"
                      /\ T2[p].undef <=> \E s \in HeardOf(T2, p) : T2[s].undef
    BY DEF ParentInv
  <1>1. CASE p <= created
    <2>1. T2[p] = T[p] /\ S2[p] = S[p]
      BY <1>1, QueueOfOne
    <2>2. ASSUME NEW s \in T[p].subtasks PROVE T2[s] = T[s]
      <3>1. s \in TaskIds /\ T[s].status # "absent"
        BY DEF Queueable, TablesTyped, Task, RegistryInv, TreeInv
      <3>2. s <= created
        BY <3>1, FreshIds DEF AbsentTask
      <3>3. QED
        BY <3>1, <3>2, QueueOfOne
    <2>3. HeardOf(T2, p) = HeardOf(T, p)
      BY <2>1, <2>2 DEF HeardOf
    <2>4. /\ T[p].status = "pending" =>
                /\ T[p].completedSubtasks = HeardOf(T, p)
                /\ S[p].tasksHandled = Cardinality(HeardOf(T, p))
                /\ S[p].totalPages = Cardinality(T[p].subtasks)
                /\ HeardOf(T, p) # T[p].subtasks
          /\ \A s \in T[p].subtasks : T[s].users = T[p].users
          /\ (T[p].status = "failed" \/ S[p].failed) <=>
                \E s \in HeardOf(T, p) : T[s].status = "failed"
          /\ T[p].undef <=> \E s \in HeardOf(T, p) : T[s].undef
      BY <2>1 DEF Queueable, RegistryInv, ParentInv
    <2>5. \A s \in HeardOf(T, p) : T2[s] = T[s]
      BY <2>2 DEF HeardOf
    <2> HIDE DEF T2, S2
    <2>6. QED
      BY <2>1, <2>2, <2>3, <2>4, <2>5
  <1>2. CASE p = id
    <2>1. T2[p].subtasks = Subtasks(id, plan) /\ T2[p].users = {u}
      BY <1>2, QueueOfOne
    <2>2. IsComposite(plan)
      BY <2>1 DEF Subtasks
    <2>3. plan # <<>>
      BY <2>2, ChunksOfPlan
    <2>4. /\ T2[p].status = "pending" /\ T2[p].completedSubtasks = {} /\ ~T2[p].undef
          /\ S2[p].totalPages = ChunkCount(plan) /\ S2[p].tasksHandled = 0 /\ ~S2[p].failed
      BY <1>2, <2>2, <2>3, QueueOfOne
    <2>5. \A s \in Subtasks(id, plan) : T2[s].status = "pending" /\ T2[s].users = {u}
      BY FreshIds, QueueOfOne
    <2>6. HeardOf(T2, p) = {}
      BY <2>1, <2>5 DEF HeardOf, Finished
    <2>7. Cardinality(Subtasks(id, plan)) = ChunkCount(plan)
      <3>1. id \in Int /\ ChunkCount(plan) \in Nat /\ ChunkCount(plan) > 1
        BY <2>2, FreshIds, ChunksOfPlan DEF TaskIds, IsComposite
      <3>2. Subtasks(id, plan) = (id + 1) .. (id + ChunkCount(plan))
        BY <2>2 DEF Subtasks
      <3>3. ASSUME NEW a \in Int, NEW n \in Nat, n > 1 PROVE Cardinality((a + 1) .. (a + n)) = n
        <4>1. Cardinality((a + 1) .. (a + n)) = IF a + 1 > a + n THEN 0 ELSE (a + n) - (a + 1) + 1
          BY <3>3, FS_Interval
        <4>2. QED
          BY <3>3, <4>1
      <3>4. QED
        BY <3>1, <3>2, <3>3
    <2>8. Cardinality({}) = 0
      BY FS_EmptySet
    <2> HIDE DEF T2, S2
    <2>9. QED
      BY <2>1, <2>4, <2>5, <2>6, <2>7, <2>8
  <1>3. CASE p \in Subtasks(id, plan)
    BY <1>3, QueueOfOne
  <1>4. CASE ~(p <= created) /\ p # id /\ p \notin Subtasks(id, plan)
    BY <1>4, QueueOfOne DEF AbsentTask
  <1>5. QED
    BY <1>1, <1>2, <1>3, <1>4

-----------------------------------------------------------------------------
(* Starting jobs from the front of the queue.                              *)

\* What the start of some jobs makes of one session: only its workers and its
\* last activity change, and only if a job of its own starts.
LEMMA StartOfOne ==
  ASSUME NEW S \in [TaskIds -> Session], NEW first, IsFiniteSet(first), NEW t \in TaskIds
  PROVE  LET new == SessionsAfterStart(S, first)[t]
         IN  /\ new.open <=> S[t].open
             /\ new.failed <=> S[t].failed
             /\ new.totalPages = S[t].totalPages /\ new.tasksHandled = S[t].tasksHandled
             /\ new.dedupeKey = S[t].dedupeKey
             /\ S[t].open => new.activeWorkers = S[t].activeWorkers + Cardinality(JobsOf(first, t))
             /\ ~S[t].open => new = S[t]
  <1> DEFINE mine == {j \in first : j.task = t}
             new == SessionsAfterStart(S, first)[t]
  <1>1. S[t] \in Session
    OBVIOUS
  <1>2. mine = JobsOf(first, t)
    BY DEF JobsOf
  <1>3. CASE S[t].open /\ mine # {}
    <2> DEFINE more == Cardinality(mine)
               s == S[t]
    <2>1. new = [s EXCEPT !.activeWorkers = @ + more, !.lastActivityAt = now]
      BY <1>3 DEF SessionsAfterStart
    <2>2. more = Cardinality(JobsOf(first, t))
      BY <1>2
    <2>3. s \in Session /\ s.open
      BY <1>1, <1>3
    <2> HIDE DEF more, s, new
    <2>4. /\ new.open /\ (new.failed <=> s.failed)
          /\ new.totalPages = s.totalPages /\ new.tasksHandled = s.tasksHandled
          /\ new.dedupeKey = s.dedupeKey /\ new.activeWorkers = s.activeWorkers + more
      BY <2>1, <2>3 DEF Session
    <2>5. QED
      BY <2>2, <2>3, <2>4 DEF s, new
  <1>4. CASE ~(S[t].open /\ mine # {})
    <2>1. new = S[t]
      BY <1>4 DEF SessionsAfterStart
    <2>2. mine = {} => Cardinality(mine) = 0
      BY FS_EmptySet
    <2>3. S[t].activeWorkers + 0 = S[t].activeWorkers
      BY <1>1 DEF Session
    <2> HIDE DEF mine, new
    <2>4. S[t].open => new.activeWorkers = S[t].activeWorkers + Cardinality(JobsOf(first, t))
      BY <1>2, <1>4, <2>1, <2>2, <2>3
    <2>5. QED
      BY <2>1, <2>4 DEF new
  <1>5. QED
    BY <1>3, <1>4

\* Starting waiting jobs moves their pages from waiting to worked on.
LEMMA StartKeepsRegistry ==
  ASSUME now \in Nat, NEW T, NEW S, NEW J, NEW n,
         TablesTyped(T, S, J, running), RegistryInv(T, S, J, running, n), NEW first \in SUBSET J
  PROVE  RegistryInv(T, SessionsAfterStart(S, first), J \ first,
                     running \cup WorkersStarted(S, first), n)
  <1> DEFINE S2 == SessionsAfterStart(S, first)
             W == WorkersStarted(S, first)
  <1>1. /\ S \in [TaskIds -> Session] /\ T \in [TaskIds -> Task]
        /\ J \subseteq Job /\ running \subseteq RunningJob
        /\ IsFiniteSet(J) /\ IsFiniteSet(running) /\ IsFiniteSet(first)
    BY FS_Subset DEF TablesTyped
  <1>2. \A j \in J : S[j.task].open /\ T[j.task].subtasks = {} /\ j.task \in TaskIds
    BY <1>1 DEF RegistryInv, LiveInv, Job
  <1>3. W = {[task |-> j.task, page |-> j.page, startedAt |-> now] : j \in first}
    BY <1>2 DEF WorkersStarted
  <1>4. \A t \in TaskIds :
           /\ S2[t].open <=> S[t].open
           /\ S2[t].failed <=> S[t].failed
           /\ S2[t].totalPages = S[t].totalPages /\ S2[t].tasksHandled = S[t].tasksHandled
           /\ ~S[t].open => S2[t] = S[t]
    BY <1>1, StartOfOne
  <1>5. ASSUME NEW t \in TaskIds
        PROVE /\ Cardinality(JobsOf(running \cup W, t))
                   = Cardinality(JobsOf(running, t)) + Cardinality(JobsOf(first, t))
              /\ Cardinality(JobsOf(J \ first, t))
                   = Cardinality(JobsOf(J, t)) - Cardinality(JobsOf(first, t))
              /\ Cardinality(JobsOf(J, t)) \in Nat /\ Cardinality(JobsOf(first, t)) \in Nat
              /\ Cardinality(JobsOf(running, t)) \in Nat
    <2> DEFINE r == JobsOf(running, t)
               w == JobsOf(W, t)
               f == JobsOf(first, t)
               j == JobsOf(J, t)
               worker == [i \in f |-> [task |-> i.task, page |-> i.page, startedAt |-> now]]
    <2>1. IsFiniteSet(r) /\ IsFiniteSet(f) /\ IsFiniteSet(j) /\ f \subseteq j
      BY <1>1, FS_Subset DEF JobsOf
    <2>2. worker \in Surjection(f, w)
      BY <1>3 DEF JobsOf, Surjection
    <2>3. worker \in Injection(f, w)
      <3>1. worker \in [f -> w]
        BY <1>3 DEF JobsOf
      <3>2. \A a, b \in f : a \in Job /\ b \in Job
        BY <1>1 DEF JobsOf
      <3>3. \A a, b \in f : worker[a] = worker[b] => a = b
        BY <3>2 DEF Job
      <3>4. QED
        BY <3>1, <3>3 DEF Injection, IsInjective
    <2>4. IsFiniteSet(w) /\ Cardinality(w) = Cardinality(f)
      BY <2>1, <2>2, <2>3, FS_Surjection
    <2>5. r \cap w = {}
      BY <1>3 DEF JobsOf, RegistryInv, LiveInv
    <2>6. JobsOf(running \cup W, t) = r \cup w
      BY DEF JobsOf
    <2>7. JobsOf(J \ first, t) = j \ f /\ j \cap f = f
      BY DEF JobsOf
    <2> HIDE DEF r, w, f, j, worker
    <2>8. Cardinality(r \cup w) = Cardinality(r) + Cardinality(w) - Cardinality(r \cap w)
      BY <2>1, <2>4, FS_Union
    <2>9. Cardinality(r \cap w) = 0
      BY <2>5, FS_EmptySet
    <2>10. Cardinality(j \ f) = Cardinality(j) - Cardinality(j \cap f)
      BY <2>1, FS_Difference
    <2>11. Cardinality(r) \in Nat /\ Cardinality(f) \in Nat /\ Cardinality(j) \in Nat
      BY <2>1, FS_CardinalityType
    <2>12. Cardinality(r \cup w) = Cardinality(r) + Cardinality(f)
      BY <2>4, <2>8, <2>9, <2>11
    <2>13. Cardinality(j \ f) = Cardinality(j) - Cardinality(f)
      BY <2>7, <2>10
    <2>14. QED
      BY <2>6, <2>7, <2>11, <2>12, <2>13 DEF r, f, j
  <1>6. LiveInv(T, S2, J \ first, running \cup W)
    <2>1. ASSUME NEW j \in (J \ first) \cup (running \cup W)
          PROVE S[j.task].open /\ T[j.task].subtasks = {} /\ j.task \in TaskIds
      BY <1>1, <1>2, <1>3 DEF RegistryInv, LiveInv, RunningJob
    <2>2. ASSUME NEW j \in J \ first, NEW r \in running \cup W, j.task = r.task PROVE j.page # r.page
      <3>1. CASE r \in running
        BY <2>2, <3>1 DEF RegistryInv, LiveInv
      <3>2. CASE r \in W
        <4>1. PICK i \in first : r = [task |-> i.task, page |-> i.page, startedAt |-> now]
          BY <1>3, <3>2
        <4>2. i # j /\ i \in Job /\ j \in Job
          BY <1>1
        <4>3. i.task # j.task \/ i.page # j.page
          BY <4>2 DEF Job
        <4>4. QED
          BY <2>2, <4>1, <4>3
      <3>3. QED
        BY <3>1, <3>2
    <2> HIDE DEF S2, W
    <2>3. QED
      BY <1>4, <2>1, <2>2 DEF RegistryInv, LiveInv
  <1>7. LeafInv(T, S2, J \ first, running \cup W)
    <2> SUFFICES ASSUME NEW t \in TaskIds, S2[t].open, T[t].subtasks = {}
                 PROVE  LeafCounts(S2[t], Cardinality(JobsOf(running \cup W, t)),
                                   Cardinality(JobsOf(J \ first, t)))
      BY DEF LeafInv
    <2>1. S[t].open /\ S[t] \in Session
      BY <1>1, <1>4
    <2>2. LeafCounts(S[t], Cardinality(JobsOf(running, t)), Cardinality(JobsOf(J, t)))
      BY <2>1 DEF RegistryInv, LeafInv
    <2>3. S2[t].activeWorkers = S[t].activeWorkers + Cardinality(JobsOf(first, t))
      BY <1>1, <2>1, StartOfOne
    <2>4. S[t].tasksHandled \in Nat /\ S[t].totalPages \in Nat /\ S[t].activeWorkers \in Nat
      BY <2>1 DEF Session
    <2>5. S2[t].totalPages = S[t].totalPages /\ S2[t].tasksHandled = S[t].tasksHandled
      BY <1>4
    <2> HIDE DEF S2, W
    <2> DEFINE r == Cardinality(JobsOf(running, t))
               f == Cardinality(JobsOf(first, t))
               j == Cardinality(JobsOf(J, t))
    <2>6. /\ Cardinality(JobsOf(running \cup W, t)) = r + f
          /\ Cardinality(JobsOf(J \ first, t)) = j - f
          /\ r \in Nat /\ f \in Nat /\ j \in Nat
      BY <1>5
    <2>7. LeafCounts(S[t], r, j)
      BY <2>2
    <2> HIDE DEF r, f, j
    <2>8. LeafCounts(S2[t], r + f, j - f)
      BY <2>3, <2>4, <2>5, <2>6, <2>7 DEF LeafCounts, f
    <2>9. QED
      BY <2>6, <2>8
  <1> HIDE DEF S2, W
  <1>8. ParentInv(T, S2)
    BY <1>4 DEF RegistryInv, ParentInv
  <1>9. QED
    BY <1>6, <1>7, <1>8 DEF RegistryInv, S2, W

\* What a pump makes of a registry in order is in order, and no session changes
\* its key or is opened or closed by it.
LEMMA PumpKeepsRegistry ==
  ASSUME now \in Nat, NEW T, NEW S, NEW J, NEW n, NEW busy,
         TablesTyped(T, S, J, running), RegistryInv(T, S, J, running, n), Pump(S, J, busy)
  PROVE  /\ RegistryInv(T, sessions', pendingJobs', running', n)
         /\ \A t \in TaskIds : /\ sessions'[t].dedupeKey = S[t].dedupeKey
                               /\ sessions'[t].open <=> S[t].open
  <1>1. PICK first \in SUBSET J :
            /\ sessions' = SessionsAfterStart(S, first)
            /\ running' = running \cup WorkersStarted(S, first)
            /\ pendingJobs' = J \ first
    BY DEF Pump
  <1>2. RegistryInv(T, SessionsAfterStart(S, first), J \ first,
                    running \cup WorkersStarted(S, first), n)
    BY StartKeepsRegistry
  <1>3. S \in [TaskIds -> Session] /\ IsFiniteSet(first)
    BY FS_Subset DEF TablesTyped
  <1>4. QED
    BY <1>1, <1>2, <1>3, StartOfOne

-----------------------------------------------------------------------------
(* A page settling.                                                        *)

\* The page of job j is its task's last, the task's parent hears of that, and it
\* was the last the parent waited for.
EndsTask(j, failed) == AllHandled(PageHandled(j.task, failed))

TellsParent(j, failed) == EndsTask(j, failed) /\ tasks[j.task].parent # NoTask

EndsParent(j, failed) ==
    LET p == tasks[j.task].parent
    IN  TellsParent(j, failed) /\ HeardOf(tasks, p) \cup {j.task} = tasks[p].subtasks

Settling(j, failed, undef) ==
    Registry /\ j \in running /\ failed \in BOOLEAN /\ undef \in BOOLEAN /\ PageSettles(j, failed, undef)

\* The task of a running job and its parent are pending.
LEMMA SettlesWhilePending ==
  ASSUME NEW j, NEW failed, NEW undef, Settling(j, failed, undef)
  PROVE  LET t == j.task
             p == tasks[t].parent
         IN  /\ t \in TaskIds /\ sessions[t].open /\ tasks[t].status = "pending" /\ tasks[t].subtasks = {}
             /\ p \in TaskIds \cup {NoTask} /\ p # t
             /\ p # NoTask => /\ p \in TaskIds /\ tasks[p].status = "pending" /\ sessions[p].open
                              /\ t \in tasks[p].subtasks /\ tasks[p].parent = NoTask
                              /\ t \notin HeardOf(tasks, p)
  <1> USE DEF Settling, Registry, TypeInv, TypeOK
  <1> DEFINE t == j.task
             p == tasks[t].parent
  <1>1. t \in TaskIds /\ p \in TaskIds \cup {NoTask}
    BY DEF RunningJob, Task
  <1>2. sessions[t].open /\ tasks[t].status = "pending" /\ tasks[t].subtasks = {}
    BY <1>1 DEF RegistryInv, LiveInv
  <1>3. ASSUME p # NoTask
        PROVE /\ p \in TaskIds /\ tasks[p].status = "pending" /\ sessions[p].open /\ p # t
              /\ t \in tasks[p].subtasks /\ tasks[p].parent = NoTask /\ t \notin HeardOf(tasks, p)
    <2>1. p \in TaskIds
      BY <1>1, <1>3
    <2>2. p < t /\ tasks[p].status = "pending" /\ t \in tasks[p].subtasks
      BY <1>1, <1>2, <1>3 DEF RegistryInv, TreeInv
    <2>3. tasks[p].parent # NoTask => tasks[p].subtasks = {}
      BY <2>1 DEF RegistryInv, TreeInv
    <2>4. p # t
      BY <1>1, <2>1, <2>2 DEF TaskIds
    <2>5. sessions[p].open
      BY <2>1, <2>2 DEF RegistryInv, LiveInv
    <2>6. t \notin HeardOf(tasks, p)
      BY <1>2 DEF HeardOf, Finished
    <2>7. QED
      BY <2>1, <2>2, <2>3, <2>4, <2>5, <2>6
  <1>4. p # t
    BY <1>1, <1>3 DEF TaskIds, NoTask
  <1>5. QED
    BY <1>1, <1>2, <1>3, <1>4

\* The counters of the page's task move with its page: from worked on to handled.
LEMMA SettlesOnePage ==
  ASSUME NEW j, NEW failed, NEW undef, Settling(j, failed, undef)
  PROVE  LET t == j.task
             s == PageHandled(t, failed)
             still == Cardinality(JobsOf(running \ {j}, t))
             waiting == Cardinality(JobsOf(pendingJobs, t))
         IN  /\ s.open /\ (s.failed <=> sessions[t].failed \/ failed)
             /\ s.dedupeKey = sessions[t].dedupeKey
             /\ s.activeWorkers = still
             /\ s.totalPages = s.tasksHandled + s.activeWorkers + waiting
             /\ ~EndsTask(j, failed) => s.tasksHandled < s.totalPages
             /\ EndsTask(j, failed) => JobsOf(running \ {j}, t) = {} /\ JobsOf(pendingJobs, t) = {}
  <1> USE DEF Settling, Registry, TypeInv, TypeOK
  <1> DEFINE t == j.task
             s == PageHandled(t, failed)
             r == Cardinality(JobsOf(running, t))
             still == Cardinality(JobsOf(running \ {j}, t))
             waiting == Cardinality(JobsOf(pendingJobs, t))
  <1>1. t \in TaskIds /\ sessions[t].open /\ tasks[t].subtasks = {} /\ sessions[t] \in Session
    BY SettlesWhilePending
  <1>2. IsFiniteSet(JobsOf(running, t)) /\ IsFiniteSet(JobsOf(pendingJobs, t))
    BY FS_Subset DEF JobsOf
  <1>3. JobsOf(running \ {j}, t) = JobsOf(running, t) \ {j} /\ j \in JobsOf(running, t)
    BY DEF JobsOf
  <1>4. IsFiniteSet(JobsOf(running \ {j}, t)) /\ still = r - 1
    <2>1. ASSUME NEW jobs, IsFiniteSet(jobs), j \in jobs
          PROVE  IsFiniteSet(jobs \ {j}) /\ Cardinality(jobs \ {j}) = Cardinality(jobs) - 1
      BY <2>1, FS_RemoveElement
    <2>2. QED
      BY <1>2, <1>3, <2>1
  <1>5. r \in Nat /\ still \in Nat /\ waiting \in Nat
    BY <1>2, <1>4, FS_CardinalityType
  <1>6. LeafCounts(sessions[t], r, waiting)
    BY <1>1 DEF RegistryInv, LeafInv
  <1>7. /\ sessions[t].tasksHandled \in Nat /\ sessions[t].totalPages \in Nat
        /\ sessions[t].activeWorkers \in Nat
    BY <1>1 DEF Session
  <1>8. /\ s.open /\ (s.failed <=> sessions[t].failed \/ failed)
        /\ s.dedupeKey = sessions[t].dedupeKey /\ s.totalPages = sessions[t].totalPages
        /\ s.tasksHandled = sessions[t].tasksHandled + 1
        /\ s.activeWorkers = IF sessions[t].activeWorkers > 0 THEN sessions[t].activeWorkers - 1 ELSE 0
    BY <1>1 DEF PageHandled, Session
  <1> HIDE DEF s, r, still, waiting
  <1>9. /\ s.activeWorkers = still /\ s.totalPages = s.tasksHandled + s.activeWorkers + waiting
        /\ s.tasksHandled \in Nat /\ s.totalPages \in Nat /\ s.tasksHandled > 0
    <2>1. /\ sessions[t].activeWorkers = r
          /\ sessions[t].totalPages = sessions[t].tasksHandled + sessions[t].activeWorkers + waiting
      BY <1>6 DEF LeafCounts
    <2>2. r > 0
      BY <1>4, <1>5
    <2>3. s.activeWorkers = still
      BY <1>4, <1>5, <1>8, <2>1, <2>2
    <2>4. QED
      BY <1>4, <1>5, <1>7, <1>8, <2>1, <2>3
  <1>10. AllHandled(s) <=> s.tasksHandled = s.totalPages
    BY <1>9 DEF AllHandled
  <1>11. AllHandled(s) <=> still = 0 /\ waiting = 0
    BY <1>5, <1>9, <1>10
  <1>12. EndsTask(j, failed) <=> AllHandled(s)
    BY DEF EndsTask, s
  <1>13. ASSUME EndsTask(j, failed) PROVE JobsOf(running \ {j}, t) = {} /\ JobsOf(pendingJobs, t) = {}
    <2>1. still = 0 /\ waiting = 0
      BY <1>11, <1>12, <1>13
    <2>2. QED
      BY <1>2, <1>4, <2>1, FS_EmptySet DEF still, waiting
  <1>14. ~EndsTask(j, failed) => s.tasksHandled < s.totalPages
    BY <1>5, <1>9, <1>10, <1>12
  <1>15. QED
    BY <1>8, <1>9, <1>13, <1>14 DEF s, still, waiting

\* A parent that hears of a subtask has one more to its count, and closes with the last.
LEMMA SettlesOneSubtask ==
  ASSUME NEW j, NEW failed, NEW undef, Settling(j, failed, undef), tasks[j.task].parent # NoTask
  PROVE  LET t == j.task
             p == tasks[t].parent
             ps == SubtaskHandled(p, PageHandled(t, failed).failed)
             heard == HeardOf(tasks, p) \cup {t}
         IN  /\ ps.open /\ ps.dedupeKey = sessions[p].dedupeKey
             /\ ps.failed <=> sessions[p].failed \/ sessions[t].failed \/ failed
             /\ ps.tasksHandled = Cardinality(heard)
             /\ ps.totalPages = Cardinality(tasks[p].subtasks)
             /\ AllHandled(ps) <=> heard = tasks[p].subtasks
  <1> USE DEF Settling, Registry, TypeInv, TypeOK
  <1> DEFINE t == j.task
             p == tasks[t].parent
             ps == SubtaskHandled(p, PageHandled(t, failed).failed)
             heard == HeardOf(tasks, p) \cup {t}
             all == tasks[p].subtasks
  <1>1. /\ t \in TaskIds /\ p \in TaskIds /\ sessions[p].open /\ tasks[p].status = "pending"
        /\ t \in all /\ t \notin HeardOf(tasks, p)
    BY SettlesWhilePending
  <1>2. /\ sessions[p].tasksHandled = Cardinality(HeardOf(tasks, p))
        /\ sessions[p].totalPages = Cardinality(all)
    BY <1>1 DEF RegistryInv, ParentInv
  <1>3. all \subseteq TaskIds /\ IsFiniteSet(all) /\ heard \subseteq all
    BY <1>1, TaskIdsFinite, FS_Subset DEF Task, HeardOf
  <1>4. IsFiniteSet(HeardOf(tasks, p)) /\ IsFiniteSet(heard)
    BY <1>1, <1>3, FS_Subset DEF HeardOf
  <1>5. Cardinality(heard) = Cardinality(HeardOf(tasks, p)) + 1
    BY <1>1, <1>4, FS_AddElement
  <1>6. PageHandled(t, failed).failed <=> sessions[t].failed \/ failed
    BY SettlesOnePage
  <1>7. sessions[p] \in Session /\ sessions[t] \in Session
    BY <1>1
  <1>8. /\ ps.open /\ ps.dedupeKey = sessions[p].dedupeKey
        /\ ps.tasksHandled = sessions[p].tasksHandled + 1
        /\ ps.totalPages = sessions[p].totalPages
    BY <1>1, <1>7 DEF SubtaskHandled, Session
  <1>9. ps.failed <=> sessions[p].failed \/ PageHandled(t, failed).failed
    BY <1>1, <1>7 DEF SubtaskHandled, Session
  <1>10. Cardinality(all) \in Nat /\ Cardinality(all) > 0
    <2>1. Cardinality(all) # 0 /\ Cardinality(all) \in Nat
      BY <1>1, <1>3, FS_EmptySet, FS_CardinalityType
    <2>2. QED
      BY <2>1
  <1>11. Cardinality(heard) = Cardinality(all) <=> heard = all
    BY <1>3, FS_Subset
  <1> HIDE DEF ps, heard, all
  <1>12. AllHandled(ps) <=> heard = all
    BY <1>2, <1>5, <1>8, <1>10, <1>11 DEF AllHandled
  <1>13. QED
    BY <1>2, <1>5, <1>6, <1>8, <1>9, <1>12 DEF ps, heard, all

\* What a settled page makes of each task and session.
LEMMA SettleOfOne ==
  ASSUME NEW j, NEW failed, NEW undef, Settling(j, failed, undef), NEW x \in TaskIds
  PROVE  LET t == j.task
             p == tasks[t].parent
             ps == SubtaskHandled(p, PageHandled(t, failed).failed)
             last == EndsTask(j, failed)
         IN  /\ tasks'[x].users = tasks[x].users /\ tasks'[x].createdAt = tasks[x].createdAt
             /\ tasks'[x].parent = tasks[x].parent /\ tasks'[x].subtasks = tasks[x].subtasks
             /\ x # t /\ ~(x = p /\ last) => tasks'[x] = tasks[x] /\ sessions'[x] = sessions[x]
             /\ x = t => /\ tasks'[x].undef <=> tasks[x].undef \/ undef
                         /\ tasks'[x].completedSubtasks = tasks[x].completedSubtasks
                         /\ ~last => tasks'[x].status = "pending" /\ sessions'[x] = PageHandled(t, failed)
                         /\ last => /\ sessions'[x] = ClosedSession /\ tasks'[x].completedAt = now
                                    /\ tasks'[x].status =
                                         IF sessions[t].failed \/ failed THEN "failed" ELSE "completed"
             /\ x = p /\ last =>
                  /\ tasks'[x].undef <=> tasks[x].undef \/ tasks'[t].undef
                  /\ tasks'[x].completedSubtasks = tasks[x].completedSubtasks \cup {t}
                  /\ ~EndsParent(j, failed) => tasks'[x].status = "pending" /\ sessions'[x] = ps
                  /\ EndsParent(j, failed) =>
                       /\ sessions'[x] = ClosedSession /\ tasks'[x].completedAt = now
                       /\ tasks'[x].status =
                            IF sessions[p].failed \/ sessions[t].failed \/ failed
                            THEN "failed" ELSE "completed"
  <1> USE DEF Settling, Registry, TypeInv, TypeOK
  <1> DEFINE t == j.task
             p == tasks[t].parent
             s == PageHandled(t, failed)
             ps == SubtaskHandled(p, s.failed)
             task == Conclude([tasks[t] EXCEPT !.undef = @ \/ undef], s)
             parent == Conclude([tasks[p] EXCEPT !.completedSubtasks = @ \cup {t},
                                                 !.undef = @ \/ task.undef], ps)
             hears == AllHandled(s) /\ p # NoTask /\ tasks[p].status = "pending" /\ sessions[p].open
  <1>1. /\ tasks' = [y \in TaskIds |-> CASE y = t -> task
                                         [] y = p /\ hears -> parent
                                         [] OTHER -> tasks[y]]
        /\ sessions' = [y \in TaskIds |-> CASE y = t -> SessionLeft(s)
                                            [] y = p /\ hears -> SessionLeft(ps)
                                            [] OTHER -> sessions[y]]
    BY DEF PageSettles
  <1>2. /\ t \in TaskIds /\ tasks[t].status = "pending" /\ p # t
        /\ p # NoTask => p \in TaskIds /\ tasks[p].status = "pending" /\ sessions[p].open
    BY SettlesWhilePending
  <1>3. p = x => p # NoTask
    BY DEF TaskIds, NoTask
  <1>4. EndsTask(j, failed) <=> AllHandled(s)
    BY DEF EndsTask
  <1>5. p = x => (hears <=> AllHandled(s))
    BY <1>2, <1>3
  <1>6. s.failed <=> sessions[t].failed \/ failed
    BY SettlesOnePage
  <1>7. CASE x = t
    <2>1. tasks'[x] = task /\ sessions'[x] = SessionLeft(s)
      BY <1>1, <1>2, <1>7
    <2>2. tasks[t] \in Task
      BY <1>2
    <2> DEFINE mid == [tasks[t] EXCEPT !.undef = @ \/ undef]
    <2>3. /\ mid \in Task /\ mid.status = "pending" /\ (mid.undef <=> tasks[t].undef \/ undef)
          /\ mid.users = tasks[t].users /\ mid.createdAt = tasks[t].createdAt
          /\ mid.parent = tasks[t].parent /\ mid.subtasks = tasks[t].subtasks
          /\ mid.completedSubtasks = tasks[t].completedSubtasks
      BY <1>2, <2>2 DEF Task
    <2> HIDE DEF s
    <2>4. task = Conclude(mid, s)
      OBVIOUS
    <2> HIDE DEF mid, task
    <2>5. CASE AllHandled(s)
      <3>1. task = [mid EXCEPT !.status = IF s.failed THEN "failed" ELSE "completed", !.completedAt = now]
        BY <2>4, <2>5 DEF Conclude
      <3>2. /\ task.users = mid.users /\ task.createdAt = mid.createdAt /\ task.parent = mid.parent
            /\ task.subtasks = mid.subtasks /\ (task.undef <=> mid.undef) /\ task.completedAt = now
            /\ task.completedSubtasks = mid.completedSubtasks
            /\ task.status = IF s.failed THEN "failed" ELSE "completed"
        BY <2>3, <3>1 DEF Task
      <3>3. sessions'[x] = ClosedSession
        BY <2>1, <2>5 DEF SessionLeft
      <3>4. QED
        BY <1>2, <1>4, <1>6, <1>7, <2>1, <2>3, <2>5, <3>2, <3>3
    <2>6. CASE ~AllHandled(s)
      <3>1. task = mid /\ sessions'[x] = s
        BY <2>1, <2>4, <2>6 DEF Conclude, SessionLeft
      <3>2. QED
        BY <1>2, <1>4, <1>7, <2>1, <2>3, <2>6, <3>1 DEF s
    <2>7. QED
      BY <2>5, <2>6
  <1>8. CASE x = p /\ AllHandled(s)
    <2>1. tasks'[x] = parent /\ sessions'[x] = SessionLeft(ps) /\ tasks'[t] = task
      BY <1>1, <1>2, <1>5, <1>8
    <2>2. tasks[p] \in Task /\ p # NoTask /\ tasks[p].status = "pending"
      BY <1>2, <1>3, <1>8
    <2>3. task.undef \in BOOLEAN /\ task \in Task
      <3>1. s \in Session
        BY <1>2, HandledTyped
      <3>2. task \in Task
        <4>1. tasks[t] \in Task /\ undef \in BOOLEAN /\ now \in Nat
          BY <1>2
        <4>2. [tasks[t] EXCEPT !.undef = @ \/ undef] \in Task
          BY <4>1 DEF Task
        <4>3. QED
          BY <3>1, <4>1, <4>2, ConcludeTyped
      <3>3. QED
        BY <3>2 DEF Task
    <2> HIDE DEF task
    <2> DEFINE mid == [tasks[p] EXCEPT !.completedSubtasks = @ \cup {t}, !.undef = @ \/ task.undef]
    <2>4. /\ mid.status = "pending" /\ (mid.undef <=> tasks[p].undef \/ task.undef)
          /\ mid.users = tasks[p].users /\ mid.createdAt = tasks[p].createdAt
          /\ mid.parent = tasks[p].parent /\ mid.subtasks = tasks[p].subtasks
          /\ mid.completedSubtasks = tasks[p].completedSubtasks \cup {t}
          /\ mid \in Task
      BY <1>2, <2>2, <2>3 DEF Task
    <2>5. /\ ps.failed <=> sessions[p].failed \/ sessions[t].failed \/ failed
          /\ AllHandled(ps) <=> EndsParent(j, failed)
      BY <1>4, <1>8, <2>2, SettlesOneSubtask DEF EndsParent, TellsParent
    <2>6. parent = Conclude(mid, ps)
      OBVIOUS
    <2> HIDE DEF mid, parent, ps
    <2>7. CASE AllHandled(ps)
      <3>1. parent = [mid EXCEPT !.status = IF ps.failed THEN "failed" ELSE "completed", !.completedAt = now]
        BY <2>6, <2>7 DEF Conclude
      <3>2. /\ parent.users = mid.users /\ parent.createdAt = mid.createdAt /\ parent.parent = mid.parent
            /\ parent.subtasks = mid.subtasks /\ (parent.undef <=> mid.undef) /\ parent.completedAt = now
            /\ parent.completedSubtasks = mid.completedSubtasks
            /\ parent.status = IF ps.failed THEN "failed" ELSE "completed"
        BY <2>4, <3>1 DEF Task
      <3>3. sessions'[x] = ClosedSession
        BY <2>1, <2>7 DEF SessionLeft
      <3>4. EndsParent(j, failed) /\ EndsTask(j, failed)
        BY <1>4, <1>8, <2>5, <2>7
      <3>5. /\ tasks'[x].undef <=> tasks[x].undef \/ tasks'[t].undef
            /\ tasks'[x].status = IF sessions[p].failed \/ sessions[t].failed \/ failed
                                  THEN "failed" ELSE "completed"
        BY <1>8, <2>1, <2>4, <2>5, <3>2
      <3>6. /\ tasks'[x].users = tasks[x].users /\ tasks'[x].createdAt = tasks[x].createdAt
            /\ tasks'[x].parent = tasks[x].parent /\ tasks'[x].subtasks = tasks[x].subtasks
            /\ tasks'[x].completedSubtasks = tasks[x].completedSubtasks \cup {t}
            /\ tasks'[x].completedAt = now
        BY <1>8, <2>1, <2>4, <3>2
      <3>7. QED
        BY <1>2, <1>8, <3>3, <3>4, <3>5, <3>6
    <2>8. CASE ~AllHandled(ps)
      <3>1. parent = mid /\ sessions'[x] = ps
        BY <2>1, <2>6, <2>8 DEF Conclude, SessionLeft
      <3>2. ~EndsParent(j, failed) /\ EndsTask(j, failed)
        BY <1>4, <1>8, <2>5, <2>8
      <3>3. tasks'[x].undef <=> tasks[x].undef \/ tasks'[t].undef
        BY <1>8, <2>1, <2>4, <3>1
      <3>4. /\ tasks'[x].users = tasks[x].users /\ tasks'[x].createdAt = tasks[x].createdAt
            /\ tasks'[x].parent = tasks[x].parent /\ tasks'[x].subtasks = tasks[x].subtasks
            /\ tasks'[x].completedSubtasks = tasks[x].completedSubtasks \cup {t}
            /\ tasks'[x].status = "pending"
        BY <1>8, <2>1, <2>4, <3>1
      <3>5. QED
        BY <1>2, <1>8, <3>1, <3>2, <3>3, <3>4 DEF ps
    <2>9. QED
      BY <2>7, <2>8
  <1>9. CASE x # t /\ ~(x = p /\ AllHandled(s))
    <2>1. tasks'[x] = tasks[x] /\ sessions'[x] = sessions[x]
      BY <1>1, <1>9
    <2>2. QED
      BY <1>4, <1>9, <2>1
  <1>10. QED
    BY <1>7, <1>8, <1>9

LEMMA SettlingKeepsLive ==
  ASSUME NEW j, NEW failed, NEW undef, Settling(j, failed, undef)
  PROVE  LiveInv(tasks', sessions', pendingJobs, running \ {j})
  <1> USE DEF Settling, Registry, TypeInv, TypeOK
  <1> DEFINE t == j.task
             p == tasks[t].parent
  <1>1. /\ t \in TaskIds /\ tasks[t].subtasks = {} /\ p # t
        /\ p # NoTask => p \in TaskIds /\ tasks[p].status = "pending" /\ t \in tasks[p].subtasks
    BY SettlesWhilePending
  <1>2. ASSUME NEW x \in TaskIds
        PROVE /\ sessions'[x].open <=> tasks'[x].status = "pending"
              /\ ~sessions'[x].open => sessions'[x] = ClosedSession
    <2>1. ~ClosedSession.open
      BY DEF ClosedSession
    <2>2. CASE x = t
      <3>1. PageHandled(t, failed).open
        BY SettlesOnePage
      <3>2. QED
        BY <2>1, <2>2, <3>1, SettleOfOne
    <2>3. CASE x = p /\ EndsTask(j, failed)
      <3>1. p # NoTask
        BY <2>3 DEF TaskIds, NoTask
      <3>2. SubtaskHandled(p, PageHandled(t, failed).failed).open
        BY <3>1, SettlesOneSubtask
      <3>3. QED
        BY <2>1, <2>3, <3>2, SettleOfOne
    <2>4. CASE x # t /\ ~(x = p /\ EndsTask(j, failed))
      <3>1. tasks'[x] = tasks[x] /\ sessions'[x] = sessions[x]
        BY <2>4, SettleOfOne
      <3>2. QED
        BY <3>1 DEF RegistryInv, LiveInv
    <2>5. QED
      BY <2>2, <2>3, <2>4
  <1>3. ASSUME NEW i \in pendingJobs \cup (running \ {j})
        PROVE sessions'[i.task].open /\ tasks'[i.task].subtasks = {}
    <2>1. i.task \in TaskIds
      BY DEF Job, RunningJob
    <2>2. sessions[i.task].open /\ tasks[i.task].subtasks = {}
      BY DEF RegistryInv, LiveInv
    <2>3. tasks'[i.task].subtasks = {}
      BY <2>1, <2>2, SettleOfOne
    <2>4. CASE i.task = t
      <3>1. i \in JobsOf(running \ {j}, t) \cup JobsOf(pendingJobs, t)
        BY <2>4 DEF JobsOf
      <3>2. ~EndsTask(j, failed)
        BY <3>1, SettlesOnePage
      <3>3. sessions'[t] = PageHandled(t, failed)
        BY <1>1, <3>2, SettleOfOne
      <3>4. PageHandled(t, failed).open
        BY SettlesOnePage
      <3>5. QED
        BY <2>3, <2>4, <3>3, <3>4
    <2>5. CASE i.task # t
      <3>1. i.task # p
        BY <1>1, <2>1, <2>2 DEF TaskIds, NoTask
      <3>2. sessions'[i.task] = sessions[i.task]
        BY <2>1, <2>5, <3>1, SettleOfOne
      <3>3. QED
        BY <2>2, <2>3, <3>2
    <2>6. QED
      BY <2>4, <2>5
  <1>4. \A i \in pendingJobs, r \in running \ {j} : i.task = r.task => i.page # r.page
    BY DEF RegistryInv, LiveInv
  <1>5. QED
    BY <1>2, <1>3, <1>4 DEF LiveInv

LEMMA SettlingKeepsTree ==
  ASSUME NEW j, NEW failed, NEW undef, Settling(j, failed, undef)
  PROVE  TreeInv(tasks', created)
  <1> USE DEF Settling, Registry, TypeInv, TypeOK
  <1> DEFINE t == j.task
             p == tasks[t].parent
  <1>1. /\ t \in TaskIds /\ tasks[t].status = "pending" /\ p # t
        /\ p # NoTask => p \in TaskIds /\ tasks[p].status = "pending"
    BY SettlesWhilePending
  <1>2. \A x \in TaskIds : tasks'[x].parent = tasks[x].parent /\ tasks'[x].subtasks = tasks[x].subtasks
    BY SettleOfOne
  <1>3. ASSUME NEW x \in TaskIds
        PROVE  /\ tasks'[x].status = "absent" <=> tasks[x].status = "absent"
               /\ tasks[x].status = "absent" => tasks'[x] = tasks[x]
               /\ tasks'[x].status = "pending" => tasks[x].status = "pending"
    <2>1. CASE x = t
      BY <1>1, <2>1, SettleOfOne
    <2>2. CASE x = p /\ EndsTask(j, failed)
      <3>1. tasks[x].status = "pending"
        BY <1>1, <2>2 DEF TaskIds, NoTask
      <3>2. QED
        BY <2>2, <3>1, SettleOfOne
    <2>3. CASE x # t /\ ~(x = p /\ EndsTask(j, failed))
      BY <2>3, SettleOfOne
    <2>4. QED
      BY <2>1, <2>2, <2>3
  <1>4. ASSUME NEW x \in TaskIds, x > created \/ tasks'[x].status = "absent" PROVE tasks'[x] = AbsentTask
    <2>1. tasks[x] = AbsentTask
      BY <1>3, <1>4 DEF RegistryInv, TreeInv
    <2>2. tasks[x].status = "absent"
      BY <2>1 DEF AbsentTask
    <2>3. QED
      BY <1>3, <2>1, <2>2
  <1>5. ASSUME NEW q \in TaskIds, NEW s \in tasks'[q].subtasks
        PROVE tasks'[s].status # "absent" /\ tasks'[s].parent = q
    <2>1. s \in tasks[q].subtasks /\ s \in TaskIds
      BY <1>2 DEF Task
    <2>2. tasks[s].status # "absent" /\ tasks[s].parent = q
      BY <2>1 DEF RegistryInv, TreeInv
    <2>3. QED
      BY <1>2, <1>3, <2>1, <2>2
  <1>6. ASSUME NEW s \in TaskIds, tasks'[s].parent # NoTask
        PROVE LET q == tasks'[s].parent
              IN  /\ q < s /\ tasks'[s].subtasks = {}
                  /\ tasks'[q].status # "absent" => s \in tasks'[q].subtasks
                  /\ tasks'[s].status = "pending" => tasks'[q].status = "pending"
    <2> DEFINE q == tasks[s].parent
    <2>1. tasks'[s].parent = q /\ q # NoTask /\ q \in TaskIds
      BY <1>2, <1>6 DEF Task
    <2>2. /\ q < s /\ tasks[s].subtasks = {}
          /\ tasks[q].status # "absent" => s \in tasks[q].subtasks
          /\ tasks[s].status = "pending" => tasks[q].status = "pending"
      BY <2>1 DEF RegistryInv, TreeInv
    <2>3. ASSUME tasks'[s].status = "pending" PROVE tasks'[q].status = "pending"
      <3>1. tasks[s].status = "pending" /\ tasks[q].status = "pending" /\ s \in tasks[q].subtasks
        BY <1>3, <2>2, <2>3
      <3>2. q # t
        BY <3>1, SettlesWhilePending
      <3>3. CASE q = p /\ EndsTask(j, failed)
        <4>1. s # t
          BY <1>1, <2>3, <3>3, SettleOfOne
        <4>2. s \notin HeardOf(tasks, p)
          BY <3>1 DEF HeardOf, Finished
        <4>3. ~EndsParent(j, failed)
          BY <3>1, <3>3, <4>1, <4>2 DEF EndsParent
        <4>4. QED
          BY <2>1, <3>3, <4>3, SettleOfOne
      <3>4. CASE ~(q = p /\ EndsTask(j, failed))
        BY <2>1, <3>1, <3>2, <3>4, SettleOfOne
      <3>5. QED
        BY <3>3, <3>4
    <2>4. QED
      BY <1>2, <1>3, <2>1, <2>2, <2>3
  <1>7. QED
    BY <1>4, <1>5, <1>6 DEF TreeInv

LEMMA SettlingKeepsLeaves ==
  ASSUME NEW j, NEW failed, NEW undef, Settling(j, failed, undef)
  PROVE  LeafInv(tasks', sessions', pendingJobs, running \ {j})
  <1> USE DEF Settling, Registry, TypeInv, TypeOK
  <1> DEFINE t == j.task
             p == tasks[t].parent
  <1> SUFFICES ASSUME NEW x \in TaskIds, sessions'[x].open, tasks'[x].subtasks = {}
               PROVE  LeafCounts(sessions'[x], Cardinality(JobsOf(running \ {j}, x)),
                                 Cardinality(JobsOf(pendingJobs, x)))
    BY DEF LeafInv
  <1>1. tasks[x].subtasks = {}
    BY SettleOfOne
  <1>2. CASE x = t
    <2>1. ~EndsTask(j, failed)
      BY <1>2, SettleOfOne DEF ClosedSession
    <2>2. sessions'[x] = PageHandled(t, failed)
      BY <1>2, <2>1, SettleOfOne
    <2> DEFINE s == PageHandled(t, failed)
    <2>3. /\ s.activeWorkers = Cardinality(JobsOf(running \ {j}, t))
          /\ s.totalPages = s.tasksHandled + s.activeWorkers + Cardinality(JobsOf(pendingJobs, t))
          /\ s.tasksHandled < s.totalPages
      BY <2>1, SettlesOnePage
    <2> HIDE DEF s
    <2>4. LeafCounts(s, Cardinality(JobsOf(running \ {j}, t)), Cardinality(JobsOf(pendingJobs, t)))
      BY <2>3 DEF LeafCounts
    <2>5. QED
      BY <1>2, <2>2, <2>4 DEF s
  <1>3. CASE x # t
    <2>1. x # p
      BY <1>1, SettlesWhilePending DEF TaskIds, NoTask
    <2>2. sessions'[x] = sessions[x]
      BY <1>3, <2>1, SettleOfOne
    <2>3. JobsOf(running \ {j}, x) = JobsOf(running, x)
      BY <1>3 DEF JobsOf
    <2>4. QED
      BY <1>1, <2>2, <2>3 DEF RegistryInv, LeafInv
  <1>4. QED
    BY <1>2, <1>3

LEMMA SettlingKeepsParents ==
  ASSUME NEW j, NEW failed, NEW undef, Settling(j, failed, undef)
  PROVE  ParentInv(tasks', sessions')
  <1> USE DEF Settling, Registry, TypeInv, TypeOK
  <1> DEFINE t == j.task
             p == tasks[t].parent
             last == EndsTask(j, failed)
  <1> SUFFICES ASSUME NEW q \in TaskIds, tasks'[q].subtasks # {}
               PROVE  /\ tasks'[q].status = "pending" =>
                           /\ tasks'[q].completedSubtasks = HeardOf(tasks', q)
                           /\ sessions'[q].tasksHandled = Cardinality(HeardOf(tasks', q))
                           /\ sessions'[q].totalPages = Cardinality(tasks'[q].subtasks)
                           /\ HeardOf(tasks', q) # tasks'[q].subtasks
                      /\ \A s \in tasks'[q].subtasks : tasks'[s].users = tasks'[q].users
                      /\ (tasks'[q].status = "failed" \/ sessions'[q].failed) <=>
                           \E s \in HeardOf(tasks', q) : tasks'[s].status = "failed"
                      /\ tasks'[q].undef <=> \E s \in HeardOf(tasks', q) : tasks'[s].undef
    BY DEF ParentInv
  <1>1. tasks'[q].subtasks = tasks[q].subtasks /\ tasks'[q].users = tasks[q].users
    BY SettleOfOne
  <1>2. /\ tasks[q].status = "pending" =>
              /\ tasks[q].completedSubtasks = HeardOf(tasks, q)
              /\ sessions[q].tasksHandled = Cardinality(HeardOf(tasks, q))
              /\ sessions[q].totalPages = Cardinality(tasks[q].subtasks)
              /\ HeardOf(tasks, q) # tasks[q].subtasks
        /\ \A s \in tasks[q].subtasks : tasks[s].users = tasks[q].users
        /\ (tasks[q].status = "failed" \/ sessions[q].failed) <=>
              \E s \in HeardOf(tasks, q) : tasks[s].status = "failed"
        /\ tasks[q].undef <=> \E s \in HeardOf(tasks, q) : tasks[s].undef
    BY <1>1 DEF RegistryInv, ParentInv
  <1>3. /\ t \in TaskIds /\ tasks[t].subtasks = {} /\ tasks[t].status = "pending"
        /\ p # NoTask => /\ p \in TaskIds /\ tasks[p].parent = NoTask /\ tasks[p].status = "pending"
                         /\ t \in tasks[p].subtasks
    BY SettlesWhilePending
  <1>4. q # t
    BY <1>1, <1>3
  <1>5. q # NoTask
    BY DEF TaskIds, NoTask
  <1>6. ASSUME NEW s \in tasks[q].subtasks
        PROVE /\ s \in TaskIds /\ tasks[s].parent = q /\ s # p
              /\ tasks'[s].users = tasks[s].users
              /\ s # t => tasks'[s] = tasks[s]
    <2>1. s \in TaskIds /\ tasks[s].parent = q
      BY DEF RegistryInv, TreeInv, Task
    <2>2. s # p
      BY <1>3, <1>5, <2>1 DEF TaskIds, NoTask
    <2>3. QED
      BY <2>1, <2>2, SettleOfOne
  <1>7. \A s \in tasks'[q].subtasks : tasks'[s].users = tasks'[q].users
    BY <1>1, <1>2, <1>6
  <1>8. CASE q = p /\ last
    <2> DEFINE heard == HeardOf(tasks, p) \cup {t}
    <2>1. /\ tasks'[t].status = IF sessions[t].failed \/ failed THEN "failed" ELSE "completed"
          /\ Finished(tasks'[t])
      BY <1>3, <1>8, SettleOfOne DEF Finished
    <2>2. HeardOf(tasks', q) = heard
      <3>1. ASSUME NEW s \in tasks[q].subtasks
            PROVE  Finished(tasks'[s]) <=> s = t \/ Finished(tasks[s])
        BY <1>6, <2>1
      <3>2. t \in tasks[q].subtasks
        BY <1>3, <1>5, <1>8
      <3>3. QED
        BY <1>1, <1>8, <3>1, <3>2 DEF HeardOf
    <2>3. t \notin HeardOf(tasks, p) /\ HeardOf(tasks, p) \subseteq tasks[p].subtasks
      BY <1>5, <1>8, SettlesWhilePending DEF HeardOf
    <2>4. \A s \in HeardOf(tasks, p) : tasks'[s] = tasks[s]
      BY <1>6, <1>8, <2>3
    <2>5. tasks[p].status = "pending" /\ ~ClosedSession.failed
      BY <1>3, <1>5, <1>8 DEF ClosedSession
    <2>6. tasks'[p].undef <=> \E s \in heard : tasks'[s].undef
      <3>1. tasks'[p].undef <=> tasks[p].undef \/ tasks'[t].undef
        BY <1>8, SettleOfOne
      <3>2. QED
        BY <1>2, <1>8, <2>4, <3>1
    <2>7. (\E s \in heard : tasks'[s].status = "failed") <=> sessions[p].failed \/ sessions[t].failed \/ failed
      BY <1>2, <1>8, <2>1, <2>4, <2>5
    <2> HIDE DEF heard
    <2>8. CASE EndsParent(j, failed)
      <3>1. /\ sessions'[p] = ClosedSession
            /\ tasks'[p].status = IF sessions[p].failed \/ sessions[t].failed \/ failed
                                  THEN "failed" ELSE "completed"
        BY <1>8, <2>8, SettleOfOne
      <3>2. QED
        BY <1>7, <1>8, <2>2, <2>5, <2>6, <2>7, <3>1
    <2>9. CASE ~EndsParent(j, failed)
      <3> DEFINE ps == SubtaskHandled(p, PageHandled(t, failed).failed)
      <3>1. /\ sessions'[p] = ps /\ tasks'[p].status = "pending"
            /\ tasks'[p].completedSubtasks = tasks[p].completedSubtasks \cup {t}
        BY <1>8, <2>9, SettleOfOne
      <3>2. /\ ps.failed <=> sessions[p].failed \/ sessions[t].failed \/ failed
            /\ ps.tasksHandled = Cardinality(heard)
            /\ ps.totalPages = Cardinality(tasks[p].subtasks)
        BY <1>5, <1>8, SettlesOneSubtask DEF heard
      <3>3. heard # tasks[p].subtasks
        BY <1>5, <1>8, <2>9 DEF EndsParent, TellsParent, heard
      <3>4. tasks'[p].completedSubtasks = heard
        BY <1>2, <1>8, <2>5, <3>1 DEF heard
      <3> HIDE DEF ps
      <3>5. QED
        BY <1>1, <1>7, <1>8, <2>2, <2>6, <2>7, <3>1, <3>2, <3>3, <3>4
    <2>10. QED
      BY <2>8, <2>9
  <1>9. CASE ~(q = p /\ last)
    <2>1. tasks'[q] = tasks[q] /\ sessions'[q] = sessions[q]
      BY <1>4, <1>9, SettleOfOne
    <2>2. ASSUME NEW s \in tasks[q].subtasks, s = t
          PROVE  ~Finished(tasks'[s]) /\ ~Finished(tasks[s])
      <3>1. ~last
        BY <1>6, <1>9, <2>2
      <3>2. QED
        BY <1>3, <2>2, <3>1, SettleOfOne DEF Finished
    <2>3. HeardOf(tasks', q) = HeardOf(tasks, q)
      BY <2>1, <2>2, <1>6 DEF HeardOf
    <2>4. \A s \in HeardOf(tasks, q) : tasks'[s] = tasks[s]
      BY <1>6, <2>2 DEF HeardOf
    <2>5. QED
      BY <1>2, <1>7, <2>1, <2>3, <2>4
  <1>10. QED
    BY <1>8, <1>9

\* What a settled page leaves of keys and of who is created when.
LEMMA SettlingKeepsKeys ==
  ASSUME NEW j, NEW failed, NEW undef, Settling(j, failed, undef), NEW x \in TaskIds,
         sessions'[x].dedupeKey # NoKey
  PROVE  sessions'[x].dedupeKey = sessions[x].dedupeKey /\ sessions'[x] # ClosedSession
  <1> DEFINE t == j.task
             p == tasks[t].parent
  <1>1. sessions'[x] # ClosedSession
    BY DEF ClosedSession
  <1>2. CASE x = t
    <2>1. sessions'[x] = PageHandled(t, failed)
      BY <1>1, <1>2, SettleOfOne
    <2>2. QED
      BY <1>1, <1>2, <2>1, SettlesOnePage
  <1>3. CASE x = p /\ EndsTask(j, failed)
    <2>1. sessions'[x] = SubtaskHandled(p, PageHandled(t, failed).failed) /\ p # NoTask
      BY <1>1, <1>3, SettleOfOne DEF TaskIds, NoTask
    <2>2. SubtaskHandled(p, PageHandled(t, failed).failed).dedupeKey = sessions[p].dedupeKey
      BY <2>1, SettlesOneSubtask
    <2>3. QED
      BY <1>1, <1>3, <2>1, <2>2
  <1>4. CASE x # t /\ ~(x = p /\ EndsTask(j, failed))
    BY <1>1, <1>4, SettleOfOne
  <1>5. QED
    BY <1>2, <1>3, <1>4

\* What a settled page makes of the dedupe maps: the tasks it ends lose their key's
\* active mapping and become the key's recent one, the parent before the subtask.
LEMMA SettleOfKey ==
  ASSUME NEW j, NEW failed, NEW undef, Settling(j, failed, undef), NEW k \in DedupeKeys
  PROVE  LET t == j.task
             p == tasks[t].parent
             ends(x) == /\ x \in TaskIds /\ sessions[x].dedupeKey = k
                        /\ (x = t /\ EndsTask(j, failed)) \/ (x = p /\ EndsParent(j, failed))
         IN  /\ (\A x \in TaskIds : ~ends(x)) =>
                  /\ activeTaskByDedupeKey'[k] = activeTaskByDedupeKey[k]
                  /\ recentTaskByDedupeKey'[k] = recentTaskByDedupeKey[k]
             /\ (\E x \in TaskIds : ends(x)) =>
                  /\ activeTaskByDedupeKey'[k] = NoTask
                  /\ ends(recentTaskByDedupeKey'[k].task)
                  /\ recentTaskByDedupeKey'[k].expiresAt = now + ResultRetention
                  /\ \A x \in TaskIds :
                        activeTaskByDedupeKey[k] = x /\ ~ends(x) => x \in unmapped'
  <1> USE DEF Settling, Registry, TypeInv, TypeOK
  <1> DEFINE t == j.task
             p == tasks[t].parent
             s == PageHandled(t, failed)
             ps == SubtaskHandled(p, s.failed)
             hears == AllHandled(s) /\ p # NoTask /\ tasks[p].status = "pending" /\ sessions[p].open
             closing == {x \in {t} : AllHandled(s) /\ s.dedupeKey = k}
                          \cup {x \in {p} : hears /\ AllHandled(ps) /\ ps.dedupeKey = k}
             ends(x) == /\ x \in TaskIds /\ sessions[x].dedupeKey = k
                        /\ (x = t /\ EndsTask(j, failed)) \/ (x = p /\ EndsParent(j, failed))
  <1>1. /\ activeTaskByDedupeKey'[k] = IF closing = {} THEN activeTaskByDedupeKey[k] ELSE NoTask
        /\ recentTaskByDedupeKey'[k] =
              IF closing = {} THEN recentTaskByDedupeKey[k]
              ELSE [task |-> IF p \in closing THEN p ELSE t, expiresAt |-> now + ResultRetention]
    BY DEF PageSettles
  <1>1a. ASSUME closing # {}, NEW x \in TaskIds, activeTaskByDedupeKey[k] = x, x \notin closing
         PROVE  x \in unmapped'
    BY <1>1a DEF PageSettles
  <1>2. /\ t \in TaskIds
        /\ p # NoTask => p \in TaskIds /\ tasks[p].status = "pending" /\ sessions[p].open
    BY SettlesWhilePending
  <1>3. s.dedupeKey = sessions[t].dedupeKey /\ (AllHandled(s) <=> EndsTask(j, failed))
    BY SettlesOnePage DEF EndsTask
  <1>4. p # NoTask => /\ ps.dedupeKey = sessions[p].dedupeKey
                      /\ AllHandled(ps) <=> HeardOf(tasks, p) \cup {t} = tasks[p].subtasks
    BY SettlesOneSubtask
  <1>5. hears /\ AllHandled(ps) <=> EndsParent(j, failed)
    BY <1>2, <1>3, <1>4 DEF EndsParent, TellsParent
  <1>6. EndsParent(j, failed) => p # NoTask
    BY DEF EndsParent, TellsParent
  <1> HIDE DEF s, ps, hears
  <1>7. \A x : x \in closing <=> ends(x)
    BY <1>2, <1>3, <1>4, <1>5, <1>6
  <1> HIDE DEF closing
  <1>8. closing = {} <=> \A x \in TaskIds : ~ends(x)
    BY <1>7
  <1>9. closing # {} => (IF p \in closing THEN p ELSE t) \in closing
    <2>1. \A x : x \in closing => x = t \/ x = p
      BY <1>7
    <2>2. QED
      BY <2>1
  <1>10. ASSUME \A x \in TaskIds : ~ends(x)
         PROVE  /\ activeTaskByDedupeKey'[k] = activeTaskByDedupeKey[k]
                /\ recentTaskByDedupeKey'[k] = recentTaskByDedupeKey[k]
    BY <1>1, <1>8, <1>10
  <1>11. ASSUME \E x \in TaskIds : ends(x)
         PROVE  /\ activeTaskByDedupeKey'[k] = NoTask
                /\ ends(recentTaskByDedupeKey'[k].task)
                /\ recentTaskByDedupeKey'[k].expiresAt = now + ResultRetention
                /\ \A x \in TaskIds :
                      activeTaskByDedupeKey[k] = x /\ ~ends(x) => x \in unmapped'
    <2>1. closing # {}
      BY <1>8, <1>11
    <2>2. recentTaskByDedupeKey'[k].task \in closing
      BY <1>1, <1>9, <2>1
    <2>3. ends(recentTaskByDedupeKey'[k].task)
      BY <1>7, <2>2
    <2>4. \A x \in TaskIds : activeTaskByDedupeKey[k] = x /\ ~ends(x) => x \in unmapped'
      <3>1. \A x \in TaskIds : ~ends(x) => x \notin closing
        BY <1>7
      <3> HIDE DEF ends
      <3>2. QED
        BY <1>1a, <2>1, <3>1
    <2> HIDE DEF ends
    <2>5. QED
      BY <1>1, <2>1, <2>3, <2>4
  <1>12. QED
    BY <1>10, <1>11

LEMMA SettlingKeepsMaps ==
  ASSUME NEW j, NEW failed, NEW undef, Settling(j, failed, undef), TasksInv
  PROVE  MapsInv(tasks', sessions', activeTaskByDedupeKey', recentTaskByDedupeKey')
  <1> USE DEF QueueInv, TypeInv, TypeOK
  <1> DEFINE t == j.task
             p == tasks[t].parent
             over(x) == (x = t /\ EndsTask(j, failed)) \/ (x = p /\ EndsParent(j, failed))
  <1>1. MapsInv(tasks, sessions, activeTaskByDedupeKey, recentTaskByDedupeKey)
    BY DEF TasksInv
  <1>2. ASSUME NEW x \in TaskIds, sessions'[x].dedupeKey # NoKey PROVE tasks'[x].parent = NoTask
    BY <1>1, <1>2, SettlingKeepsKeys, SettleOfOne DEF MapsInv
  <1>3. ASSUME NEW x \in TaskIds, over(x)
        PROVE Finished(tasks'[x]) /\ tasks'[x].completedAt = now /\ tasks'[x].parent = tasks[x].parent
    BY <1>3, SettleOfOne DEF Finished, EndsParent, TellsParent
  <1>4. ASSUME NEW x \in TaskIds, sessions[x].open, ~over(x)
        PROVE sessions'[x].open /\ sessions'[x].dedupeKey = sessions[x].dedupeKey
    <2>1. CASE x = t
      <3>1. sessions'[x] = PageHandled(t, failed)
        BY <1>4, <2>1, SettleOfOne
      <3>2. PageHandled(t, failed).open /\ PageHandled(t, failed).dedupeKey = sessions[t].dedupeKey
        BY SettlesOnePage
      <3>3. QED
        BY <2>1, <3>1, <3>2
    <2>2. CASE x = p /\ EndsTask(j, failed)
      <3> DEFINE ps == SubtaskHandled(p, PageHandled(t, failed).failed)
      <3>1. sessions'[x] = ps /\ p # NoTask
        BY <1>4, <2>2, SettleOfOne DEF TaskIds, NoTask
      <3>2. ps.open /\ ps.dedupeKey = sessions[p].dedupeKey
        BY <3>1, SettlesOneSubtask
      <3> HIDE DEF ps
      <3>3. QED
        BY <2>2, <3>1, <3>2
    <2>3. CASE x # t /\ ~(x = p /\ EndsTask(j, failed))
      BY <1>4, <2>3, SettleOfOne
    <2>4. QED
      BY <2>1, <2>2, <2>3
  <1>5. ASSUME NEW k \in DedupeKeys, activeTaskByDedupeKey'[k] # NoTask
        PROVE  LET a == activeTaskByDedupeKey'[k]
               IN  /\ sessions'[a].open /\ sessions'[a].dedupeKey = k
                   /\ \A x \in TaskIds : x > a => sessions'[x].dedupeKey # k
    <2> DEFINE a == activeTaskByDedupeKey[k]
    <2>1. /\ activeTaskByDedupeKey'[k] = a
          /\ \A x \in TaskIds : sessions[x].dedupeKey = k => ~over(x)
      BY <1>5, SettleOfKey
    <2>2. a \in TaskIds /\ k # NoKey
      BY <1>5, <2>1, ConfigAssumption DEF TasksInv
    <2>3. /\ sessions[a].open /\ sessions[a].dedupeKey = k
          /\ \A x \in TaskIds : x > a => sessions[x].dedupeKey # k
      BY <1>1, <1>5, <2>1 DEF MapsInv
    <2>4. sessions'[a].open /\ sessions'[a].dedupeKey = k
      BY <1>4, <2>1, <2>2, <2>3
    <2>5. \A x \in TaskIds : x > a => sessions'[x].dedupeKey # k
      BY <2>2, <2>3, SettlingKeepsKeys
    <2>6. QED
      BY <2>1, <2>4, <2>5
  <1>6. ASSUME NEW k \in DedupeKeys,
               recentTaskByDedupeKey'[k].task # NoTask, recentTaskByDedupeKey'[k].expiresAt >= now
        PROVE  LET m == recentTaskByDedupeKey'[k]
               IN  /\ Finished(tasks'[m.task]) /\ tasks'[m.task].parent = NoTask
                   /\ m.expiresAt <= tasks'[m.task].completedAt + ResultRetention
    <2>1. CASE \E x \in TaskIds : sessions[x].dedupeKey = k /\ over(x)
      <3> DEFINE m == recentTaskByDedupeKey'[k].task
      <3>1. /\ m \in TaskIds /\ sessions[m].dedupeKey = k /\ over(m)
            /\ recentTaskByDedupeKey'[k].expiresAt = now + ResultRetention
        BY <2>1, SettleOfKey
      <3>2. tasks[m].parent = NoTask
        BY <1>1, <3>1, ConfigAssumption DEF MapsInv
      <3>3. Finished(tasks'[m]) /\ tasks'[m].completedAt = now /\ tasks'[m].parent = NoTask
        BY <1>3, <3>1, <3>2
      <3>4. now + ResultRetention <= now + ResultRetention
        BY ConfigAssumption DEF TasksInv
      <3> HIDE DEF m, over
      <3>5. QED
        BY <3>1, <3>3, <3>4 DEF m
    <2>2. CASE \A x \in TaskIds : ~(sessions[x].dedupeKey = k /\ over(x))
      <3> DEFINE m == recentTaskByDedupeKey[k].task
      <3>1. recentTaskByDedupeKey'[k] = recentTaskByDedupeKey[k]
        BY <2>2, SettleOfKey
      <3>2. m \in TaskIds
        BY <1>6, <3>1 DEF TasksInv
      <3>3. /\ Finished(tasks[m]) /\ tasks[m].parent = NoTask
            /\ recentTaskByDedupeKey[k].expiresAt <= tasks[m].completedAt + ResultRetention
        BY <1>1, <1>6, <3>1 DEF MapsInv
      <3>4. m # t /\ m # p
        BY <3>2, <3>3, SettlesWhilePending DEF Finished, TaskIds, NoTask
      <3>5. tasks'[m] = tasks[m]
        BY <3>2, <3>4, SettleOfOne
      <3>6. QED
        BY <3>1, <3>3, <3>5
    <2>3. QED
      BY <2>1, <2>2
  <1>7. QED
    BY <1>2, <1>5, <1>6 DEF MapsInv

LEMMA SettlingKeepsSharing ==
  ASSUME NEW j, NEW failed, NEW undef, Settling(j, failed, undef), TasksInv
  PROVE  SharingInv(tasks', sessions', activeTaskByDedupeKey', unmapped')
  <1> USE DEF QueueInv, TypeInv, TypeOK
  <1> DEFINE t == j.task
             p == tasks[t].parent
             over(x) == (x = t /\ EndsTask(j, failed)) \/ (x = p /\ EndsParent(j, failed))
  <1>1. SharingInv(tasks, sessions, activeTaskByDedupeKey, unmapped) /\ now \in Nat /\ ResultRetention \in Nat
    BY ConfigAssumption DEF TasksInv
  <1>2. \A x \in TaskIds : tasks'[x].createdAt = tasks[x].createdAt
    BY SettleOfOne
  <1>2a. unmapped \subseteq unmapped' /\ now' = now
    BY DEF PageSettles, Settling
  <1>3. ASSUME NEW x \in TaskIds \ unmapped', NEW y \in TaskIds,
               sessions'[x].dedupeKey = sessions'[y].dedupeKey,
               sessions'[x].dedupeKey # NoKey, x < y
        PROVE  tasks'[y].createdAt - tasks'[x].createdAt > ResultRetention
    <2>1. sessions[x].dedupeKey = sessions'[x].dedupeKey /\ sessions[y].dedupeKey = sessions'[y].dedupeKey
      BY <1>3, SettlingKeepsKeys
    <2>2. x \notin unmapped
      BY <1>2a, <1>3
    <2>3. QED
      BY <1>1, <1>2, <1>3, <2>1, <2>2 DEF SharingInv
  <1>4. ASSUME NEW x \in TaskIds \ unmapped', sessions'[x].dedupeKey # NoKey
        PROVE  \/ activeTaskByDedupeKey'[sessions'[x].dedupeKey] = x
               \/ now - tasks'[x].createdAt > ResultRetention
    <2> DEFINE k == sessions[x].dedupeKey
    <2>1. sessions'[x].dedupeKey = k /\ k # NoKey /\ sessions'[x] # ClosedSession
      BY <1>4, SettlingKeepsKeys
    <2>2. k \in DedupeKeys /\ x \notin unmapped
      BY <1>2a, <1>4, <2>1 DEF TasksInv, Session
    <2>3. ~over(x)
      BY <2>1, SettleOfOne DEF EndsParent, TellsParent
    <2>4. activeTaskByDedupeKey[k] = x \/ now - tasks[x].createdAt > ResultRetention
      BY <1>1, <2>1, <2>2 DEF SharingInv
    <2>5. ASSUME activeTaskByDedupeKey[k] = x PROVE activeTaskByDedupeKey'[k] = x
      <3>1. ASSUME NEW y \in TaskIds, sessions[y].dedupeKey = k, over(y) PROVE x \in unmapped'
        BY <2>2, <2>3, <2>5, <3>1, SettleOfKey
      <3>2. \A y \in TaskIds : ~(sessions[y].dedupeKey = k /\ over(y))
        BY <1>4, <3>1
      <3>3. QED
        BY <2>2, <2>5, <3>2, SettleOfKey
    <2>6. QED
      BY <1>2, <2>1, <2>4, <2>5
  <1>5. \A x \in TaskIds : tasks'[x].createdAt <= now
    BY <1>1, <1>2 DEF SharingInv
  <1>6. QED
    BY <1>3, <1>4, <1>5 DEF SharingInv

-----------------------------------------------------------------------------
(* The steps.                                                              *)

\* A key whose active task cannot be shared is free for the next task: what is still
\* pending has lost its mapping or is older than the retention window.
Unshared(T, A, k) == A[k] = NoTask \/ ~(now - T[A[k]].createdAt <= ResultRetention)

LEMMA OthersOfAnUnsharedKey ==
  ASSUME TypeOK, NEW T \in [TaskIds -> Task], NEW S, NEW A, NEW U, NEW k \in DedupeKeys,
         SharingInv(T, S, A, U), Unshared(T, A, k), NEW t \in TaskIds \ U, S[t].dedupeKey = k
  PROVE  now - T[t].createdAt > ResultRetention
  <1>1. now \in Nat /\ ResultRetention \in Nat /\ T[t].createdAt \in Nat /\ k # NoKey /\ t # NoTask
    BY ConfigAssumption DEF TypeOK, Task, TaskIds, NoTask
  <1>2. A[k] = t \/ now - T[t].createdAt > ResultRetention
    BY <1>1 DEF SharingInv
  <1>3. A[k] = t => now - T[t].createdAt > ResultRetention
    BY <1>1 DEF Unshared
  <1>4. QED
    BY <1>2, <1>3

LEMMA QueueingKeepsMaps ==
  ASSUME NEW T, NEW S, NEW J, NEW id, NEW plan \in Plans, Queueable(T, S, J, id, plan),
         NEW u \in Users, NEW k \in DedupeKeys,
         NEW A \in [DedupeKeys -> TaskIds \cup {NoTask}],
         NEW M \in [DedupeKeys -> [task : TaskIds \cup {NoTask}, expiresAt : Nat]],
         MapsInv(T, S, A, M),
         NEW A2, A2 = [A EXCEPT ![k] = IF plan = <<>> THEN NoTask ELSE id],
         NEW M2, M2 = [M EXCEPT ![k] =
                          IF plan = <<>>
                          THEN [task |-> id, expiresAt |-> now + ResultRetention]
                          ELSE NoRecent]
  PROVE  MapsInv(TasksAfterQueueing(T, u, id, plan), SessionsAfterQueueing(S, k, id, plan), A2, M2)
  <1> DEFINE T2 == TasksAfterQueueing(T, u, id, plan)
             S2 == SessionsAfterQueueing(S, k, id, plan)
  <1>1. ~ClosedSession.open /\ ClosedSession.dedupeKey = NoKey /\ k # NoKey
    BY ConfigAssumption DEF ClosedSession
  <1>2. id \in TaskIds /\ id # NoTask /\ ~(id <= created)
    BY FreshIds DEF TaskIds, NoTask
  <1>3. ASSUME NEW t \in TaskIds, S2[t].dedupeKey # NoKey
        PROVE  \/ t <= created /\ T2[t] = T[t] /\ S2[t] = S[t]
               \/ t = id /\ S2[t].dedupeKey = k /\ T2[t].parent = NoTask
    <2>1. CASE t <= created
      BY <2>1, QueueOfOne
    <2>2. CASE t = id
      BY <1>1, <1>3, <2>2, QueueOfOne
    <2>3. CASE ~(t <= created) /\ t # id
      BY <1>1, <1>3, <2>3, QueueOfOne
    <2>4. QED
      BY <2>1, <2>2, <2>3
  <1>4. \A t \in TaskIds : S2[t].dedupeKey # NoKey => T2[t].parent = NoTask
    BY <1>3 DEF MapsInv
  <1>5. ASSUME NEW key \in DedupeKeys, A2[key] # NoTask
        PROVE  /\ S2[A2[key]].open /\ S2[A2[key]].dedupeKey = key
               /\ \A x \in TaskIds : x > A2[key] => S2[x].dedupeKey # key
    <2>1. key # NoKey
      BY ConfigAssumption
    <2>2. CASE key = k
      <3>1. A2[key] = id /\ plan # <<>>
        BY <1>5, <2>2
      <3>2. S2[id].open /\ S2[id].dedupeKey = key
        BY <1>2, <2>2, <3>1, QueueOfOne
      <3>3. ASSUME NEW x \in TaskIds, x > id PROVE S2[x].dedupeKey # key
        <4>1. x # id /\ ~(x <= created)
          BY <1>2, <3>3, FreshIds DEF TaskIds
        <4>2. QED
          BY <1>3, <2>1, <4>1
      <3>4. QED
        BY <3>1, <3>2, <3>3
    <2>3. CASE key # k
      <3> DEFINE a == A[key]
      <3>1. A2[key] = a /\ a \in TaskIds
        BY <1>5, <2>3
      <3>2. /\ S[a].open /\ S[a].dedupeKey = key
            /\ \A x \in TaskIds : x > a => S[x].dedupeKey # key
        BY <1>5, <3>1 DEF MapsInv
      <3>3. a <= created
        BY <1>1, <3>1, <3>2, FreshIds
      <3>4. S2[a] = S[a]
        BY <3>1, <3>3, QueueOfOne
      <3>5. \A x \in TaskIds : x > a => S2[x].dedupeKey # key
        BY <1>3, <2>1, <2>3, <3>2
      <3>6. QED
        BY <3>1, <3>2, <3>4, <3>5
    <2>4. QED
      BY <2>2, <2>3
  <1>6. ASSUME NEW key \in DedupeKeys, M2[key].task # NoTask, M2[key].expiresAt >= now
        PROVE  /\ Finished(T2[M2[key].task]) /\ T2[M2[key].task].parent = NoTask
               /\ M2[key].expiresAt <= T2[M2[key].task].completedAt + ResultRetention
    <2>1. CASE key = k
      <3>1. plan = <<>> /\ M2[key] = [task |-> id, expiresAt |-> now + ResultRetention]
        BY <1>6, <2>1 DEF NoRecent
      <3>2. T2[id].status = "completed" /\ T2[id].completedAt = now /\ T2[id].parent = NoTask
        BY <1>2, <3>1, QueueOfOne
      <3>3. now + ResultRetention <= now + ResultRetention
        BY ConfigAssumption DEF Queueable, TypeInv, TypeOK
      <3> HIDE DEF T2
      <3>4. QED
        BY <3>1, <3>2, <3>3 DEF Finished
    <2>2. CASE key # k
      <3> DEFINE m == M[key].task
      <3>1. M2[key] = M[key] /\ m \in TaskIds
        BY <1>6, <2>2
      <3>2. /\ Finished(T[m]) /\ T[m].parent = NoTask
            /\ M[key].expiresAt <= T[m].completedAt + ResultRetention
        BY <1>6, <3>1 DEF MapsInv
      <3>3. m <= created
        BY <3>1, <3>2, FreshIds DEF Finished, AbsentTask
      <3>4. T2[m] = T[m]
        BY <3>1, <3>3, QueueOfOne
      <3>5. QED
        BY <3>1, <3>2, <3>4
    <2>3. QED
      BY <2>1, <2>2
  <1> HIDE DEF T2, S2
  <1>7. QED
    BY <1>4, <1>5, <1>6 DEF MapsInv, T2, S2

LEMMA QueueingKeepsSharing ==
  ASSUME NEW T, NEW S, NEW J, NEW id, NEW plan \in Plans, Queueable(T, S, J, id, plan),
         NEW u \in Users, NEW k \in DedupeKeys,
         NEW A \in [DedupeKeys -> TaskIds \cup {NoTask}], NEW U,
         SharingInv(T, S, A, U), Unshared(T, A, k),
         NEW A2, A2 = [A EXCEPT ![k] = IF plan = <<>> THEN NoTask ELSE id]
  PROVE  SharingInv(TasksAfterQueueing(T, u, id, plan), SessionsAfterQueueing(S, k, id, plan), A2, U)
  <1> DEFINE T2 == TasksAfterQueueing(T, u, id, plan)
             S2 == SessionsAfterQueueing(S, k, id, plan)
  <1>1. ClosedSession.dedupeKey = NoKey /\ k # NoKey
    BY ConfigAssumption DEF ClosedSession
  <1>2. TypeOK /\ now \in Nat /\ T \in [TaskIds -> Task] /\ S \in [TaskIds -> Session]
    BY DEF Queueable, TypeInv, TypeOK, TablesTyped
  <1>3. ASSUME NEW t \in TaskIds PROVE T2[t].createdAt <= now
    <2>1. CASE t <= created
      <3>1. T2[t] = T[t]
        BY <2>1, QueueOfOne
      <3>2. QED
        BY <3>1 DEF SharingInv
    <2>2. CASE t = id \/ t \in Subtasks(id, plan)
      BY <1>2, <2>2, QueueOfOne
    <2>3. CASE ~(t <= created) /\ t # id /\ t \notin Subtasks(id, plan)
      BY <1>2, <2>3, QueueOfOne DEF AbsentTask
    <2>4. QED
      BY <2>1, <2>2, <2>3
  <1>4. ASSUME NEW t \in TaskIds, S2[t].dedupeKey # NoKey
        PROVE  \/ t <= created /\ T2[t] = T[t] /\ S2[t] = S[t]
               \/ t = id /\ plan # <<>> /\ S2[t].dedupeKey = k /\ T2[t].createdAt = now
    <2>1. CASE t <= created
      BY <2>1, QueueOfOne
    <2>2. CASE t = id
      BY <1>1, <1>4, <2>2, QueueOfOne
    <2>3. CASE ~(t <= created) /\ t # id
      BY <1>1, <1>4, <2>3, QueueOfOne
    <2>4. QED
      BY <2>1, <2>2, <2>3
  <1>5. \A t \in TaskIds \ U : S[t].dedupeKey = k => now - T[t].createdAt > ResultRetention
    BY <1>2, OthersOfAnUnsharedKey
  <1>6. ASSUME NEW t \in TaskIds \ U, S2[t].dedupeKey # NoKey
        PROVE  A2[S2[t].dedupeKey] = t \/ now - T2[t].createdAt > ResultRetention
    <2>1. CASE t = id /\ plan # <<>> /\ S2[t].dedupeKey = k
      BY <2>1
    <2>2. CASE t <= created /\ S2[t] = S[t] /\ T2[t] = T[t]
      <3>1. CASE S[t].dedupeKey = k
        BY <1>5, <2>2, <3>1
      <3>2. CASE S[t].dedupeKey # k
        <4>1. S[t].dedupeKey \in DedupeKeys
          BY <1>2, <1>6, <2>2 DEF Session
        <4>2. A2[S[t].dedupeKey] = A[S[t].dedupeKey]
          BY <3>2, <4>1
        <4>3. QED
          BY <1>6, <2>2, <4>2 DEF SharingInv
      <3>3. QED
        BY <3>1, <3>2
    <2>3. QED
      BY <1>4, <1>6, <2>1, <2>2
  <1>7. ASSUME NEW t \in TaskIds \ U, NEW x \in TaskIds,
               S2[t].dedupeKey = S2[x].dedupeKey, S2[t].dedupeKey # NoKey, t < x
        PROVE T2[x].createdAt - T2[t].createdAt > ResultRetention
    <2>1. t # id
      <3>1. x <= created \/ x = id
        BY <1>4, <1>7
      <3>2. QED
        BY <1>7, <3>1, FreshIds DEF TaskIds
    <2>2. S2[t] = S[t] /\ T2[t] = T[t]
      BY <1>4, <1>7, <2>1
    <2>3. CASE x <= created /\ T2[x] = T[x] /\ S2[x] = S[x]
      BY <1>7, <2>2, <2>3 DEF SharingInv
    <2>4. CASE x = id /\ S2[x].dedupeKey = k /\ T2[x].createdAt = now
      BY <1>5, <1>7, <2>2, <2>4
    <2>5. QED
      BY <1>4, <1>7, <2>3, <2>4
  <1> HIDE DEF T2, S2
  <1>8. QED
    BY <1>3, <1>6, <1>7 DEF SharingInv, T2, S2

\* Only the keys and the openness of the sessions matter to the dedupe maps.
LEMMA SameKeysSameMaps ==
  ASSUME NEW T, NEW S, NEW S2, NEW A \in [DedupeKeys -> TaskIds \cup {NoTask}], NEW M, NEW U,
         MapsInv(T, S, A, M), SharingInv(T, S, A, U),
         \A t \in TaskIds : S2[t].dedupeKey = S[t].dedupeKey /\ (S2[t].open <=> S[t].open)
  PROVE  MapsInv(T, S2, A, M) /\ SharingInv(T, S2, A, U)
  <1>1. MapsInv(T, S2, A, M)
    <2>1. \A k \in DedupeKeys : A[k] \in TaskIds \cup {NoTask}
      OBVIOUS
    <2>2. \A t \in TaskIds : S2[t].dedupeKey # NoKey => T[t].parent = NoTask
      BY DEF MapsInv
    <2>3. \A k \in DedupeKeys :
             A[k] # NoTask => /\ S2[A[k]].open /\ S2[A[k]].dedupeKey = k
                              /\ \A x \in TaskIds : x > A[k] => S2[x].dedupeKey # k
      BY <2>1 DEF MapsInv
    <2>4. QED
      BY <2>2, <2>3 DEF MapsInv
  <1>2. SharingInv(T, S2, A, U)
    BY DEF SharingInv
  <1>3. QED
    BY <1>1, <1>2

LEMMA InitTasksInv == Init => TasksInv
  <1> SUFFICES ASSUME Init PROVE TasksInv
    OBVIOUS
  <1> USE DEF Init
  <1>1. QueueInv
    BY InitQueueInv
  <1>2. ~ClosedSession.open /\ ClosedSession.dedupeKey = NoKey
    BY DEF ClosedSession
  <1>3. AbsentTask.status = "absent" /\ AbsentTask.subtasks = {} /\ AbsentTask.parent = NoTask
        /\ AbsentTask.createdAt = 0
    BY DEF AbsentTask
  <1>4. LiveInv(tasks, sessions, pendingJobs, running)
    BY <1>2, <1>3 DEF LiveInv
  <1>5. TreeInv(tasks, created)
    BY <1>3 DEF TreeInv
  <1>6. LeafInv(tasks, sessions, pendingJobs, running)
    BY <1>2 DEF LeafInv
  <1>7. ParentInv(tasks, sessions)
    BY <1>3 DEF ParentInv
  <1>8. MapsInv(tasks, sessions, activeTaskByDedupeKey, recentTaskByDedupeKey)
    BY <1>2 DEF MapsInv, NoRecent
  <1>9. SharingInv(tasks, sessions, activeTaskByDedupeKey, unmapped)
    BY <1>2, <1>3 DEF SharingInv
  <1>10. QED
    BY <1>1, <1>4, <1>5, <1>6, <1>7, <1>8, <1>9 DEF TasksInv, RegistryInv

\* After a pass an active mapping leads to a pending task, so the user is linked to
\* no finished one on the way to a new task.
LEMMA ActiveIsPending ==
  ASSUME TasksInv, NEW k \in DedupeKeys
  PROVE  /\ \A u : TasksAfterActive(k, u) = TasksAfterCleanup
         /\ ActiveAfterCleanup[k] # NoTask =>
              /\ ActiveAfterCleanup[k] \in TaskIds
              /\ TasksAfterCleanup[ActiveAfterCleanup[k]].status = "pending"
              /\ TasksAfterCleanup[ActiveAfterCleanup[k]].parent = NoTask
         /\ ~ActiveIsShared(k) => Unshared(TasksAfterCleanup, ActiveAfterCleanup, k)
  <1> DEFINE a == ActiveAfterCleanup[k]
  <1>1. Cleaned /\ k # NoKey
    BY PassCleans, ConfigAssumption
  <1>2. ActiveAfterCleanup \in [DedupeKeys -> TaskIds \cup {NoTask}]
    BY CleanupDedupeTyped DEF TasksInv, QueueInv, TypeInv
  <1>3. ASSUME a # NoTask
        PROVE  a \in TaskIds /\ TasksAfterCleanup[a].status = "pending" /\ TasksAfterCleanup[a].parent = NoTask
    <2>1. a \in TaskIds
      BY <1>2, <1>3
    <2>2. SessionsAfterCleanup[a].open /\ SessionsAfterCleanup[a].dedupeKey = k
      BY <1>1, <1>3 DEF Cleaned, MapsInv
    <2>3. TasksAfterCleanup[a].status = "pending"
      BY <1>1, <2>1, <2>2 DEF Cleaned, RegistryInv, LiveInv
    <2>4. TasksAfterCleanup[a].parent = NoTask
      BY <1>1, <2>1, <2>2 DEF Cleaned, MapsInv
    <2>5. QED
      BY <2>1, <2>3, <2>4
  <1>4. \A u : TasksAfterActive(k, u) = TasksAfterCleanup
    BY <1>3 DEF TasksAfterActive, Finished
  <1>5. ~ActiveIsShared(k) => Unshared(TasksAfterCleanup, ActiveAfterCleanup, k)
    BY <1>3 DEF ActiveIsShared, Unshared
  <1>6. QED
    BY <1>3, <1>4, <1>5

LEMMA JoinKeepsInv ==
  ASSUME TasksInv, QueueInv', NEW u \in Users, NEW k \in DedupeKeys, JoinActiveTask(u, k)
  PROVE  TasksInv'
  <1> DEFINE a == ActiveAfterCleanup[k]
             T == LinkTaskTree(TasksAfterCleanup, a, u)
  <1>1. Cleaned
    BY PassCleans
  <1>2. /\ a \in TaskIds /\ TasksAfterCleanup[a].status # "absent" /\ TasksAfterCleanup[a].parent = NoTask
    BY ActiveIsPending DEF JoinActiveTask, ActiveIsShared
  <1>3. RegistryInv(T, SessionsAfterCleanup, JobsAfterCleanup, running, created)
    BY <1>1, <1>2, LinkKeepsRegistry DEF Cleaned
  <1>4. /\ TasksAfterCleanup \in [TaskIds -> Task]
        /\ RecentAfterCleanup \in [DedupeKeys -> [task : TaskIds \cup {NoTask}, expiresAt : Nat]]
    BY CleanupTasksTyped, CleanupDedupeTyped DEF TasksInv, QueueInv, TypeInv
  <1>5. /\ MapsInv(T, SessionsAfterCleanup, ActiveAfterCleanup, RecentAfterCleanup)
        /\ SharingInv(T, SessionsAfterCleanup, ActiveAfterCleanup, UnmappedAfterCleanup)
    BY <1>1, <1>2, <1>4, LinkKeepsMaps DEF Cleaned
  <1>6. /\ tasks' = T /\ sessions' = SessionsAfterCleanup /\ pendingJobs' = JobsAfterCleanup
        /\ activeTaskByDedupeKey' = ActiveAfterCleanup /\ recentTaskByDedupeKey' = RecentAfterCleanup
        /\ now' = now /\ created' = created /\ running' = running
        /\ unmapped' = UnmappedAfterCleanup
    BY DEF JoinActiveTask
  <1> HIDE DEF T
  <1>7. QED
    BY <1>3, <1>5, <1>6 DEF TasksInv, MapsInv, SharingInv

LEMMA ReuseKeepsInv ==
  ASSUME TasksInv, QueueInv', NEW u \in Users, NEW k \in DedupeKeys, ReuseRecentTask(u, k)
  PROVE  TasksInv'
  <1> DEFINE m == RecentAfterCleanup[k]
             T == LinkTaskTree(TasksAfterCleanup, m.task, u)
             A == [ActiveAfterCleanup EXCEPT ![k] = NoTask]
  <1>1. Cleaned
    BY PassCleans
  <1>2. /\ TasksAfterCleanup \in [TaskIds -> Task] /\ SessionsAfterCleanup \in [TaskIds -> Session]
        /\ ActiveAfterCleanup \in [DedupeKeys -> TaskIds \cup {NoTask}]
        /\ RecentAfterCleanup \in [DedupeKeys -> [task : TaskIds \cup {NoTask}, expiresAt : Nat]]
        /\ TypeOK /\ now \in Nat
    BY CleanupTasksTyped, CleanupSessionsTyped, CleanupDedupeTyped DEF TasksInv, QueueInv, TypeInv, TypeOK
  <1>3. m.task \in TaskIds /\ m.expiresAt >= now
    <2>1. m.task # NoTask /\ m.expiresAt > now
      BY DEF ReuseRecentTask, RecentIsShared
    <2>2. m.task \in TaskIds \cup {NoTask} /\ m.expiresAt \in Nat
      BY <1>2
    <2>3. QED
      BY <1>2, <2>1, <2>2
  <1>4. Finished(TasksAfterCleanup[m.task]) /\ TasksAfterCleanup[m.task].parent = NoTask
    BY <1>1, <1>3 DEF Cleaned, MapsInv, TaskIds, NoTask
  <1>5. RegistryInv(T, SessionsAfterCleanup, JobsAfterCleanup, running, created)
    BY <1>1, <1>3, <1>4, LinkKeepsRegistry DEF Cleaned, Finished
  <1>6. /\ MapsInv(T, SessionsAfterCleanup, ActiveAfterCleanup, RecentAfterCleanup)
        /\ SharingInv(T, SessionsAfterCleanup, ActiveAfterCleanup, UnmappedAfterCleanup)
    BY <1>1, <1>2, <1>3, LinkKeepsMaps DEF Cleaned
  <1>7. Unshared(TasksAfterCleanup, ActiveAfterCleanup, k)
    BY ActiveIsPending DEF ReuseRecentTask
  <1>8. \A t \in TaskIds \ UnmappedAfterCleanup :
           SessionsAfterCleanup[t].dedupeKey = k =>
               now - TasksAfterCleanup[t].createdAt > ResultRetention
    BY <1>1, <1>2, <1>7, OthersOfAnUnsharedKey DEF Cleaned
  <1>8a. \A t \in TaskIds : T[t].createdAt = TasksAfterCleanup[t].createdAt
    BY <1>2, <1>3, LinkOfOne
  <1>9. MapsInv(T, SessionsAfterCleanup, A, RecentAfterCleanup)
    <2> HIDE DEF T
    <2>1. \A key \in DedupeKeys : A[key] # NoTask => A[key] = ActiveAfterCleanup[key]
      BY <1>2
    <2> HIDE DEF A
    <2>2. QED
      BY <1>6, <2>1 DEF MapsInv
  <1>10. SharingInv(T, SessionsAfterCleanup, A, UnmappedAfterCleanup)
    <2> HIDE DEF T
    <2>1. \A key \in DedupeKeys : key # k => A[key] = ActiveAfterCleanup[key]
      BY <1>2
    <2>2. \A t \in TaskIds : SessionsAfterCleanup[t].dedupeKey \in DedupeKeys \cup {NoKey}
      BY <1>2 DEF Session
    <2> HIDE DEF A
    <2>3. QED
      BY <1>6, <1>8, <1>8a, <2>1, <2>2 DEF SharingInv
  <1>11. /\ tasks' = T /\ sessions' = SessionsAfterCleanup /\ pendingJobs' = JobsAfterCleanup
         /\ activeTaskByDedupeKey' = A /\ recentTaskByDedupeKey' = RecentAfterCleanup
         /\ now' = now /\ created' = created /\ running' = running
         /\ unmapped' = UnmappedAfterCleanup
    BY ActiveIsPending DEF ReuseRecentTask
  <1> HIDE DEF T, A
  <1>12. QED
    BY <1>5, <1>9, <1>10, <1>11 DEF TasksInv, MapsInv, SharingInv

LEMMA StartKeepsInv ==
  ASSUME TasksInv, QueueInv', NEW u \in Users, NEW k \in DedupeKeys, NEW plan \in Plans,
         StartTask(u, k, plan)
  PROVE  TasksInv'
  <1> DEFINE id == created + 1
             last == IF IsComposite(plan) THEN id + ChunkCount(plan) ELSE id
             T == TasksAfterQueueing(TasksAfterCleanup, u, id, plan)
             S == SessionsAfterQueueing(SessionsAfterCleanup, k, id, plan)
             J == JobsAfterCleanup \cup NewJobs(id, plan)
             A == [ActiveAfterCleanup EXCEPT ![k] = IF plan = <<>> THEN NoTask ELSE id]
             M == [RecentAfterCleanup EXCEPT ![k] =
                      IF plan = <<>> THEN [task |-> id, expiresAt |-> now + ResultRetention]
                      ELSE NoRecent]
  <1>1. Cleaned /\ TypeInv /\ now \in Nat /\ running \subseteq RunningJob /\ IsFiniteSet(running)
    BY PassCleans DEF TasksInv, QueueInv, TypeInv, TypeOK
  <1>2. last <= MaxTasks /\ Unshared(TasksAfterCleanup, ActiveAfterCleanup, k)
    BY ActiveIsPending DEF StartTask
  <1>3. Queueable(TasksAfterCleanup, SessionsAfterCleanup, JobsAfterCleanup, id, plan)
    BY <1>1, <1>2 DEF Cleaned, Queueable
  <1>4. /\ TasksAfterCleanup \in [TaskIds -> Task] /\ SessionsAfterCleanup \in [TaskIds -> Session]
        /\ JobsAfterCleanup \subseteq Job /\ IsFiniteSet(JobsAfterCleanup)
        /\ ActiveAfterCleanup \in [DedupeKeys -> TaskIds \cup {NoTask}]
        /\ RecentAfterCleanup \in [DedupeKeys -> [task : TaskIds \cup {NoTask}, expiresAt : Nat]]
    BY <1>1, CleanupDedupeTyped DEF Cleaned, TablesTyped, TypeInv
  <1>5. TablesTyped(T, S, J, running)
    <2>1. /\ T \in [TaskIds -> Task] /\ S \in [TaskIds -> Session]
          /\ NewJobs(id, plan) \subseteq Job /\ IsFiniteSet(NewJobs(id, plan))
      BY <1>1, <1>2, <1>4, QueueingTyped
    <2>2. IsFiniteSet(J)
      BY <1>4, <2>1, FS_Union
    <2> HIDE DEF T, S
    <2>3. QED
      BY <1>1, <1>4, <2>1, <2>2 DEF TablesTyped
  <1>6. RegistryInv(T, S, J, running, last)
    BY <1>3, QueueingKeepsLive, QueueingKeepsTree, QueueingKeepsLeaves, QueueingKeepsParents DEF RegistryInv
  <1>7. MapsInv(T, S, A, M)
    BY <1>1, <1>3, <1>4, QueueingKeepsMaps DEF Cleaned
  <1>8. SharingInv(T, S, A, UnmappedAfterCleanup)
    BY <1>1, <1>2, <1>3, <1>4, QueueingKeepsSharing DEF Cleaned
  <1>9. /\ tasks' = T /\ activeTaskByDedupeKey' = A /\ recentTaskByDedupeKey' = M
        /\ now' = now /\ created' = last /\ Pump(S, J, activeJobs)
        /\ unmapped' = UnmappedAfterCleanup
    BY ActiveIsPending DEF StartTask
  <1>10. A \in [DedupeKeys -> TaskIds \cup {NoTask}]
    BY <1>9 DEF QueueInv, TypeInv, TypeOK
  <1> HIDE DEF T, S, J, A, M, last
  <1>11. /\ RegistryInv(T, sessions', pendingJobs', running', last)
         /\ \A t \in TaskIds : sessions'[t].dedupeKey = S[t].dedupeKey /\ (sessions'[t].open <=> S[t].open)
    BY <1>1, <1>5, <1>6, <1>9, PumpKeepsRegistry
  <1>12. MapsInv(T, sessions', A, M) /\ SharingInv(T, sessions', A, UnmappedAfterCleanup)
    BY <1>7, <1>8, <1>10, <1>11, SameKeysSameMaps
  <1>13. QED
    BY <1>9, <1>11, <1>12 DEF TasksInv, MapsInv, SharingInv

LEMMA SettlingKeepsInv ==
  ASSUME TasksInv, QueueInv', NEW j \in running, NEW failed \in BOOLEAN, NEW undef \in BOOLEAN,
         PageSettles(j, failed, undef)
  PROVE  TasksInv'
  <1>1. Settling(j, failed, undef)
    BY DEF Settling, Registry, TasksInv, QueueInv
  <1>2. RegistryInv(tasks', sessions', pendingJobs, running \ {j}, created)
    BY <1>1, SettlingKeepsLive, SettlingKeepsTree, SettlingKeepsLeaves, SettlingKeepsParents DEF RegistryInv
  <1>3. /\ MapsInv(tasks', sessions', activeTaskByDedupeKey', recentTaskByDedupeKey')
        /\ SharingInv(tasks', sessions', activeTaskByDedupeKey', unmapped')
    BY <1>1, SettlingKeepsMaps, SettlingKeepsSharing
  <1>4. running' = running \ {j} /\ UNCHANGED <<now, created, pendingJobs>>
    BY DEF PageSettles
  <1>5. QED
    BY <1>2, <1>3, <1>4 DEF TasksInv, MapsInv, SharingInv

LEMMA NextTasksInv == TasksInv /\ [Next]_vars => TasksInv'
  <1> SUFFICES ASSUME TasksInv, [Next]_vars PROVE TasksInv'
    OBVIOUS
  <1>1. QueueInv'
    BY NextQueueInv DEF TasksInv
  <1>2. ASSUME NEW u \in Users, NEW k \in DedupeKeys, JoinActiveTask(u, k) PROVE TasksInv'
    BY <1>1, <1>2, JoinKeepsInv
  <1>3. ASSUME NEW u \in Users, NEW k \in DedupeKeys, ReuseRecentTask(u, k) PROVE TasksInv'
    BY <1>1, <1>3, ReuseKeepsInv
  <1>4. ASSUME NEW u \in Users, NEW k \in DedupeKeys, NEW plan \in Plans, StartTask(u, k, plan)
        PROVE TasksInv'
    BY <1>1, <1>4, StartKeepsInv
  <1>5. ASSUME NEW j \in running, PageAnswers(j) \/ PageFails(j) \/ PageTimesOut(j) PROVE TasksInv'
    BY <1>1, <1>5, SettlingKeepsInv DEF PageAnswers, PageFails, PageTimesOut
  <1>6. CASE ReleaseSlot
    <2>1. /\ Pump(sessions, pendingJobs, activeJobs - 1) /\ now' = now /\ created' = created
          /\ tasks' = tasks /\ activeTaskByDedupeKey' = activeTaskByDedupeKey
          /\ recentTaskByDedupeKey' = recentTaskByDedupeKey /\ unmapped' = unmapped
      BY <1>6 DEF ReleaseSlot
    <2>2. /\ TablesTyped(tasks, sessions, pendingJobs, running) /\ now \in Nat
          /\ activeTaskByDedupeKey \in [DedupeKeys -> TaskIds \cup {NoTask}]
      BY DEF TasksInv, QueueInv, TypeInv, TypeOK, TablesTyped
    <2>3. RegistryInv(tasks, sessions, pendingJobs, running, created)
      BY DEF TasksInv
    <2>4. /\ RegistryInv(tasks, sessions', pendingJobs', running', created)
          /\ \A t \in TaskIds : /\ sessions'[t].dedupeKey = sessions[t].dedupeKey
                                /\ sessions'[t].open <=> sessions[t].open
      BY <2>1, <2>2, <2>3, PumpKeepsRegistry
    <2>5. /\ MapsInv(tasks, sessions', activeTaskByDedupeKey, recentTaskByDedupeKey)
          /\ SharingInv(tasks, sessions', activeTaskByDedupeKey, unmapped)
      BY <2>2, <2>4, SameKeysSameMaps DEF TasksInv
    <2>6. QED
      BY <1>1, <2>1, <2>4, <2>5 DEF TasksInv, MapsInv, SharingInv
  <1>7. CASE CleanupExpiredTasks
    <2>1. Cleaned
      BY PassCleans
    <2>2. QED
      BY <1>1, <1>7, <2>1 DEF CleanupExpiredTasks, Cleaned, TasksInv, MapsInv, SharingInv
  <1>8. CASE Tick
    <2>1. now' = now + 1 /\ UNCHANGED <<created, registry, pendingJobs, running, unmapped>>
      BY <1>8 DEF Tick
    <2>2. TypeOK
      BY DEF TasksInv, QueueInv, TypeInv
    <2>3. MapsInv(tasks, sessions, activeTaskByDedupeKey, recentTaskByDedupeKey)'
      <3>1. \A k \in DedupeKeys : recentTaskByDedupeKey[k].expiresAt \in Nat /\ now \in Nat
        BY <2>2 DEF TypeOK
      <3>2. \A k \in DedupeKeys :
               recentTaskByDedupeKey[k].expiresAt >= now + 1 => recentTaskByDedupeKey[k].expiresAt >= now
        BY <3>1
      <3>3. QED
        BY <2>1, <3>2 DEF TasksInv, MapsInv, registry
    <2>4. SharingInv(tasks, sessions, activeTaskByDedupeKey, unmapped)'
      <3>1. \A t \in TaskIds : tasks[t].createdAt \in Nat
        BY <2>2 DEF TypeOK, Task
      <3>2. now \in Nat /\ ResultRetention \in Nat
        BY <2>2, ConfigAssumption DEF TypeOK
      <3>3. \A t \in TaskIds : now - tasks[t].createdAt > ResultRetention =>
                                 (now + 1) - tasks[t].createdAt > ResultRetention
        BY <3>1, <3>2
      <3>4. \A t \in TaskIds : tasks[t].createdAt <= now => tasks[t].createdAt <= now + 1
        BY <3>1, <3>2
      <3>5. QED
        BY <2>1, <3>3, <3>4 DEF TasksInv, SharingInv, registry
    <2>5. RegistryInv(tasks, sessions, pendingJobs, running, created)'
      BY <2>1 DEF TasksInv, registry
    <2>6. QED
      BY <1>1, <2>3, <2>4, <2>5 DEF TasksInv
  <1>9. CASE UNCHANGED vars
    <2>1. UNCHANGED <<now, created, tasks, sessions, activeTaskByDedupeKey, recentTaskByDedupeKey,
                      pendingJobs, running, unmapped>>
      BY <1>9 DEF vars, registry
    <2>2. QED
      BY <1>1, <2>1 DEF TasksInv, MapsInv, SharingInv
  <1>10. QED
    BY <1>2, <1>3, <1>4, <1>5, <1>6, <1>7, <1>8, <1>9 DEF Next

-----------------------------------------------------------------------------
(* The properties.                                                         *)

\* Every reachable state of the runtime keeps its registry, its counters and its
\* dedupe maps in order, for any number of tasks, chunks, pages, users and keys.
THEOREM TasksSafe == Spec => []TasksInv
  <1>1. Init => TasksInv
    BY InitTasksInv
  <1>2. TasksInv /\ [Next]_vars => TasksInv'
    BY NextTasksInv
  <1>3. QED
    BY <1>1, <1>2, PTL DEF Spec

\* The counters that decide when a task completes neither lose nor repeat a page,
\* and no job or worker outlives its session (taskRegistry.ts, taskProcessor.ts).
THEOREM PagesAlwaysAccounted == Spec => []PagesAccounted
  <1>1. ASSUME TasksInv PROVE PagesAccounted
    <2>1. SessionsAreLive
      BY <1>1 DEF TasksInv, RegistryInv, LiveInv, SessionsAreLive
    <2>2. LeafInv(tasks, sessions, pendingJobs, running)
      BY <1>1 DEF TasksInv, RegistryInv
    <2>3. QED
      BY <2>1, <2>2 DEF PagesAccounted, LeafInv, LeafCounts, JobsOf
  <1>2. QED
    BY <1>1, TasksSafe, PTL

\* A pending parent has counted each finished subtask once and waits for another
\* one, so it completes with the last of them.
THEOREM SubtasksAlwaysAccounted == Spec => []SubtasksAccounted
  <1>1. ASSUME TasksInv PROVE SubtasksAccounted
    <2> SUFFICES ASSUME NEW p \in TaskIds, tasks[p].status = "pending", tasks[p].subtasks # {}
                 PROVE  /\ tasks[p].completedSubtasks = HeardOf(tasks, p)
                        /\ sessions[p].tasksHandled = Cardinality(HeardOf(tasks, p))
                        /\ sessions[p].totalPages = Cardinality(tasks[p].subtasks)
                        /\ HasPendingSubtasks(p)
      BY DEF SubtasksAccounted, HeardOf
    <2>1. /\ tasks[p].completedSubtasks = HeardOf(tasks, p)
          /\ sessions[p].tasksHandled = Cardinality(HeardOf(tasks, p))
          /\ sessions[p].totalPages = Cardinality(tasks[p].subtasks)
          /\ HeardOf(tasks, p) # tasks[p].subtasks
      BY <1>1 DEF TasksInv, RegistryInv, ParentInv
    <2>2. PICK s \in tasks[p].subtasks : ~Finished(tasks[s])
      BY <2>1 DEF HeardOf
    <2>3. s \in TaskIds /\ tasks[s].status # "absent" /\ tasks[s].status \in Statuses
      BY <1>1, <2>2 DEF TasksInv, QueueInv, TypeInv, TypeOK, RegistryInv, TreeInv, Task
    <2>4. HasPendingSubtasks(p)
      BY <2>2, <2>3 DEF HasPendingSubtasks, Finished, Statuses
    <2>5. QED
      BY <2>1, <2>4
  <1>2. QED
    BY <1>1, TasksSafe, PTL

\* A parent that can be looked up says of its subtasks what they say themselves, to
\* the same users, and finished means that all of them are.
THEOREM ParentAlwaysSumsUp == Spec => []ParentSumsUp
  <1>1. ASSUME TasksInv PROVE ParentSumsUp
    <2> SUFFICES ASSUME NEW p \in TaskIds, tasks[p].subtasks # {}
                 PROVE  /\ \A s \in tasks[p].subtasks :
                             tasks[s].status # "absent" /\ tasks[s].users = tasks[p].users
                        /\ (tasks[p].status = "failed" \/ sessions[p].failed) <=>
                             \E s \in HeardOf(tasks, p) : tasks[s].status = "failed"
                        /\ tasks[p].undef <=> \E s \in HeardOf(tasks, p) : tasks[s].undef
                        /\ Finished(tasks[p]) => HeardOf(tasks, p) = tasks[p].subtasks
      BY DEF ParentSumsUp, HeardOf
    <2>1. /\ \A s \in tasks[p].subtasks : tasks[s].users = tasks[p].users
          /\ (tasks[p].status = "failed" \/ sessions[p].failed) <=>
               \E s \in HeardOf(tasks, p) : tasks[s].status = "failed"
          /\ tasks[p].undef <=> \E s \in HeardOf(tasks, p) : tasks[s].undef
      BY <1>1 DEF TasksInv, RegistryInv, ParentInv
    <2>2. ASSUME NEW s \in tasks[p].subtasks
          PROVE /\ tasks[s].status # "absent"
                /\ Finished(tasks[p]) => Finished(tasks[s])
      <3>1. s \in TaskIds /\ tasks[s].status \in Statuses
        BY <1>1 DEF TasksInv, QueueInv, TypeInv, TypeOK, Task
      <3>2. tasks[s].status # "absent" /\ tasks[s].parent = p /\ p # NoTask
        BY <1>1, <3>1 DEF TasksInv, RegistryInv, TreeInv, TaskIds, NoTask
      <3>3. tasks[s].status = "pending" => tasks[p].status = "pending"
        BY <1>1, <3>1, <3>2 DEF TasksInv, RegistryInv, TreeInv
      <3>4. QED
        BY <3>1, <3>2, <3>3 DEF Finished, Statuses
    <2>3. QED
      BY <2>1, <2>2 DEF HeardOf
  <1>2. QED
    BY <1>1, TasksSafe, PTL

\* Requests that come again find what the maps promise them (resolveDedupeTask).
THEOREM MappingsAlwaysHold == Spec => []MappingsHold
  <1>1. ASSUME TasksInv PROVE MappingsHold
    <2>1. \A k \in DedupeKeys : activeTaskByDedupeKey[k] \in TaskIds \cup {NoTask}
      BY <1>1 DEF TasksInv, QueueInv, TypeInv, TypeOK
    <2>2. MapsInv(tasks, sessions, activeTaskByDedupeKey, recentTaskByDedupeKey)
      BY <1>1 DEF TasksInv
    <2>3. \A t \in TaskIds : sessions[t].open => tasks[t].status = "pending"
      BY <1>1 DEF TasksInv, RegistryInv, LiveInv
    <2>4. ActiveMappingIsNewest
      BY <2>1, <2>2, <2>3 DEF ActiveMappingIsNewest, MapsInv
    <2>5. RecentMappingIsKept
      BY <2>2 DEF RecentMappingIsKept, MapsInv
    <2>6. QED
      BY <2>4, <2>5 DEF MappingsHold
  <1>2. QED
    BY <1>1, TasksSafe, PTL

\* While a pending task is young its key leads to it and no second one of the key is
\* started, for any requests, failures, expiries and times, unless the end of an older
\* task of the key removed its mapping.
THEOREM OnePendingTask == Spec => []OnePendingTaskPerKey
  <1>1. ASSUME TasksInv PROVE OnePendingTaskPerKey
    <2>1. /\ SharingInv(tasks, sessions, activeTaskByDedupeKey, unmapped)
          /\ now \in Nat /\ ResultRetention \in Nat
          /\ \A t \in TaskIds : tasks[t].createdAt \in Nat
      BY <1>1, ConfigAssumption DEF TasksInv, QueueInv, TypeInv, TypeOK, Task
    <2>2. ASSUME NEW t \in TaskIds \ unmapped, sessions[t].dedupeKey # NoKey,
                 now - tasks[t].createdAt <= ResultRetention
          PROVE  activeTaskByDedupeKey[sessions[t].dedupeKey] = t
      BY <2>1, <2>2 DEF SharingInv
    <2>3. ASSUME NEW t \in TaskIds \ unmapped, sessions[t].dedupeKey # NoKey, NEW x \in TaskIds,
                 sessions[x].dedupeKey = sessions[t].dedupeKey, t < x
          PROVE  tasks[x].createdAt - tasks[t].createdAt > ResultRetention
      BY <2>1, <2>3 DEF SharingInv
    <2>4. QED
      BY <2>2, <2>3 DEF OnePendingTaskPerKey
  <1>2. QED
    BY <1>1, TasksSafe, PTL

-----------------------------------------------------------------------------
(* What steps may never do.                                                *)

\* From the present tasks to a table T that a step makes of them: subtasks are counted
\* only for a task that is pending and is no subtask, and never uncounted; a task that
\* is over keeps its answer until it is gone for good; only a new id brings a task.
CourseTo(T, t) ==
    LET old == tasks[t]
        new == T[t]
    IN  /\ old.status = "pending" =>
              /\ new.status \in {"pending", "completed", "failed"} /\ new.parent = old.parent
              /\ old.users \subseteq new.users
              /\ old.completedSubtasks \subseteq new.completedSubtasks
              /\ old.parent # NoTask => new.completedSubtasks = old.completedSubtasks
        /\ Finished(old) =>
              \/ new.status = "absent"
              \/ /\ new.status = old.status /\ new.parent = old.parent /\ old.users \subseteq new.users
                 /\ new.completedSubtasks = old.completedSubtasks
        /\ old.status = "absent" =>
              \/ new.status = "absent"
              \/ t > created /\ new.users # {} /\ new.completedSubtasks = {}

\* Adding users afterwards leaves a task its course.
LEMMA LinkKeepsCourse ==
  ASSUME NEW T \in [TaskIds -> Task], NEW x \in TaskIds, NEW u \in Users, NEW t \in TaskIds, CourseTo(T, t)
  PROVE  CourseTo(LinkTaskTree(T, x, u), t)
  <1> DEFINE new == LinkTaskTree(T, x, u)[t]
  <1>1. /\ new.status = T[t].status /\ new.parent = T[t].parent
        /\ new.completedSubtasks = T[t].completedSubtasks /\ T[t].users \subseteq new.users
    BY LinkOfOne
  <1> HIDE DEF new
  <1>2. QED
    BY <1>1 DEF CourseTo, new

LEMMA StandingCourse == ASSUME NEW t \in TaskIds, NEW T, T[t] = tasks[t] PROVE CourseTo(T, t)
  BY DEF CourseTo, Finished

\* A pass expires leaves and counts them for their parent, which is no subtask.
LEMMA PassCourse ==
  ASSUME TasksInv, NEW t \in TaskIds
  PROVE  CourseTo(TasksAfterCleanup, t)
  <1>1. Registry /\ tasks[t] \in Task
    BY DEF TasksInv, QueueInv, Registry, TypeInv, TypeOK
  <1>2. CASE Forgotten(t)
    <2>1. TasksAfterCleanup[t].status = "absent" /\ Finished(tasks[t])
      BY <1>1, <1>2, PassOfOne DEF Forgotten, AbsentTask
    <2>2. QED
      BY <2>1 DEF CourseTo, Finished
  <1>3. CASE ~Forgotten(t) /\ ~Closes(t) /\ ~ParentHears(t)
    <2>1. TasksAfterCleanup[t] = tasks[t]
      BY <1>1, <1>3, PassOfOne
    <2>2. QED
      BY <2>1, StandingCourse
  <1>4. CASE ~Forgotten(t) /\ (Closes(t) \/ ParentHears(t))
    <2>1. /\ TasksAfterCleanup[t].users = tasks[t].users /\ TasksAfterCleanup[t].parent = tasks[t].parent
          /\ TasksAfterCleanup[t].status \in {"failed", tasks[t].status} /\ tasks[t].status = "pending"
      BY <1>1, <1>4, PassOfOne
    <2>2. tasks[t].completedSubtasks \subseteq TasksAfterCleanup[t].completedSubtasks
      BY <1>1, <1>4, PassOfOne
    <2>3. ASSUME tasks[t].parent # NoTask
          PROVE TasksAfterCleanup[t].completedSubtasks = tasks[t].completedSubtasks
      <3>1. tasks[t].subtasks = {}
        BY <1>1, <2>3 DEF Registry, RegistryInv, TreeInv
      <3>2. ~ParentHears(t)
        BY <1>1, <3>1, PassOfOne
      <3>3. QED
        BY <1>1, <1>4, <3>2, PassOfOne
    <2>4. QED
      BY <2>1, <2>2, <2>3 DEF CourseTo, Finished
  <1>5. QED
    BY <1>2, <1>3, <1>4

LEMMA StartCourse ==
  ASSUME TasksInv, NEW t \in TaskIds, NEW u \in Users, NEW k \in DedupeKeys, NEW plan \in Plans,
         StartTask(u, k, plan)
  PROVE  CourseTo(tasks', t)
  <1> DEFINE id == created + 1
  <1>1. Cleaned /\ TypeInv
    BY PassCleans DEF TasksInv, QueueInv
  <1>2. Queueable(TasksAfterCleanup, SessionsAfterCleanup, JobsAfterCleanup, id, plan)
    BY <1>1 DEF Cleaned, Queueable, StartTask
  <1>3. tasks' = TasksAfterQueueing(TasksAfterCleanup, u, id, plan)
    BY ActiveIsPending DEF StartTask
  <1>4. CASE t <= created
    <2>1. tasks'[t] = TasksAfterCleanup[t]
      BY <1>2, <1>3, <1>4, QueueOfOne
    <2>2. QED
      BY <2>1, PassCourse DEF CourseTo
  <1>5. CASE ~(t <= created)
    <2>1. created \in Nat /\ t > created
      BY <1>1, <1>5 DEF TypeInv, TypeOK, TaskIds
    <2>2. tasks[t] = AbsentTask
      BY <2>1 DEF TasksInv, RegistryInv, TreeInv
    <2>3. tasks'[t].status = "absent" \/ (tasks'[t].users # {} /\ tasks'[t].completedSubtasks = {})
      <3>1. CASE t = id \/ t \in Subtasks(id, plan)
        <4>1. tasks'[t].users = {u} /\ tasks'[t].completedSubtasks = {}
          BY <1>2, <1>3, <3>1, QueueOfOne
        <4>2. QED
          BY <4>1
      <3>2. CASE ~(t = id \/ t \in Subtasks(id, plan))
        <4>1. tasks'[t] = AbsentTask
          BY <1>2, <1>3, <1>5, <3>2, QueueOfOne
        <4>2. QED
          BY <4>1 DEF AbsentTask
      <3>3. QED
        BY <3>1, <3>2
    <2>4. QED
      BY <2>1, <2>2, <2>3 DEF CourseTo, Finished, AbsentTask
  <1>6. QED
    BY <1>4, <1>5

\* A page that settles counts a subtask for its parent only when it ends the subtask.
LEMMA SettlingCourse ==
  ASSUME TasksInv, NEW t \in TaskIds, NEW j \in running, NEW failed \in BOOLEAN, NEW undef \in BOOLEAN,
         PageSettles(j, failed, undef)
  PROVE  CourseTo(tasks', t)
  <1> DEFINE p == tasks[j.task].parent
  <1>1. Settling(j, failed, undef)
    BY DEF Settling, Registry, TasksInv, QueueInv
  <1>2. tasks'[t].users = tasks[t].users /\ tasks'[t].parent = tasks[t].parent
    BY <1>1, SettleOfOne
  <1>3. CASE t = j.task \/ (t = p /\ EndsTask(j, failed))
    <2>1. tasks[t].status = "pending" /\ (t = p => tasks[t].parent = NoTask /\ t # j.task)
      BY <1>1, <1>3, SettlesWhilePending DEF TaskIds, NoTask
    <2>2. tasks'[t].status \in {"pending", "completed", "failed"}
      BY <1>1, <1>3, SettleOfOne
    <2>3. CASE t = j.task
      <3>1. tasks'[t].completedSubtasks = tasks[t].completedSubtasks
        BY <1>1, <2>3, SettleOfOne
      <3>2. QED
        BY <1>2, <2>1, <2>2, <3>1 DEF CourseTo, Finished
    <2>4. CASE t = p /\ EndsTask(j, failed)
      <3>1. tasks[t].completedSubtasks \subseteq tasks'[t].completedSubtasks
        BY <1>1, <2>4, SettleOfOne
      <3>2. QED
        BY <1>2, <2>1, <2>2, <2>4, <3>1 DEF CourseTo, Finished
    <2>5. QED
      BY <1>3, <2>3, <2>4
  <1>4. CASE ~(t = j.task \/ (t = p /\ EndsTask(j, failed)))
    BY <1>1, <1>4, SettleOfOne, StandingCourse
  <1>5. QED
    BY <1>3, <1>4

\* Every step of the runtime moves every task along its course.
LEMMA NextCourse ==
  ASSUME TasksInv, [Next]_vars, NEW t \in TaskIds
  PROVE  CourseTo(tasks', t)
  <1>1. /\ TasksAfterCleanup \in [TaskIds -> Task]
        /\ RecentAfterCleanup \in [DedupeKeys -> [task : TaskIds \cup {NoTask}, expiresAt : Nat]]
    BY CleanupTasksTyped, CleanupDedupeTyped DEF TasksInv, QueueInv, TypeInv, TypeOK
  <1>2. ASSUME NEW u \in Users, NEW k \in DedupeKeys, JoinActiveTask(u, k)
        PROVE  CourseTo(tasks', t)
    <2>1. ActiveAfterCleanup[k] \in TaskIds
      BY <1>2, ActiveIsPending DEF JoinActiveTask, ActiveIsShared
    <2>2. tasks' = LinkTaskTree(TasksAfterCleanup, ActiveAfterCleanup[k], u)
      BY <1>2 DEF JoinActiveTask
    <2>3. QED
      BY <1>1, <2>1, <2>2, PassCourse, LinkKeepsCourse
  <1>3. ASSUME NEW u \in Users, NEW k \in DedupeKeys, ReuseRecentTask(u, k)
        PROVE  CourseTo(tasks', t)
    <2>1. RecentAfterCleanup[k].task \in TaskIds
      BY <1>1, <1>3 DEF ReuseRecentTask, RecentIsShared
    <2>2. tasks' = LinkTaskTree(TasksAfterCleanup, RecentAfterCleanup[k].task, u)
      BY <1>3, ActiveIsPending DEF ReuseRecentTask
    <2>3. QED
      BY <1>1, <2>1, <2>2, PassCourse, LinkKeepsCourse
  <1>4. CASE CleanupExpiredTasks
    BY <1>4, PassCourse DEF CleanupExpiredTasks
  <1>5. CASE ReleaseSlot \/ Tick \/ UNCHANGED vars
    BY <1>5, StandingCourse DEF ReleaseSlot, Tick, vars, registry
  <1>6. QED
    BY <1>2, <1>3, <1>4, <1>5, StartCourse, SettlingCourse
    DEF Next, PageAnswers, PageFails, PageTimesOut

\* A client that polls sees its task pending, then one final answer, then nothing,
\* whatever other calls, pages and passes come in between.
THEOREM NoReplyRegresses == Spec => RepliesNeverRegress
  <1>1. ASSUME TasksInv, [Next]_vars, NEW t \in TaskIds, NEW u \in Users
        PROVE  LET before == Reply(t, u)
                   after == Reply(t, u)'
               IN  /\ before = "pending" => after \in {"pending", "completed", "failed"}
                   /\ before \in {"completed", "failed"} => after \in {before, "missing"}
                   /\ before = "missing" /\ t <= created => after = "missing"
    <2>1. CourseTo(tasks', t)
      BY <1>1, NextCourse
    <2>2. tasks[t].status \in Statuses /\ created \in Nat
      BY <1>1 DEF TasksInv, QueueInv, TypeInv, TypeOK, Task
    <2>3. ~(t > created /\ t <= created)
      BY <2>2 DEF TaskIds
    <2>4. QED
      BY <2>1, <2>2, <2>3 DEF Reply, CourseTo, Finished, Statuses
  <1>2. TasksInv /\ [Next]_vars =>
          [\A t \in TaskIds, u \in Users :
              LET before == Reply(t, u)
                  after == Reply(t, u)'
              IN  /\ before = "pending" => after \in {"pending", "completed", "failed"}
                  /\ before \in {"completed", "failed"} => after \in {before, "missing"}
                  /\ before = "missing" /\ t <= created => after = "missing"]_vars
    BY <1>1
  <1>3. QED
    BY <1>2, TasksSafe, PTL DEF Spec, RepliesNeverRegress

\* Only idle leaves expire in the next state either.
LEMMA OnlyIdleLeavesExpireNext ==
  (Registry => \A t \in TaskIds :
      Orphaned(t) => /\ tasks[t].status = "pending" /\ sessions[t].open
                     /\ tasks[t].subtasks = {})'
  <1>1. Registry => \A t \in TaskIds :
           Orphaned(t) => /\ tasks[t].status = "pending" /\ sessions[t].open
                          /\ tasks[t].subtasks = {}
    BY OnlyIdleLeavesExpire
  <1>2. QED
    BY <1>1, PTL

\* A second pass at the same instant finds nothing left to do: what the first one
\* closed is not past its retention yet, what it left is what it would leave again.
THEOREM SecondPassDoesNothing == Spec => OneCleanupPassSuffices
  <1>1. ASSUME TasksInv, TasksInv', CleanupExpiredTasks
        PROVE  /\ TasksAfterCleanup' = tasks' /\ SessionsAfterCleanup' = sessions'
               /\ JobsAfterCleanup' = pendingJobs'
    <2>1. /\ tasks' = TasksAfterCleanup /\ sessions' = SessionsAfterCleanup /\ now' = now
          /\ pendingJobs' = JobsAfterCleanup
      BY <1>1 DEF CleanupExpiredTasks
    <2>2. Registry /\ Registry'
      BY <1>1 DEF TasksInv, QueueInv, Registry
    <2>3. now \in Nat /\ ResultRetention \in Nat
      BY <1>1, ConfigAssumption DEF TasksInv, QueueInv, TypeInv, TypeOK
    <2>4. ASSUME NEW t \in TaskIds, Orphaned(t)' PROVE FALSE
      <3>1. tasks'[t].status = "pending" /\ sessions'[t].open /\ tasks'[t].subtasks = {}
        BY <2>2, <2>4, OnlyIdleLeavesExpireNext
      <3>2. ~Forgotten(t) /\ ~Closes(t) /\ tasks[t].subtasks = {}
        BY <2>1, <2>2, <3>1, PassOfOne DEF AbsentTask
      <3>3. ~ParentHears(t)
        BY <3>2 DEF ParentHears, OrphanedSubtasks
      <3>4. tasks'[t] = tasks[t] /\ sessions'[t] = sessions[t]
        BY <2>1, <2>2, <3>2, <3>3, PassOfOne
      <3>5. Orphaned(t)
        BY <2>1, <2>4, <3>2, <3>4 DEF Orphaned, HasPendingSubtasks, LastActivityAt
      <3>6. QED
        BY <3>2, <3>5 DEF Closes
    <2>5. ASSUME NEW t \in TaskIds, Forgotten(t)' PROVE FALSE
      <3> DEFINE p == tasks[t].parent
      <3>1. Finished(tasks'[t]) /\ now - tasks'[t].completedAt > ResultRetention
        BY <2>1, <2>5 DEF Forgotten, OutOfRetention
      <3>2. ~Forgotten(t)
        BY <2>1, <2>2, <3>1, PassOfOne DEF AbsentTask, Finished
      <3>3. ~Closes(t)
        BY <2>1, <2>2, <2>3, <3>1, <3>2, PassOfOne
      <3>4. /\ tasks'[t].status = tasks[t].status /\ tasks'[t].completedAt = tasks[t].completedAt
            /\ tasks'[t].parent = p
        BY <2>1, <2>2, <3>2, <3>3, PassOfOne
      <3>5. /\ p # NoTask /\ tasks[p].status # "absent"
            /\ ~(Finished(tasks[p]) /\ OutOfRetention(tasks[p].completedAt))
        BY <3>1, <3>2, <3>4 DEF Forgotten, Finished, OutOfRetention
      <3>6. p \in TaskIds
        BY <2>2, <3>5 DEF Registry, TypeInv, TypeOK, Task
      <3>7. ~Forgotten(p)
        BY <3>5 DEF Forgotten
      <3>8. \/ tasks'[p].status = "absent"
            \/ Finished(tasks'[p]) /\ now - tasks'[p].completedAt > ResultRetention
        BY <2>1, <2>5, <3>4, <3>5 DEF Forgotten, OutOfRetention
      <3>9. CASE Closes(p)
        BY <2>1, <2>2, <2>3, <3>6, <3>7, <3>8, <3>9, PassOfOne
      <3>10. CASE ~Closes(p)
        BY <2>1, <2>2, <3>5, <3>6, <3>7, <3>8, <3>10, PassOfOne DEF Finished, OutOfRetention
      <3>11. QED
        BY <3>9, <3>10
    <2>6. tasks' \in [TaskIds -> Task] /\ sessions' \in [TaskIds -> Session] /\ pendingJobs' \subseteq Job
      BY <1>1 DEF TasksInv, QueueInv, TypeInv, TypeOK
    <2>7. ASSUME NEW t \in TaskIds PROVE ~ParentHears(t)' /\ ~ParentCompletes(t)'
      <3>1. tasks'[t].subtasks \subseteq TaskIds
        BY <2>6 DEF Task
      <3>2. QED
        BY <2>4, <3>1 DEF ParentHears, ParentCompletes, OrphanedSubtasks
    <2>8. TasksAfterCleanup' = tasks'
      BY <2>4, <2>5, <2>6, <2>7 DEF TasksAfterCleanup
    <2>9. SessionsAfterCleanup' = sessions'
      BY <2>4, <2>6, <2>7 DEF SessionsAfterCleanup
    <2>10. JobsAfterCleanup' = pendingJobs'
      BY <2>4, <2>6 DEF JobsAfterCleanup, Job
    <2>11. QED
      BY <2>8, <2>9, <2>10
  <1>2. TasksInv /\ TasksInv' /\ [Next]_vars =>
          [CleanupExpiredTasks =>
              /\ TasksAfterCleanup' = tasks'
              /\ SessionsAfterCleanup' = sessions'
              /\ JobsAfterCleanup' = pendingJobs']_vars
    BY <1>1
  <1>3. QED
    BY <1>2, TasksSafe, PTL DEF Spec, OneCleanupPassSuffices

-----------------------------------------------------------------------------
(* The notifier.  The registry's invariant holds as before, since the      *)
(* notifier only looks at the registry; what a step makes of one task, as  *)
(* far as its users are told of it, is its course (CourseTo).              *)

\* A task, what the notifier keeps of it and what was sent about it, at a time: the
\* notifier keeps something only of pending tasks that are no subtasks; a report that waits is of
\* the present count and due within the interval, and one waits whenever the users do
\* not know that count; the final message says how the task ended, to all its users but
\* those who came late.
IsToldOf(task, state, said, late, time) ==
    /\ task.status # "absent" => task.users # {}
    /\ ~state.open => state = NoProgressState
    /\ state.open => task.status = "pending" /\ task.parent = NoTask
    /\ state.pendingRequest # 0 =>
          /\ state.pendingRequest = Cardinality(task.completedSubtasks)
          /\ time - state.lastSentAt <= ProgressThrottle
    /\ task.status = "pending" =>
          /\ said.final = "absent" /\ late = {}
          /\ said.count # Cardinality(task.completedSubtasks) => state.pendingRequest # 0
    /\ Finished(task) /\ task.parent = NoTask =>
          said.final = task.status /\ said.users = task.users \ late

UpdatesTyped ==
    /\ progressStates \in [TaskIds -> ProgressState] /\ told \in [TaskIds -> Told]
    /\ joinedLate \in [TaskIds -> SUBSET Users]

ToldInv ==
    /\ UpdatesTyped
    /\ \A t \in TaskIds : t > created => told[t] = ToldNothing /\ joinedLate[t] = {}
    /\ \A t \in TaskIds : IsToldOf(tasks[t], progressStates[t], told[t], joinedLate[t], now)

UpdatesInv == TasksInv /\ ToldInv

LEMMA InitUpdatesInv == InitUpdates => UpdatesInv
  <1> SUFFICES ASSUME InitUpdates PROVE ToldInv
    BY InitTasksInv DEF InitUpdates, UpdatesInv
  <1>1. UpdatesTyped
    BY DEF InitUpdates, UpdatesTyped, NoProgressState, ProgressState, ToldNothing, Told, Statuses
  <1>2. ASSUME NEW t \in TaskIds PROVE IsToldOf(tasks[t], progressStates[t], told[t], joinedLate[t], now)
    <2>1. tasks[t] = AbsentTask /\ progressStates[t] = NoProgressState /\ joinedLate[t] = {}
      BY DEF InitUpdates, Init
    <2>2. QED
      BY <2>1 DEF IsToldOf, AbsentTask, NoProgressState, Finished
  <1>3. QED
    BY <1>1, <1>2 DEF ToldInv, InitUpdates

-----------------------------------------------------------------------------
(* A step of the runtime and its reports.                                  *)

\* The clock moves by single ticks, and ids are not taken back.
LEMMA NextCounters ==
  ASSUME TypeInv, [Next]_vars
  PROVE  /\ now \in Nat /\ now' \in {now, now + 1}
         /\ created \in Nat /\ created' \in Nat /\ created <= created'
  <1>1. now \in Nat /\ created \in Nat
    BY DEF TypeInv, TypeOK
  <1>2. ASSUME NEW u \in Users, NEW k \in DedupeKeys, NEW plan \in Plans, StartTask(u, k, plan)
        PROVE  now' = now /\ created' \in Nat /\ created <= created'
    <2>1. ChunkCount(plan) \in Nat
      BY ChunksOfPlan
    <2>2. created' = IF IsComposite(plan) THEN created + 1 + ChunkCount(plan) ELSE created + 1
      BY <1>2 DEF StartTask
    <2>3. now' = now
      BY <1>2 DEF StartTask
    <2>4. QED
      BY <1>1, <2>1, <2>2, <2>3
  <1>3. ASSUME NEW u \in Users, NEW k \in DedupeKeys, JoinActiveTask(u, k) \/ ReuseRecentTask(u, k)
        PROVE  now' = now /\ created' = created
    BY <1>3 DEF JoinActiveTask, ReuseRecentTask
  <1>4. ASSUME NEW j \in running, PageAnswers(j) \/ PageFails(j) \/ PageTimesOut(j)
        PROVE  now' = now /\ created' = created
    BY <1>4 DEF PageAnswers, PageFails, PageTimesOut, PageSettles
  <1>5. CASE ReleaseSlot \/ CleanupExpiredTasks \/ UNCHANGED vars
    BY <1>1, <1>5 DEF ReleaseSlot, CleanupExpiredTasks, vars
  <1>6. CASE Tick
    BY <1>1, <1>6 DEF Tick
  <1>7. QED
    BY <1>1, <1>2, <1>3, <1>4, <1>5, <1>6 DEF Next

\* The count a step reports for a task: the present one, unless the task is pending
\* and no subtask, and then at most more.
ReportedCount(t) ==
    IF tasks'[t].status = "absent" THEN Handled(t) ELSE Cardinality(tasks'[t].completedSubtasks)

LEMMA CountsGrow ==
  ASSUME TasksInv, TasksInv', [Next]_vars, NEW t \in TaskIds
  PROVE  /\ Handled(t) \in Nat /\ ReportedCount(t) \in Nat
         /\ ReportedCount(t) # Handled(t) =>
              /\ ReportedCount(t) > Handled(t)
              /\ tasks[t].status = "pending" /\ tasks[t].parent = NoTask
  <1>1. tasks[t] \in Task /\ tasks'[t] \in Task /\ tasks[t].status \in Statuses
    BY DEF TasksInv, QueueInv, TypeInv, TypeOK, Task
  <1>2. tasks[t].completedSubtasks \in SUBSET TaskIds /\ tasks'[t].completedSubtasks \in SUBSET TaskIds
    BY <1>1 DEF Task
  <1>3. /\ IsFiniteSet(tasks'[t].completedSubtasks) /\ Cardinality(tasks'[t].completedSubtasks) \in Nat
        /\ Handled(t) \in Nat
    BY <1>2, SizeOfTaskSet DEF Handled
  <1>4. CourseTo(tasks', t)
    BY NextCourse
  <1>5. CASE tasks'[t].status = "absent"
    BY <1>3, <1>5 DEF ReportedCount
  <1>6. CASE tasks'[t].status # "absent" /\ tasks[t].status = "pending"
    <2>1. tasks[t].completedSubtasks \subseteq tasks'[t].completedSubtasks
      BY <1>4, <1>6 DEF CourseTo
    <2>2. Handled(t) <= Cardinality(tasks'[t].completedSubtasks)
      BY <1>3, <2>1, FS_Subset DEF Handled
    <2>3. ReportedCount(t) # Handled(t) => tasks[t].parent = NoTask
      BY <1>4, <1>6 DEF CourseTo, ReportedCount, Handled
    <2>4. QED
      BY <1>3, <1>6, <2>2, <2>3 DEF ReportedCount
  <1>7. CASE tasks'[t].status # "absent" /\ Finished(tasks[t])
    BY <1>3, <1>4, <1>7 DEF CourseTo, ReportedCount, Handled, Finished
  <1>8. CASE tasks'[t].status # "absent" /\ tasks[t].status = "absent"
    <2>1. t > created /\ tasks'[t].completedSubtasks = {}
      BY <1>4, <1>8 DEF CourseTo
    <2>2. tasks[t].completedSubtasks = {}
      BY <1>8 DEF TasksInv, RegistryInv, TreeInv, AbsentTask
    <2>3. QED
      BY <1>3, <1>8, <2>1, <2>2 DEF ReportedCount, Handled
  <1>9. QED
    BY <1>1, <1>5, <1>6, <1>7, <1>8 DEF Finished, Statuses

\* What reporting a count leaves: nothing changes when it is the present one; otherwise
\* it was sent, or it waits for a timer that is due within the interval.
LEMMA ReportOf ==
  ASSUME TypeInv, UpdatesTyped, NEW t \in TaskIds, NEW count \in Nat,
         Handled(t) \in Nat, count = Handled(t) \/ count > Handled(t)
  PROVE  LET state == ProgressStateAfter(t, count)
             said == ToldAfter(t, count)
         IN  /\ state \in ProgressState /\ said \in Told
             /\ said.final = told[t].final /\ said.users = told[t].users
             /\ count = Handled(t) => state = progressStates[t] /\ said = told[t]
             /\ count # Handled(t) =>
                  /\ state.open /\ state.pendingRequest \in {0, count}
                  /\ said.count # count => state.pendingRequest = count
                  /\ state.pendingRequest # 0 =>
                       state.lastSentAt = now \/ now - state.lastSentAt < ProgressThrottle
  <1>1. progressStates[t] \in ProgressState /\ told[t] \in Told /\ now \in Nat /\ ProgressThrottle \in Nat
    BY ThrottleAssumption DEF UpdatesTyped, TypeInv, TypeOK
  <1>2. CASE count = Handled(t)
    BY <1>1, <1>2 DEF ProgressStateAfter, ToldAfter
  <1>3. CASE count # Handled(t) /\ ~Elapsed(t)
    <2>1. /\ ProgressStateAfter(t, count) = [progressStates[t] EXCEPT !.pendingRequest = count]
          /\ ToldAfter(t, count) = told[t]
      BY <1>3 DEF ProgressStateAfter, ToldAfter, Coalesced
    <2>2. progressStates[t].open /\ now - progressStates[t].lastSentAt < ProgressThrottle
      BY <1>1, <1>3 DEF Elapsed, ProgressState
    <2>3. QED
      BY <1>1, <1>3, <2>1, <2>2 DEF ProgressState
  <1>4. CASE count # Handled(t) /\ Elapsed(t)
    <2>1. ToldAfter(t, count) = [told[t] EXCEPT !.count = Handled(t) + 1, !.at = now]
      BY <1>4 DEF ToldAfter
    <2>2. /\ ToldAfter(t, count) \in Told /\ ToldAfter(t, count).count = Handled(t) + 1
          /\ ToldAfter(t, count).final = told[t].final /\ ToldAfter(t, count).users = told[t].users
      <3> DEFINE old == told[t]
                 sent == Handled(t) + 1
                 new == ToldAfter(t, count)
      <3>1. old \in Told /\ sent \in Nat /\ now \in Nat /\ new = [old EXCEPT !.count = sent, !.at = now]
        BY <1>1, <2>1
      <3> HIDE DEF old, sent, new
      <3>2. new \in Told /\ new.count = sent /\ new.final = old.final /\ new.users = old.users
        BY <3>1 DEF Told
      <3>3. QED
        BY <3>2 DEF old, sent, new
    <2>3. CASE count = Handled(t) + 1
      <3>1. ProgressStateAfter(t, count) = [open |-> TRUE, lastSentAt |-> now, pendingRequest |-> 0]
        BY <1>4, <2>3 DEF ProgressStateAfter, SentNow
      <3>2. ProgressStateAfter(t, count) \in ProgressState
        BY <1>1, <3>1 DEF ProgressState
      <3>3. ProgressStateAfter(t, count).open /\ ProgressStateAfter(t, count).pendingRequest = 0
        BY <3>1
      <3>4. ToldAfter(t, count).count = count
        BY <2>2, <2>3
      <3>5. QED
        BY <1>4, <2>2, <3>2, <3>3, <3>4
    <2>4. CASE count # Handled(t) + 1
      <3>1. ProgressStateAfter(t, count) = [open |-> TRUE, lastSentAt |-> now, pendingRequest |-> count]
        BY <1>4, <2>4 DEF ProgressStateAfter, SentNow, Coalesced
      <3>2. QED
        BY <1>1, <1>4, <2>2, <2>4, <3>1 DEF ProgressState
    <2>5. QED
      BY <2>3, <2>4
  <1>5. QED
    BY <1>2, <1>3, <1>4

\* What a step of the runtime makes of what is kept and was sent about a task.
LEMMA NotifyOf ==
  ASSUME TasksInv, TasksInv', [Next]_vars, UpdatesTyped, Notifies, NEW t \in TaskIds
  PROVE  LET state == ProgressStateAfter(t, ReportedCount(t))
             said == ToldAfter(t, ReportedCount(t))
         IN  /\ progressStates'[t] \in ProgressState /\ told'[t] \in Told
             /\ joinedLate'[t] = joinedLate[t] \cup JoinsLate(t) /\ joinedLate'[t] \subseteq Users
             /\ IsAnnounced(t) => /\ progressStates'[t] = NoProgressState
                                  /\ told'[t].final = tasks'[t].status /\ told'[t].users = Receivers(t)
             /\ ~IsAnnounced(t) => progressStates'[t] = state /\ told'[t] = said
  <1> DEFINE state == ProgressStateAfter(t, ReportedCount(t))
             said == ToldAfter(t, ReportedCount(t))
  <1>1. /\ TypeInv /\ tasks'[t].status \in Statuses
        /\ tasks[t].users \in SUBSET Users /\ tasks'[t].users \in SUBSET Users
    BY DEF TasksInv, QueueInv, TypeInv, TypeOK, Task
  <1>1a. Receivers(t) \in SUBSET Users /\ JoinsLate(t) \subseteq Users
    BY <1>1 DEF Receivers, JoinsLate
  <1>1b. joinedLate'[t] = joinedLate[t] \cup JoinsLate(t) /\ joinedLate'[t] \subseteq Users
    BY <1>1a DEF Notifies, UpdatesTyped
  <1>2. state \in ProgressState /\ said \in Told
    BY <1>1, CountsGrow, ReportOf
  <1>3. /\ progressStates'[t] = IF IsAnnounced(t) THEN StateAfterFinal(state) ELSE state
        /\ told'[t] = IF IsAnnounced(t)
                      THEN [said EXCEPT !.final = tasks'[t].status, !.users = Receivers(t)]
                      ELSE said
    BY DEF Notifies, ReportedCount
  <1> HIDE DEF state, said
  <1>4. CASE IsAnnounced(t)
    <2>1. /\ progressStates'[t] = NoProgressState
          /\ told'[t] = [said EXCEPT !.final = tasks'[t].status, !.users = Receivers(t)]
      BY <1>3, <1>4 DEF StateAfterFinal
    <2>2. NoProgressState \in ProgressState
      BY DEF NoProgressState, ProgressState
    <2>3. told'[t] \in Told /\ told'[t].final = tasks'[t].status /\ told'[t].users = Receivers(t)
      BY <1>1, <1>1a, <1>2, <2>1 DEF Told
    <2>4. QED
      BY <1>1b, <1>4, <2>1, <2>2, <2>3
  <1>5. CASE ~IsAnnounced(t)
    BY <1>1b, <1>2, <1>3, <1>5 DEF state, said
  <1>6. QED
    BY <1>4, <1>5

\* After a step of the runtime a task that was announced by it is told of truly, and
\* so is every other.
LEMMA NotifiedKeepsTold ==
  ASSUME UpdatesInv, TasksInv', Next, Notifies, now' = now \/ \A t \in TaskIds : ~IsDue(t)
  PROVE  ToldInv'
  <1> DEFINE count(t) == ReportedCount(t)
             state(t) == ProgressStateAfter(t, count(t))
             said(t) == ToldAfter(t, count(t))
  <1>1. /\ TasksInv /\ ToldInv /\ TypeInv /\ UpdatesTyped
        /\ now \in Nat /\ now' \in {now, now + 1} /\ created \in Nat /\ created' \in Nat /\ created <= created'
        /\ ProgressThrottle \in Nat \ {0}
    BY NextCounters, ThrottleAssumption DEF UpdatesInv, ToldInv, TasksInv, QueueInv
  <1>2. ASSUME NEW t \in TaskIds
        PROVE  /\ IsToldOf(tasks[t], progressStates[t], told[t], joinedLate[t], now) /\ CourseTo(tasks', t)
               /\ progressStates[t] \in ProgressState
               /\ tasks[t].status \in Statuses /\ tasks'[t].status \in Statuses
               /\ count(t) \in Nat /\ Handled(t) \in Nat
               /\ count(t) # Handled(t) => count(t) > Handled(t) /\ tasks[t].status = "pending"
                                           /\ tasks[t].parent = NoTask
    BY <1>1, NextCourse, CountsGrow DEF ToldInv, UpdatesTyped, TasksInv, QueueInv, TypeInv, TypeOK, Task
  <1>2a. ASSUME NEW t \in TaskIds
         PROVE  /\ joinedLate'[t] = joinedLate[t] \cup JoinsLate(t)
                /\ t \in Int /\ (t > created <=> ~(t <= created))
    BY <1>1, NotifyOf DEF TaskIds
  <1>3. UpdatesTyped'
    <2>2. \A t \in TaskIds : /\ progressStates'[t] \in ProgressState /\ told'[t] \in Told
                             /\ joinedLate'[t] \subseteq Users
      BY <1>1, NotifyOf
    <2>3. /\ progressStates' = [t \in TaskIds |-> progressStates'[t]]
          /\ told' = [t \in TaskIds |-> told'[t]]
          /\ joinedLate' = [t \in TaskIds |-> joinedLate'[t]]
      BY DEF Notifies
    <2>4. QED
      BY <2>2, <2>3 DEF UpdatesTyped
  <1>4. ASSUME NEW t \in TaskIds, t > created' PROVE told'[t] = ToldNothing /\ joinedLate'[t] = {}
    <2>1. t > created
      BY <1>1, <1>4 DEF TaskIds
    <2>2. tasks[t].status = "absent" /\ tasks'[t].status = "absent"
      BY <1>1, <1>4, <2>1 DEF TasksInv, RegistryInv, TreeInv, AbsentTask
    <2>3. ~IsAnnounced(t) /\ count(t) = Handled(t)
      BY <2>2 DEF IsAnnounced, Finished, ReportedCount
    <2>4. told'[t] = told[t]
      BY <1>1, <1>2, <2>3, NotifyOf, ReportOf
    <2>5. joinedLate'[t] = joinedLate[t]
      BY <1>2a, <2>1 DEF JoinsLate
    <2>6. QED
      BY <1>1, <2>1, <2>4, <2>5 DEF ToldInv
  <1>5. ASSUME NEW t \in TaskIds PROVE IsToldOf(tasks'[t], progressStates'[t], told'[t], joinedLate'[t], now')
    <2>1. tasks'[t].status # "absent" => tasks'[t].users # {}
      BY <1>2 DEF IsToldOf, CourseTo, Finished, Statuses
    <2>1a. /\ ~Finished(tasks'[t]) \/ t > created => joinedLate'[t] = joinedLate[t]
           /\ Finished(tasks'[t]) /\ ~(t > created) =>
                joinedLate'[t] = joinedLate[t] \cup (tasks'[t].users \ tasks[t].users)
      BY <1>2a DEF JoinsLate
    <2>1b. t > created => tasks[t].status = "absent"
      BY <1>1 DEF TasksInv, RegistryInv, TreeInv, AbsentTask
    <2>1c. tasks[t].status # "absent" /\ tasks'[t].status # "absent" => tasks[t].users \subseteq tasks'[t].users
      BY <1>2 DEF CourseTo, Finished, Statuses
    <2>2. CASE tasks[t].status = "pending" /\ tasks'[t].status = "pending"
      <3> USE <2>1a
      <3>1. ~IsAnnounced(t) /\ count(t) = Cardinality(tasks'[t].completedSubtasks)
        BY <2>2 DEF IsAnnounced, Finished, ReportedCount
      <3>2. progressStates'[t] = state(t) /\ told'[t] = said(t)
        BY <1>1, <3>1, NotifyOf
      <3>3. CASE count(t) = Handled(t)
        <4>1. state(t) = progressStates[t] /\ said(t) = told[t]
          BY <1>1, <1>2, <3>3, ReportOf
        <4>2. progressStates[t].pendingRequest # 0 => now' - progressStates[t].lastSentAt <= ProgressThrottle
          <5>1. CASE now' = now
            BY <1>2, <5>1 DEF IsToldOf
          <5>2. CASE ~IsDue(t)
            BY <1>1, <1>2, <5>2 DEF IsDue, Elapsed, ProgressState
          <5>3. QED
            BY <5>1, <5>2
        <4>3. QED
          BY <1>2, <2>1, <2>2, <3>1, <3>2, <3>3, <4>1, <4>2 DEF IsToldOf, Handled, Finished, CourseTo
      <3>4. CASE count(t) # Handled(t)
        <4>1. /\ state(t).open /\ state(t).pendingRequest \in {0, count(t)}
              /\ said(t).final = told[t].final
              /\ said(t).count # count(t) => state(t).pendingRequest = count(t)
              /\ state(t).pendingRequest # 0 =>
                   state(t).lastSentAt = now \/ now - state(t).lastSentAt < ProgressThrottle
              /\ state(t) \in ProgressState
          BY <1>1, <1>2, <3>4, ReportOf
        <4>2. count(t) # 0
          BY <1>2, <3>4
        <4>3. tasks'[t].parent = NoTask
          BY <1>2, <2>2, <3>4 DEF CourseTo
        <4> HIDE DEF state, said, count
        <4>4. state(t).pendingRequest # 0 => now' - state(t).lastSentAt <= ProgressThrottle
          BY <1>1, <4>1 DEF ProgressState
        <4>5. QED
          BY <1>2, <2>1, <2>2, <3>1, <3>2, <4>1, <4>2, <4>3, <4>4 DEF IsToldOf, Finished
      <3>5. QED
        BY <3>3, <3>4
    <2>3. CASE tasks[t].status = "pending" /\ Finished(tasks'[t]) /\ tasks[t].parent = NoTask
      <3>1. IsAnnounced(t)
        BY <1>2, <2>3 DEF IsAnnounced, Finished, CourseTo
      <3>2. /\ progressStates'[t] = NoProgressState
            /\ told'[t].final = tasks'[t].status /\ told'[t].users = Receivers(t)
        BY <1>1, <3>1, NotifyOf
      <3>3. told'[t].users = tasks[t].users /\ joinedLate[t] = {}
        BY <1>2, <2>1b, <2>3, <3>2 DEF Receivers, IsToldOf
      <3>4. told'[t].users = tasks'[t].users \ joinedLate'[t]
        BY <2>1a, <2>1b, <2>1c, <2>3, <3>3 DEF Finished
      <3>5. QED
        BY <2>1, <2>3, <3>2, <3>4 DEF IsToldOf, NoProgressState, Finished
    <2>4. CASE \/ tasks[t].status = "pending" /\ Finished(tasks'[t]) /\ tasks[t].parent # NoTask
               \/ Finished(tasks[t])
               \/ tasks[t].status = "absent" /\ tasks'[t].status = "absent"
      <3>1. ~IsAnnounced(t) /\ count(t) = Handled(t)
        BY <1>2, <2>4 DEF IsAnnounced, Finished, CourseTo
      <3>2. progressStates'[t] = progressStates[t] /\ told'[t] = told[t]
        BY <1>1, <1>2, <3>1, NotifyOf, ReportOf
      <3>3. progressStates[t] = NoProgressState /\ tasks'[t].status # "pending"
        BY <1>2, <2>4 DEF IsToldOf, Finished, CourseTo
      <3>4. Finished(tasks'[t]) /\ tasks'[t].parent = NoTask =>
              told[t].final = tasks'[t].status /\ told[t].users = tasks'[t].users \ joinedLate'[t]
        <4>1. SUFFICES ASSUME Finished(tasks'[t]), tasks'[t].parent = NoTask
              PROVE  told[t].final = tasks'[t].status /\ told[t].users = tasks'[t].users \ joinedLate'[t]
          OBVIOUS
        <4>2. Finished(tasks[t]) /\ tasks[t].parent = NoTask /\ tasks'[t].status = tasks[t].status
          BY <1>2, <2>4, <4>1 DEF Finished, CourseTo
        <4>3. told[t].final = tasks[t].status /\ told[t].users = tasks[t].users \ joinedLate[t]
          BY <1>2, <4>2 DEF IsToldOf
        <4>4. joinedLate'[t] = joinedLate[t] \cup (tasks'[t].users \ tasks[t].users)
          BY <2>1a, <2>1b, <4>1, <4>2 DEF Finished
        <4>5. tasks[t].users \subseteq tasks'[t].users
          BY <2>1c, <4>1, <4>2 DEF Finished
        <4>6. QED
          BY <4>2, <4>3, <4>4, <4>5
      <3>5. QED
        BY <2>1, <3>2, <3>3, <3>4 DEF IsToldOf, NoProgressState
    <2>5. CASE tasks[t].status = "absent" /\ tasks'[t].status # "absent"
      <3>1. t > created /\ tasks'[t].completedSubtasks = {}
        BY <1>2, <2>5 DEF CourseTo
      <3>1a. joinedLate[t] = {} /\ joinedLate'[t] = {}
        BY <1>1, <2>1a, <3>1 DEF ToldInv
      <3>2. told[t] = ToldNothing /\ progressStates[t] = NoProgressState /\ count(t) = Handled(t)
        BY <1>1, <1>2, <2>5, <3>1 DEF ToldInv, IsToldOf
      <3>3. CASE IsAnnounced(t)
        <4>1. /\ progressStates'[t] = NoProgressState
              /\ told'[t].final = tasks'[t].status /\ told'[t].users = Receivers(t)
          BY <1>1, <3>3, NotifyOf
        <4>2. Finished(tasks'[t])
          BY <3>3 DEF IsAnnounced
        <4>3. QED
          BY <2>1, <3>1, <3>1a, <4>1, <4>2 DEF IsToldOf, NoProgressState, Finished, Receivers
      <3>4. CASE ~IsAnnounced(t)
        <4>1. progressStates'[t] = NoProgressState /\ told'[t] = ToldNothing
          BY <1>1, <1>2, <3>2, <3>4, NotifyOf, ReportOf
        <4>2. Cardinality(tasks'[t].completedSubtasks) = 0
          BY <3>1, FS_EmptySet
        <4>3. ~Finished(tasks'[t]) \/ tasks'[t].parent # NoTask
          BY <2>5, <3>4 DEF IsAnnounced, Finished
        <4>4. QED
          BY <2>1, <3>1a, <4>1, <4>2, <4>3 DEF IsToldOf, NoProgressState, ToldNothing
      <3>5. QED
        BY <3>3, <3>4
    <2>6. QED
      <3>1. \/ tasks[t].status = "pending" /\ (tasks'[t].status = "pending" \/ Finished(tasks'[t]))
            \/ Finished(tasks[t])
            \/ tasks[t].status = "absent"
        BY <1>2 DEF CourseTo, Finished, Statuses
      <3>2. QED
        BY <2>2, <2>3, <2>4, <2>5, <3>1
  <1>6. QED
    BY <1>3, <1>4, <1>5 DEF ToldInv

\* A timer that fires sends the count that waited, which is the present one.
LEMMA TimerKeepsTold ==
  ASSUME UpdatesInv, NEW t \in TaskIds, ProgressTimerFires(t)
  PROVE  ToldInv'
  <1>1. /\ UpdatesTyped /\ joinedLate' = joinedLate /\ now \in Nat /\ tasks' = tasks /\ created' = created /\ now' = now
        /\ IsToldOf(tasks[t], progressStates[t], told[t], joinedLate[t], now)
        /\ progressStates[t] \in ProgressState /\ told[t] \in Told /\ tasks[t] \in Task
        /\ progressStates[t].pendingRequest # 0 /\ progressStates[t].pendingRequest \in Nat
    BY DEF UpdatesInv, ToldInv, UpdatesTyped, TasksInv, QueueInv, TypeInv, TypeOK,
           ProgressTimerFires, IsDue, vars, registry, ProgressState
  <1> DEFINE waited == progressStates[t].pendingRequest
             old == told[t]
             said == [old EXCEPT !.count = waited, !.at = now]
  <1>2. /\ told' = [told EXCEPT ![t] = said]
        /\ progressStates' = [progressStates EXCEPT ![t] = SentNow]
    BY DEF ProgressTimerFires, SentPending
  <1>3. progressStates[t].open
    BY <1>1 DEF IsToldOf, NoProgressState
  <1>4. /\ tasks[t].status = "pending" /\ tasks[t].parent = NoTask
        /\ waited = Cardinality(tasks[t].completedSubtasks)
    BY <1>1, <1>3 DEF IsToldOf
  <1>5. old \in Told /\ waited \in Nat
    BY <1>1
  <1> HIDE DEF waited, old
  <1>6. said \in Told /\ said.count = waited /\ said.final = old.final /\ said.users = old.users
    BY <1>1, <1>5 DEF Told
  <1> HIDE DEF said
  <1>7. SentNow \in ProgressState /\ SentNow.open /\ SentNow.pendingRequest = 0
    BY <1>1 DEF SentNow, ProgressState
  <1>8. UpdatesTyped'
    BY <1>1, <1>2, <1>6, <1>7 DEF UpdatesTyped
  <1>9. IsToldOf(tasks[t], SentNow, said, joinedLate[t], now)
    BY <1>1, <1>4, <1>6, <1>7 DEF IsToldOf, Finished, old
  <1>10. \A x \in TaskIds : x > created' => told'[x] = ToldNothing /\ joinedLate'[x] = {}
    <2>1. ~(t > created)
      BY <1>4 DEF UpdatesInv, TasksInv, RegistryInv, TreeInv, AbsentTask
    <2>2. QED
      BY <1>1, <1>2, <2>1 DEF UpdatesInv, ToldInv, UpdatesTyped
  <1>11. \A x \in TaskIds : IsToldOf(tasks'[x], progressStates'[x], told'[x], joinedLate'[x], now')
    <2> TAKE x \in TaskIds
    <2>1. CASE x = t
      BY <1>1, <1>2, <1>9, <2>1 DEF UpdatesTyped
    <2>2. CASE x # t
      BY <1>1, <1>2, <2>2 DEF UpdatesTyped, UpdatesInv, ToldInv
    <2>3. QED
      BY <2>1, <2>2
  <1>12. QED
    BY <1>8, <1>10, <1>11 DEF ToldInv

\* To the registry a step of the composition is a step of its own or none.
LEMMA UpdatesAreSteps == [NextUpdate]_updateVars => [Next]_vars
  BY DEF NextUpdate, Notified, ProgressTimerFires, updateVars, vars

LEMMA NextUpdatesInv == UpdatesInv /\ [NextUpdate]_updateVars => UpdatesInv'
  <1> SUFFICES ASSUME UpdatesInv, [NextUpdate]_updateVars PROVE UpdatesInv'
    OBVIOUS
  <1>1. TasksInv'
    BY UpdatesAreSteps, NextTasksInv DEF UpdatesInv
  <1>2. CASE Notified(Next /\ (now' = now \/ \A t \in TaskIds : ~IsDue(t)))
    BY <1>1, <1>2, NotifiedKeepsTold DEF Notified, UpdatesInv
  <1>3. ASSUME NEW t \in TaskIds, ProgressTimerFires(t) PROVE UpdatesInv'
    BY <1>1, <1>3, TimerKeepsTold DEF UpdatesInv
  <1>4. CASE UNCHANGED updateVars
    BY <1>1, <1>4 DEF UpdatesInv, ToldInv, UpdatesTyped, updateVars, vars, registry
  <1>5. QED
    BY <1>2, <1>3, <1>4 DEF NextUpdate

-----------------------------------------------------------------------------
(* What the notifier promises.                                             *)

\* The notifier only looks: the composition implements the runtime, so whatever is
\* proved of every behaviour of the runtime holds with the notifier beside it.
THEOREM UpdatesImplementTasks == SpecUpdates => Spec
  <1>1. InitUpdates => Init
    BY DEF InitUpdates
  <1>2. QED
    BY <1>1, UpdatesAreSteps, PTL DEF SpecUpdates, Spec

\* In every reachable state of the runtime and its notifier both are in order.
THEOREM UpdatesSafe == SpecUpdates => []UpdatesInv
  BY InitUpdatesInv, NextUpdatesInv, PTL DEF SpecUpdates

\* Everyone who can look a finished task up was sent how it ended or asked when it was
\* over, for any number of users and any order of requests and ends, those included that
\* the cleanup pass of a request brings about; and no pending task was announced
\* (sendTaskCompletedNotification).
THEOREM FinalAlwaysTrue == SpecUpdates => []FinalIsTrue
  <1>1. UpdatesInv => FinalIsTrue
    BY DEF UpdatesInv, ToldInv, IsToldOf, FinalIsTrue
  <1>2. QED
    BY <1>1, UpdatesSafe, PTL

\* Users of a pending task know its present count, or are sent it within the throttle
\* interval (sendThrottledProgressNotification).
THEOREM ProgressAlwaysCatchesUp == SpecUpdates => []ProgressCatchesUp
  <1>1. UpdatesInv => ProgressCatchesUp
    BY DEF UpdatesInv, ToldInv, IsToldOf, ProgressCatchesUp, Handled
  <1>2. QED
    BY <1>1, UpdatesSafe, PTL

\* Nothing of a task stays with the notifier once the task is over
\* (clearPendingProgressNotification).
THEOREM NotifierAlwaysForgets == SpecUpdates => []NotifierForgets
  <1>1. UpdatesInv => NotifierForgets
    BY DEF UpdatesInv, ToldInv, IsToldOf, NotifierForgets
  <1>2. QED
    BY <1>1, UpdatesSafe, PTL

\* Nothing is sent about a task after its final message, not by a timer that was
\* already running either.
THEOREM NothingAfterTheFinal == SpecUpdates => FinalIsTheLastWord
  <1>1. ASSUME UpdatesInv, TasksInv', [NextUpdate]_updateVars, NEW t \in TaskIds, told[t].final # "absent"
        PROVE  told'[t] = told[t]
    <2>1. /\ TasksInv /\ UpdatesTyped /\ [Next]_vars /\ TypeInv
          /\ tasks[t].status \in Statuses /\ CourseTo(tasks', t)
          /\ Handled(t) \in Nat
      BY <1>1, UpdatesAreSteps, NextCourse, CountsGrow
      DEF UpdatesInv, ToldInv, TasksInv, QueueInv, TypeInv, TypeOK, Task
    <2>2. tasks[t].status # "pending" /\ ~(t > created) /\ ~progressStates[t].open
      BY <1>1 DEF UpdatesInv, ToldInv, IsToldOf, ToldNothing
    <2>3. CASE Notifies
      <3>1. ~IsAnnounced(t) /\ ReportedCount(t) = Handled(t)
        BY <2>1, <2>2, CountsGrow, <1>1 DEF IsAnnounced, Finished, CourseTo, Statuses
      <3>2. QED
        BY <1>1, <2>1, <2>3, <3>1, NotifyOf, ReportOf
    <2>4. ASSUME NEW x \in TaskIds, ProgressTimerFires(x) PROVE told'[t] = told[t]
      <3>1. progressStates[t].pendingRequest = 0
        BY <1>1, <2>2 DEF UpdatesInv, ToldInv, IsToldOf, NoProgressState
      <3>2. x # t
        BY <2>4, <3>1 DEF ProgressTimerFires, IsDue
      <3>3. QED
        BY <2>1, <2>4, <3>2 DEF ProgressTimerFires, UpdatesTyped
    <2>5. QED
      BY <1>1, <2>3, <2>4 DEF NextUpdate, Notified, updateVars
  <1>2. UpdatesInv /\ UpdatesInv' /\ [NextUpdate]_updateVars =>
          [\A t \in TaskIds : told[t].final # "absent" => told'[t] = told[t]]_updateVars
    BY <1>1 DEF UpdatesInv
  <1>3. QED
    BY <1>2, UpdatesSafe, PTL DEF SpecUpdates, FinalIsTheLastWord
=============================================================================
