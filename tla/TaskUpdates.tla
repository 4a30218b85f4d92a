---------------------------- MODULE TaskUpdates ----------------------------
(***************************************************************************)
(* What users are told of their tasks (src/src/services/tasks/             *)
(* taskCompletionNotifier.ts), composed with the task runtime: each        *)
(* subtask that is over reports progress on its parent, at most one        *)
(* message per throttle interval with the latest count in the last one,    *)
(* and a task that is over is announced once, to all who asked for it.     *)
(* Subtasks are not announced themselves (notifyOnCompletion is FALSE).    *)
(*                                                                         *)
(* A message counts as sent when it is handed to the push delivery, which  *)
(* works on messages in parallel and does not keep their order.            *)
(***************************************************************************)
EXTENDS TaskRuntime

CONSTANT ProgressThrottle   \* progressNotificationThrottleMs, in clock ticks

ASSUME ThrottleAssumption == ProgressThrottle \in Nat \ {0}

VARIABLES
    progressStates,   \* progressNotificationStateByTaskId; open = FALSE where it has no entry
    told,             \* history: what was sent about each task
    joinedLate        \* history: who came to share each task when it was over

updateVars == <<vars, progressStates, told, joinedLate>>

\* pendingRequest is the count it reports, 0 for none; its timer runs as long as it is there.
ProgressState == [open : BOOLEAN, lastSentAt : Nat, pendingRequest : Nat]
NoProgressState == [open |-> FALSE, lastSentAt |-> 0, pendingRequest |-> 0]

\* The highest count that was sent and when; the final message and its receivers.
Told == [count : Nat, at : Nat, final : Statuses, users : SUBSET Users]
ToldNothing == [count |-> 0, at |-> 0, final |-> "absent", users |-> {}]

InitUpdates ==
    /\ Init
    /\ progressStates = [t \in TaskIds |-> NoProgressState]
    /\ told = [t \in TaskIds |-> ToldNothing]
    /\ joinedLate = [t \in TaskIds |-> {}]

-----------------------------------------------------------------------------
(* sendThrottledProgressNotification, for all subtasks of t that are over  *)
(* with the present step, one after the other: the first of them may be    *)
(* sent, the others are then too early and only the last one is kept.      *)

Handled(t) == Cardinality(tasks[t].completedSubtasks)

Elapsed(t) ==
    ~progressStates[t].open \/ now - progressStates[t].lastSentAt >= ProgressThrottle

SentNow == [open |-> TRUE, lastSentAt |-> now, pendingRequest |-> 0]

\* FAULTY: the request that waits is not replaced.
CoalescedFirst(state, count) ==
    IF state.pendingRequest # 0 THEN state ELSE [state EXCEPT !.pendingRequest = count]

Coalesced(state, count) == [state EXCEPT !.pendingRequest = count]

ProgressStateAfter(t, count) ==
    IF count = Handled(t) THEN progressStates[t]
    ELSE IF ~Elapsed(t) THEN Coalesced(progressStates[t], count)
    ELSE IF count = Handled(t) + 1 THEN SentNow
    ELSE Coalesced(SentNow, count)

ToldAfter(t, count) ==
    IF count # Handled(t) /\ Elapsed(t)
    THEN [told[t] EXCEPT !.count = Handled(t) + 1, !.at = now]
    ELSE told[t]

-----------------------------------------------------------------------------
(* sendTaskCompletedNotification.                                          *)

\* FAULTY: the pending progress is not cleared.
StateAfterFinalKept(state) == state

\* FAULTY: the timer is cleared and the entry stays.
StateAfterFinalOpen(state) == [state EXCEPT !.pendingRequest = 0]

StateAfterFinal(state) == NoProgressState

\* The step ends a task that is announced.
IsAnnounced(t) ==
    /\ ~Finished(tasks[t]) /\ Finished(tasks'[t])
    /\ tasks'[t].parent = NoTask

\* FAULTY: only the user the task is logged for, task.userIds[0], is told.
ReceiversFirst(t) ==
    IF t > created THEN tasks'[t].users ELSE {CHOOSE u \in tasks[t].users : TRUE}

\* task.userIds as the step ends the task: a request whose own cleanup pass ends
\* it links its user afterwards.
Receivers(t) == IF t > created THEN tasks'[t].users ELSE tasks[t].users

\* The request of this step was answered with a task that was over by then.
JoinsLate(t) ==
    IF t <= created /\ Finished(tasks'[t]) THEN tasks'[t].users \ tasks[t].users ELSE {}

\* Progress is reported before the task is announced.
Notifies ==
    LET count(t) == IF tasks'[t].status = "absent" THEN Handled(t)
                    ELSE Cardinality(tasks'[t].completedSubtasks)
    IN  /\ progressStates' = [t \in TaskIds |->
              IF IsAnnounced(t) THEN StateAfterFinal(ProgressStateAfter(t, count(t)))
              ELSE ProgressStateAfter(t, count(t))]
        /\ told' = [t \in TaskIds |->
              IF IsAnnounced(t)
              THEN [ToldAfter(t, count(t)) EXCEPT !.final = tasks'[t].status,
                                                  !.users = Receivers(t)]
              ELSE ToldAfter(t, count(t))]
        /\ joinedLate' = [t \in TaskIds |-> joinedLate[t] \cup JoinsLate(t)]

IsDue(t) == progressStates[t].pendingRequest # 0 /\ Elapsed(t)

\* What sendPendingProgressNotification leaves.
SentPending(state) == SentNow

\* sendPendingProgressNotification, when its timer fires.
ProgressTimerFires(t) ==
    /\ IsDue(t)
    /\ told' = [told EXCEPT ![t].count = progressStates[t].pendingRequest, ![t].at = now]
    /\ progressStates' = [progressStates EXCEPT ![t] = SentPending(@)]
    /\ UNCHANGED <<vars, joinedLate>>

\* The clock does not pass a due timer.
Notified(step) == step /\ Notifies

NextUpdate ==
    \/ Notified(Next /\ (now' = now \/ \A t \in TaskIds : ~IsDue(t)))
    \/ \E t \in TaskIds : ProgressTimerFires(t)

SpecUpdates == InitUpdates /\ [][NextUpdate]_updateVars

\* As in TaskRuntime, and the timers of the notifier fire.
FairnessUpdates ==
    /\ WF_updateVars(Notified(\E j \in running : PageTimesOut(j)))
    /\ WF_updateVars(Notified(ReleaseSlot))
    /\ WF_updateVars(Notified(CleanupExpiredTasks))
    /\ WF_updateVars(Notified(Tick /\ \A t \in TaskIds : ~IsDue(t)))
    /\ WF_updateVars(\E t \in TaskIds : ProgressTimerFires(t))

FairSpecUpdates == SpecUpdates /\ FairnessUpdates

-----------------------------------------------------------------------------
(* Properties.                                                             *)

\* Every task that somebody asked for ends with one final message that says what
\* the registry says, and nothing follows it: no progress timer survives the end
\* of its task (clearPendingProgressNotification).
FinalIsTheLastWord ==
    [][\A t \in TaskIds : told[t].final # "absent" => told'[t] = told[t]]_updateVars

\* Everyone who can look a finished task up was sent the final message that says
\* what the registry says, or was handed the task by a request that came when it
\* was over, never both; and no task that is still pending was announced.
FinalIsTrue ==
    \A t \in TaskIds :
        /\ tasks[t].status = "pending" => told[t].final = "absent"
        /\ Finished(tasks[t]) /\ tasks[t].parent = NoTask =>
              /\ told[t].final = tasks[t].status
              /\ told[t].users = tasks[t].users \ joinedLate[t]

\* While a task is pending its users either know the present count of subtasks, or
\* exactly that count waits for a timer that is due within the interval.
ProgressCatchesUp ==
    \A t \in TaskIds :
        tasks[t].status = "pending" /\ told[t].count # Handled(t) =>
            /\ progressStates[t].pendingRequest = Handled(t)
            /\ now - progressStates[t].lastSentAt <= ProgressThrottle

\* The notifier keeps state only of tasks that are pending: whatever their end,
\* nothing of them stays in its map.
NotifierForgets ==
    \A t \in TaskIds : progressStates[t].open => tasks[t].status = "pending"

=============================================================================
