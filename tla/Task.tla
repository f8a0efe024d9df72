-------------------------------- MODULE Task --------------------------------
(***************************************************************************)
(* One task as a state machine: the operations of TaskSteps in any order   *)
(* that its clients and the executor may call them, and what a task        *)
(* promises them.                                                          *)
(***************************************************************************)
EXTENDS TaskSteps

VARIABLE task

vars == <<task>>

Init == task = NewTask

Next ==
  \/ PollHandle(task, task') \/ Cancel(task, task') \/ DropHandle(task, task')
  \/ CloneWaker(task, task') \/ WakeByRef(task, task') \/ WakeByVal(task, task')
  \/ DropWaker(task, task')
  \/ Run(task, task') \/ PollReady(task, task') \/ FinishReady(task, task')
  \/ PollPending(task, task') \/ PollPanic(task, task') \/ FinishDrop(task, task')
  \/ Shutdown(task, task') \/ DiscardTask(task, task') \/ FinishDiscard(task, task')

Spec == Init /\ [][Next]_vars

(***************************************************************************)
(* The executor keeps popping tasks, F::poll and F::drop return, and the   *)
(* awaiting task polls the handle again once its waker was taken and woken.*)
(* A panic of F::poll ends LocalExecutor::run, but it closes the task, and *)
(* the liveness properties ask for nothing more of a closed task, unless   *)
(* it was cancelled between two polls; then no poll follows that panics.   *)
(***************************************************************************)
Fairness ==
  /\ WF_vars(Run(task, task'))
  /\ WF_vars(PollReady(task, task') \/ PollPending(task, task'))
  /\ WF_vars(FinishReady(task, task'))
  /\ WF_vars(FinishDrop(task, task'))
  /\ WF_vars(~task.awaiter /\ PollHandle(task, task'))

FairSpec == Spec /\ Fairness

-----------------------------------------------------------------------------
TypeOK == task \in TaskRecord

(***************************************************************************)
(* The allocation is freed by destroy only when no handle, waker, queued   *)
(* Task or running executor still points to it (raw.rs, join.rs).          *)
(***************************************************************************)
NoUseAfterFree == task.memory = "freed" => Holders(task) = 0

(***************************************************************************)
(* run never polls a future that was already dropped in place, whatever    *)
(* mix of wakes, cancels, drops, panics and double queueing came before.   *)
(***************************************************************************)
NeverPollDropped == task.phase = "polling" => task.drops = 0

(***************************************************************************)
(* The output slot is full exactly while the state word says that somebody *)
(* may still read it, so poll and drop of the handle and run never read it *)
(* twice or before it was written, and no output is freed unread.          *)
(***************************************************************************)
OutputOwned ==
  /\ task.output = "stored" <=> is_completed(task.state) /\ ~is_closed(task.state)
  /\ task.memory = "freed" => task.output # "stored"

(***************************************************************************)
(* A wake is never lost: until the next poll begins, the task is queued or *)
(* the poll in progress will queue it again, unless it needs no poll.      *)
(***************************************************************************)
NoLostWakeup ==
  task.woken =>
    \/ is_completed(task.state) \/ is_closed(task.state)
    \/ task.runnables > 0 \/ task.fault # "none"
    \/ is_running(task.state) /\ is_scheduled(task.state)

(***************************************************************************)
(* A registered awaiter is not left behind: whenever it still waits, the   *)
(* future can still complete or a Task that is queued or running will      *)
(* reach the notify that follows the drop of the future.                   *)
(***************************************************************************)
AwaiterNotStranded ==
  task.awaiter =>
    \/ ~is_completed(task.state) /\ ~is_closed(task.state)
    \/ task.runnables > 0 \/ task.phase # "idle"
    \/ task.handle = "dropped" \/ task.fault # "none"

(***************************************************************************)
(* After JoinHandle::cancel no poll of the future begins.                  *)
(***************************************************************************)
CancelledNeverPolled ==
  [][task.cancelled /\ task.phase # "polling" => task.phase' # "polling"]_vars

(***************************************************************************)
(* Awaiting the handle of a started task gives None only after the future  *)
(* was dropped.                                                            *)
(***************************************************************************)
NoneAfterDrop ==
  [][task.result = "pending" /\ task.result' = "none" /\ ~need_start(task.state)
       => task.drops > 0]_vars

(***************************************************************************)
(* Of the debug assertions of state.rs, these never fail, in whatever call *)
(* comes next: a Task only runs once started, RUNNING survives F::poll,    *)
(* COMPLETED excludes the other bits, a task that is waited for has not    *)
(* completed, and the last reference is never that of a queued task.       *)
(***************************************************************************)
Debug == INSTANCE TaskState WITH DebugAssertions <- TRUE

AssertionsHold ==
  task.fault = "none" =>
    /\ task.phase = "idle" /\ task.runnables > 0 =>
         Debug!transition_to_running(task.state).action # "assert_started"
    /\ task.phase = "polling" =>
         Debug!transition_to_idle(task.state).action # "assert_running"
    /\ task.handle = "held" /\ task.result = "pending" /\ task.phase = "idle" =>
         Debug!poll_join_handle(task.state).action # "assert_waiting"
    /\ task.handle = "held" =>
         Debug!drop_join_handle(task.state).action \notin {"assert_output_idle", "assert_last_idle"}

(* The task keeps the contract of the awaiter, whatever the clients do. *)
Contract == INSTANCE JoinContract WITH
  future <- IF task.drops > 0 THEN "dropped"
            ELSE IF task.phase = "polling" THEN "polled" ELSE "waiting",
  value  <- task.output,
  answer <- task.result

KeepsContract == Contract!Spec

(* Nobody did more to the task than await it to its answer, panics aside. *)
OnlyAwaited ==
  /\ ~task.cancelled /\ task.executor = "up"
  /\ task.handle = "dropped" => task.result # "pending"

(***************************************************************************)
(* Who only awaits a task meets no panic, except that of a handle that is  *)
(* dropped while a Waker clone is alive.                                   *)
(***************************************************************************)
NoFault ==
  OnlyAwaited /\ task.fault # "none" => task.handle = "dropped" /\ task.wakers > 0

(***************************************************************************)
(* A task that was not cancelled has one Task at most, queued or running,  *)
(* however it is woken, dropped or shut down.                              *)
(***************************************************************************)
OneRunnable ==
  ~task.cancelled => task.runnables + (IF task.phase = "idle" THEN 0 ELSE 1) <= 1

(***************************************************************************)
(* Nor is its future dropped twice.  The memory is freed with a future in  *)
(* it only if the handle went without an answer, or with the None of a     *)
(* task that was cancelled before it was started.                          *)
(***************************************************************************)
FutureDroppedOnce ==
  /\ ~task.cancelled => task.drops <= 1
  /\ task.memory = "freed" /\ task.drops = 0 =>
       task.result = "pending" \/ (task.cancelled /\ task.result = "none")

(***************************************************************************)
(* While the task is only awaited, the count is the number of holders, so  *)
(* the last of them frees the memory.                                      *)
(***************************************************************************)
NoLeak ==
  OnlyAwaited /\ task.fault = "none" =>
    /\ task.memory = "live" => task.state.refs = Holders(task)
    /\ Holders(task) = 0 => task.memory = "freed"

(* The program panicked or its executor is gone: nothing more has to happen. *)
Ended == task.fault # "none" \/ task.executor = "down"

(* A woken task is polled again, unless it completed or closed meanwhile. *)
WokenIsPolled ==
  task.woken ~> (~task.woken \/ is_completed(task.state) \/ is_closed(task.state) \/ Ended)

(***************************************************************************)
(* A task that finished, or was cancelled while it was not being polled,   *)
(* resolves the handle that awaits it.                                     *)
(***************************************************************************)
Over == is_completed(task.state) \/ (task.cancelled /\ task.phase = "idle" /\ task.drops = 0)

FinishedResolves == Over ~> (task.result # "pending" \/ task.handle = "dropped" \/ Ended)

-----------------------------------------------------------------------------
(* What the crate says of itself and the code does not keep *)

(***************************************************************************)
(* "When the JoinHandle is dropped, the task is cancelled" (state.rs) and  *)
(* a cancelled task's "future will not be polled again" (task_impl.rs):    *)
(* no poll begins once the handle is dropped.                              *)
(***************************************************************************)
DroppedNeverPolled ==
  [][task.handle = "dropped" /\ task.phase # "polling" => task.phase' # "polling"]_vars

(***************************************************************************)
(* Task::cancel does not panic: a cancelled task that is awaited never     *)
(* meets the state that drop_join_handle calls unreachable, nor the one    *)
(* that a debug assertion of poll_join_handle excludes (state.rs).         *)
(***************************************************************************)
CancelNeverPanics == task.fault \notin {"unreachable", "assert_finished"}

(***************************************************************************)
(* "At any moment in time, there is at most one [`Task`] reference         *)
(* associated with a particular task" (task_impl.rs), not counting the one *)
(* that run consumed.                                                      *)
(***************************************************************************)
AtMostOneTask == task.runnables <= 1
=============================================================================
