----------------------------- MODULE TaskProofs -----------------------------
(***************************************************************************)
(* What Task promises, proved for every number of wakers and every client. *)
(* The two inductive invariants and the steps that preserve them are those *)
(* of TaskStepsProofs and AwaitProofs; here they become theorems of the    *)
(* specification of one task.                                              *)
(***************************************************************************)
EXTENDS Task, AwaitProofs

(* The invariant of any task, and that of a task before any cancel *)
TaskInv  == task \in TaskRecord /\ IInv(task)
AwaitInv == task \in TaskRecord /\ AInv(task)

LEMMA NextIsStep == Next <=> Step(task, task')
BY DEF Next, Step

-----------------------------------------------------------------------------
(* Safety *)

(***************************************************************************)
(* The state that a wake asks for, an await waits for and a count protects *)
(* is consistent in every reachable state: the inductive invariant.        *)
(***************************************************************************)
THEOREM Invariance == Spec => []TaskInv
<1>1. Init => TaskInv
  BY InitIInv DEF Init, TaskInv
<1>2. TaskInv /\ [Next]_vars => TaskInv'
  BY NextIsStep, StepKeepsIInv DEF TaskInv, vars
<1> QED  BY <1>1, <1>2, PTL DEF Spec

(* Every variable keeps its type; in particular the count never goes below 0. *)
THEOREM TypeCorrect == Spec => []TypeOK
<1>1. TaskInv => TypeOK
  BY DEF TaskInv, TypeOK
<1> QED  BY <1>1, Invariance, PTL

(***************************************************************************)
(* destroy runs only when no handle, waker, queued Task or running         *)
(* executor still points to the task, for every order of clones, drops,    *)
(* wakes, cancels, panics and runs.                                        *)
(***************************************************************************)
THEOREM MemorySafe == Spec => []NoUseAfterFree
<1>1. TaskInv => NoUseAfterFree
  BY DEF TaskInv, IInv, Refs, NoUseAfterFree
<1> QED  BY <1>1, Invariance, PTL

(* run never polls a future that was dropped, although a task may be queued twice. *)
THEOREM PolledAlive == Spec => []NeverPollDropped
<1>1. TaskInv => NeverPollDropped
  BY DEF TaskInv, IInv, Future, NeverPollDropped
<1> QED  BY <1>1, Invariance, PTL

(* The output slot is full exactly while the state word lets somebody read it. *)
THEOREM OutputConsistent == Spec => []OutputOwned
<1>1. TaskInv => OutputOwned
  BY DEF TaskInv, IInv, Owns, OutputOwned
<1> QED  BY <1>1, Invariance, PTL

(* Between a wake and the next poll there is always a Task that will poll. *)
THEOREM WakesKept == Spec => []NoLostWakeup
<1>1. TaskInv => NoLostWakeup
  BY DEF TaskInv, IInv, Wakes, NoLostWakeup
<1> QED  BY <1>1, Invariance, PTL

(* A waiting awaiter always has a completion or a notification ahead of it. *)
THEOREM AwaiterServed == Spec => []AwaiterNotStranded
<1>1. TaskInv => AwaiterNotStranded
  BY DEF TaskInv, IInv, Serves, AwaiterNotStranded
<1> QED  BY <1>1, Invariance, PTL

(* Where the four assertions of AssertionsHold stand, and what they need. *)
LEMMA DebugTransitions ==
  ASSUME NEW s \in Word
  PROVE  /\ ~need_start(s) => Debug!transition_to_running(s).action # "assert_started"
         /\ is_running(s) => Debug!transition_to_idle(s).action # "assert_running"
         /\ idle(s) \/ (~is_completed(s) /\ ~need_start(s))
              => Debug!poll_join_handle(s).action # "assert_waiting"
         /\ idle(s) => Debug!drop_join_handle(s).action # "assert_output_idle"
         /\ ~is_completed(s) => Debug!drop_join_handle(s).action # "assert_output_idle"
         /\ idle(s) \/ s.refs # 1 => Debug!drop_join_handle(s).action # "assert_last_idle"
<1>1. ~need_start(s) => Debug!transition_to_running(s).action # "assert_started"
  BY DEF Debug!transition_to_running, Debug!Assert, Debug!Then, Debug!need_start, need_start,
         Debug!NEED_START, NEED_START
<1>2. is_running(s) => Debug!transition_to_idle(s).action # "assert_running"
  BY DEF Debug!transition_to_idle, Debug!Assert, Debug!Then, Debug!is_running, is_running,
         Debug!RUNNING, RUNNING
<1>3. idle(s) \/ (~is_completed(s) /\ ~need_start(s))
        => Debug!poll_join_handle(s).action # "assert_waiting"
  BY DEF Debug!poll_join_handle, Debug!Assert, Debug!Then, idle,
         Debug!is_running, Debug!is_completed, Debug!is_closed, Debug!is_scheduled,
         Debug!need_start,
         Debug!RUNNING, Debug!COMPLETED, Debug!CLOSED, Debug!SCHEDULED, Debug!NEED_START,
         is_running, is_completed, is_scheduled, need_start,
         RUNNING, COMPLETED, SCHEDULED, NEED_START
<1>4. /\ idle(s) => Debug!drop_join_handle(s).action # "assert_output_idle"
      /\ ~is_completed(s) => Debug!drop_join_handle(s).action # "assert_output_idle"
      /\ idle(s) \/ s.refs # 1 => Debug!drop_join_handle(s).action # "assert_last_idle"
  BY DEF Debug!drop_join_handle, Debug!Assert, Debug!Then, Debug!decr_ref, idle, Word,
         Debug!is_running, Debug!is_completed, Debug!is_closed, Debug!is_scheduled,
         Debug!RUNNING, Debug!COMPLETED, Debug!CLOSED, Debug!SCHEDULED,
         is_running, is_completed, is_scheduled, RUNNING, COMPLETED, SCHEDULED
<1> QED  BY <1>1, <1>2, <1>3, <1>4

(* Four of the debug assertions of state.rs hold at every call that can come next. *)
THEOREM Assertions == Spec => []AssertionsHold
<1>1. ASSUME TaskInv
      PROVE  AssertionsHold
  <2> DEFINE v == task
             s == v.state
  <2>1. v \in TaskRecord /\ IInv(v)
    BY <1>1 DEF TaskInv
  <2>2. Counts(v) /\ s \in Word
    BY <2>1, Counted, StateWord DEF IInv
  <2> HIDE DEF v
  <2>3. v.phase = "idle" /\ v.runnables > 0 => ~need_start(s)
    BY <2>1 DEF IInv, Fresh
  <2>4. v.phase = "polling" => is_running(s)
    BY <2>1 DEF IInv, Phase
  <2>5. v.phase = "idle" => idle(s) \/ (~is_completed(s) /\ ~need_start(s))
    BY <2>1 DEF IInv, Fresh, Completed, Phase, idle
  <2>6. idle(s) \/ ~is_completed(s)
    BY <2>1 DEF IInv, Completed, Phase, idle
  <2>7. v.fault = "none" /\ v.handle = "held" => idle(s) \/ s.refs # 1
    <3> SUFFICES ASSUME v.fault = "none", v.handle = "held", s.refs = 1
                 PROVE  idle(s)
      OBVIOUS
    <3>1. v.runnables = 0 /\ v.phase = "idle"
      BY <2>1, <2>2 DEF Counts, Holders, IInv, Typed
    <3> QED  BY <2>1, <3>1 DEF IInv, Queued, Phase, idle, Typed
  <2> QED  BY <2>2, <2>3, <2>4, <2>5, <2>6, <2>7, DebugTransitions DEF AssertionsHold, v
<1> QED  BY <1>1, Invariance, PTL

(* A cancelled task that is not being polled is closed or has completed: no poll begins. *)
THEOREM CancelStopsPolls == Spec => CancelledNeverPolled
<1>1. ASSUME NEW v \in TaskRecord, NEW w, IInv(v), Step(v, w),
             v.cancelled, v.phase # "polling", w.phase = "polling"
      PROVE  FALSE
  <2>1. Run(v, w)
    <3>1. ~PollHandle(v, w) /\ ~Cancel(v, w) /\ ~DropHandle(v, w)
      BY ZenonT(60), <1>1 DEF PollHandle, Cancel, DropHandle, schedule, Push, TaskRecord
    <3>2. ~CloneWaker(v, w) /\ ~WakeByRef(v, w) /\ ~WakeByVal(v, w) /\ ~DropWaker(v, w)
      BY ZenonT(60), <1>1
         DEF CloneWaker, WakeByRef, WakeByVal, DropWaker, schedule, Push, TaskRecord
    <3>3. ~PollReady(v, w) /\ ~FinishReady(v, w) /\ ~PollPending(v, w) /\ ~PollPanic(v, w)
      BY <1>1 DEF PollReady, FinishReady, PollPending, PollPanic, drop_task_ref, TaskRecord
    <3>4. ~FinishDrop(v, w) /\ ~Shutdown(v, w) /\ ~DiscardTask(v, w) /\ ~FinishDiscard(v, w)
      BY <1>1 DEF FinishDrop, Shutdown, DiscardTask, FinishDiscard, drop_task_ref, TaskRecord
    <3> QED  BY <1>1, <3>1, <3>2, <3>3, <3>4 DEF Step
  <2>2. v.state \in Word /\ ~need_start(v.state) /\ v.runnables > 0
    BY <1>1, <2>1, StateWord DEF Run, IInv, Fresh
  <2>3. transition_to_running(v.state).action = IF is_closed(v.state) THEN "Closed" ELSE "Running"
    BY <2>2, RunningTransition
  <2>4. ~is_closed(v.state)
    BY <1>1, <2>1, <2>3 DEF Run, TaskRecord
  <2> QED  BY <1>1, <2>2, <2>4 DEF IInv, Cancelled, Completed
<1>2. TaskInv /\ [Next]_vars =>
        [task.cancelled /\ task.phase # "polling" => task.phase' # "polling"]_vars
  BY <1>1, NextIsStep DEF TaskInv
<1> QED  BY <1>2, Invariance, PTL DEF Spec, CancelledNeverPolled

(***************************************************************************)
(* An await of a started task gives None only when its future was dropped: *)
(* a closed task that nobody will run has been run already.                *)
(***************************************************************************)
THEOREM NoneMeansDropped == Spec => NoneAfterDrop
<1>1. ASSUME NEW v \in TaskRecord, NEW w, IInv(v), Step(v, w),
             v.result = "pending", w.result = "none", ~need_start(v.state)
      PROVE  v.drops > 0
  <2>1. PollHandle(v, w)
    BY <1>1 DEF Step, Cancel, DropHandle, CloneWaker, WakeByRef, WakeByVal, DropWaker, Run,
       PollReady, FinishReady, PollPending, PollPanic, FinishDrop, Shutdown, DiscardTask,
       FinishDiscard, schedule, Push, drop_task_ref, TaskRecord
  <2>2. v.handle = "held" /\ poll_join_handle(v.state).action = "CompleteNone"
    BY <1>1, <2>1 DEF PollHandle, schedule, Push, TaskRecord
  <2>3. is_closed(v.state) /\ ~is_scheduled(v.state) /\ ~is_running(v.state)
    BY <1>1, <2>2, StateWord, PollHandleTransition DEF IInv
  <2> QED  BY <1>1, <2>2, <2>3 DEF IInv, Future
<1>2. TaskInv /\ [Next]_vars =>
        [task.result = "pending" /\ task.result' = "none" /\ ~need_start(task.state)
           => task.drops > 0]_vars
  BY <1>1, NextIsStep DEF TaskInv
<1> QED  BY <1>2, Invariance, PTL DEF Spec, NoneAfterDrop

-----------------------------------------------------------------------------
(* Refinement of the contract *)

future == IF task.drops > 0 THEN "dropped"
          ELSE IF task.phase = "polling" THEN "polled" ELSE "waiting"

(* A step that leaves future, output and result alone is a stutter of the contract. *)
LEMMA ContractStutter ==
  ASSUME UNCHANGED <<future, task.output, task.result>>
  PROVE  UNCHANGED Contract!contract
BY DEF Contract!contract, future

(* The calls of the JoinHandle are steps of the contract or stutters. *)
LEMMA HandleKeepsContract ==
  ASSUME TaskInv, PollHandle(task, task') \/ Cancel(task, task') \/ DropHandle(task, task')
  PROVE  [Contract!Next]_(Contract!contract)
<1>c. Counts(task)
  BY Counted DEF TaskInv
<1>1. CASE PollHandle(task, task')
  <2>1. UNCHANGED future
    BY <1>1 DEF PollHandle, schedule, Push, future, TaskRecord, TaskInv
  <2>2. CASE UNCHANGED <<task.output, task.result>>
    BY <2>1, <2>2, ContractStutter
  <2>3. CASE poll_join_handle(task.state).action = "CompleteNone"
    <3>1. task.output # "stored"
      BY <2>3, <1>c, PollHandleTransition DEF Counts, TaskInv, IInv, Owns
    <3>2. task.result = "pending" /\ task.result' = "none" /\ task.output' = task.output
      BY <1>1, <2>3 DEF PollHandle, schedule, Push, Panics, TaskRecord, TaskInv
    <3>3. Contract!AnswerNone
      BY <2>1, <3>1, <3>2 DEF Contract!AnswerNone, future
    <3> QED  BY <3>3 DEF Contract!Next
  <2>4. CASE poll_join_handle(task.state).action = "CompleteSome"
    <3>1. task.output = "stored"
      BY <2>4, <1>c, PollHandleTransition DEF Counts, TaskInv, IInv, Owns
    <3>2. task.result = "pending" /\ task.result' = "some" /\ task.output' = "moved"
      BY <1>1, <2>4 DEF PollHandle, schedule, Push, Panics, TaskRecord, TaskInv
    <3>3. Contract!TakeOutput
      BY <2>1, <3>1, <3>2 DEF Contract!TakeOutput, future
    <3> QED  BY <3>3 DEF Contract!Next
  <2> QED  BY <1>1, <2>2, <2>3, <2>4 DEF PollHandle, schedule, Push, TaskRecord, TaskInv
<1>2. CASE Cancel(task, task')
  BY <1>2, ContractStutter DEF Cancel, schedule, Push, future, TaskRecord, TaskInv
<1>3. CASE DropHandle(task, task')
  <2>1. UNCHANGED <<future, task.result>>
    BY ZenonT(60), <1>3 DEF DropHandle, schedule, Push, future, TaskRecord, TaskInv
  <2>2. CASE UNCHANGED task.output
    BY <2>1, <2>2, ContractStutter
  <2>3. CASE task.output' # task.output
    <3>1. /\ drop_join_handle(task.state).action \in {"DropOutput", "DropOutputDestroy"}
          /\ task.output' = "moved"
      BY <1>3, <2>3 DEF DropHandle, schedule, Push, TaskRecord, TaskInv
    <3>2. kept(task.state)
      BY <3>1, <1>c, DropHandleTransition DEF Counts, Destroyed, OutputDropped, QueuedOnce,
         Detached, Panicked
    <3>3. task.output = "stored"
      BY <3>2 DEF TaskInv, IInv, Owns, kept
    <3>4. Contract!DropOutput
      BY <2>1, <3>1, <3>3 DEF Contract!DropOutput, future
    <3> QED  BY <3>4 DEF Contract!Next
  <2> QED  BY <2>2, <2>3
<1> QED  BY <1>1, <1>2, <1>3

(* So are the steps of a run. *)
LEMMA RunKeepsContract ==
  ASSUME TaskInv,
         \/ Run(task, task') \/ PollReady(task, task') \/ FinishReady(task, task')
         \/ PollPending(task, task') \/ PollPanic(task, task') \/ FinishDrop(task, task')
  PROVE  [Contract!Next]_(Contract!contract)
<1>c. Counts(task)
  BY Counted DEF TaskInv
<1>1. task.drops \in Nat
  BY DEF TaskInv, IInv, Typed
<1>2. CASE Run(task, task')
  <2>1. UNCHANGED <<task.output, task.result>> /\ task.phase = "idle" /\ task.runnables > 0
    BY <1>2 DEF Run, TaskRecord, TaskInv
  <2>2. task.state \in Word /\ ~need_start(task.state) /\ ~is_completed(task.state)
    BY <2>1, <1>c DEF Counts, TaskInv, IInv, Fresh, Completed
  <2>3. transition_to_running(task.state).action =
          IF is_closed(task.state) THEN "Closed" ELSE "Running"
    BY <2>2, RunningTransition
  <2>4. CASE is_closed(task.state)
    <3>1. task.drops' = task.drops + 1
      BY <1>2, <2>3, <2>4 DEF Run, TaskRecord, TaskInv
    <3>2. Contract!Discard
      BY <1>1, <2>1, <3>1 DEF Contract!Discard
    <3> QED  BY <3>2 DEF Contract!Next
  <2>5. CASE ~is_closed(task.state)
    <3>1. task.drops' = task.drops /\ task.phase' = "polling"
      BY <1>2, <2>3, <2>5 DEF Run, Panics, TaskRecord, TaskInv
    <3>2. task.drops = 0
      BY <1>1, <2>1, <2>2, <2>5 DEF TaskInv, IInv, Future
    <3>3. Contract!Poll
      BY <2>1, <3>1, <3>2 DEF Contract!Poll
    <3> QED  BY <3>3 DEF Contract!Next
  <2> QED  BY <2>4, <2>5
<1>3. CASE PollReady(task, task') \/ PollPanic(task, task')
  <2>1. task.drops' = task.drops + 1 /\ UNCHANGED <<task.output, task.result>>
    BY <1>3 DEF PollReady, PollPanic, TaskRecord, TaskInv
  <2>2. Contract!Discard
    BY <1>1, <2>1 DEF Contract!Discard
  <2> QED  BY <2>2 DEF Contract!Next
<1>4. CASE FinishReady(task, task')
  <2>1. /\ task.phase = "completing" /\ UNCHANGED <<task.drops, task.result>>
        /\ task.output' \in {"stored", "moved"}
    BY <1>4 DEF FinishReady, drop_task_ref, TaskRecord, TaskInv
  <2>2. task.drops > 0 /\ task.output = "none"
    BY <2>1 DEF TaskInv, IInv, Future, Completed, Output
  <2>3. Contract!Complete
    BY <2>1, <2>2 DEF Contract!Complete
  <2> QED  BY <2>3 DEF Contract!Next
<1>5. CASE PollPending(task, task')
  <2>1. task.phase = "polling" /\ task.drops = 0 /\ UNCHANGED <<task.output, task.result>>
    BY <1>5 DEF PollPending, drop_task_ref, TaskInv, IInv, Future, TaskRecord
  <2>2. CASE transition_to_idle(task.state).action = "Closed"
    <3>1. task.drops' = task.drops + 1
      BY <1>5, <2>2 DEF PollPending, drop_task_ref, TaskRecord, TaskInv
    <3>2. Contract!Discard
      BY <1>1, <2>1, <3>1 DEF Contract!Discard
    <3> QED  BY <3>2 DEF Contract!Next
  <2>3. CASE transition_to_idle(task.state).action # "Closed"
    <3>1. task.drops' = task.drops /\ task.phase' = "idle"
      BY <1>5, <2>3 DEF PollPending, drop_task_ref, TaskRecord, TaskInv
    <3>2. Contract!Suspend
      BY <2>1, <3>1 DEF Contract!Suspend
    <3> QED  BY <3>2 DEF Contract!Next
  <2> QED  BY <2>2, <2>3
<1>6. CASE FinishDrop(task, task')
  <2>1. /\ task.phase = "dropping" /\ task.phase' = "idle"
        /\ UNCHANGED <<task.drops, task.output, task.result>>
    BY <1>6 DEF FinishDrop, drop_task_ref, TaskRecord, TaskInv
  <2> QED  BY <2>1, ContractStutter DEF future
<1> QED  BY <1>2, <1>3, <1>4, <1>5, <1>6

(* And so are those of wakers and of the executor that goes away. *)
LEMMA OthersKeepContract ==
  ASSUME TaskInv,
         \/ CloneWaker(task, task') \/ WakeByRef(task, task') \/ WakeByVal(task, task')
         \/ DropWaker(task, task') \/ Shutdown(task, task') \/ DiscardTask(task, task')
         \/ FinishDiscard(task, task') \/ UNCHANGED vars
  PROVE  [Contract!Next]_(Contract!contract)
<1>1. CASE DiscardTask(task, task')
  <2>1. task.drops \in Nat /\ task.drops' = task.drops + 1 /\ UNCHANGED <<task.output, task.result>>
    BY <1>1 DEF DiscardTask, TaskInv, IInv, Typed, TaskRecord
  <2>2. Contract!Discard
    BY <2>1 DEF Contract!Discard
  <2> QED  BY <2>2 DEF Contract!Next
<1>2. CASE FinishDiscard(task, task')
  <2>1. /\ task.phase = "discarding" /\ task.phase' = "idle"
        /\ UNCHANGED <<task.drops, task.output, task.result>>
    BY <1>2 DEF FinishDiscard, TaskRecord, TaskInv
  <2> QED  BY <2>1, ContractStutter DEF future
<1>3. CASE \/ CloneWaker(task, task') \/ WakeByRef(task, task') \/ WakeByVal(task, task')
           \/ DropWaker(task, task') \/ Shutdown(task, task') \/ UNCHANGED vars
  <2>1. UNCHANGED <<task.drops, task.phase, task.output, task.result>>
    BY <1>3 DEF CloneWaker, WakeByRef, WakeByVal, schedule, Push, DropWaker, Shutdown, vars,
        TaskRecord, TaskInv
  <2> QED  BY <2>1, ContractStutter DEF future
<1> QED  BY <1>1, <1>2, <1>3

(***************************************************************************)
(* The task implements the contract of its awaiter: one poll at a time and *)
(* none after the drop of the future, one output, taken or dropped once,   *)
(* and one answer, in every interleaving of the clients.                   *)
(***************************************************************************)
THEOREM Refinement == Spec => KeepsContract
<1>1. Init => Contract!Init
  BY DEF Init, NewTask, Contract!Init
<1>2. TaskInv /\ [Next]_vars => [Contract!Next]_(Contract!contract)
  BY HandleKeepsContract, RunKeepsContract, OthersKeepContract DEF Next
<1> QED  BY <1>1, <1>2, Invariance, PTL DEF Spec, KeepsContract, Contract!Spec

-----------------------------------------------------------------------------
(* Who awaits, and does not cancel *)

(***************************************************************************)
(* A task that was not cancelled is queued or runs once at most and is     *)
(* dropped once at most; one that is only awaited is counted exactly.      *)
(***************************************************************************)
THEOREM AwaitInvariance == Spec => []AwaitInv
<1>1. Init => AwaitInv
  BY InitIInv, InitAInv DEF Init, AwaitInv
<1>2. AwaitInv /\ [Next]_vars => AwaitInv'
  BY NextIsStep, StepKeepsAInv DEF AwaitInv, vars
<1> QED  BY <1>1, <1>2, PTL DEF Spec

(* The properties of Task follow from it. *)
LEMMA Promises ==
  ASSUME AwaitInv
  PROVE  /\ ~DebugAssertions \/ "panic" \notin Client => NoFault
         /\ OneRunnable /\ FutureDroppedOnce /\ NoLeak
<1>c. task \in TaskRecord /\ AInv(task) /\ Counts(task)
  BY Counted DEF AwaitInv, AInv
<1>1. Holders(task) = 0 => task.handle = "dropped"
  BY <1>c DEF Counts, AInv, IInv, Typed, Holders
<1>2. FutureDroppedOnce
  BY <1>c DEF AInv, Once, Answered, FutureDroppedOnce, IInv, Typed
<1>3. NoLeak
  BY <1>1, <1>c DEF AInv, Awaited, Awaits, OnlyAwaited, Tended, HandleLast, NoLeak
<1>4. ~DebugAssertions \/ "panic" \notin Client => NoFault
  BY <1>c DEF AInv, Awaited, Awaits, OnlyAwaited, Harmless, NoFault
<1> QED  BY <1>2, <1>3, <1>4, <1>c DEF AInv, Once, Alone, OneRunnable

(***************************************************************************)
(* Who only awaits a task and then drops its handle meets no panic of      *)
(* join.rs or state.rs, unless a waker is alive at the drop.  The panic of *)
(* F::poll itself is let through only without debug assertions: with them  *)
(* the await that follows one fails.                                       *)
(***************************************************************************)
THEOREM AwaitNeverFaults ==
  ASSUME ~DebugAssertions \/ "panic" \notin Client
  PROVE  Spec => []NoFault
<1>1. AwaitInv => NoFault
  BY Promises
<1> QED  BY <1>1, AwaitInvariance, PTL

(* RawTask::schedule is never called for a task that is queued or runs, but by cancel. *)
THEOREM QueuedAtMostOnce == Spec => []OneRunnable
<1>1. AwaitInv => OneRunnable
  BY Promises
<1> QED  BY <1>1, AwaitInvariance, PTL

(***************************************************************************)
(* The runs and Task::drop drop the future of a task that was not          *)
(* cancelled once at most, and destroy frees it undropped only if the      *)
(* handle got no answer, or None after a cancel.                           *)
(***************************************************************************)
THEOREM DroppedOnce == Spec => []FutureDroppedOnce
<1>1. AwaitInv => FutureDroppedOnce
  BY Promises
<1> QED  BY <1>1, AwaitInvariance, PTL

(* The reference count of a task that is only awaited is exact, so its last holder destroys it. *)
THEOREM AwaitFrees == Spec => []NoLeak
<1>1. AwaitInv => NoLeak
  BY Promises
<1> QED  BY <1>1, AwaitInvariance, PTL

=============================================================================
