------------------------------ MODULE TaskSteps ------------------------------
(***************************************************************************)
(* One heap-allocated task (src/src/task/raw.rs, join.rs, header.rs and    *)
(* task_impl.rs) and everybody who holds a pointer to it: the JoinHandle,  *)
(* the Waker clones, the Task references in the executor's queue and the   *)
(* executor that runs it.  Nothing here is atomic: the crate is single     *)
(* threaded and every operation runs to its end, except where it calls     *)
(* out to user code.  The calls out are F::poll and F::drop, so a run of   *)
(* the task is two or three steps and the handle's and the wakers'         *)
(* operations may happen, re-entrantly, between them.                      *)
(*                                                                         *)
(* A task is a record, and an operation is a relation between the task v   *)
(* before it and the task w after it.  Task is the state machine of one    *)
(* task; in Executor a step is a step of each of the tasks it touches.     *)
(*                                                                         *)
(* The handle is awaited by another task, so it is not polled while this   *)
(* one runs; that task's waker, stored in the header, is awaiter.          *)
(***************************************************************************)
EXTENDS TaskState

CONSTANTS
  MaxWakers,   \* bound: Waker clones alive at the same time
  Client       \* what the code around the task does besides awaiting it

ClientActs == {"cancel",       \* Task::cancel
               "early_drop",   \* drops the handle before it resolved
               "stray_waker",  \* drops the handle while a Waker clone is alive
               "panic",        \* F::poll panics
               "shutdown"}     \* drops the LocalExecutor with the task queued

ASSUME MaxWakersType == MaxWakers \in Nat
ASSUME ClientType    == Client \subseteq ClientActs

Phases == {"idle",        \* no Task of ours is running
           "polling",     \* in F::poll
           "completing",  \* F::poll returned Ready: in F::drop
           "dropping",    \* the task is closed: in F::drop
           "discarding"}  \* the queue dropped the Task: in F::drop

Faults == Panics \union {"none", "no_executor"}

TaskRecord ==
  [state     : Snapshot,                     \* Header::state
   awaiter   : BOOLEAN,                      \* Header::awaiter is Some
   memory    : {"live", "freed"},            \* the allocation
   output    : {"none", "stored", "moved"},  \* RawTask::output, or moved out
   drops     : Nat,                          \* how often the future was dropped in place
   runnables : Nat,                          \* Task references in the executor's queue
   phase     : Phases,                       \* what the executor does with the Task it popped
   wakers    : 0..MaxWakers,                 \* Waker clones alive
   handle    : {"held", "dropped"},          \* the JoinHandle
   result    : {"pending", "some", "none"},  \* what awaiting the handle returned
   cancelled : BOOLEAN,                      \* history: JoinHandle::cancel was called
   woken     : BOOLEAN,                      \* history: woken since the last poll began
   executor  : {"up", "down"},               \* the LocalExecutor
   fault     : Faults]                       \* the panic that ended the program, or "none"

-----------------------------------------------------------------------------
(* spawn_local: RawTask::allocate and JoinHandle::from_raw *)
NewTask ==
  [state |-> INITIAL_STATE, awaiter |-> FALSE, memory |-> "live", output |-> "none",
   drops |-> 0, runnables |-> 0, phase |-> "idle", wakers |-> 0, handle |-> "held",
   result |-> "pending", cancelled |-> FALSE, woken |-> FALSE, executor |-> "up",
   fault |-> "none"]

(***************************************************************************)
(* The scheduler pushes the Task on the queue of the executor that is      *)
(* running on this thread; with none, LOCAL_EX.with panics.                *)
(***************************************************************************)
Push(v, submit) ==
  [v EXCEPT !.runnables = IF submit /\ v.executor = "up" THEN @ + 1 ELSE @,
            !.fault     = IF submit /\ v.executor = "down" THEN "no_executor" ELSE @]

(* Mutant: the queued Task has no reference of its own. *)
schedule_without_ref(v, submit, s) ==
  Push([v EXCEPT !.state = s], submit)

(* RawTask::schedule, when the caller was told to: one more reference *)
schedule(v, submit, s) ==
  Push([v EXCEPT !.state = IF submit THEN incr_ref(s) ELSE s], submit)

(* RawTask::drop_task *)
drop_task_ref(v, s) ==
  [v EXCEPT !.state  = decr_ref(s),
            !.memory = IF decr_ref(s).refs = 0 THEN "freed" ELSE @]

PanicOr(action, otherwise) == IF action \in Panics THEN action ELSE otherwise

-----------------------------------------------------------------------------
(* The JoinHandle *)

PollHandle(v, w) ==
  LET r == poll_join_handle(v.state) IN
  /\ v.fault = "none" /\ v.handle = "held" /\ v.result = "pending" /\ v.phase = "idle"
  /\ \/ /\ r.action = "Start"
        /\ w = [schedule(v, TRUE, r.state) EXCEPT !.awaiter = TRUE]
     \/ /\ r.action \in {"Register"} \union Panics
        /\ w = [v EXCEPT !.awaiter = @ \/ r.action = "Register",
                         !.fault   = PanicOr(r.action, @)]
     \/ /\ r.action \in {"CompleteNone", "CompleteSome"}
        /\ w = [v EXCEPT !.state   = r.state,
                         !.awaiter = FALSE,
                         !.result  = IF r.action = "CompleteNone" THEN "none" ELSE "some",
                         !.output  = IF r.action = "CompleteNone" THEN @ ELSE "moved"]

Cancel(v, w) ==
  LET r == transition_to_closed(v.state) IN
  /\ "cancel" \in Client
  /\ v.fault = "none" /\ v.handle = "held" /\ v.result = "pending" /\ ~v.cancelled
  /\ w = [schedule(v, r.action = "CloseAndSchedule", r.state) EXCEPT
            !.cancelled = TRUE,
            !.awaiter   = @ /\ r.action = "DoNothing"]

DropHandle(v, w) ==
  LET r == drop_join_handle(v.state) IN
  /\ v.fault = "none" /\ v.handle = "held"
  /\ v.result # "pending" \/ "early_drop" \in Client
  /\ v.wakers = 0 \/ "stray_waker" \in Client
  /\ \/ /\ r.action \notin Panics
        /\ w = [schedule(v, r.action = "Schedule", r.state) EXCEPT
                  !.handle = "dropped",
                  !.memory = IF r.action \in {"Destroy", "DropOutputDestroy"} THEN "freed" ELSE @,
                  !.output = IF r.action \in {"DropOutput", "DropOutputDestroy"} THEN "moved"
                                                                                 ELSE @]
     \/ /\ r.action \in Panics
        /\ w = [v EXCEPT !.handle = "dropped", !.fault = r.action]

-----------------------------------------------------------------------------
(* The Waker clones, and the waker in the Context of a poll *)

WakerInReach(v) == v.wakers > 0 \/ v.phase = "polling"

CloneWaker(v, w) ==
  /\ v.fault = "none" /\ WakerInReach(v) /\ v.wakers < MaxWakers
  /\ w = [v EXCEPT !.wakers = @ + 1, !.state = incr_ref(@)]

(* do_wake without the call to schedule *)
do_wake(v) == transition_to_scheduled(v.state)

WakeByRef(v, w) ==
  /\ v.fault = "none" /\ WakerInReach(v)
  /\ w = [schedule(v, do_wake(v).action = "Submit", do_wake(v).state) EXCEPT !.woken = TRUE]

(* do_wake, then drop_waker *)
WakeByVal(v, w) ==
  LET submit == do_wake(v).action = "Submit"
      r == drop_waker(IF submit THEN incr_ref(do_wake(v).state) ELSE do_wake(v).state)
  IN
  /\ v.fault = "none" /\ v.wakers > 0
  /\ \/ /\ ~(submit /\ v.executor = "down")
        /\ w = [Push(v, submit \/ r.action = "Schedule") EXCEPT
                  !.woken  = TRUE,
                  !.wakers = @ - 1,
                  !.state  = IF r.action = "Schedule" THEN incr_ref(r.state) ELSE r.state,
                  !.memory = IF r.action = "Destroy" THEN "freed" ELSE @]
     \/ /\ submit /\ v.executor = "down"
        /\ w = [schedule(v, TRUE, do_wake(v).state) EXCEPT !.woken = TRUE]

DropWaker(v, w) ==
  LET r == drop_waker(v.state) IN
  /\ v.fault = "none" /\ v.wakers > 0
  /\ w = [schedule(v, r.action = "Schedule", r.state) EXCEPT
            !.wakers = @ - 1,
            !.memory = IF r.action = "Destroy" THEN "freed" ELSE @]

-----------------------------------------------------------------------------
(* The executor: RawTask::run, cut at the calls to F::poll and F::drop *)

Run(v, w) ==
  LET r == transition_to_running(v.state) IN
  /\ v.fault = "none" /\ v.executor = "up" /\ v.phase = "idle" /\ v.runnables > 0
  /\ w = [v EXCEPT
            !.state     = r.state,
            !.runnables = @ - 1,
            !.phase     = CASE r.action = "Running" -> "polling"
                            [] r.action = "Closed"  -> "dropping"
                            [] r.action \in Panics  -> "idle",
            !.drops     = IF r.action = "Closed" THEN @ + 1 ELSE @,
            !.woken     = FALSE,
            !.fault     = PanicOr(r.action, @)]

PollReady(v, w) ==
  /\ v.fault = "none" /\ v.phase = "polling"
  /\ w = [v EXCEPT !.phase = "completing", !.drops = @ + 1]

(* Mutant: the awaiter is not notified of the output. *)
FinishReadySilently(v, w) ==
  LET r == transition_to_completed(v.state) IN
  /\ v.fault = "none" /\ v.phase = "completing"
  /\ w = [drop_task_ref(v, r.state) EXCEPT
            !.phase  = "idle",
            !.output = IF r.action = "Closed" THEN "moved" ELSE "stored"]

(* The output is written; if the task was closed meanwhile, it is dropped. *)
FinishReady(v, w) ==
  LET r == transition_to_completed(v.state) IN
  /\ v.fault = "none" /\ v.phase = "completing"
  /\ w = [drop_task_ref(v, r.state) EXCEPT
            !.phase   = "idle",
            !.output  = IF r.action = "Closed" THEN "moved" ELSE "stored",
            !.awaiter = FALSE]

(***************************************************************************)
(* The task goes idle.  If it was closed meanwhile its future is dropped   *)
(* next, otherwise the run ends by dropping the Task, after pushing a new  *)
(* one when a wake came during the poll.                                   *)
(***************************************************************************)
PollPending(v, w) ==
  LET r == transition_to_idle(v.state) IN
  /\ v.fault = "none" /\ v.phase = "polling"
  /\ \/ /\ r.action = "Closed"
        /\ w = [v EXCEPT !.phase = "dropping", !.drops = @ + 1, !.state = r.state]
     \/ /\ r.action # "Closed"
        /\ w = [drop_task_ref(v, IF r.action = "Schedule" THEN incr_ref(r.state) ELSE r.state)
                  EXCEPT
                  !.phase     = "idle",
                  !.runnables = IF r.action = "Schedule" THEN @ + 1 ELSE @,
                  !.fault     = PanicOr(r.action, @)]

(* The guard of RawTask::run, dropped while F::poll unwinds *)
PollPanic(v, w) ==
  /\ "panic" \in Client
  /\ v.fault = "none" /\ v.phase = "polling"
  /\ w = [v EXCEPT !.state = set_closed(@), !.phase = "dropping", !.drops = @ + 1]

(* After F::drop of a closed task: notify the awaiter, drop the Task *)
FinishDrop(v, w) ==
  /\ v.fault = "none" /\ v.phase = "dropping"
  /\ w = [drop_task_ref(v, v.state) EXCEPT !.phase = "idle", !.awaiter = FALSE]

-----------------------------------------------------------------------------
(* The LocalExecutor is dropped after run returned, with Tasks in its queue *)

Shutdown(v, w) ==
  /\ "shutdown" \in Client
  /\ v.fault = "none" /\ v.executor = "up" /\ v.phase = "idle"
  /\ w = [v EXCEPT !.executor = "down"]

(* Task::drop up to F::drop *)
DiscardTask(v, w) ==
  /\ v.fault = "none" /\ v.executor = "down" /\ v.phase = "idle" /\ v.runnables > 0
  /\ w = [v EXCEPT !.state = drop_task(@), !.runnables = @ - 1,
                   !.phase = "discarding", !.drops = @ + 1]

(* Task::drop after F::drop *)
FinishDiscard(v, w) ==
  /\ v.fault = "none" /\ v.phase = "discarding"
  /\ w = [v EXCEPT !.state = drop_task(@), !.phase = "idle", !.awaiter = FALSE]

-----------------------------------------------------------------------------
Step(v, w) ==
  \/ PollHandle(v, w) \/ Cancel(v, w) \/ DropHandle(v, w)
  \/ CloneWaker(v, w) \/ WakeByRef(v, w) \/ WakeByVal(v, w) \/ DropWaker(v, w)
  \/ Run(v, w) \/ PollReady(v, w) \/ FinishReady(v, w) \/ PollPending(v, w)
  \/ PollPanic(v, w) \/ FinishDrop(v, w)
  \/ Shutdown(v, w) \/ DiscardTask(v, w) \/ FinishDiscard(v, w)

(* The pointers to the task that somebody may still follow *)
Holders(v) ==
  v.wakers + v.runnables + (IF v.handle = "held" THEN 1 ELSE 0)
                         + (IF v.phase = "idle" THEN 0 ELSE 1)
=============================================================================
