---------------------------- MODULE AwaitProofs ----------------------------
(***************************************************************************)
(* Proofs about the operations of a task that was not cancelled, or that   *)
(* is only awaited, for every number of wakers and every client.  AInv     *)
(* strengthens the inductive invariant of TaskStepsProofs.                 *)
(***************************************************************************)
EXTENDS TaskStepsProofs

(* OnlyAwaited and OneRunnable of Task *)
Awaits(v) ==
  /\ ~v.cancelled /\ v.executor = "up"
  /\ v.handle = "dropped" => v.result # "pending"

Alone(v) ==
  ~v.cancelled => v.runnables + (IF v.phase = "idle" THEN 0 ELSE 1) <= 1

(* A task that was not cancelled has one run at most left that drops its future. *)
Once(v) ==
  /\ Alone(v)
  /\ ~v.cancelled => v.drops <= 1 /\ (v.runnables > 0 => v.drops = 0)

(***************************************************************************)
(* Until it is started a task has one reference, and only cancel closes    *)
(* it.  Only then is None answered while the future still exists.          *)
(***************************************************************************)
Answered(v) ==
  /\ need_start(v.state) /\ v.memory = "live" =>
       v.state.refs = 1 /\ (is_closed(v.state) => v.cancelled)
  /\ is_completed(v.state) => v.drops > 0
  /\ v.result # "pending" /\ v.drops = 0 => v.result = "none" /\ v.cancelled

(***************************************************************************)
(* A panic is that of a handle dropped while a waker is alive, or of the   *)
(* assertion that an await after a panic of F::poll runs into.             *)
(***************************************************************************)
Harmless(v) ==
  v.fault # "none" =>
    \/ v.handle = "dropped" /\ v.wakers > 0
    \/ DebugAssertions /\ "panic" \in Client

(* A closed task has no run ahead; one that did not complete panicked. *)
ClosedRests(v) ==
  is_closed(v.state) =>
    /\ v.runnables = 0 /\ ~is_scheduled(v.state) /\ ~is_running(v.state) /\ ~need_start(v.state)
    /\ is_completed(v.state) \/ "panic" \in Client

(* The future is dropped by the run that completes or closes the task. *)
DropsOnce(v) ==
  v.drops = IF v.phase = "completing" \/ is_completed(v.state) \/ is_closed(v.state) THEN 1 ELSE 0

(* The handle is the last holder to go, once it has its answer. *)
HandleLast(v) ==
  /\ v.memory = "live" => v.state.refs = Holders(v)
  /\ v.result # "pending" => is_closed(v.state) /\ v.phase = "idle"
  /\ v.handle = "dropped" => v.memory = "freed" /\ is_closed(v.state)

(* What is true of a task that is only awaited. *)
Tended(v) ==
  v.phase # "discarding" /\ ClosedRests(v) /\ DropsOnce(v) /\ HandleLast(v)

Awaited(v) == Harmless(v) /\ (v.fault = "none" => Tended(v))

AInv(v) == IInv(v) /\ Once(v) /\ Answered(v) /\ (Awaits(v) => Awaited(v))

(* The states in which a task that is only awaited takes its steps. *)
Calm(v) ==
  /\ IInv(v) /\ Tended(v) /\ v.fault = "none" /\ v.executor = "up"
  /\ v.runnables + (IF v.phase = "idle" THEN 0 ELSE 1) <= 1

-----------------------------------------------------------------------------
(* What the invariant gives *)

(* While anybody but the handle holds the task, the handle holds it too. *)
LEMMA HandleHolds ==
  ASSUME NEW v \in TaskRecord, IInv(v), Tended(v),
         v.wakers > 0 \/ v.runnables > 0 \/ v.phase # "idle" \/ v.handle = "held"
  PROVE  /\ v.handle = "held" /\ v.memory = "live" /\ v.state.refs = Holders(v)
         /\ v.state \in Word /\ v.wakers \in Nat /\ v.runnables \in Nat
<1>c. Counts(v)
  BY Counted
<1>1. Holders(v) > 0
  BY <1>c DEF Counts, Holders
<1> QED  BY <1>1, <1>c DEF Counts, Tended, HandleLast, IInv, Typed

(* A fresh task has no closed bit, no drops and one reference. *)
LEMMA InitAInv == AInv(NewTask)
<1> DEFINE v == NewTask
<1>1. /\ v.state = INITIAL_STATE /\ v.memory = "live" /\ v.drops = 0 /\ v.runnables = 0
      /\ v.phase = "idle" /\ v.wakers = 0 /\ v.handle = "held" /\ v.result = "pending"
      /\ v.fault = "none"
  BY DEF NewTask
<1>2. IInv(v)
  BY InitIInv
<1> HIDE DEF v
<1> USE <1>1, InitialWord DEF Flags
<1>3. Once(v) /\ Answered(v)
  BY DEF Once, Alone, Answered
<1>4. Harmless(v) /\ ClosedRests(v) /\ DropsOnce(v)
  BY DEF Harmless, ClosedRests, DropsOnce
<1>5. HandleLast(v)
  BY DEF HandleLast, Holders
<1>6. AInv(v)
  BY <1>2, <1>3, <1>4, <1>5 DEF AInv, Awaited, Tended
<1> QED  BY <1>6 DEF v

(* Being only awaited is something that a task ceases to be, and never becomes. *)
LEMMA AwaitedBefore ==
  ASSUME NEW v \in TaskRecord, NEW w, Step(v, w), Awaits(w)
  PROVE  Awaits(v)
<1>1. v.cancelled => w.cancelled
  <2> USE DEF schedule, Push, drop_task_ref, TaskRecord
  <2>1. CASE PollHandle(v, w)  BY <2>1 DEF PollHandle
  <2>2. CASE Cancel(v, w)      BY <2>2 DEF Cancel
  <2>3. CASE DropHandle(v, w)  BY <2>3 DEF DropHandle
  <2>4. CASE CloneWaker(v, w) \/ WakeByRef(v, w) \/ WakeByVal(v, w) \/ DropWaker(v, w)
    BY ZenonT(60), <2>4 DEF CloneWaker, WakeByRef, WakeByVal, DropWaker
  <2>5. CASE Run(v, w) \/ PollReady(v, w) \/ FinishReady(v, w) \/ PollPending(v, w)
    BY <2>5 DEF Run, PollReady, FinishReady, PollPending
  <2>6. CASE PollPanic(v, w) \/ FinishDrop(v, w) \/ Shutdown(v, w) \/ DiscardTask(v, w)
             \/ FinishDiscard(v, w)
    BY <2>6 DEF PollPanic, FinishDrop, Shutdown, DiscardTask, FinishDiscard
  <2> QED  BY <2>1, <2>2, <2>3, <2>4, <2>5, <2>6 DEF Step
<1> USE DEF Step, PollHandle, Cancel, DropHandle, CloneWaker, WakeByRef, WakeByVal, DropWaker,
        Run, PollReady, FinishReady, PollPending, PollPanic, FinishDrop, Shutdown, DiscardTask,
        FinishDiscard, schedule, Push, drop_task_ref, TaskRecord
<1>2. v.executor # "up" => w.executor = v.executor
  OBVIOUS
<1>3. v.handle = "dropped" => w.handle = v.handle /\ w.result = v.result
  OBVIOUS
<1> QED  BY <1>1, <1>2, <1>3 DEF Awaits

(* A wake is only submitted when nothing is queued, and an open task is idle then. *)
LEMMA SubmitsAlone ==
  ASSUME NEW v \in TaskRecord, IInv(v), WakerInReach(v)
  PROVE  LET t == do_wake(v).state
             submit == do_wake(v).action = "Submit"
         IN
         /\ submit <=> /\ ~is_completed(v.state) /\ ~is_closed(v.state)
                       /\ ~is_scheduled(v.state) /\ ~is_running(v.state)
         /\ submit => v.runnables = 0 /\ v.phase = "idle"
         /\ t \in Word /\ t.refs = v.state.refs
         /\ Flags(t, is_running(v.state), is_completed(v.state), is_closed(v.state),
                  (~is_completed(v.state) /\ ~is_closed(v.state)) \/ is_scheduled(v.state),
                  need_start(v.state))
<1> DEFINE t == do_wake(v).state
           submit == do_wake(v).action = "Submit"
<1>c. Counts(v)
  BY Counted
<1>1. v.state \in Word /\ v.wakers \in Nat /\ v.runnables \in Nat
  BY <1>c DEF Counts
<1>2. /\ submit <=> /\ ~is_completed(v.state) /\ ~is_closed(v.state)
                    /\ ~is_scheduled(v.state) /\ ~is_running(v.state)
      /\ t \in Word /\ t.refs = v.state.refs
      /\ Flags(t, is_running(v.state), is_completed(v.state), is_closed(v.state),
               (~is_completed(v.state) /\ ~is_closed(v.state)) \/ is_scheduled(v.state),
               need_start(v.state))
  BY <1>1, ScheduledTransition DEF do_wake
<1> HIDE DEF t, submit
<1>3. submit => v.runnables = 0 /\ v.phase = "idle"
  <2> SUFFICES ASSUME submit
               PROVE  v.runnables = 0 /\ v.phase = "idle"
    OBVIOUS
  <2>1. v.phase = "idle"
    BY <1>2 DEF IInv, Typed, Phases, Phase
  <2>2. v.wakers > 0
    BY <1>1, <2>1 DEF WakerInReach
  <2> QED  BY <1>1, <1>2, <2>1, <2>2 DEF IInv, Queued
<1> QED  BY <1>2, <1>3 DEF t, submit

(* An open task that does not run has not dropped its future. *)
LEMMA OpenUndropped ==
  ASSUME NEW v \in TaskRecord, IInv(v),
         ~is_closed(v.state), ~is_completed(v.state), ~is_running(v.state)
  PROVE  v.drops = 0 /\ v.phase = "idle"
BY DEF IInv, Typed, Phases, Phase, Future

-----------------------------------------------------------------------------
(* Each action preserves Once and Answered *)

(* A start queues a fresh task; an answer leaves the queue alone. *)
LEMMA PollHandleOnce ==
  ASSUME NEW v \in TaskRecord, NEW w, IInv(v), Once(v), Answered(v), PollHandle(v, w)
  PROVE  Once(w) /\ Answered(w)
<1> DEFINE r == poll_join_handle(v.state)
           u == incr_ref(r.state)
<1>c. Counts(v)
  BY Counted
<1>1. /\ v.memory = "live" /\ v.state \in Word /\ v.runnables \in Nat
  BY <1>c DEF Counts, PollHandle, Holders, IInv, Typed, TaskRecord
<1>2. /\ r.action \in {"Start", "Register", "CompleteNone", "CompleteSome",
                       "assert_waiting", "assert_finished"}
      /\ r.action = "Start" <=> need_start(v.state) /\ ~is_closed(v.state)
      /\ r.action = "CompleteSome" <=>
           is_completed(v.state) /\ ~is_closed(v.state) /\ ~need_start(v.state)
      /\ r.action = "CompleteNone" =>
           is_closed(v.state) /\ ~is_scheduled(v.state) /\ ~is_running(v.state)
      /\ r.state \in Word /\ r.state.refs = v.state.refs
      /\ Flags(r.state, is_running(v.state), is_completed(v.state),
               is_closed(v.state) \/ r.action = "CompleteSome", is_scheduled(v.state),
               need_start(v.state) /\ r.action \notin {"Start", "CompleteNone"})
  BY <1>1, PollHandleTransition
<1> HIDE DEF r
<1>3. Flags(u, is_running(v.state), is_completed(v.state),
            is_closed(v.state) \/ r.action = "CompleteSome", is_scheduled(v.state),
            need_start(v.state) /\ r.action \notin {"Start", "CompleteNone"})
  BY <1>2, RefTransitions DEF Flags
<1> HIDE DEF u
<1>4. /\ r.action = "Start" => w.state = u /\ Pushed(v, w, TRUE) /\ w.result = v.result
      /\ r.action \in {"Register", "assert_waiting", "assert_finished"} =>
            w.state = v.state /\ w.runnables = v.runnables /\ w.result = v.result
      /\ r.action \in {"CompleteNone", "CompleteSome"} =>
            /\ w.state = r.state /\ w.runnables = v.runnables
            /\ w.result = IF r.action = "CompleteNone" THEN "none" ELSE "some"
      /\ w.memory = v.memory /\ w.drops = v.drops /\ w.phase = v.phase
         /\ w.cancelled = v.cancelled
      /\ v.handle = "held" /\ v.result = "pending" /\ v.phase = "idle"
  BY ZenonT(60), <1>2 DEF PollHandle, schedule, Push, Pushed, r, u, Panics, TaskRecord
<1> USE <1>1, <1>2, <1>3, <1>4 DEF Flags
<1>5. Once(w)
  BY DEF Once, Alone, Pushed, IInv, Fresh
<1>6. need_start(w.state) /\ w.memory = "live" =>
        w.state.refs = 1 /\ (is_closed(w.state) => w.cancelled)
  BY DEF Answered
<1>7. is_completed(w.state) => w.drops > 0
  BY DEF Answered
<1>8. w.result # "pending" /\ w.drops = 0 => w.result = "none" /\ w.cancelled
  <2>1. r.action = "CompleteSome" => v.drops # 0
    BY DEF Answered
  <2>2. r.action = "CompleteNone" => v.drops # 0 \/ v.cancelled
    BY DEF Answered, IInv, Future
  <2>3. CASE r.action \in {"CompleteNone", "CompleteSome"}
    BY <2>1, <2>2, <2>3
  <2>4. CASE r.action \notin {"CompleteNone", "CompleteSome"}
    BY <2>4
  <2> QED  BY <2>3, <2>4
<1> QED  BY <1>5, <1>6, <1>7, <1>8 DEF Answered

(* After cancel nothing is claimed of the queue. *)
LEMMA CancelOnce ==
  ASSUME NEW v \in TaskRecord, NEW w, IInv(v), Once(v), Answered(v), Cancel(v, w)
  PROVE  Once(w) /\ Answered(w)
<1> DEFINE r == transition_to_closed(v.state)
           u == incr_ref(r.state)
           live == ~need_start(v.state) /\ ~is_completed(v.state) /\ ~is_closed(v.state)
           rest == ~is_scheduled(v.state) /\ ~is_running(v.state)
<1>c. Counts(v)
  BY Counted
<1>1. v.state \in Word
  BY <1>c DEF Counts
<1>2. /\ r.action = IF live THEN (IF rest THEN "CloseAndSchedule" ELSE "Close") ELSE "DoNothing"
      /\ r.state \in Word
      /\ r.state.refs = IF live /\ rest THEN v.state.refs + 1 ELSE v.state.refs
      /\ Flags(r.state, is_running(v.state), is_completed(v.state),
               live \/ need_start(v.state) \/ is_closed(v.state),
               is_scheduled(v.state) \/ (live /\ rest), need_start(v.state))
  BY <1>1, ClosedTransition
<1> HIDE DEF r
<1>3. Flags(u, is_running(r.state), is_completed(r.state), is_closed(r.state),
            is_scheduled(r.state), need_start(r.state))
  BY <1>2, RefTransitions
<1> HIDE DEF u
<1>4. /\ w.state = IF live /\ rest THEN u ELSE r.state
      /\ w.cancelled = TRUE
      /\ w.drops = v.drops /\ w.result = v.result /\ w.memory = v.memory /\ v.result = "pending"
  BY <1>2 DEF Cancel, schedule, Push, Pushed, r, u, TaskRecord
<1> QED  BY <1>2, <1>3, <1>4 DEF Once, Alone, Answered, Flags

(* The last handle of an open task queues it, as the only one. *)
LEMMA DropHandleOnce ==
  ASSUME NEW v \in TaskRecord, NEW w, IInv(v), Once(v), Answered(v), DropHandle(v, w)
  PROVE  Once(w) /\ Answered(w)
<1> DEFINE r == drop_join_handle(v.state)
           u == incr_ref(r.state)
<1>c. Counts(v)
  BY Counted
<1>1. /\ v.memory = "live" /\ v.state \in Word /\ v.wakers \in Nat /\ v.runnables \in Nat
      /\ v.state.refs >= Holders(v)
  BY <1>c DEF Counts, DropHandle, Holders, IInv, Typed, TaskRecord
<1>2. /\ v.handle = "held" /\ w.drops = v.drops /\ w.phase = v.phase
      /\ w.result = v.result /\ w.cancelled = v.cancelled
  BY DEF DropHandle, schedule, Push, TaskRecord
<1>3. Destroyed(v.state, r) \/ OutputDropped(v.state, r) \/ QueuedOnce(v.state, r)
      \/ Detached(v.state, r) \/ Panicked(v.state, r)
  BY <1>c, DropHandleTransition DEF Counts
<1>4. IF r.action \in Panics
        THEN w.state = v.state /\ w.memory = v.memory /\ w.runnables = v.runnables
        ELSE /\ w.state = IF r.action = "Schedule" THEN u ELSE r.state
             /\ Pushed(v, w, r.action = "Schedule")
             /\ w.memory = IF r.action \in {"Destroy", "DropOutputDestroy"}
                             THEN "freed" ELSE v.memory
  BY ZenonT(60) DEF DropHandle, schedule, Push, Pushed, r, u, TaskRecord
<1> HIDE DEF r
<1> USE <1>1, <1>2 DEF Flags, Pushed, open, kept, idle
<1>5. CASE Destroyed(v.state, r)
  <2>1. w.state = r.state /\ w.memory = "freed" /\ w.runnables = v.runnables
    BY <1>4, <1>5 DEF Destroyed, Panics
  <2> QED  BY <1>5, <2>1 DEF Destroyed, Once, Alone, Answered
<1>6. CASE OutputDropped(v.state, r)
  <2>1. w.state = r.state /\ w.runnables = v.runnables /\ ~need_start(v.state)
    BY <1>4, <1>6 DEF OutputDropped, Panics, IInv, Fresh
  <2> QED  BY <1>6, <2>1 DEF OutputDropped, Once, Alone, Answered
<1>7. CASE QueuedOnce(v.state, r)
  <2>1. /\ w.state = u /\ Pushed(v, w, TRUE)
        /\ Flags(u, FALSE, FALSE, FALSE, is_scheduled(v.state), FALSE)
    BY <1>4, <1>7, RefTransitions DEF QueuedOnce, Panics, u
  <2>2. v.runnables = 0 /\ v.phase = "idle"
    BY <1>7 DEF QueuedOnce, Holders
  <2>3. ~is_running(v.state)
    BY <2>2 DEF IInv, Phase
  <2>4. v.drops = 0
    BY <1>7, <2>3, OpenUndropped DEF QueuedOnce
  <2> QED  BY <2>1, <2>2, <2>4 DEF Once, Alone, Answered
<1>8. CASE Detached(v.state, r)
  <2>1. w.state = r.state /\ w.runnables = v.runnables /\ ~need_start(v.state)
    BY <1>4, <1>8 DEF Detached, Panics, Answered
  <2> QED  BY <1>8, <2>1 DEF Detached, Once, Alone, Answered
<1>9. CASE Panicked(v.state, r)
  <2>1. w.state = v.state /\ w.memory = v.memory /\ w.runnables = v.runnables
    BY <1>4, <1>9 DEF Panicked, Panics
  <2> QED  BY <2>1 DEF Once, Alone, Answered
<1> QED  BY <1>3, <1>5, <1>6, <1>7, <1>8, <1>9

(***************************************************************************)
(* The other actions find a started task, and leave it one: then Answered  *)
(* only asks that no drop of the future is forgotten.                      *)
(***************************************************************************)
LEMMA AnsweredKept ==
  ASSUME NEW v \in TaskRecord, NEW w, IInv(v), Answered(v),
         ~need_start(w.state), is_completed(w.state) => w.drops > 0,
         w.drops \in {v.drops, v.drops + 1}, w.result = v.result /\ w.cancelled = v.cancelled
  PROVE  Answered(w)
<1>1. w.drops = 0 => v.drops = 0
  BY DEF IInv, Typed
<1> QED  BY <1>1 DEF Answered

(* Queueing an idle task that has its future, and is not queued, keeps Once. *)
LEMMA OnceQueued ==
  ASSUME NEW v \in TaskRecord, NEW w, IInv(v), Once(v),
         NEW submit \in BOOLEAN, Pushed(v, w, submit),
         submit => v.runnables = 0 /\ v.phase = "idle" /\ v.drops = 0,
         w.phase = v.phase /\ w.drops = v.drops /\ w.cancelled = v.cancelled
  PROVE  Once(w)
BY DEF Once, Alone, Pushed, IInv, Typed

(* Cloning a waker. *)
LEMMA CloneWakerOnce ==
  ASSUME NEW v \in TaskRecord, NEW w, IInv(v), Once(v), Answered(v), CloneWaker(v, w)
  PROVE  Once(w) /\ Answered(w)
<1>c. Counts(v)
  BY Counted
<1>1. /\ v.state \in Word /\ ~need_start(v.state) /\ w.runnables = v.runnables
      /\ w.phase = v.phase /\ w.drops = v.drops /\ w.result = v.result
         /\ w.cancelled = v.cancelled
  BY <1>c DEF Counts, CloneWaker, WakerInReach, IInv, Fresh, TaskRecord
<1>2. ~need_start(w.state) /\ (is_completed(w.state) <=> is_completed(v.state))
  BY <1>1, RefTransitions DEF CloneWaker, Flags, TaskRecord
<1>3. Once(w)
  BY <1>1 DEF Once, Alone
<1>4. Answered(w)
  BY <1>1, <1>2, AnsweredKept DEF Answered
<1> QED  BY <1>3, <1>4

(* Waking by reference. *)
LEMMA WakeByRefOnce ==
  ASSUME NEW v \in TaskRecord, NEW w, IInv(v), Once(v), Answered(v), WakeByRef(v, w)
  PROVE  Once(w) /\ Answered(w)
<1> DEFINE t == do_wake(v).state
           u == incr_ref(t)
           submit == do_wake(v).action = "Submit"
<1>c. Counts(v)
  BY Counted
<1>1. /\ ~need_start(v.state) /\ WakerInReach(v) /\ w.phase = v.phase
      /\ w.drops = v.drops /\ w.result = v.result /\ w.cancelled = v.cancelled
  BY <1>c DEF Counts, WakeByRef, schedule, Push, WakerInReach, IInv, Fresh, TaskRecord
<1>2. /\ submit <=> /\ ~is_completed(v.state) /\ ~is_closed(v.state)
                    /\ ~is_scheduled(v.state) /\ ~is_running(v.state)
      /\ submit => v.runnables = 0 /\ v.phase = "idle"
      /\ t \in Word /\ ~need_start(t) /\ (is_completed(t) <=> is_completed(v.state))
  BY <1>1, SubmitsAlone DEF Flags
<1> HIDE DEF t, submit
<1>3. ~need_start(u) /\ (is_completed(u) <=> is_completed(t))
  BY <1>2, RefTransitions DEF Flags
<1> HIDE DEF u
<1>4. w.state = (IF submit THEN u ELSE t) /\ Pushed(v, w, submit)
  BY DEF WakeByRef, schedule, Push, Pushed, t, u, submit, TaskRecord
<1>5. submit \in BOOLEAN /\ (submit => v.drops = 0)
  BY <1>2, OpenUndropped DEF submit
<1>6. Once(w)
  BY <1>1, <1>2, <1>4, <1>5, OnceQueued
<1>7. ~need_start(w.state) /\ (is_completed(w.state) => is_completed(v.state))
  BY <1>2, <1>3, <1>4
<1>8. Answered(w)
  BY <1>1, <1>7, AnsweredKept DEF Answered
<1> QED  BY <1>6, <1>8

(* The last waker of an open task queues it, as the only one. *)
LEMMA LastWaker ==
  ASSUME NEW v \in TaskRecord, IInv(v), v.wakers > 0, NEW s \in Word, s.refs >= v.state.refs,
         is_completed(s) <=> is_completed(v.state), is_closed(s) <=> is_closed(v.state),
         need_start(s) <=> need_start(v.state)
  PROVE  LET r == drop_waker(s) IN
         /\ r.state \in Word /\ ~need_start(r.state) /\ ~need_start(v.state)
         /\ is_completed(r.state) => is_completed(v.state)
         /\ r.action = "Schedule" =>
              s.refs = v.state.refs /\ v.runnables = 0 /\ v.phase = "idle" /\ v.drops = 0
<1> DEFINE r == drop_waker(s)
<1>c. Counts(v)
  BY Counted
<1>1. /\ v.state \in Word /\ v.wakers \in Nat /\ v.runnables \in Nat /\ v.state.refs >= Holders(v)
      /\ ~need_start(v.state)
  BY <1>c DEF Counts, Holders, IInv, Fresh
<1>2. /\ r.state \in Word /\ ~need_start(r.state)
      /\ is_completed(r.state) => is_completed(v.state)
      /\ r.action = "Schedule" => s.refs = 1 /\ ~is_completed(s) /\ ~is_closed(s)
  BY <1>1, DropWakerTransition DEF Flags
<1> HIDE DEF r
<1>3. ASSUME r.action = "Schedule"
      PROVE  s.refs = v.state.refs /\ v.runnables = 0 /\ v.phase = "idle" /\ v.drops = 0
  <2>1. v.state.refs = 1 /\ v.runnables = 0 /\ v.phase = "idle"
    BY <1>1, <1>2, <1>3 DEF Holders, Word
  <2>2. ~is_running(v.state)
    BY <2>1 DEF IInv, Phase
  <2> QED  BY <1>2, <1>3, <2>1, <2>2, OpenUndropped
<1> QED  BY <1>1, <1>2, <1>3 DEF r

(* Dropping a waker. *)
LEMMA DropWakerOnce ==
  ASSUME NEW v \in TaskRecord, NEW w, IInv(v), Once(v), Answered(v), DropWaker(v, w)
  PROVE  Once(w) /\ Answered(w)
<1> DEFINE r == drop_waker(v.state)
           u == incr_ref(r.state)
<1>c. Counts(v)
  BY Counted
<1>1. /\ w.phase = v.phase /\ w.drops = v.drops /\ w.result = v.result /\ w.cancelled = v.cancelled
      /\ v.wakers > 0 /\ v.state \in Word
  BY <1>c DEF Counts, DropWaker, schedule, Push, TaskRecord
<1>2. /\ r.state \in Word /\ ~need_start(r.state)
      /\ is_completed(r.state) => is_completed(v.state)
      /\ r.action = "Schedule" => v.runnables = 0 /\ v.phase = "idle" /\ v.drops = 0
  BY <1>1, LastWaker DEF Word
<1>3. /\ w.state = (IF r.action = "Schedule" THEN u ELSE r.state)
      /\ Pushed(v, w, r.action = "Schedule")
  BY DEF DropWaker, schedule, Push, Pushed, TaskRecord
<1> HIDE DEF r
<1>4. ~need_start(u) /\ (is_completed(u) => is_completed(v.state))
  BY <1>2, RefTransitions DEF Flags
<1> HIDE DEF u
<1>5. Once(w)
  BY <1>1, <1>2, <1>3, OnceQueued
<1>6. ~need_start(w.state) /\ (is_completed(w.state) => is_completed(v.state))
  BY <1>2, <1>3, <1>4
<1>7. Answered(w)
  BY <1>1, <1>6, AnsweredKept DEF Answered
<1> QED  BY <1>5, <1>7

(* Waking by value queues the task for the wake or for the drop, not for both. *)
LEMMA WakeByValOnce ==
  ASSUME NEW v \in TaskRecord, NEW w, IInv(v), Once(v), Answered(v), WakeByVal(v, w)
  PROVE  Once(w) /\ Answered(w)
<1> DEFINE t == do_wake(v).state
           submit == do_wake(v).action = "Submit"
           s == IF submit THEN incr_ref(t) ELSE t
           r == drop_waker(s)
           u == incr_ref(r.state)
<1>c. Counts(v)
  BY Counted
<1>1. /\ w.phase = v.phase /\ w.drops = v.drops /\ w.result = v.result
         /\ w.cancelled = v.cancelled /\ v.wakers > 0 /\ WakerInReach(v)
      /\ v.state \in Word
  BY <1>c DEF Counts, WakeByVal, schedule, Push, WakerInReach, TaskRecord
<1>2. /\ submit <=> /\ ~is_completed(v.state) /\ ~is_closed(v.state)
                    /\ ~is_scheduled(v.state) /\ ~is_running(v.state)
      /\ submit => v.runnables = 0 /\ v.phase = "idle"
      /\ t \in Word /\ t.refs = v.state.refs
      /\ is_completed(t) <=> is_completed(v.state)
      /\ is_closed(t) <=> is_closed(v.state)
      /\ need_start(t) <=> need_start(v.state)
  BY <1>1, SubmitsAlone DEF Flags
<1> HIDE DEF t, submit
<1>3. /\ s \in Word /\ s.refs = v.state.refs + (IF submit THEN 1 ELSE 0)
      /\ is_completed(s) <=> is_completed(v.state)
      /\ is_closed(s) <=> is_closed(v.state)
      /\ need_start(s) <=> need_start(v.state)
  BY <1>1, <1>2, RefTransitions DEF Flags, Word
<1>4. s.refs >= v.state.refs /\ (s.refs = v.state.refs => ~submit)
  BY <1>1, <1>3 DEF Word
<1> HIDE DEF s
<1>5. /\ r.state \in Word /\ ~need_start(r.state) /\ ~need_start(v.state)
      /\ is_completed(r.state) => is_completed(v.state)
      /\ r.action = "Schedule" => ~submit /\ v.runnables = 0 /\ v.phase = "idle" /\ v.drops = 0
  BY <1>1, <1>3, <1>4, LastWaker
<1>6. submit => v.drops = 0
  BY <1>2, OpenUndropped
<1>7. CASE ~(submit /\ v.executor = "down")
  <2>1. /\ w.state = IF r.action = "Schedule" THEN u ELSE r.state
        /\ Pushed(v, w, submit \/ r.action = "Schedule")
    BY <1>7 DEF WakeByVal, Push, Pushed, t, submit, s, TaskRecord
  <2> HIDE DEF r
  <2>2. ~need_start(u) /\ (is_completed(u) => is_completed(v.state))
    BY <1>5, RefTransitions DEF Flags
  <2> HIDE DEF u
  <2>3. Once(w)
    BY <1>1, <1>2, <1>5, <1>6, <2>1, OnceQueued
  <2>4. ~need_start(w.state) /\ (is_completed(w.state) => is_completed(v.state))
    BY <1>5, <2>1, <2>2
  <2>5. Answered(w)
    BY <1>1, <2>4, AnsweredKept DEF Answered
  <2> QED  BY <2>3, <2>5
<1>8. CASE submit /\ v.executor = "down"
  <2>1. w.state = s /\ Pushed(v, w, TRUE)
    BY <1>8 DEF WakeByVal, schedule, Push, Pushed, t, submit, s, TaskRecord
  <2>2. Once(w)
    BY <1>1, <1>2, <1>6, <1>8, <2>1, OnceQueued
  <2>3. Answered(w)
    BY <1>1, <1>3, <1>5, <2>1, AnsweredKept DEF Answered
  <2> QED  BY <2>2, <2>3
<1> QED  BY <1>7, <1>8

(* A run of the one Task that is left polls the future or drops it. *)
LEMMA RunOnce ==
  ASSUME NEW v \in TaskRecord, NEW w, IInv(v), Once(v), Answered(v), Run(v, w)
  PROVE  Once(w) /\ Answered(w)
<1> DEFINE r == transition_to_running(v.state)
<1>c. Counts(v)
  BY Counted
<1>1. /\ v.runnables > 0 /\ v.runnables \in Nat /\ v.drops \in Nat /\ w.runnables = v.runnables - 1
      /\ v.phase = "idle" /\ v.state \in Word /\ ~need_start(v.state)
      /\ w.result = v.result /\ w.cancelled = v.cancelled
  BY <1>c DEF Counts, Run, IInv, Typed, Fresh, TaskRecord
<1>2. w.drops = v.drops \/ w.drops = v.drops + 1
  BY DEF Run, TaskRecord
<1>3. ~need_start(r.state) /\ (is_completed(r.state) => is_completed(v.state))
  BY <1>1, RunningTransition DEF Flags
<1>4. Once(w)
  BY <1>1, <1>2 DEF Once, Alone
<1>5. Answered(w)
  <2>1. w.state = r.state
    BY DEF Run, TaskRecord
  <2>2. ~need_start(w.state) /\ (is_completed(w.state) => v.drops > 0)
    BY <1>3, <2>1 DEF Answered
  <2> QED  BY <1>1, <1>2, <2>2, AnsweredKept
<1> QED  BY <1>4, <1>5

(* While it is polled, a task that was not cancelled is not queued. *)
LEMMA PollingAlone ==
  ASSUME NEW v \in TaskRecord, IInv(v), Once(v), v.phase # "idle"
  PROVE  /\ ~v.cancelled => v.runnables = 0
         /\ ~need_start(v.state) /\ v.state \in Word /\ v.runnables \in Nat /\ v.drops \in Nat
         /\ v.phase = "polling" => is_running(v.state) /\ v.drops = 0
BY Counted DEF Counts, Once, Alone, IInv, Typed, Fresh, Phase, Future

(* F::poll is ready. *)
LEMMA PollReadyOnce ==
  ASSUME NEW v \in TaskRecord, NEW w, IInv(v), Once(v), Answered(v), PollReady(v, w)
  PROVE  Once(w) /\ Answered(w)
<1>1. /\ w.phase = "completing" /\ w.drops = v.drops + 1
      /\ w.state = v.state /\ w.runnables = v.runnables /\ w.result = v.result
         /\ w.cancelled = v.cancelled
  BY DEF PollReady, TaskRecord
<1>2. /\ ~v.cancelled => v.runnables = 0
      /\ ~need_start(v.state) /\ v.drops = 0
  BY PollingAlone DEF PollReady, TaskRecord
<1>3. Once(w)
  BY <1>1, <1>2 DEF Once, Alone
<1>4. Answered(w)
  BY <1>1, <1>2, AnsweredKept
<1> QED  BY <1>3, <1>4

(* The future was dropped before the task is marked completed. *)
LEMMA FinishReadyOnce ==
  ASSUME NEW v \in TaskRecord, NEW w, IInv(v), Once(v), Answered(v), FinishReady(v, w)
  PROVE  Once(w) /\ Answered(w)
<1> DEFINE r == transition_to_completed(v.state)
<1>1. /\ v.phase = "completing" /\ w.phase = "idle" /\ w.drops = v.drops
      /\ w.runnables = v.runnables /\ w.result = v.result /\ w.cancelled = v.cancelled
  BY DEF FinishReady, drop_task_ref, TaskRecord
<1>2. /\ ~v.cancelled => v.runnables = 0
      /\ ~need_start(v.state) /\ v.state \in Word /\ v.drops > 0 /\ v.drops \in Nat
  BY <1>1, PollingAlone DEF IInv, Future
<1>3. r.state \in Word /\ ~need_start(r.state)
  BY <1>2, CompletedTransition DEF Flags
<1> HIDE DEF r
<1>4. ~need_start(w.state)
  BY <1>3, RefTransitions DEF FinishReady, drop_task_ref, r, Flags, TaskRecord
<1>5. Once(w)
  BY <1>1, <1>2 DEF Once, Alone
<1>6. Answered(w)
  BY <1>1, <1>2, <1>4, AnsweredKept
<1> QED  BY <1>5, <1>6

(* F::poll is pending: the task is queued once, or its future dropped. *)
LEMMA PollPendingOnce ==
  ASSUME NEW v \in TaskRecord, NEW w, IInv(v), Once(v), Answered(v), PollPending(v, w)
  PROVE  Once(w) /\ Answered(w)
<1> DEFINE r == transition_to_idle(v.state)
           s == IF r.action = "Schedule" THEN incr_ref(r.state) ELSE r.state
<1>1. v.phase = "polling" /\ w.result = v.result /\ w.cancelled = v.cancelled
  BY DEF PollPending, drop_task_ref, TaskRecord
<1>2. /\ ~v.cancelled => v.runnables = 0
      /\ ~need_start(v.state) /\ v.state \in Word /\ v.runnables \in Nat
      /\ is_running(v.state) /\ v.drops = 0 /\ ~is_completed(v.state)
  BY <1>1, PollingAlone DEF IInv, Completed
<1>3. r.state \in Word /\ ~need_start(r.state) /\ ~is_completed(r.state)
  BY <1>2, IdleTransition DEF Flags
<1>4. /\ s \in Word /\ ~need_start(s) /\ ~is_completed(s)
      /\ ~need_start(decr_ref(s)) /\ ~is_completed(decr_ref(s))
  <2> HIDE DEF r
  <2>1. s \in Word /\ ~need_start(s) /\ ~is_completed(s)
    BY <1>3, RefTransitions DEF Flags
  <2> HIDE DEF s
  <2> QED  BY <2>1, RefTransitions DEF Flags
<1>5. \/ /\ w.phase = "dropping" /\ w.drops = v.drops + 1 /\ w.runnables = v.runnables
         /\ w.state = r.state
      \/ /\ w.phase = "idle" /\ w.drops = v.drops /\ w.runnables \in {v.runnables, v.runnables + 1}
         /\ w.state = decr_ref(s)
  BY DEF PollPending, drop_task_ref, TaskRecord
<1> HIDE DEF r, s
<1>6. Once(w)
  BY <1>1, <1>2, <1>5 DEF Once, Alone
<1>7. Answered(w)
  BY <1>1, <1>2, <1>3, <1>4, <1>5, AnsweredKept
<1> QED  BY <1>6, <1>7

(* F::poll panics. *)
LEMMA PollPanicOnce ==
  ASSUME NEW v \in TaskRecord, NEW w, IInv(v), Once(v), Answered(v), PollPanic(v, w)
  PROVE  Once(w) /\ Answered(w)
<1>1. /\ v.phase = "polling" /\ w.phase = "dropping" /\ w.drops = v.drops + 1
      /\ w.runnables = v.runnables /\ w.result = v.result /\ w.cancelled = v.cancelled
      /\ w.state = set_closed(v.state)
  BY DEF PollPanic, TaskRecord
<1>2. /\ ~v.cancelled => v.runnables = 0
      /\ ~need_start(v.state) /\ v.state \in Word /\ v.drops = 0
  BY <1>1, PollingAlone
<1>3. ~need_start(w.state)
  BY <1>1, <1>2, ClosingTransitions DEF Flags
<1>4. Once(w)
  BY <1>1, <1>2 DEF Once, Alone
<1>5. Answered(w)
  BY <1>1, <1>2, <1>3, AnsweredKept
<1> QED  BY <1>4, <1>5

(* The end of a run that dropped the future. *)
LEMMA FinishDropOnce ==
  ASSUME NEW v \in TaskRecord, NEW w, IInv(v), Once(v), Answered(v), FinishDrop(v, w)
  PROVE  Once(w) /\ Answered(w)
<1>1. /\ v.phase = "dropping" /\ w.phase = "idle" /\ w.state = decr_ref(v.state)
      /\ w.drops = v.drops /\ w.runnables = v.runnables /\ w.result = v.result
         /\ w.cancelled = v.cancelled
  BY DEF FinishDrop, drop_task_ref, TaskRecord
<1>2. /\ ~v.cancelled => v.runnables = 0
      /\ ~need_start(v.state) /\ v.state \in Word /\ v.drops > 0 /\ v.drops \in Nat
  BY <1>1, PollingAlone DEF IInv, Future
<1>3. ~need_start(w.state)
  BY <1>1, <1>2, RefTransitions DEF Flags
<1>4. Once(w)
  BY <1>1, <1>2 DEF Once, Alone
<1>5. Answered(w)
  BY <1>1, <1>2, <1>3, AnsweredKept
<1> QED  BY <1>4, <1>5

(* The executor goes; what it had queued is as it was. *)
LEMMA ShutdownOnce ==
  ASSUME NEW v \in TaskRecord, NEW w, Once(v), Answered(v), Shutdown(v, w)
  PROVE  Once(w) /\ Answered(w)
BY DEF Once, Alone, Answered, Shutdown, TaskRecord

(* The one Task that is left is dropped with its future. *)
LEMMA DiscardTaskOnce ==
  ASSUME NEW v \in TaskRecord, NEW w, IInv(v), Once(v), Answered(v), DiscardTask(v, w)
  PROVE  Once(w) /\ Answered(w)
<1>c. Counts(v)
  BY Counted
<1>1. /\ v.runnables > 0 /\ v.runnables \in Nat /\ v.drops \in Nat /\ w.runnables = v.runnables - 1
      /\ v.phase = "idle" /\ w.phase = "discarding" /\ v.state \in Word /\ ~need_start(v.state)
      /\ w.drops = v.drops + 1 /\ w.result = v.result /\ w.cancelled = v.cancelled
      /\ w.state = drop_task(v.state)
  BY <1>c DEF Counts, DiscardTask, IInv, Typed, Fresh, TaskRecord
<1>2. ~need_start(w.state)
  BY <1>1, ClosingTransitions DEF Flags
<1>3. Once(w)
  BY <1>1 DEF Once, Alone
<1>4. Answered(w)
  BY <1>1, <1>2, AnsweredKept
<1> QED  BY <1>3, <1>4

(* Nothing is left to drop. *)
LEMMA FinishDiscardOnce ==
  ASSUME NEW v \in TaskRecord, NEW w, IInv(v), Once(v), Answered(v), FinishDiscard(v, w)
  PROVE  Once(w) /\ Answered(w)
<1>1. /\ v.phase = "discarding" /\ w.phase = "idle" /\ w.state = drop_task(v.state)
      /\ w.drops = v.drops /\ w.runnables = v.runnables /\ w.result = v.result
         /\ w.cancelled = v.cancelled
  BY DEF FinishDiscard, TaskRecord
<1>2. /\ ~v.cancelled => v.runnables = 0
      /\ ~need_start(v.state) /\ v.state \in Word /\ v.drops > 0 /\ v.drops \in Nat
  BY <1>1, PollingAlone DEF IInv, Future
<1>3. ~need_start(w.state)
  BY <1>1, <1>2, ClosingTransitions DEF Flags
<1>4. Once(w)
  BY <1>1, <1>2 DEF Once, Alone
<1>5. Answered(w)
  BY <1>1, <1>2, <1>3, AnsweredKept
<1> QED  BY <1>4, <1>5

-----------------------------------------------------------------------------
(* Each action preserves Awaited *)

(* Polling the handle queues a fresh task, or takes the answer of one that rests. *)
LEMMA PollHandleAwaited ==
  ASSUME NEW v \in TaskRecord, NEW w, Calm(v), PollHandle(v, w)
  PROVE  Awaited(w)
<1> DEFINE r == poll_join_handle(v.state)
           u == incr_ref(r.state)
<1>1. /\ v.handle = "held" /\ v.memory = "live" /\ v.state.refs = Holders(v)
      /\ v.state \in Word /\ v.wakers \in Nat /\ v.runnables \in Nat
  BY HandleHolds DEF Calm, PollHandle, TaskRecord
<1>2. /\ r.action \in {"Start", "Register", "CompleteNone", "CompleteSome",
                       "assert_waiting", "assert_finished"}
      /\ r.action = "Start" <=> need_start(v.state) /\ ~is_closed(v.state)
      /\ r.action = "CompleteSome" <=>
           is_completed(v.state) /\ ~is_closed(v.state) /\ ~need_start(v.state)
      /\ r.action = "CompleteNone" => is_closed(v.state)
      /\ r.action = "assert_waiting" =>
           is_closed(v.state) /\ (is_scheduled(v.state) \/ is_running(v.state))
      /\ r.state \in Word /\ r.state.refs = v.state.refs
      /\ Flags(r.state, is_running(v.state), is_completed(v.state),
               is_closed(v.state) \/ r.action = "CompleteSome", is_scheduled(v.state),
               need_start(v.state) /\ r.action \notin {"Start", "CompleteNone"})
  BY <1>1, PollHandleTransition
<1>3. r.action = "assert_finished" =>
        DebugAssertions /\ is_closed(v.state) /\ ~is_completed(v.state)
  BY DEF poll_join_handle, Assert, Then
<1> HIDE DEF r
<1>4. /\ u.refs = v.state.refs + 1
      /\ Flags(u, is_running(v.state), is_completed(v.state),
               is_closed(v.state) \/ r.action = "CompleteSome", is_scheduled(v.state),
               need_start(v.state) /\ r.action \notin {"Start", "CompleteNone"})
  BY <1>2, RefTransitions DEF Flags
<1> HIDE DEF u
<1>5. r.action # "assert_waiting"
  BY <1>2 DEF Calm, Tended, ClosedRests
<1>6. /\ r.action = "Start" => w.state = u /\ Pushed(v, w, TRUE) /\ w.result = v.result
      /\ r.action \in {"Register", "assert_finished"} =>
            /\ w.state = v.state /\ w.runnables = v.runnables /\ w.result = v.result
            /\ w.fault = PanicOr(r.action, v.fault)
      /\ r.action \in {"CompleteNone", "CompleteSome"} =>
            w.state = r.state /\ w.runnables = v.runnables /\ w.fault = v.fault
      /\ w.memory = v.memory /\ w.drops = v.drops /\ w.phase = v.phase /\ w.wakers = v.wakers
         /\ w.handle = v.handle /\ w.executor = v.executor
      /\ v.fault = "none" /\ v.result = "pending" /\ v.phase = "idle"
  BY ZenonT(60), <1>2 DEF PollHandle, schedule, Push, Pushed, r, u, Panics, TaskRecord
<1> USE <1>1, <1>2, <1>4, <1>5, <1>6 DEF Calm, Tended, Flags, Pushed
<1>7. Harmless(w)
  BY <1>3 DEF Harmless, ClosedRests, PanicOr, Panics
<1>8. w.phase # "discarding" /\ ClosedRests(w) /\ DropsOnce(w)
  BY DEF ClosedRests, DropsOnce, IInv, Fresh, Completed, Phase
<1>9. HandleLast(w)
  BY DEF HandleLast, Holders
<1> QED  BY <1>7, <1>8, <1>9 DEF Awaited

(***************************************************************************)
(* Only the answered handle is dropped.  As the last holder it frees the   *)
(* task; with a waker alive it panics.                                     *)
(***************************************************************************)
LEMMA DropHandleAwaited ==
  ASSUME NEW v \in TaskRecord, NEW w, Calm(v), DropHandle(v, w), Awaits(w)
  PROVE  Awaited(w)
<1> DEFINE r == drop_join_handle(v.state)
<1>1. /\ v.handle = "held" /\ v.memory = "live" /\ v.state.refs = Holders(v)
      /\ v.state \in Word /\ v.wakers \in Nat /\ v.runnables \in Nat
  BY HandleHolds DEF Calm, DropHandle, TaskRecord
<1>2. w.handle = "dropped" /\ v.result # "pending"
  BY DEF DropHandle, schedule, Push, Awaits, TaskRecord
<1>3. /\ is_closed(v.state) /\ v.phase = "idle" /\ v.runnables = 0 /\ v.state.refs = v.wakers + 1
      /\ ~is_scheduled(v.state) /\ ~is_running(v.state)
  BY <1>1, <1>2 DEF Calm, Tended, HandleLast, ClosedRests, Holders
<1>4. decr_ref(v.state).refs = v.wakers
  <2>1. decr_ref(v.state).refs = v.state.refs - 1
    BY <1>1, RefTransitions
  <2> QED  BY <1>1, <1>3, <2>1
<1>5. CASE v.wakers > 0
  <2>1. v.state # INITIAL_STATE /\ decr_ref(v.state).refs # 0
    BY <1>1, <1>3, <1>4, <1>5, InitialWord
  <2>2. r = Then(v.state, "unreachable")
    BY <1>3, <2>1 DEF drop_join_handle
  <2>3. w.fault = "unreachable" /\ w.wakers = v.wakers
    <3>1. r.action = "unreachable" /\ r.action \in Panics
      BY <2>2 DEF Then, Panics
    <3> HIDE DEF r
    <3>2. w = [v EXCEPT !.handle = "dropped", !.fault = r.action]
      BY <3>1 DEF DropHandle, r
    <3> QED  BY <3>1, <3>2 DEF TaskRecord
  <2> QED  BY <1>2, <1>5, <2>3 DEF Awaited, Harmless
<1>6. CASE v.wakers = 0
  <2>1. r = Then(v.state, "Destroy") \/ r = Then(decr_ref(v.state), "Destroy")
    BY <1>3, <1>4, <1>6 DEF drop_join_handle, Assert
  <2>2. /\ r.action = "Destroy"
        /\ Flags(r.state, is_running(v.state), is_completed(v.state), is_closed(v.state),
                 is_scheduled(v.state), need_start(v.state))
    BY <1>1, <2>1, RefTransitions DEF Then, Flags
  <2> HIDE DEF r
  <2>3. /\ w.state = r.state /\ w.memory = "freed"
        /\ w.runnables = v.runnables /\ w.drops = v.drops /\ w.phase = v.phase
           /\ w.wakers = v.wakers /\ w.result = v.result /\ w.executor = v.executor
           /\ w.fault = v.fault
    BY <2>2 DEF DropHandle, schedule, Push, Pushed, r, Panics, TaskRecord
  <2> USE <1>1, <1>2, <1>3, <2>2, <2>3 DEF Calm, Tended, Flags
  <2>4. w.phase # "discarding" /\ ClosedRests(w) /\ DropsOnce(w)
    BY DEF ClosedRests, DropsOnce
  <2>5. HandleLast(w)
    BY DEF HandleLast
  <2> QED  BY <2>4, <2>5 DEF Awaited, Harmless
<1> QED  BY <1>1, <1>5, <1>6

(* A clone of a waker is one more reference and one more holder. *)
LEMMA CloneWakerAwaited ==
  ASSUME NEW v \in TaskRecord, NEW w, Calm(v), CloneWaker(v, w)
  PROVE  Awaited(w)
<1>1. /\ v.handle = "held" /\ v.memory = "live" /\ v.state.refs = Holders(v)
      /\ v.state \in Word /\ v.wakers \in Nat /\ v.runnables \in Nat
  BY HandleHolds DEF Calm, CloneWaker, WakerInReach, TaskRecord
<1>2. /\ w.state.refs = v.state.refs + 1 /\ w.wakers = v.wakers + 1
      /\ Flags(w.state, is_running(v.state), is_completed(v.state), is_closed(v.state),
               is_scheduled(v.state), need_start(v.state))
      /\ w.memory = v.memory /\ w.drops = v.drops /\ w.runnables = v.runnables
         /\ w.phase = v.phase /\ w.handle = v.handle /\ w.result = v.result
         /\ w.executor = v.executor /\ w.fault = v.fault
  BY <1>1, RefTransitions DEF CloneWaker, TaskRecord
<1> USE <1>1, <1>2 DEF Calm, Tended, Flags
<1>3. w.phase # "discarding" /\ ClosedRests(w) /\ DropsOnce(w)
  BY DEF ClosedRests, DropsOnce
<1>4. HandleLast(w)
  BY DEF HandleLast, Holders
<1> QED  BY <1>3, <1>4 DEF Awaited, Harmless

(* A wake by reference queues the task at most once. *)
LEMMA WakeByRefAwaited ==
  ASSUME NEW v \in TaskRecord, NEW w, Calm(v), WakeByRef(v, w)
  PROVE  Awaited(w)
<1> DEFINE t == do_wake(v).state
           u == incr_ref(t)
           submit == do_wake(v).action = "Submit"
<1>1. /\ v.handle = "held" /\ v.memory = "live" /\ v.state.refs = Holders(v)
      /\ v.state \in Word /\ v.wakers \in Nat /\ v.runnables \in Nat
  BY HandleHolds DEF Calm, WakeByRef, WakerInReach, TaskRecord
<1>2. /\ submit <=> /\ ~is_completed(v.state) /\ ~is_closed(v.state)
                    /\ ~is_scheduled(v.state) /\ ~is_running(v.state)
      /\ submit => v.runnables = 0 /\ v.phase = "idle"
      /\ t \in Word /\ t.refs = v.state.refs
      /\ Flags(t, is_running(v.state), is_completed(v.state), is_closed(v.state),
               (~is_completed(v.state) /\ ~is_closed(v.state)) \/ is_scheduled(v.state),
               need_start(v.state))
  BY SubmitsAlone DEF WakeByRef, Calm, TaskRecord
<1> HIDE DEF t, submit
<1>3. /\ u.refs = v.state.refs + 1
      /\ Flags(u, is_running(t), is_completed(t), is_closed(t), is_scheduled(t), need_start(t))
  BY <1>2, RefTransitions
<1> HIDE DEF u
<1>4. /\ w.state = IF submit THEN u ELSE t
      /\ Pushed(v, w, submit)
      /\ w.memory = v.memory /\ w.drops = v.drops /\ w.phase = v.phase /\ w.wakers = v.wakers
         /\ w.handle = v.handle /\ w.result = v.result /\ w.executor = v.executor
      /\ v.fault = "none"
  BY DEF WakeByRef, schedule, Push, Pushed, t, u, submit, TaskRecord
<1> USE <1>1, <1>2, <1>3, <1>4 DEF Calm, Tended, Flags, Pushed
<1>5. w.phase # "discarding" /\ ClosedRests(w) /\ DropsOnce(w)
  BY DEF ClosedRests, DropsOnce
<1>6. HandleLast(w)
  BY DEF HandleLast, Holders
<1> QED  BY <1>5, <1>6 DEF Awaited, Harmless

(* The waker given back is not the last reference: the handle has one. *)
LEMMA NotLast ==
  ASSUME NEW s \in Word, s.refs >= 2
  PROVE  /\ drop_waker(s).action = "DoNothing" /\ drop_waker(s).state.refs = s.refs - 1
         /\ Flags(drop_waker(s).state, is_running(s), is_completed(s), is_closed(s),
                  is_scheduled(s), need_start(s))
<1>1. s.refs # 1
  BY DEF Word
<1> QED  BY <1>1, DropWakerTransition

(* Dropping a waker, while the handle lives, only gives a reference back. *)
LEMMA DropWakerAwaited ==
  ASSUME NEW v \in TaskRecord, NEW w, Calm(v), DropWaker(v, w)
  PROVE  Awaited(w)
<1> DEFINE r == drop_waker(v.state)
<1>1. /\ v.handle = "held" /\ v.memory = "live" /\ v.state.refs = Holders(v)
      /\ v.state \in Word /\ v.wakers \in Nat /\ v.runnables \in Nat /\ v.wakers > 0
  BY HandleHolds DEF Calm, DropWaker, TaskRecord
<1>2. v.state.refs >= 2
  BY <1>1 DEF Holders
<1>3. /\ r.action = "DoNothing" /\ r.state.refs = v.state.refs - 1
      /\ Flags(r.state, is_running(v.state), is_completed(v.state), is_closed(v.state),
               is_scheduled(v.state), need_start(v.state))
  BY <1>1, <1>2, NotLast
<1> HIDE DEF r
<1>4. /\ w.state = r.state /\ w.wakers = v.wakers - 1
      /\ w.memory = v.memory /\ w.drops = v.drops /\ w.runnables = v.runnables
         /\ w.phase = v.phase /\ w.handle = v.handle /\ w.result = v.result
         /\ w.executor = v.executor /\ w.fault = v.fault
  BY <1>3 DEF DropWaker, schedule, Push, Pushed, r, TaskRecord
<1> USE <1>1, <1>3, <1>4 DEF Calm, Tended, Flags
<1>5. w.phase # "discarding" /\ ClosedRests(w) /\ DropsOnce(w)
  BY DEF ClosedRests, DropsOnce
<1>6. HandleLast(w)
  BY DEF HandleLast, Holders
<1> QED  BY <1>5, <1>6 DEF Awaited, Harmless

(* A wake by value does both, in this order. *)
LEMMA WakeByValAwaited ==
  ASSUME NEW v \in TaskRecord, NEW w, Calm(v), WakeByVal(v, w)
  PROVE  Awaited(w)
<1> DEFINE t == do_wake(v).state
           submit == do_wake(v).action = "Submit"
           s == IF submit THEN incr_ref(t) ELSE t
           r == drop_waker(s)
<1>1. /\ v.handle = "held" /\ v.memory = "live" /\ v.state.refs = Holders(v)
      /\ v.state \in Word /\ v.wakers \in Nat /\ v.runnables \in Nat /\ v.wakers > 0
  BY HandleHolds DEF Calm, WakeByVal, TaskRecord
<1>2. /\ submit <=> /\ ~is_completed(v.state) /\ ~is_closed(v.state)
                    /\ ~is_scheduled(v.state) /\ ~is_running(v.state)
      /\ submit => v.runnables = 0 /\ v.phase = "idle"
      /\ t \in Word /\ t.refs = v.state.refs
      /\ Flags(t, is_running(v.state), is_completed(v.state), is_closed(v.state),
               (~is_completed(v.state) /\ ~is_closed(v.state)) \/ is_scheduled(v.state),
               need_start(v.state))
  BY <1>1, SubmitsAlone DEF WakeByVal, WakerInReach, Calm, TaskRecord
<1> HIDE DEF t, submit
<1>3. /\ s \in Word /\ s.refs = v.state.refs + (IF submit THEN 1 ELSE 0)
      /\ Flags(s, is_running(t), is_completed(t), is_closed(t), is_scheduled(t), need_start(t))
  BY <1>1, <1>2, RefTransitions DEF Flags, Word
<1>4. s.refs >= 2
  BY <1>1, <1>3 DEF Holders
<1> HIDE DEF s
<1>5. /\ r.action = "DoNothing" /\ r.state.refs = s.refs - 1
      /\ Flags(r.state, is_running(s), is_completed(s), is_closed(s), is_scheduled(s),
               need_start(s))
  BY <1>3, <1>4, NotLast
<1> HIDE DEF r
<1>6. v.executor = "up" /\ v.fault = "none"
  BY DEF Calm, Tended, WakeByVal, TaskRecord
<1>7. /\ w.state = r.state /\ w.wakers = v.wakers - 1 /\ Pushed(v, w, submit)
      /\ w.memory = v.memory /\ w.drops = v.drops /\ w.phase = v.phase /\ w.handle = v.handle
         /\ w.result = v.result /\ w.executor = v.executor
  BY <1>5, <1>6 DEF WakeByVal, Push, Pushed, t, submit, s, r, TaskRecord
<1> USE <1>1, <1>2, <1>3, <1>5, <1>6, <1>7 DEF Calm, Tended, Flags, Pushed
<1>8. w.phase # "discarding" /\ ClosedRests(w) /\ DropsOnce(w)
  BY DEF ClosedRests, DropsOnce
<1>9. HandleLast(w)
  BY DEF HandleLast, Holders
<1> QED  BY <1>8, <1>9 DEF Awaited, Harmless

(* The one Task that is queued is that of an open task, which is polled. *)
LEMMA RunAwaited ==
  ASSUME NEW v \in TaskRecord, NEW w, Calm(v), Run(v, w)
  PROVE  Awaited(w)
<1> DEFINE r == transition_to_running(v.state)
<1>1. /\ v.handle = "held" /\ v.memory = "live" /\ v.state.refs = Holders(v)
      /\ v.state \in Word /\ v.wakers \in Nat /\ v.runnables \in Nat
      /\ v.runnables = 1 /\ v.phase = "idle" /\ v.fault = "none"
  BY HandleHolds DEF Calm, Run, TaskRecord
<1>2. ~is_closed(v.state) /\ ~need_start(v.state) /\ ~is_completed(v.state)
  BY <1>1 DEF Calm, Tended, ClosedRests, IInv, Fresh, Completed
<1>3. /\ r.action = "Running" /\ r.state.refs = v.state.refs
      /\ Flags(r.state, TRUE, FALSE, FALSE, FALSE, FALSE)
  BY <1>1, <1>2, RunningTransition DEF Flags
<1> HIDE DEF r
<1>4. /\ w.state = r.state /\ w.runnables = 0 /\ w.phase = "polling" /\ w.drops = v.drops
      /\ w.fault = "none"
      /\ w.memory = v.memory /\ w.wakers = v.wakers /\ w.handle = v.handle
         /\ w.result = v.result /\ w.executor = v.executor
  BY <1>1, <1>3 DEF Run, PanicOr, Panics, r, TaskRecord
<1> USE <1>1, <1>2, <1>3, <1>4 DEF Calm, Tended, Flags
<1>5. w.phase # "discarding" /\ ClosedRests(w) /\ DropsOnce(w)
  BY DEF ClosedRests, DropsOnce
<1>6. HandleLast(w)
  BY DEF HandleLast, Holders
<1> QED  BY <1>5, <1>6 DEF Awaited, Harmless

(* Between the end of F::poll and of F::drop the task is still open. *)
LEMMA PollReadyAwaited ==
  ASSUME NEW v \in TaskRecord, NEW w, Calm(v), PollReady(v, w)
  PROVE  Awaited(w)
<1>1. /\ v.phase = "polling" /\ w.phase = "completing" /\ w.drops = v.drops + 1
      /\ w.state = v.state /\ w.memory = v.memory /\ w.runnables = v.runnables
         /\ w.wakers = v.wakers /\ w.handle = v.handle /\ w.result = v.result
         /\ w.executor = v.executor /\ w.fault = v.fault
      /\ is_running(v.state) /\ ~is_completed(v.state) /\ ~is_closed(v.state)
  BY DEF PollReady, Calm, Tended, ClosedRests, IInv, Phase, Completed, TaskRecord
<1> USE <1>1 DEF Calm, Tended
<1>2. w.phase # "discarding" /\ ClosedRests(w) /\ DropsOnce(w)
  BY DEF ClosedRests, DropsOnce
<1>3. HandleLast(w)
  BY DEF HandleLast, Holders
<1> QED  BY <1>2, <1>3 DEF Awaited, Harmless

(* A task that runs is open, never started again, and not held by the run alone. *)
LEMMA RunHolds ==
  ASSUME NEW v \in TaskRecord, Calm(v), v.phase # "idle"
  PROVE  /\ v.handle = "held" /\ v.memory = "live" /\ v.state.refs = Holders(v)
         /\ v.state \in Word /\ v.wakers \in Nat /\ v.runnables = 0 /\ v.result = "pending"
         /\ v.state.refs >= 2
         /\ v.phase # "dropping" =>
              is_running(v.state) /\ ~is_closed(v.state) /\ ~is_completed(v.state)
         /\ ~need_start(v.state)
<1>1. /\ v.handle = "held" /\ v.memory = "live" /\ v.state.refs = Holders(v)
      /\ v.state \in Word /\ v.wakers \in Nat /\ v.runnables \in Nat
  BY HandleHolds DEF Calm
<1>2. v.runnables = 0
  BY <1>1 DEF Calm, Tended
<1>3. v.state.refs >= 2
  BY <1>1, <1>2 DEF Holders
<1>4. v.phase # "dropping" => is_running(v.state)
  BY DEF Calm, Tended, IInv, Typed, Phases, Phase
<1> QED  BY <1>1, <1>2, <1>3, <1>4
        DEF Calm, Tended, ClosedRests, HandleLast, IInv, Fresh, Completed

(* Completing gives the run's reference back and leaves the handle's. *)
LEMMA FinishReadyAwaited ==
  ASSUME NEW v \in TaskRecord, NEW w, Calm(v), FinishReady(v, w)
  PROVE  Awaited(w)
<1> DEFINE r == transition_to_completed(v.state)
           d == decr_ref(r.state)
<1>1. v.phase = "completing" /\ w.phase = "idle"
  BY DEF FinishReady, TaskRecord
<1>2. /\ v.handle = "held" /\ v.memory = "live" /\ v.state.refs = Holders(v)
      /\ v.state \in Word /\ v.wakers \in Nat /\ v.runnables = 0 /\ v.result = "pending"
      /\ v.state.refs >= 2 /\ ~is_closed(v.state) /\ ~need_start(v.state)
  BY <1>1, RunHolds
<1>3. /\ r.state \in Word /\ r.state.refs = v.state.refs
      /\ Flags(r.state, FALSE, TRUE, FALSE, FALSE, FALSE)
  BY <1>2, CompletedTransition DEF Flags
<1> HIDE DEF r
<1>4. d.refs = v.state.refs - 1 /\ Flags(d, FALSE, TRUE, FALSE, FALSE, FALSE)
  BY <1>3, RefTransitions DEF Flags
<1> HIDE DEF d
<1>5. /\ w.state = d /\ w.memory = v.memory
      /\ w.drops = v.drops /\ w.runnables = v.runnables /\ w.wakers = v.wakers
         /\ w.handle = v.handle /\ w.result = v.result /\ w.executor = v.executor
         /\ w.fault = v.fault
  <2>1. v.state.refs - 1 # 0
    BY <1>2 DEF Word
  <2> QED  BY <2>1, <1>4 DEF FinishReady, drop_task_ref, r, d, TaskRecord
<1> USE <1>1, <1>2, <1>4, <1>5 DEF Calm, Tended, Flags
<1>6. w.phase # "discarding" /\ ClosedRests(w) /\ DropsOnce(w)
  BY DEF ClosedRests, DropsOnce
<1>7. HandleLast(w)
  BY DEF HandleLast, Holders
<1> QED  BY <1>6, <1>7 DEF Awaited, Harmless

(* A poll that was woken meanwhile passes its reference on to the queued Task. *)
LEMMA PollPendingAwaited ==
  ASSUME NEW v \in TaskRecord, NEW w, Calm(v), PollPending(v, w)
  PROVE  Awaited(w)
<1> DEFINE r == transition_to_idle(v.state)
           again == is_scheduled(v.state)
           s == IF again THEN incr_ref(r.state) ELSE r.state
           d == decr_ref(s)
<1>1. v.phase = "polling" /\ v.fault = "none"
  BY DEF PollPending, TaskRecord
<1>2. /\ v.handle = "held" /\ v.memory = "live" /\ v.state.refs = Holders(v)
      /\ v.state \in Word /\ v.wakers \in Nat /\ v.runnables = 0 /\ v.result = "pending"
      /\ v.state.refs >= 2 /\ ~need_start(v.state)
      /\ is_running(v.state) /\ ~is_closed(v.state) /\ ~is_completed(v.state)
  BY <1>1, RunHolds
<1>3. /\ r.action = IF again THEN "Schedule" ELSE "DoNothing"
      /\ r.state \in Word /\ r.state.refs = v.state.refs
      /\ Flags(r.state, FALSE, FALSE, FALSE, again, FALSE)
  BY <1>2, IdleTransition DEF Flags
<1> HIDE DEF r
<1>4. /\ s \in Word /\ s.refs = v.state.refs + (IF again THEN 1 ELSE 0)
      /\ Flags(s, FALSE, FALSE, FALSE, again, FALSE)
  BY <1>2, <1>3, RefTransitions DEF Flags, Word
<1> HIDE DEF s
<1>5. /\ d.refs = s.refs - 1
      /\ Flags(d, FALSE, FALSE, FALSE, again, FALSE)
  BY <1>4, RefTransitions DEF Flags
<1> HIDE DEF d
<1>6. /\ w.phase = "idle" /\ w.state = d /\ w.memory = v.memory /\ w.drops = v.drops
      /\ w.runnables = IF again THEN 1 ELSE 0
      /\ w.fault = "none"
      /\ w.wakers = v.wakers /\ w.handle = v.handle /\ w.result = v.result
         /\ w.executor = v.executor
  <2>1. s.refs - 1 # 0
    BY <1>2, <1>4 DEF Word
  <2>2. r.action # "Closed" /\ (r.action = "Schedule" <=> again) /\ r.action \notin Panics
    BY <1>3 DEF Panics
  <2>3. /\ w.phase = "idle" /\ w.drops = v.drops
        /\ w.state = d /\ w.memory = (IF d.refs = 0 THEN "freed" ELSE v.memory)
        /\ w.runnables = IF r.action = "Schedule" THEN v.runnables + 1 ELSE v.runnables
        /\ w.fault = PanicOr(r.action, v.fault)
        /\ w.wakers = v.wakers /\ w.handle = v.handle /\ w.result = v.result
           /\ w.executor = v.executor
    BY ZenonT(60), <2>2 DEF PollPending, drop_task_ref, r, s, d, TaskRecord
  <2>4. w.state = d /\ w.memory = v.memory
    BY <2>1, <2>3, <1>5
  <2> QED  BY <2>2, <2>3, <2>4, <1>1, <1>2 DEF PanicOr
<1> USE <1>1, <1>2, <1>4, <1>5, <1>6 DEF Calm, Tended, Flags
<1>7. w.phase # "discarding" /\ ClosedRests(w) /\ DropsOnce(w)
  BY DEF ClosedRests, DropsOnce
<1>8. HandleLast(w)
  BY DEF HandleLast, Holders
<1> QED  BY <1>7, <1>8 DEF Awaited, Harmless

(* A panic closes the task and drops the future, in the run that polled it. *)
LEMMA PollPanicAwaited ==
  ASSUME NEW v \in TaskRecord, NEW w, Calm(v), PollPanic(v, w)
  PROVE  Awaited(w)
<1> DEFINE c == set_closed(v.state)
<1>1. v.phase = "polling" /\ v.fault = "none" /\ "panic" \in Client
  BY DEF PollPanic, TaskRecord
<1>2. /\ v.handle = "held" /\ v.memory = "live" /\ v.state.refs = Holders(v)
      /\ v.state \in Word /\ v.wakers \in Nat /\ v.runnables = 0 /\ v.result = "pending"
      /\ ~need_start(v.state) /\ ~is_closed(v.state) /\ ~is_completed(v.state)
  BY <1>1, RunHolds
<1>3. c.refs = v.state.refs /\ Flags(c, FALSE, FALSE, TRUE, FALSE, FALSE)
  BY <1>2, ClosingTransitions DEF Flags
<1> HIDE DEF c
<1>4. /\ w.state = c /\ w.phase = "dropping" /\ w.drops = v.drops + 1
      /\ w.memory = v.memory /\ w.runnables = v.runnables /\ w.wakers = v.wakers
         /\ w.handle = v.handle /\ w.result = v.result /\ w.executor = v.executor
         /\ w.fault = v.fault
  BY DEF PollPanic, c, TaskRecord
<1> USE <1>1, <1>2, <1>3, <1>4 DEF Calm, Tended, Flags
<1>5. w.phase # "discarding" /\ ClosedRests(w) /\ DropsOnce(w)
  BY DEF ClosedRests, DropsOnce
<1>6. HandleLast(w)
  BY DEF HandleLast, Holders
<1> QED  BY <1>5, <1>6 DEF Awaited, Harmless

(* The end of a panicked run gives its reference back and leaves the handle's. *)
LEMMA FinishDropAwaited ==
  ASSUME NEW v \in TaskRecord, NEW w, Calm(v), FinishDrop(v, w)
  PROVE  Awaited(w)
<1> DEFINE d == decr_ref(v.state)
<1>1. v.phase = "dropping" /\ w.phase = "idle"
  BY DEF FinishDrop, TaskRecord
<1>2. /\ v.handle = "held" /\ v.memory = "live" /\ v.state.refs = Holders(v)
      /\ v.state \in Word /\ v.wakers \in Nat /\ v.runnables = 0 /\ v.result = "pending"
      /\ v.state.refs >= 2
  BY <1>1, RunHolds
<1>3. /\ d.refs = v.state.refs - 1
      /\ Flags(d, is_running(v.state), is_completed(v.state), is_closed(v.state),
               is_scheduled(v.state), need_start(v.state))
  BY <1>2, RefTransitions
<1> HIDE DEF d
<1>4. /\ w.state = d /\ w.memory = v.memory
      /\ w.drops = v.drops /\ w.runnables = v.runnables /\ w.wakers = v.wakers
         /\ w.handle = v.handle /\ w.result = v.result /\ w.executor = v.executor
         /\ w.fault = v.fault
  <2>1. v.state.refs - 1 # 0
    BY <1>2 DEF Word
  <2> QED  BY <2>1, <1>3 DEF FinishDrop, drop_task_ref, d, TaskRecord
<1>5. is_closed(v.state)
  BY <1>1 DEF Calm, IInv, Phase
<1> USE <1>1, <1>2, <1>3, <1>4, <1>5 DEF Calm, Tended, Flags
<1>6. w.phase # "discarding" /\ ClosedRests(w) /\ DropsOnce(w)
  BY DEF ClosedRests, DropsOnce
<1>7. HandleLast(w)
  BY DEF HandleLast, Holders
<1> QED  BY <1>6, <1>7 DEF Awaited, Harmless

-----------------------------------------------------------------------------
(***************************************************************************)
(* Every step preserves the invariant: of any task Once and Answered, and  *)
(* Awaited of a task that is still only awaited after the step.            *)
(***************************************************************************)
LEMMA StepKeepsAInv ==
  ASSUME NEW v \in TaskRecord, NEW w, AInv(v), Step(v, w)
  PROVE  w \in TaskRecord /\ AInv(w)
<1>1. w \in TaskRecord /\ IInv(w)
  BY StepKeepsIInv DEF AInv
<1>2. Once(w) /\ Answered(w)
  <2>1. IInv(v) /\ Once(v) /\ Answered(v)
    BY DEF AInv
  <2>2. CASE PollHandle(v, w)     BY <2>1, <2>2, PollHandleOnce
  <2>3. CASE Cancel(v, w)         BY <2>1, <2>3, CancelOnce
  <2>4. CASE DropHandle(v, w)     BY <2>1, <2>4, DropHandleOnce
  <2>5. CASE CloneWaker(v, w)     BY <2>1, <2>5, CloneWakerOnce
  <2>6. CASE WakeByRef(v, w)      BY <2>1, <2>6, WakeByRefOnce
  <2>7. CASE WakeByVal(v, w)      BY <2>1, <2>7, WakeByValOnce
  <2>8. CASE DropWaker(v, w)      BY <2>1, <2>8, DropWakerOnce
  <2>9. CASE Run(v, w)            BY <2>1, <2>9, RunOnce
  <2>10. CASE PollReady(v, w)     BY <2>1, <2>10, PollReadyOnce
  <2>11. CASE FinishReady(v, w)   BY <2>1, <2>11, FinishReadyOnce
  <2>12. CASE PollPending(v, w)   BY <2>1, <2>12, PollPendingOnce
  <2>13. CASE PollPanic(v, w)     BY <2>1, <2>13, PollPanicOnce
  <2>14. CASE FinishDrop(v, w)    BY <2>1, <2>14, FinishDropOnce
  <2>15. CASE Shutdown(v, w)      BY <2>1, <2>15, ShutdownOnce
  <2>16. CASE DiscardTask(v, w)   BY <2>1, <2>16, DiscardTaskOnce
  <2>17. CASE FinishDiscard(v, w) BY <2>1, <2>17, FinishDiscardOnce
  <2> QED
    BY <2>2, <2>3, <2>4, <2>5, <2>6, <2>7, <2>8, <2>9, <2>10, <2>11, <2>12, <2>13, <2>14,
       <2>15, <2>16, <2>17 DEF Step
<1>3. ASSUME Awaits(w)
      PROVE  Awaited(w)
  <2>1. Awaits(v) /\ Awaited(v)
    BY <1>3, AwaitedBefore DEF AInv
  <2>2. v.fault = "none"
    BY DEF Step, PollHandle, Cancel, DropHandle, CloneWaker, WakeByRef, WakeByVal, DropWaker, Run,
           PollReady, FinishReady, PollPending, PollPanic, FinishDrop, Shutdown, DiscardTask,
           FinishDiscard
  <2>3. Calm(v)
    BY <2>1, <2>2 DEF Calm, AInv, Awaited, Awaits, Once, Alone
  <2>4. CASE PollHandle(v, w)     BY <2>3, <2>4, PollHandleAwaited
  <2>5. CASE DropHandle(v, w)     BY <1>3, <2>3, <2>5, DropHandleAwaited
  <2>6. CASE CloneWaker(v, w)     BY <2>3, <2>6, CloneWakerAwaited
  <2>7. CASE WakeByRef(v, w)      BY <2>3, <2>7, WakeByRefAwaited
  <2>8. CASE WakeByVal(v, w)      BY <2>3, <2>8, WakeByValAwaited
  <2>9. CASE DropWaker(v, w)      BY <2>3, <2>9, DropWakerAwaited
  <2>10. CASE Run(v, w)           BY <2>3, <2>10, RunAwaited
  <2>11. CASE PollReady(v, w)     BY <2>3, <2>11, PollReadyAwaited
  <2>12. CASE FinishReady(v, w)   BY <2>3, <2>12, FinishReadyAwaited
  <2>13. CASE PollPending(v, w)   BY <2>3, <2>13, PollPendingAwaited
  <2>14. CASE PollPanic(v, w)     BY <2>3, <2>14, PollPanicAwaited
  <2>15. CASE FinishDrop(v, w)    BY <2>3, <2>15, FinishDropAwaited
  <2>16. ~Cancel(v, w) /\ ~Shutdown(v, w)
    BY <1>3 DEF Cancel, Shutdown, Awaits, schedule, Push, TaskRecord
  <2>17. ~DiscardTask(v, w) /\ ~FinishDiscard(v, w)
    BY <2>3 DEF Calm, Tended, DiscardTask, FinishDiscard
  <2> QED
    BY <2>4, <2>5, <2>6, <2>7, <2>8, <2>9, <2>10, <2>11, <2>12, <2>13, <2>14, <2>15, <2>16,
       <2>17 DEF Step
<1> QED  BY <1>1, <1>2, <1>3 DEF AInv

-----------------------------------------------------------------------------
(* What an executor with many tasks asks of each of them *)

(***************************************************************************)
(* Only a cancel makes an await fail: a task is closed because it was      *)
(* cancelled, because its handle was dropped or because it was answered.   *)
(***************************************************************************)
Explained(v) ==
  /\ is_closed(v.state) => v.cancelled \/ v.handle = "dropped" \/ v.result # "pending"
  /\ v.result = "none" => v.cancelled

(* Only the handle closes a task that is not closed, and the drop of the handle. *)
LEMMA ClosedBefore ==
  ASSUME NEW v \in TaskRecord, NEW w, IInv(v), is_closed(w.state),
         \/ CloneWaker(v, w) \/ WakeByRef(v, w) \/ WakeByVal(v, w) \/ DropWaker(v, w)
         \/ Run(v, w) \/ PollReady(v, w) \/ FinishReady(v, w) \/ PollPending(v, w)
         \/ FinishDrop(v, w) \/ Shutdown(v, w) \/ FinishDiscard(v, w)
  PROVE  is_closed(v.state)
<1>c. Counts(v)
  BY Counted
<1>1. v.state \in Word
  BY <1>c DEF Counts
<1>2. CASE CloneWaker(v, w)
  <2>1. w.state = incr_ref(v.state)
    BY <1>2 DEF CloneWaker, TaskRecord
  <2> QED  BY <1>1, <2>1, RefTransitions DEF Flags
<1>3. CASE WakeByRef(v, w)
  <2> DEFINE t == transition_to_scheduled(v.state).state
  <2>1. w.state \in {t, incr_ref(t)}
    BY <1>3 DEF WakeByRef, do_wake, schedule, Push, TaskRecord
  <2>2. t \in Word /\ (is_closed(t) <=> is_closed(v.state))
    BY <1>1, ScheduledTransition DEF Flags
  <2> HIDE DEF t
  <2> QED  BY <2>1, <2>2, RefTransitions DEF Flags
<1>4. CASE WakeByVal(v, w)
  <2> DEFINE t == transition_to_scheduled(v.state).state
             s == IF do_wake(v).action = "Submit" THEN incr_ref(t) ELSE t
             r == drop_waker(s)
  <2>1. w.state \in {r.state, incr_ref(r.state), incr_ref(t)}
    BY <1>4 DEF WakeByVal, do_wake, schedule, Push, TaskRecord
  <2>2. t \in Word /\ (is_closed(t) <=> is_closed(v.state))
    BY <1>1, ScheduledTransition DEF Flags
  <2> HIDE DEF t
  <2>3. s \in Word /\ (is_closed(s) <=> is_closed(v.state))
    BY <2>2, RefTransitions DEF Flags
  <2> HIDE DEF s
  <2>4. r.state \in Word /\ (is_closed(r.state) => is_closed(v.state))
    BY <2>3, DropWakerTransition DEF Flags
  <2> HIDE DEF r
  <2> QED  BY <2>1, <2>2, <2>4, RefTransitions DEF Flags
<1>5. CASE DropWaker(v, w)
  <2> DEFINE r == drop_waker(v.state)
  <2>1. w.state \in {r.state, incr_ref(r.state)}
    BY <1>5 DEF DropWaker, schedule, Push, TaskRecord
  <2>2. r.state \in Word /\ (is_closed(r.state) => is_closed(v.state))
    BY <1>1, DropWakerTransition DEF Flags
  <2> HIDE DEF r
  <2> QED  BY <2>1, <2>2, RefTransitions DEF Flags
<1>6. CASE Run(v, w)
  <2>1. ~need_start(v.state) /\ w.state = transition_to_running(v.state).state
    BY <1>6 DEF Run, IInv, Fresh, TaskRecord
  <2> QED  BY <1>1, <2>1, RunningTransition DEF Flags
<1>7. CASE FinishReady(v, w)
  <2> DEFINE r == transition_to_completed(v.state)
  <2>1. v.phase = "completing" /\ w.state = decr_ref(r.state)
    BY <1>7 DEF FinishReady, drop_task_ref, TaskRecord
  <2>2. v.state.refs # 0
    BY <2>1, <1>c DEF Counts, Holders
  <2>3. r.state \in Word /\ (is_closed(r.state) <=> is_closed(v.state))
    BY <1>1, <2>2, CompletedTransition DEF Flags
  <2> HIDE DEF r
  <2> QED  BY <2>1, <2>3, RefTransitions DEF Flags
<1>8. CASE PollPending(v, w)
  <2> DEFINE r == transition_to_idle(v.state)
  <2>1. /\ is_running(v.state)
        /\ w.state \in {r.state, decr_ref(r.state), decr_ref(incr_ref(r.state))}
    BY <1>8 DEF PollPending, drop_task_ref, IInv, Phase, TaskRecord
  <2>2. r.state \in Word /\ (is_closed(r.state) <=> is_closed(v.state))
    BY <1>1, <2>1, IdleTransition DEF Flags
  <2> HIDE DEF r
  <2>3. incr_ref(r.state) \in Word /\ (is_closed(incr_ref(r.state)) <=> is_closed(r.state))
    BY <2>2, RefTransitions DEF Flags
  <2> QED  BY <2>1, <2>2, <2>3, RefTransitions DEF Flags
<1>9. CASE PollReady(v, w) \/ Shutdown(v, w)
  BY <1>9 DEF PollReady, Shutdown, TaskRecord
<1>10. CASE FinishDrop(v, w) \/ FinishDiscard(v, w)
  BY <1>10 DEF FinishDrop, FinishDiscard, IInv, Phase
<1> QED  BY <1>2, <1>3, <1>4, <1>5, <1>6, <1>7, <1>8, <1>9, <1>10

(* Nothing else closes a task, and None is answered of closed ones. *)
LEMMA StepKeepsExplained ==
  ASSUME NEW v \in TaskRecord, NEW w, IInv(v), Explained(v), Step(v, w),
         v.executor = "up", "panic" \notin Client
  PROVE  Explained(w)
<1>c. Counts(v) /\ v.state \in Word
  BY Counted DEF Counts
<1>1. CASE PollHandle(v, w)
  <2> DEFINE r == poll_join_handle(v.state)
  <2>1. /\ v.handle = "held" /\ v.result = "pending"
        /\ w.cancelled = v.cancelled /\ w.handle = v.handle
        /\ \/ w.state \in {r.state, incr_ref(r.state)} /\ r.action = "Start" /\ w.result = v.result
           \/ w.state = v.state /\ w.result = v.result
           \/ w.state = r.state /\ r.action = "CompleteNone" /\ w.result = "none"
           \/ w.state = r.state /\ r.action = "CompleteSome" /\ w.result = "some"
    BY <1>1 DEF PollHandle, schedule, Push, TaskRecord
  <2>2. /\ r.state \in Word
        /\ is_closed(r.state) <=> is_closed(v.state) \/ r.action = "CompleteSome"
        /\ r.action = "CompleteNone" => is_closed(v.state)
    BY <1>c, PollHandleTransition DEF Flags
  <2> HIDE DEF r
  <2>3. is_closed(incr_ref(r.state)) <=> is_closed(r.state)
    BY <2>2, RefTransitions DEF Flags
  <2> QED  BY <2>1, <2>2, <2>3 DEF Explained
<1>2. CASE Cancel(v, w)
  BY <1>2 DEF Cancel, Explained, schedule, Push, TaskRecord
<1>3. CASE DropHandle(v, w)
  BY <1>3 DEF DropHandle, Explained, schedule, Push, TaskRecord
<1>4. CASE \/ CloneWaker(v, w) \/ WakeByRef(v, w) \/ WakeByVal(v, w) \/ DropWaker(v, w)
           \/ Run(v, w) \/ PollReady(v, w) \/ FinishReady(v, w) \/ PollPending(v, w)
           \/ FinishDrop(v, w) \/ Shutdown(v, w) \/ FinishDiscard(v, w)
  <2>1. w.cancelled = v.cancelled /\ w.handle = v.handle /\ w.result = v.result
    <3>1. CASE CloneWaker(v, w) \/ WakeByRef(v, w) \/ WakeByVal(v, w) \/ DropWaker(v, w)
      BY <3>1 DEF CloneWaker, WakeByRef, WakeByVal, DropWaker, schedule, Push, TaskRecord
    <3>2. CASE Run(v, w) \/ PollReady(v, w) \/ FinishReady(v, w) \/ PollPending(v, w)
      BY <3>2 DEF Run, PollReady, FinishReady, PollPending, drop_task_ref, TaskRecord
    <3>3. CASE FinishDrop(v, w) \/ Shutdown(v, w) \/ FinishDiscard(v, w)
      BY <3>3 DEF FinishDrop, Shutdown, FinishDiscard, drop_task_ref, TaskRecord
    <3> QED  BY <1>4, <3>1, <3>2, <3>3
  <2>2. is_closed(w.state) => is_closed(v.state)
    BY <1>4, ClosedBefore
  <2> QED  BY <2>1, <2>2 DEF Explained
<1>5. ~PollPanic(v, w) /\ ~DiscardTask(v, w)
  BY DEF PollPanic, DiscardTask
<1> QED  BY <1>1, <1>2, <1>3, <1>4, <1>5 DEF Step


(***************************************************************************)
(* Nothing happens to a task that is asleep until somebody wakes it.  It   *)
(* falls asleep at the end of a poll and in no other way.                  *)
(***************************************************************************)
Asleep(v) ==
  /\ ~need_start(v.state) /\ ~is_closed(v.state) /\ ~is_completed(v.state)
  /\ v.phase = "idle" /\ v.runnables = 0 /\ v.fault = "none"

(* A wake does not leave a task asleep. *)
LEMMA AsleepUnwoken ==
  ASSUME NEW v, IInv(v), Asleep(v)
  PROVE  ~v.woken /\ ~v.cancelled
BY DEF Asleep, IInv, Wakes, Cancelled, Phase

LEMMA FallsAsleep ==
  ASSUME NEW v \in TaskRecord, NEW w, IInv(v), v.executor = "up", Step(v, w), Asleep(w),
         v.phase # "polling"
  PROVE  Asleep(v)
<1>c. Counts(v) /\ IInv(w)
  BY Counted, StepKeepsIInv
<1>1. v.state \in Word /\ v.runnables \in Nat
  BY <1>c DEF Counts
<1>2. ~w.woken /\ ~w.cancelled
  BY <1>c, AsleepUnwoken
<1>3. CASE PollHandle(v, w)
  <2> DEFINE r == poll_join_handle(v.state)
  <2>1. /\ r.action \in {"Start", "Register", "CompleteNone", "CompleteSome",
                         "assert_waiting", "assert_finished"}
        /\ r.action = "CompleteNone" => is_closed(v.state)
        /\ is_closed(r.state) <=> is_closed(v.state) \/ r.action = "CompleteSome"
    BY <1>1, PollHandleTransition DEF Flags
  <2> HIDE DEF r
  <2>2. /\ r.action = "Start" => w.runnables = v.runnables + 1
        /\ r.action \in {"CompleteNone", "CompleteSome"} => w.state = r.state
        /\ r.action \in {"assert_waiting", "assert_finished"} => w.fault # "none"
        /\ r.action = "Register" =>
             /\ w.state = v.state /\ w.phase = v.phase /\ w.runnables = v.runnables
             /\ v.fault = "none"
    BY <1>3, <2>1 DEF PollHandle, schedule, Push, PanicOr, Panics, r, TaskRecord
  <2> QED  BY <1>1, <2>1, <2>2 DEF Asleep
<1>4. CASE Cancel(v, w)
  BY <1>2, <1>4 DEF Cancel, schedule, Push, TaskRecord
<1>5. CASE DropHandle(v, w)
  <2> DEFINE r == drop_join_handle(v.state)
             u == incr_ref(r.state)
  <2>1. Destroyed(v.state, r) \/ OutputDropped(v.state, r) \/ QueuedOnce(v.state, r)
        \/ Detached(v.state, r) \/ Panicked(v.state, r)
    BY <1>1, DropHandleTransition
  <2>2. /\ r.action \in Panics => w.fault = r.action
        /\ r.action \notin Panics => w.state = IF r.action = "Schedule" THEN u ELSE r.state
        /\ r.action = "Schedule" => w.runnables = v.runnables + 1
    BY <1>5 DEF DropHandle, schedule, Push, Panics, r, u, TaskRecord
  <2> HIDE DEF r, u
  <2>3. FALSE
    BY <1>1, <2>1, <2>2 DEF Asleep, Destroyed, OutputDropped, QueuedOnce, Detached, Panicked,
       Panics, Flags
  <2> QED  BY <2>3
<1>6. CASE CloneWaker(v, w)
  <2>1. /\ w.state = incr_ref(v.state) /\ w.phase = v.phase /\ w.runnables = v.runnables
        /\ v.fault = "none"
    BY <1>6 DEF CloneWaker, TaskRecord
  <2> QED  BY <1>1, <2>1, RefTransitions DEF Asleep, Flags
<1>7. CASE WakeByRef(v, w) \/ WakeByVal(v, w)
  BY <1>2, <1>7 DEF WakeByRef, WakeByVal, schedule, Push, TaskRecord
<1>8. CASE DropWaker(v, w)
  <2> DEFINE r == drop_waker(v.state)
             over == is_completed(v.state) \/ is_closed(v.state)
  <2>1. /\ w.phase = v.phase /\ v.fault = "none" /\ v.wakers > 0
        /\ r.action = "Schedule" => w.runnables = v.runnables + 1
        /\ r.action # "Schedule" => w.state = r.state /\ w.runnables = v.runnables
    BY <1>8 DEF DropWaker, schedule, Push, TaskRecord
  <2>2. ~need_start(v.state)
    BY <2>1 DEF IInv, Fresh, TaskRecord
  <2>3. over => (is_completed(v.state) <=> is_completed(r.state))
                /\ (is_closed(v.state) <=> is_closed(r.state))
    BY <1>1, DropWakerTransition DEF Flags
  <2> HIDE DEF r
  <2>4. r.action # "Schedule" /\ w.state = r.state /\ v.runnables = 0 /\ v.phase = "idle"
    BY <1>1, <2>1 DEF Asleep
  <2>5. ~is_completed(v.state) /\ ~is_closed(v.state)
    BY <2>3, <2>4 DEF Asleep
  <2> HIDE DEF over
  <2> QED  BY <2>1, <2>2, <2>4, <2>5 DEF Asleep
<1>9. CASE Run(v, w)
  <2>1. ~need_start(v.state)
    BY <1>9 DEF Run, IInv, Fresh, TaskRecord
  <2>2. transition_to_running(v.state).action \in {"Closed", "Running"}
    BY <1>1, <2>1, RunningTransition
  <2>3. w.phase = CASE transition_to_running(v.state).action = "Running" -> "polling"
                    [] transition_to_running(v.state).action = "Closed"  -> "dropping"
                    [] transition_to_running(v.state).action \in Panics  -> "idle"
    BY <1>9 DEF Run, TaskRecord
  <2>4. w.phase # "idle"
    BY <2>2, <2>3 DEF Panics
  <2> QED  BY <2>4 DEF Asleep
<1>10. CASE FinishReady(v, w)
  <2> DEFINE r == transition_to_completed(v.state)
  <2>1. w.state = decr_ref(r.state)
    BY <1>10 DEF FinishReady, drop_task_ref, TaskRecord
  <2>2. r.state \in Word /\ is_completed(r.state)
    BY <1>1, CompletedTransition DEF Flags
  <2> HIDE DEF r
  <2> QED  BY <2>1, <2>2, RefTransitions DEF Flags, Asleep
<1>11. CASE FinishDrop(v, w)
  <2>1. is_closed(v.state) /\ w.state = decr_ref(v.state)
    BY <1>11 DEF FinishDrop, drop_task_ref, IInv, Phase, TaskRecord
  <2> QED  BY <1>1, <2>1, RefTransitions DEF Flags, Asleep
<1>12. CASE FinishDiscard(v, w)
  <2>1. w.state = drop_task(v.state)
    BY <1>12 DEF FinishDiscard, TaskRecord
  <2> QED  BY <1>1, <2>1, ClosingTransitions DEF Flags, Asleep
<1>13. CASE Shutdown(v, w)
  BY <1>13 DEF Shutdown, Asleep, TaskRecord
<1>14. ~PollReady(v, w) /\ ~PollPending(v, w) /\ ~PollPanic(v, w) /\ ~DiscardTask(v, w)
  BY DEF PollReady, PollPending, PollPanic, DiscardTask
<1> QED
  BY <1>3, <1>4, <1>5, <1>6, <1>7, <1>8, <1>9, <1>10, <1>11, <1>12, <1>13, <1>14 DEF Step

(* Who drops a handle only when it was answered leaves no awaiter behind. *)
LEMMA AwaiterKept ==
  ASSUME NEW v \in TaskRecord, NEW w, Step(v, w), w.awaiter, "early_drop" \notin Client,
         v.awaiter => v.handle = "held" /\ v.result = "pending"
  PROVE  w.handle = "held" /\ w.result = "pending"
<1>1. CASE PollHandle(v, w)
  <2> DEFINE r == poll_join_handle(v.state)
             answer == IF r.action = "CompleteNone" THEN "none" ELSE "some"
             out == IF r.action = "CompleteNone" THEN v.output ELSE "moved"
             f == PanicOr(r.action, v.fault)
             a == v.awaiter \/ r.action = "Register"
  <2>1. /\ v.handle = "held" /\ v.result = "pending"
        /\ \/ w = [schedule(v, TRUE, r.state) EXCEPT !.awaiter = TRUE]
           \/ w = [v EXCEPT !.awaiter = a, !.fault = f]
           \/ w = [v EXCEPT !.state = r.state, !.awaiter = FALSE, !.result = answer,
                            !.output = out]
    BY <1>1 DEF PollHandle
  <2> HIDE DEF r, answer, out, f, a
  <2> QED  BY <2>1 DEF schedule, Push, TaskRecord
<1>2. CASE Cancel(v, w)
  BY <1>2 DEF Cancel, schedule, Push, TaskRecord
<1>3. CASE DropHandle(v, w)
  <2>1. v.result # "pending" /\ w.awaiter = v.awaiter
    BY ZenonT(60), <1>3 DEF DropHandle, schedule, Push, TaskRecord
  <2> QED  BY <2>1
<1>4. CASE CloneWaker(v, w) \/ WakeByRef(v, w) \/ WakeByVal(v, w) \/ DropWaker(v, w)
  <2> DEFINE same == w.awaiter = v.awaiter /\ w.handle = v.handle /\ w.result = v.result
  <2>1. CASE CloneWaker(v, w) \/ WakeByRef(v, w)
    <3>1. same
      BY <2>1 DEF CloneWaker, WakeByRef, schedule, Push, TaskRecord
    <3> QED  BY <3>1
  <2>2. CASE WakeByVal(v, w)
    <3>1. same
      BY <2>2 DEF WakeByVal, schedule, Push, TaskRecord
    <3> QED  BY <3>1
  <2>3. CASE DropWaker(v, w)
    <3>1. same
      BY <2>3 DEF DropWaker, schedule, Push, TaskRecord
    <3> QED  BY <3>1
  <2> QED  BY <1>4, <2>1, <2>2, <2>3
<1>5. CASE Run(v, w) \/ PollReady(v, w) \/ PollPending(v, w) \/ PollPanic(v, w)
           \/ Shutdown(v, w) \/ DiscardTask(v, w)
  <2> DEFINE same == w.awaiter = v.awaiter /\ w.handle = v.handle /\ w.result = v.result
  <2>1. CASE Run(v, w) \/ PollReady(v, w) \/ PollPanic(v, w)
    <3>1. same
      BY ZenonT(60), <2>1 DEF Run, PollReady, PollPanic, TaskRecord
    <3> QED  BY <3>1
  <2>2. CASE PollPending(v, w)
    <3>1. same
      BY ZenonT(60), <2>2 DEF PollPending, drop_task_ref, TaskRecord
    <3> QED  BY <3>1
  <2>3. CASE Shutdown(v, w) \/ DiscardTask(v, w)
    <3>1. same
      BY <2>3 DEF Shutdown, DiscardTask, TaskRecord
    <3> QED  BY <3>1
  <2> QED  BY <1>5, <2>1, <2>2, <2>3
<1>6. CASE FinishReady(v, w) \/ FinishDrop(v, w) \/ FinishDiscard(v, w)
  BY <1>6 DEF FinishReady, FinishDrop, FinishDiscard, drop_task_ref, TaskRecord
<1> QED  BY <1>1, <1>2, <1>3, <1>4, <1>5, <1>6 DEF Step

=============================================================================
