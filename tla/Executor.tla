------------------------------ MODULE Executor ------------------------------
(***************************************************************************)
(* The single-threaded executor (src/src/executor): LocalExecutor::run     *)
(* drives a root future and the tasks spawned from it, which await each    *)
(* other through their JoinHandles.  The tasks are those of Task.tla, here *)
(* several of them: one queue, awaiters that are wakers of other tasks,    *)
(* and futures whose drop drops the handles they hold.                     *)
(*                                                                         *)
(* A step is one call that the loop or a future makes.  What it does to    *)
(* the memory the tasks share is an operator from one heap to the next, so *)
(* that a wake inside a notify inside a run is a composition of three.     *)
(***************************************************************************)
EXTENDS TaskState, Sequences, FiniteSets

CONSTANTS
  Tasks,       \* the futures that may be spawned
  Root,        \* the future given to LocalExecutor::run
  None,        \* no future
  Owner,       \* Owner[t]: the future that spawns t and keeps its handle
  Client,      \* what futures do besides awaiting the tasks they spawned
  MaxYields    \* bound: how often a future wakes itself, if it ever stops

Futures == Tasks \union {Root}

ClientActs == {"cancel",         \* Task::cancel
               "early_drop",     \* drops a handle before it resolved
               "channel",        \* leaves its waker where other futures find it
               "yield_forever"}  \* may wake itself in every poll

ASSUME TasksType  == IsFiniteSet(Tasks) /\ Root \notin Tasks /\ None \notin Futures
ASSUME OwnerType  == Owner \in [Tasks -> Futures]
ASSUME ClientType == Client \subseteq ClientActs
ASSUME YieldsType == MaxYields \in Nat

VARIABLES
  heap,       \* the headers of all tasks, the queue and SHOULD_POLL
  handle,     \* handle[t]: "unspawned", "held" or "dropped"
  output,     \* output[t]: "none", "stored" or "moved" out
  drops,      \* drops[t]: how often the future of t was dropped in place
  result,     \* result[t]: what awaiting t returned
  cancelled,  \* history: the tasks that were cancelled
  channel,    \* the futures whose waker lies where others find it
  yields,     \* yields[f]: how often f woke itself
  pc,         \* where LocalExecutor::run is
  max_round,  \* its local variable
  current,    \* the future it is polling or dropping, or None
  phase,      \* "idle", or what it does with current
  fault       \* fault[t]: the panic in a call on t that ended the program

vars == <<heap, handle, output, drops, result, cancelled, channel, yields, pc,
          max_round, current, phase, fault>>

Places == {"tasks",     \* the loop that pops the queue
           "root",      \* if should_poll()
           "driver",    \* the queue is empty: park, or not: submit
           "returned"}

-----------------------------------------------------------------------------
(* What the calls do to the heap *)

NewHeap ==
  [state |-> [t \in Tasks |-> INITIAL_STATE], awaiter |-> [t \in Tasks |-> None],
   freed |-> {}, queue |-> <<>>, should_poll |-> TRUE, woken |-> {}]

(* Mutant: the Task in the queue owns no reference. *)
schedule_uncounted(h, t, yield_now) ==
  [h EXCEPT !.queue = IF yield_now THEN <<t>> \o @ ELSE Append(@, t)]

(* RawTask::schedule; only JoinHandle::poll asks to yield_now. *)
schedule(h, t, yield_now) ==
  [h EXCEPT !.state[t] = incr_ref(@),
            !.queue = IF yield_now THEN <<t>> \o @ ELSE Append(@, t)]

destroy(h, t) == [h EXCEPT !.freed = @ \union {t}]

(* RawTask::drop_task *)
drop_task_ref(h, t) ==
  LET g == [h EXCEPT !.state[t] = decr_ref(@)]
  IN  IF g.state[t].refs = 0 THEN destroy(g, t) ELSE g

(* Mutant: a clone owns no reference. *)
clone_waker_uncounted(h, f) == h

(* The waker of the root is the dummy waker, whose clones cost nothing. *)
clone_waker(h, f) == IF f = Root THEN h ELSE [h EXCEPT !.state[f] = incr_ref(@)]

drop_the_waker(h, f) ==
  IF f = Root THEN h
  ELSE LET r == drop_waker(h.state[f])
           g == [h EXCEPT !.state[f] = r.state]
       IN  CASE r.action = "Destroy"   -> destroy(g, f)
             [] r.action = "Schedule"  -> schedule(g, f, FALSE)
             [] r.action = "DoNothing" -> g

(* Mutant: a wake queues the task whatever its state word says. *)
do_wake_always(h, f) ==
  IF f = Root THEN [h EXCEPT !.should_poll = TRUE]
  ELSE LET r == transition_to_scheduled(h.state[f])
       IN  schedule([h EXCEPT !.state[f] = r.state, !.woken = @ \union {f}], f, FALSE)

do_wake(h, f) ==
  IF f = Root THEN [h EXCEPT !.should_poll = TRUE]
  ELSE LET r == transition_to_scheduled(h.state[f])
           g == [h EXCEPT !.state[f] = r.state, !.woken = @ \union {f}]
       IN  IF r.action = "Submit" THEN schedule(g, f, FALSE) ELSE g

wake_by_val(h, f) == drop_the_waker(do_wake(h, f), f)

(* Mutant: the waker is dropped and not woken. *)
notify_drops(h, t) ==
  LET w == h.awaiter[t]
  IN  IF w = None THEN h ELSE drop_the_waker([h EXCEPT !.awaiter[t] = None], w)

(* Header::notify(None) *)
notify(h, t) ==
  LET w == h.awaiter[t]
  IN  IF w = None THEN h ELSE wake_by_val([h EXCEPT !.awaiter[t] = None], w)

(* Header::notify(Some(waker of f)): a waker of f itself is only dropped. *)
notify_unless(h, t, f) ==
  LET w == h.awaiter[t]
  IN  IF w = f THEN drop_the_waker([h EXCEPT !.awaiter[t] = None], w) ELSE notify(h, t)

(* Header::register: the new waker is cloned before the old one is dropped. *)
register(h, t, f) ==
  LET w == h.awaiter[t]
      g == [clone_waker(h, f) EXCEPT !.awaiter[t] = f]
  IN  IF w = None THEN g ELSE drop_the_waker(g, w)

-----------------------------------------------------------------------------
Init ==
  /\ heap      = NewHeap
  /\ handle    = [t \in Tasks |-> "unspawned"]
  /\ output    = [t \in Tasks |-> "none"]
  /\ drops     = [t \in Tasks |-> 0]
  /\ result    = [t \in Tasks |-> "pending"]
  /\ cancelled = {}
  /\ channel   = {}
  /\ yields    = [f \in Futures |-> 0]
  /\ pc        = "tasks"
  /\ max_round = 0
  /\ current   = None
  /\ phase     = "idle"
  /\ fault     = [t \in Tasks |-> "none"]

(* The variables that only the calls of a future change, and only the loop. *)
clientVars == <<handle, output, drops, result, cancelled, channel, yields, fault>>
loopVars   == <<pc, max_round, current, phase>>

-----------------------------------------------------------------------------
(* The loop of LocalExecutor::run *)

Enter(f, p) ==
  /\ current' = f
  /\ phase' = p

(* Mutant: a round ends only when the queue is empty. *)
LeaveNever ==
  /\ Enter(None, "idle")
  /\ UNCHANGED <<pc, max_round>>

(* Back from Task::run: break out after max_round of them. *)
Leave ==
  /\ Enter(None, "idle")
  /\ IF max_round = 0
       THEN pc' = "root" /\ UNCHANGED max_round
       ELSE max_round' = max_round - 1 /\ UNCHANGED pc

PopTask ==
  LET t == Head(heap.queue)
      r == transition_to_running(heap.state[t])
  IN
  /\ pc = "tasks" /\ current = None /\ heap.queue # <<>>
  /\ heap' = [heap EXCEPT !.queue = Tail(@), !.state[t] = r.state, !.woken = @ \ {t}]
  /\ \/ r.action = "Running" /\ Enter(t, "polling") /\ UNCHANGED <<drops, fault>>
     \/ /\ r.action = "Closed"
        /\ Enter(t, "dropping")
        /\ drops' = [drops EXCEPT ![t] = @ + 1]
        /\ UNCHANGED fault
     \/ /\ r.action \in Panics
        /\ fault' = [fault EXCEPT ![t] = r.action]
        /\ UNCHANGED <<current, phase, drops>>
  /\ UNCHANGED <<handle, output, result, cancelled, channel, yields, pc, max_round>>

QueueDrained ==
  /\ pc = "tasks" /\ current = None /\ heap.queue = <<>>
  /\ pc' = "root"
  /\ UNCHANGED <<heap, max_round, current, phase, clientVars>>

PollRoot ==
  /\ pc = "root" /\ current = None /\ heap.should_poll
  /\ heap' = [heap EXCEPT !.should_poll = FALSE]
  /\ Enter(Root, "polling")
  /\ UNCHANGED <<pc, max_round, clientVars>>

SkipRoot ==
  /\ pc = "root" /\ current = None /\ ~heap.should_poll
  /\ pc' = "driver"
  /\ UNCHANGED <<heap, max_round, current, phase, clientVars>>

(* The driver wakes nobody here: see UringDriver for what its calls do. *)
Turn ==
  /\ pc' = "tasks"
  /\ max_round' = 2 * Len(heap.queue)
  /\ UNCHANGED <<heap, current, phase, clientVars>>

Park   == pc = "driver" /\ heap.queue = <<>> /\ Turn
Submit == pc = "driver" /\ heap.queue # <<>> /\ Turn

-----------------------------------------------------------------------------
(* What a future does while it is polled *)

Polling(f) == current = f /\ phase = "polling"

Children(f) == {t \in Tasks : Owner[t] = f}

Spawn(t) ==
  /\ Polling(Owner[t]) /\ handle[t] = "unspawned"
  /\ handle' = [handle EXCEPT ![t] = "held"]
  /\ UNCHANGED <<heap, output, drops, result, cancelled, channel, yields, loopVars, fault>>

PollHandle(t) ==
  LET f == Owner[t]
      r == poll_join_handle(heap.state[t])
      g == [heap EXCEPT !.state[t] = r.state]
  IN
  /\ Polling(f) /\ handle[t] = "held" /\ result[t] = "pending"
  /\ \/ /\ r.action = "Start"
        /\ heap' = schedule(register(g, t, f), t, TRUE)
        /\ UNCHANGED <<output, result, fault>>
     \/ /\ r.action = "Register"
        /\ heap' = register(g, t, f)
        /\ UNCHANGED <<output, result, fault>>
     \/ /\ r.action \in {"CompleteNone", "CompleteSome"}
        /\ heap' = notify_unless(g, t, f)
        /\ result' = [result EXCEPT ![t] = IF r.action = "CompleteNone" THEN "none" ELSE "some"]
        /\ output' = IF r.action = "CompleteNone" THEN output
                                                  ELSE [output EXCEPT ![t] = "moved"]
        /\ UNCHANGED fault
     \/ /\ r.action \in Panics
        /\ fault' = [fault EXCEPT ![t] = r.action]
        /\ UNCHANGED <<heap, output, result>>
  /\ UNCHANGED <<handle, drops, cancelled, channel, yields, loopVars>>

Cancel(t) ==
  LET r == transition_to_closed(heap.state[t])
      g == [heap EXCEPT !.state[t] = r.state]
  IN
  /\ "cancel" \in Client
  /\ Polling(Owner[t]) /\ handle[t] = "held" /\ result[t] = "pending" /\ t \notin cancelled
  /\ cancelled' = cancelled \union {t}
  /\ heap' = CASE r.action = "DoNothing"        -> g
               [] r.action = "Close"            -> notify(g, t)
               [] r.action = "CloseAndSchedule" -> notify(schedule(g, t, FALSE), t)
  /\ UNCHANGED <<handle, output, drops, result, channel, yields, loopVars, fault>>

(* A future drops a handle while it is polled, or with itself. *)
DropHandle(t) ==
  LET r == drop_join_handle(heap.state[t])
      g == [heap EXCEPT !.state[t] = r.state]
  IN
  /\ current = Owner[t] /\ handle[t] = "held"
  /\ phase = "polling" => result[t] # "pending" \/ "early_drop" \in Client
  /\ handle' = [handle EXCEPT ![t] = "dropped"]
  /\ \/ /\ r.action \notin Panics
        /\ heap' = CASE r.action = "Schedule" -> schedule(g, t, FALSE)
                     [] r.action \in {"Destroy", "DropOutputDestroy"} -> destroy(g, t)
                     [] r.action \in {"DoNothing", "DropOutput"} -> g
        /\ output' = IF r.action \in {"DropOutput", "DropOutputDestroy"}
                       THEN [output EXCEPT ![t] = "moved"] ELSE output
        /\ UNCHANGED fault
     \/ /\ r.action \in Panics
        /\ fault' = [fault EXCEPT ![t] = r.action]
        /\ UNCHANGED <<heap, output>>
  /\ UNCHANGED <<drops, result, cancelled, channel, yields, loopVars>>

(* YieldNow::poll *)
Yield ==
  /\ phase = "polling"
  /\ "yield_forever" \in Client \/ yields[current] < MaxYields
  /\ heap' = do_wake(heap, current)
  /\ yields' = IF "yield_forever" \in Client THEN yields
                                             ELSE [yields EXCEPT ![current] = @ + 1]
  /\ UNCHANGED <<handle, output, drops, result, cancelled, channel, loopVars, fault>>

LeaveWaker ==
  /\ "channel" \in Client
  /\ phase = "polling" /\ current \notin channel
  /\ channel' = channel \union {current}
  /\ heap' = clone_waker(heap, current)
  /\ UNCHANGED <<handle, output, drops, result, cancelled, yields, loopVars, fault>>

WakeOther(f) ==
  /\ phase = "polling" /\ f \in channel
  /\ channel' = channel \ {f}
  /\ heap' = wake_by_val(heap, f)
  /\ UNCHANGED <<handle, output, drops, result, cancelled, yields, loopVars, fault>>

-----------------------------------------------------------------------------
(* How a poll ends *)

(* A future is ready when it is done with the tasks it spawned. *)
PollReady ==
  /\ phase = "polling"
  /\ "early_drop" \in Client
       \/ \A t \in Children(current) : handle[t] = "held" => result[t] # "pending"
  /\ phase' = "completing"
  /\ drops' = IF current = Root THEN drops ELSE [drops EXCEPT ![current] = @ + 1]
  /\ UNCHANGED <<heap, handle, output, result, cancelled, channel, yields, pc, max_round,
                 current, fault>>

(* F::drop drops the handles that the future holds, and then returns. *)
HandlesDropped == \A t \in Children(current) : handle[t] # "held"

FinishReady(t) ==
  LET r == transition_to_completed(heap.state[t])
      g == [heap EXCEPT !.state[t] = r.state]
  IN
  /\ current = t /\ phase = "completing" /\ HandlesDropped
  /\ heap' = drop_task_ref(notify(g, t), t)
  /\ output' = [output EXCEPT ![t] = IF r.action = "Closed" THEN "moved" ELSE "stored"]
  /\ Leave
  /\ UNCHANGED <<handle, drops, result, cancelled, channel, yields, fault>>

(***************************************************************************)
(* By the contract of Future, Pending is returned only when a wake is to   *)
(* come: from itself, from a task it awaits or from the channel.           *)
(***************************************************************************)
WakeToCome ==
  \/ current \in channel
  \/ IF current = Root THEN heap.should_poll ELSE is_scheduled(heap.state[current])
  \/ \E t \in Children(current) :
       handle[t] = "held" /\ result[t] = "pending" /\ heap.awaiter[t] = current

PollPending(t) ==
  LET r == transition_to_idle(heap.state[t])
      g == [heap EXCEPT !.state[t] = r.state]
  IN
  /\ Polling(t) /\ WakeToCome
  /\ \/ /\ r.action = "Closed"
        /\ heap' = g
        /\ phase' = "dropping"
        /\ drops' = [drops EXCEPT ![t] = @ + 1]
        /\ UNCHANGED <<pc, max_round, current, fault>>
     \/ /\ r.action \in {"Schedule", "DoNothing"}
        /\ heap' = drop_task_ref(IF r.action = "Schedule" THEN schedule(g, t, FALSE) ELSE g, t)
        /\ Leave
        /\ UNCHANGED <<drops, fault>>
     \/ /\ r.action \in Panics
        /\ fault' = [fault EXCEPT ![t] = r.action]
        /\ UNCHANGED <<heap, drops, pc, max_round, current, phase>>
  /\ UNCHANGED <<handle, output, result, cancelled, channel, yields>>

(* Mutant: the awaiter of a task that was closed is not notified. *)
FinishDropSilently(t) ==
  /\ current = t /\ phase = "dropping" /\ HandlesDropped
  /\ heap' = drop_task_ref(heap, t)
  /\ Leave
  /\ UNCHANGED clientVars

FinishDrop(t) ==
  /\ current = t /\ phase = "dropping" /\ HandlesDropped
  /\ heap' = drop_task_ref(notify(heap, t), t)
  /\ Leave
  /\ UNCHANGED clientVars

RootPending ==
  /\ Polling(Root) /\ WakeToCome
  /\ pc' = "driver"
  /\ Enter(None, "idle")
  /\ UNCHANGED <<heap, max_round, clientVars>>

Return ==
  /\ current = Root /\ phase = "completing" /\ HandlesDropped
  /\ pc' = "returned"
  /\ Enter(None, "idle")
  /\ UNCHANGED <<heap, max_round, clientVars>>

-----------------------------------------------------------------------------
Next ==
  /\ \A t \in Tasks : fault[t] = "none"
  /\ \/ PopTask \/ QueueDrained \/ PollRoot \/ SkipRoot \/ Park \/ Submit
     \/ Yield \/ LeaveWaker \/ PollReady \/ RootPending \/ Return
     \/ \E f \in Futures : WakeOther(f)
     \/ \E t \in Tasks :
          \/ Spawn(t) \/ PollHandle(t) \/ Cancel(t) \/ DropHandle(t)
          \/ FinishReady(t) \/ PollPending(t) \/ FinishDrop(t)

Spec == Init /\ [][Next]_vars

(* One thread that never stops: some step is always taken while one can be. *)
FairSpec == Spec /\ WF_vars(Next)

-----------------------------------------------------------------------------
TypeOK ==
  /\ heap.state \in [Tasks -> Snapshot]
  /\ heap.awaiter \in [Tasks -> Futures \union {None}]
  /\ heap.freed \subseteq Tasks /\ heap.woken \subseteq Tasks
  /\ heap.queue \in Seq(Tasks) /\ heap.should_poll \in BOOLEAN
  /\ handle \in [Tasks -> {"unspawned", "held", "dropped"}]
  /\ output \in [Tasks -> {"none", "stored", "moved"}]
  /\ drops \in [Tasks -> Nat]
  /\ result \in [Tasks -> {"pending", "some", "none"}]
  /\ cancelled \subseteq Tasks /\ channel \subseteq Futures
  /\ yields \in [Futures -> 0..MaxYields]
  /\ pc \in Places /\ max_round \in Nat
  /\ current \in Futures \union {None}
  /\ phase \in {"idle", "polling", "completing", "dropping"}
  /\ fault \in [Tasks -> Panics \union {"none"}]

(***************************************************************************)
(* Every task of the executor is a Task of Task.tla: the queue, the other  *)
(* tasks' awaiters and the futures' drops are clients that Task allows.    *)
(***************************************************************************)
Queued(t) == Cardinality({i \in DOMAIN heap.queue : heap.queue[i] = t})

Wakers(t) ==
  Cardinality({u \in Tasks : heap.awaiter[u] = t}) + (IF t \in channel THEN 1 ELSE 0)

TaskClient ==
  IF Client \subseteq {"yield_forever"} THEN {} ELSE {"cancel", "early_drop", "stray_waker"}

Steps == INSTANCE TaskSteps WITH
  MaxWakers <- Cardinality(Tasks) + 1,
  Client    <- TaskClient

View(t) ==
  [state     |-> heap.state[t],
   awaiter   |-> heap.awaiter[t] # None,
   memory    |-> IF t \in heap.freed THEN "freed" ELSE "live",
   output    |-> output[t],
   drops     |-> drops[t],
   runnables |-> Queued(t),
   phase     |-> IF current = t THEN phase ELSE "idle",
   wakers    |-> Wakers(t),
   handle    |-> IF handle[t] = "dropped" THEN "dropped" ELSE "held",
   result    |-> result[t],
   cancelled |-> t \in cancelled,
   woken     |-> t \in heap.woken,
   executor  |-> "up",
   fault     |-> fault[t]]

TaskStep(t) == Steps!Step(View(t), View(t)') \/ UNCHANGED View(t)

TasksAreTasks ==
  /\ \A t \in Tasks : View(t) = Steps!NewTask
  /\ [][\A t \in Tasks : TaskStep(t)]_vars

(***************************************************************************)
(* run parks only if the root future is to be polled again or a future has *)
(* left its waker with others: nobody waits for a task that nobody will    *)
(* run or finish, cancelled tasks included.                                *)
(***************************************************************************)
NoDeadlock == pc = "driver" /\ heap.queue = <<>> => heap.should_poll \/ channel # {}

(* Awaiting a Task does not panic ("task has failed") unless the Task was  *)
(* cancelled: no other way of a future to end loses its output.            *)
OnlyCancelledFail == \A t \in Tasks : result[t] = "none" => t \in cancelled

(* When all futures only await, no Task and no allocation outlives run. *)
NothingLeft ==
  pc = "returned" =>
    /\ heap.queue = <<>>
    /\ \A t \in Tasks : handle[t] = "unspawned" \/ t \in heap.freed

(* When all futures only await, run returns unless they yield for ever. *)
Returns == []<><<Yield>>_vars \/ <>(pc = "returned")

(* Although tasks may yield for ever, io is submitted and reaped again, the  *)
(* root future is polled when it was woken, and every queued Task is run,    *)
(* until the root future is ready.                                           *)
Due(f) == IF f = Root THEN heap.should_poll ELSE Queued(f) > 0

EveryoneServed ==
  /\ []<>(pc \in {"driver", "returned"})
  /\ \A f \in Futures : Due(f) ~> (current = f \/ pc = "returned")
=============================================================================
