-------------------------- MODULE TaskStepsProofs --------------------------
(***************************************************************************)
(* Proofs about the operations of a task, for every number of wakers,      *)
(* every client and both builds.  IInv is the inductive invariant: every   *)
(* step of TaskSteps preserves it.  TaskProofs and ExecutorProofs draw     *)
(* their theorems from it.                                                 *)
(***************************************************************************)
EXTENDS TaskSteps, TLAPS

-----------------------------------------------------------------------------
(* What the transitions of the state word do to each bit and to the count *)

Flags(t, running, completed, closed, scheduled, fresh) ==
  /\ is_running(t)   <=> running
  /\ is_completed(t) <=> completed
  /\ is_closed(t)    <=> closed
  /\ is_scheduled(t) <=> scheduled
  /\ need_start(t)   <=> fresh

Word == [bits : SUBSET STATE_MASK, refs : Int]

(* Masking leaves the count alone, but for set_state, which clears it. *)
LEMMA Masks ==
  ASSUME NEW s \in Word, NEW f \in SUBSET STATE_MASK
  PROVE  /\ Set(s, f) \in Word /\ Set(s, f).refs = s.refs /\ Set(s, f).bits = s.bits \union f
         /\ Unset(s, f) \in Word /\ Unset(s, f).refs = s.refs /\ Unset(s, f).bits = s.bits \ f
         /\ set_state(s, f) \in Word /\ set_state(s, f).refs = 0
         /\ set_state(s, f).bits = s.bits \intersect f
BY DEF Word, Set, Unset, set_state

(* Counting a reference leaves the bits alone. *)
LEMMA RefTransitions ==
  ASSUME NEW s \in Word
  PROVE  /\ incr_ref(s) \in Word /\ incr_ref(s).refs = s.refs + 1
         /\ Flags(incr_ref(s), is_running(s), is_completed(s), is_closed(s),
                  is_scheduled(s), need_start(s))
         /\ decr_ref(s) \in Word /\ decr_ref(s).refs = s.refs - 1
         /\ Flags(decr_ref(s), is_running(s), is_completed(s), is_closed(s),
                  is_scheduled(s), need_start(s))
BY DEF Word, Flags, incr_ref, decr_ref, is_running, is_completed, is_closed,
       is_scheduled, need_start

(* A task that runs is polled unless it was closed, and no longer SCHEDULED. *)
LEMMA RunningTransition ==
  ASSUME NEW s \in Word, ~need_start(s)
  PROVE  LET r == transition_to_running(s) IN
         /\ r.action = IF is_closed(s) THEN "Closed" ELSE "Running"
         /\ r.state \in Word /\ r.state.refs = s.refs
         /\ Flags(r.state, ~is_closed(s) \/ is_running(s), is_completed(s), is_closed(s),
                  FALSE, FALSE)
BY DEF Word, STATE_MASK, Flags, Set, Unset, Then, Assert, transition_to_running,
       is_running, is_completed, is_closed, is_scheduled, need_start,
       RUNNING, COMPLETED, CLOSED, SCHEDULED, NEED_START

(* After a poll RUNNING is cleared; SCHEDULED survives if the task is open. *)
LEMMA IdleTransition ==
  ASSUME NEW s \in Word, is_running(s)
  PROVE  LET r == transition_to_idle(s) IN
         /\ r.action = IF is_closed(s) THEN "Closed"
                       ELSE IF is_scheduled(s) THEN "Schedule" ELSE "DoNothing"
         /\ r.state \in Word /\ r.state.refs = s.refs
         /\ Flags(r.state, FALSE, is_completed(s), is_closed(s),
                  is_scheduled(s) /\ ~is_closed(s), need_start(s))
BY DEF Word, STATE_MASK, Flags, Set, Unset, Then, Assert, transition_to_idle,
       is_running, is_completed, is_closed, is_scheduled, need_start,
       RUNNING, COMPLETED, CLOSED, SCHEDULED, NEED_START

(* A wake sets SCHEDULED on an open task and submits it if it is not running. *)
LEMMA ScheduledTransition ==
  ASSUME NEW s \in Word
  PROVE  LET r    == transition_to_scheduled(s)
             open == ~is_completed(s) /\ ~is_closed(s)
         IN
         /\ r.action = IF open /\ ~is_scheduled(s) /\ ~is_running(s)
                       THEN "Submit" ELSE "DoNothing"
         /\ r.state \in Word /\ r.state.refs = s.refs
         /\ Flags(r.state, is_running(s), is_completed(s), is_closed(s),
                  open \/ is_scheduled(s), need_start(s))
BY DEF Word, STATE_MASK, Flags, Set, Unset, Then, transition_to_scheduled,
       is_running, is_completed, is_closed, is_scheduled, need_start,
       RUNNING, COMPLETED, CLOSED, SCHEDULED, NEED_START

(* COMPLETED replaces RUNNING and SCHEDULED. *)
LEMMA CompletedTransition ==
  ASSUME NEW s \in Word
  PROVE  LET r      == transition_to_completed(s)
             closed == s.refs = 0 \/ is_closed(s)
         IN
         /\ r.action = IF closed THEN "Closed" ELSE "DoNothing"
         /\ r.state \in Word /\ r.state.refs = s.refs
         /\ Flags(r.state, FALSE, TRUE, closed, FALSE, need_start(s))
BY DEF Word, STATE_MASK, Flags, Set, Unset, Then, transition_to_completed,
       is_running, is_completed, is_closed, is_scheduled, need_start,
       RUNNING, COMPLETED, CLOSED, SCHEDULED, NEED_START

(* Cancelling closes the task unless it completed; an idle one is queued. *)
LEMMA ClosedTransition ==
  ASSUME NEW s \in Word
  PROVE  LET r    == transition_to_closed(s)
             open == ~need_start(s) /\ ~is_completed(s) /\ ~is_closed(s)
             idle == ~is_scheduled(s) /\ ~is_running(s)
         IN
         /\ r.action = IF open THEN (IF idle THEN "CloseAndSchedule" ELSE "Close")
                       ELSE "DoNothing"
         /\ r.state \in Word
         /\ r.state.refs = IF open /\ idle THEN s.refs + 1 ELSE s.refs
         /\ Flags(r.state, is_running(s), is_completed(s),
                  open \/ need_start(s) \/ is_closed(s),
                  is_scheduled(s) \/ (open /\ idle), need_start(s))
<1> DEFINE t == Set(s, {CLOSED})
           u == Set(s, {SCHEDULED, CLOSED})
<1>1. {CLOSED} \in SUBSET STATE_MASK /\ {SCHEDULED, CLOSED} \in SUBSET STATE_MASK
  BY DEF STATE_MASK
<1>2. /\ t \in Word /\ t.refs = s.refs
      /\ Flags(t, is_running(s), is_completed(s), TRUE, is_scheduled(s), need_start(s))
  BY <1>1, Masks DEF Flags, is_running, is_completed, is_closed, is_scheduled, need_start,
     RUNNING, COMPLETED, CLOSED, SCHEDULED, NEED_START
<1>3. /\ u \in Word /\ u.refs = s.refs
      /\ Flags(u, is_running(s), is_completed(s), TRUE, TRUE, need_start(s))
  BY <1>1, Masks DEF Flags, is_running, is_completed, is_closed, is_scheduled, need_start,
     RUNNING, COMPLETED, CLOSED, SCHEDULED, NEED_START
<1>4. /\ incr_ref(u) \in Word /\ incr_ref(u).refs = s.refs + 1
      /\ Flags(incr_ref(u), is_running(s), is_completed(s), TRUE, TRUE, need_start(s))
  BY <1>3, RefTransitions DEF Flags
<1> HIDE DEF t, u
<1>5. CASE need_start(s)
  <2>1. transition_to_closed(s) = [state |-> t, action |-> "DoNothing"]
    BY <1>5 DEF transition_to_closed, Then, t
  <2> QED  BY <1>5, <1>2, <2>1 DEF Flags
<1>6. CASE ~need_start(s) /\ (is_completed(s) \/ is_closed(s))
  <2>1. transition_to_closed(s) = [state |-> s, action |-> "DoNothing"]
    BY <1>6 DEF transition_to_closed, Then
  <2> QED  BY <1>6, <2>1 DEF Flags
<1>7. CASE ~need_start(s) /\ ~is_completed(s) /\ ~is_closed(s)
  <2>1. transition_to_closed(s) =
          IF ~is_scheduled(s) /\ ~is_running(s)
            THEN [state |-> incr_ref(u), action |-> "CloseAndSchedule"]
            ELSE [state |-> t, action |-> "Close"]
    BY <1>7 DEF transition_to_closed, Then, t, u
  <2> QED  BY <1>7, <1>2, <1>4, <2>1 DEF Flags
<1> QED  BY <1>5, <1>6, <1>7

(***************************************************************************)
(* Polling the handle: what it answers, and the bits it leaves.  In a      *)
(* debug build an assertion may fail; then the word is as it was.          *)
(***************************************************************************)
LEMMA PollHandleTransition ==
  ASSUME NEW s \in Word
  PROVE  LET r      == poll_join_handle(s)
             active == is_scheduled(s) \/ is_running(s)
         IN
         /\ r.action \in {"Start", "Register", "CompleteNone", "CompleteSome",
                          "assert_waiting", "assert_finished"}
         /\ r.action = "Start" <=> need_start(s) /\ ~is_closed(s)
         /\ r.action = "CompleteSome" <=> is_completed(s) /\ ~is_closed(s) /\ ~need_start(s)
         /\ r.action = "CompleteNone" => is_closed(s) /\ ~active
         /\ r.action = "assert_waiting" =>
              is_closed(s) /\ active /\ (is_completed(s) \/ need_start(s))
         /\ r.action = "Register" =>
              \/ ~is_closed(s) /\ ~need_start(s) /\ ~is_completed(s)
              \/ is_closed(s) /\ active
         /\ r.state \in Word /\ r.state.refs = s.refs
         /\ Flags(r.state, is_running(s), is_completed(s),
                  is_closed(s) \/ r.action = "CompleteSome", is_scheduled(s),
                  need_start(s) /\ r.action \notin {"Start", "CompleteNone"})
BY DEF Word, STATE_MASK, Flags, Set, Unset, Then, Assert, poll_join_handle,
       is_running, is_completed, is_closed, is_scheduled, need_start,
       RUNNING, COMPLETED, CLOSED, SCHEDULED, NEED_START

(***************************************************************************)
(* Dropping the handle gives its reference back.  The last one frees the   *)
(* task, or queues it when it is open; the output of a completed task is   *)
(* dropped; an open task that others still refer to is closed; otherwise   *)
(* the drop panics and the word is as it was.                              *)
(***************************************************************************)
open(s) == ~is_completed(s) /\ ~is_closed(s)
kept(s) == is_completed(s) /\ ~is_closed(s)
idle(s) == ~is_scheduled(s) /\ ~is_running(s)

Destroyed(s, r) ==
  /\ r.action = "Destroy" /\ s.refs = 1 /\ (need_start(s) \/ is_closed(s)) /\ ~kept(s)
  /\ r.state \in Word /\ r.state.refs \in {0, 1}
  /\ Flags(r.state, is_running(s), is_completed(s), is_closed(s), is_scheduled(s), need_start(s))

OutputDropped(s, r) ==
  /\ r.action = (IF s.refs = 1 THEN "DropOutputDestroy" ELSE "DropOutput") /\ kept(s)
  /\ r.state \in Word /\ r.state.refs = s.refs - 1
  /\ Flags(r.state, is_running(s), TRUE, TRUE, is_scheduled(s), need_start(s))

QueuedOnce(s, r) ==
  /\ r.action = "Schedule" /\ s.refs = 1 /\ open(s)
  /\ r.state \in Word /\ r.state.refs = 1
  /\ Flags(r.state, FALSE, FALSE, FALSE, is_scheduled(s), FALSE)

Detached(s, r) ==
  /\ r.action = "DoNothing" /\ s.refs # 1 /\ open(s)
  /\ r.state \in Word /\ r.state.refs = s.refs - 1
  /\ Flags(r.state, is_running(s), FALSE, TRUE, is_scheduled(s), need_start(s))

Panicked(s, r) ==
  /\ \/ r.action = "assert_output_idle" /\ kept(s) /\ ~idle(s)
     \/ r.action = "assert_last_idle" /\ s.refs = 1 /\ ~kept(s) /\ ~idle(s)
     \/ r.action \in {"assert_detached_active", "unreachable"}
  /\ r.state = s

(* What drop_join_handle does, branch by branch of its match. *)
LEMMA DropHandleTransition ==
  ASSUME NEW s \in Word
  PROVE  LET r == drop_join_handle(s)
         IN  Destroyed(s, r) \/ OutputDropped(s, r) \/ QueuedOnce(s, r) \/ Detached(s, r)
             \/ Panicked(s, r)
<1> DEFINE d    == decr_ref(s)
           t    == Set(d, {CLOSED})
           u    == incr_ref(set_state(d, {SCHEDULED, CLOSED}))
           r    == drop_join_handle(s)
<1>1. {CLOSED} \in SUBSET STATE_MASK /\ {SCHEDULED, CLOSED} \in SUBSET STATE_MASK
  BY DEF STATE_MASK
<1>2. /\ d \in Word /\ d.refs = s.refs - 1
      /\ Flags(d, is_running(s), is_completed(s), is_closed(s), is_scheduled(s), need_start(s))
  BY RefTransitions
<1>3. /\ t \in Word /\ t.refs = s.refs - 1
      /\ Flags(t, is_running(s), is_completed(s), TRUE, is_scheduled(s), need_start(s))
  <2> HIDE DEF d
  <2> QED
    BY <1>1, <1>2, Masks DEF Flags, is_running, is_completed, is_closed, is_scheduled,
       need_start, RUNNING, COMPLETED, CLOSED, SCHEDULED, NEED_START
<1>4. /\ u \in Word /\ u.refs = 1
      /\ Flags(u, FALSE, FALSE, is_closed(s), is_scheduled(s), FALSE)
  <2> DEFINE c == set_state(d, {SCHEDULED, CLOSED})
  <2>1. /\ c \in Word /\ c.refs = 0
        /\ Flags(c, FALSE, FALSE, is_closed(s), is_scheduled(s), FALSE)
    <3> HIDE DEF d
    <3> QED
      BY <1>1, <1>2, Masks DEF Flags, is_running, is_completed, is_closed, is_scheduled,
         need_start, RUNNING, COMPLETED, CLOSED, SCHEDULED, NEED_START
  <2> HIDE DEF c
  <2>2. /\ incr_ref(c) \in Word /\ incr_ref(c).refs = 1
        /\ Flags(incr_ref(c), FALSE, FALSE, is_closed(s), is_scheduled(s), FALSE)
    BY <2>1, RefTransitions DEF Flags
  <2> QED  BY <2>2 DEF c
<1>5. s = INITIAL_STATE => s.refs = 1 /\ need_start(s) /\ ~is_completed(s)
  BY DEF INITIAL_STATE, need_start, is_completed, NEED_START, COMPLETED
<1>6. is_scheduled(d) = is_scheduled(s) /\ is_running(d) = is_running(s)
  BY DEF decr_ref, is_scheduled, is_running, Word
<1> HIDE DEF t, u, d
<1>7. r = CASE s = INITIAL_STATE -> Then(s, "Destroy")
            [] s # INITIAL_STATE /\ is_completed(s) /\ ~is_closed(s) ->
                 Assert(~is_scheduled(s) /\ ~is_running(s), "assert_output_idle", s,
                   Then(t, IF d.refs = 0 THEN "DropOutputDestroy" ELSE "DropOutput"))
            [] s # INITIAL_STATE /\ d.refs = 0 /\ ~is_completed(s) /\ ~is_closed(s) ->
                 Assert(~is_scheduled(s) /\ ~is_running(s), "assert_last_idle", s,
                   Then(u, "Schedule"))
            [] s # INITIAL_STATE /\ d.refs = 0 /\ is_closed(s) ->
                 Assert(~is_scheduled(s) /\ ~is_running(s), "assert_last_idle", s,
                   Then(d, "Destroy"))
            [] s # INITIAL_STATE /\ d.refs # 0 /\ ~is_completed(s) /\ ~is_closed(s) ->
                 Assert(is_scheduled(s) \/ is_running(s), "assert_detached_active", s,
                   Then(t, "DoNothing"))
            [] s # INITIAL_STATE /\ d.refs # 0 /\ is_closed(s) -> Then(s, "unreachable")
  BY <1>6 DEF drop_join_handle, d, t, u
<1> HIDE DEF r
<1> USE DEF Destroyed, OutputDropped, QueuedOnce, Detached, Panicked, open, kept, idle
<1>8. CASE s = INITIAL_STATE
  <2>1. r = [state |-> s, action |-> "Destroy"]
    BY <1>8, <1>7 DEF Then
  <2> QED  BY <1>5, <1>8, <2>1 DEF Flags, r
<1>9. CASE s # INITIAL_STATE /\ is_completed(s) /\ ~is_closed(s)
  <2>1. r = Assert(~is_scheduled(s) /\ ~is_running(s), "assert_output_idle", s,
              Then(t, IF s.refs = 1 THEN "DropOutputDestroy" ELSE "DropOutput"))
    BY <1>9, <1>7, <1>2 DEF Word
  <2> QED  BY <1>3, <1>9, <2>1 DEF Flags, Assert, Then, r
<1>10. CASE s # INITIAL_STATE /\ s.refs = 1 /\ ~is_completed(s) /\ ~is_closed(s)
  <2>1. r = Assert(~is_scheduled(s) /\ ~is_running(s), "assert_last_idle", s,
              Then(u, "Schedule"))
    BY <1>10, <1>7, <1>2
  <2> QED  BY <1>4, <1>10, <2>1 DEF Flags, Assert, Then, r
<1>11. CASE s # INITIAL_STATE /\ s.refs = 1 /\ is_closed(s)
  <2>1. r = Assert(~is_scheduled(s) /\ ~is_running(s), "assert_last_idle", s,
              Then(d, "Destroy"))
    BY <1>11, <1>7, <1>2
  <2> QED  BY <1>2, <1>11, <2>1 DEF Flags, Assert, Then, r
<1>12. CASE s # INITIAL_STATE /\ s.refs # 1 /\ ~is_completed(s) /\ ~is_closed(s)
  <2>1. r = Assert(is_scheduled(s) \/ is_running(s), "assert_detached_active", s,
              Then(t, "DoNothing"))
    BY <1>12, <1>7, <1>2 DEF Word
  <2> QED  BY <1>3, <1>12, <2>1 DEF Flags, Assert, Then, r
<1>13. CASE s # INITIAL_STATE /\ s.refs # 1 /\ is_closed(s)
  <2>1. r = Then(s, "unreachable")
    BY <1>13, <1>7, <1>2 DEF Word
  <2> QED  BY <1>13, <2>1 DEF Then, r
<1> QED  BY <1>8, <1>9, <1>10, <1>11, <1>12, <1>13

(* The panic guard of a poll and the drop of a queued Task both close the task. *)
LEMMA ClosingTransitions ==
  ASSUME NEW s \in Word
  PROVE  /\ set_closed(s) \in Word /\ set_closed(s).refs = s.refs
         /\ Flags(set_closed(s), FALSE, is_completed(s), TRUE, FALSE, need_start(s))
         /\ drop_task(s) \in Word /\ drop_task(s).refs = s.refs
         /\ Flags(drop_task(s), is_running(s), is_completed(s), TRUE, FALSE, need_start(s))
BY DEF Word, STATE_MASK, Flags, Set, Unset, set_closed, drop_task,
       is_running, is_completed, is_closed, is_scheduled, need_start,
       RUNNING, COMPLETED, CLOSED, SCHEDULED, NEED_START

(***************************************************************************)
(* Dropping a waker gives its reference back.  The last one frees a task   *)
(* that is closed or completed and queues one that is open and idle.       *)
(***************************************************************************)
LEMMA DropWakerTransition ==
  ASSUME NEW s \in Word
  PROVE  LET r    == drop_waker(s)
             over == is_completed(s) \/ is_closed(s)
         IN
         /\ r.state \in Word
         /\ \/ /\ r.action = "DoNothing" /\ s.refs # 1 /\ r.state.refs = s.refs - 1
               /\ Flags(r.state, is_running(s), is_completed(s), is_closed(s),
                        is_scheduled(s), need_start(s))
            \/ /\ r.action = "Destroy" /\ s.refs = 1 /\ over /\ r.state.refs = 0
               /\ Flags(r.state, is_running(s), is_completed(s), is_closed(s),
                        is_scheduled(s), need_start(s))
            \/ /\ r.action = IF is_scheduled(s) THEN "DoNothing" ELSE "Schedule"
               /\ s.refs = 1 /\ ~over /\ r.state.refs = 0
               /\ Flags(r.state, FALSE, FALSE, FALSE, is_scheduled(s), FALSE)
<1> DEFINE t == decr_ref(s)
           u == set_state(t, {SCHEDULED, CLOSED})
<1>1. {SCHEDULED, CLOSED} \in SUBSET STATE_MASK
  BY DEF STATE_MASK
<1>2. /\ t \in Word /\ t.refs = s.refs - 1
      /\ Flags(t, is_running(s), is_completed(s), is_closed(s), is_scheduled(s), need_start(s))
  BY RefTransitions
<1>3. /\ u \in Word /\ u.refs = 0
      /\ Flags(u, FALSE, FALSE, is_closed(s), is_scheduled(s), FALSE)
  <2> HIDE DEF t
  <2> QED
    BY <1>1, <1>2, Masks DEF Flags, is_running, is_completed, is_closed, is_scheduled,
       need_start, RUNNING, COMPLETED, CLOSED, SCHEDULED, NEED_START
<1> HIDE DEF t, u
<1>4. CASE s.refs # 1
  <2>1. drop_waker(s) = Then(t, "DoNothing")
    BY <1>2, <1>4 DEF drop_waker, t, u, Word
  <2> QED  BY <1>2, <1>4, <2>1 DEF Then, Flags
<1>5. CASE s.refs = 1 /\ (is_completed(s) \/ is_closed(s))
  <2>1. drop_waker(s) = Then(t, "Destroy")
    BY <1>2, <1>5 DEF drop_waker, t, u
  <2> QED  BY <1>2, <1>5, <2>1 DEF Then, Flags
<1>6. CASE s.refs = 1 /\ ~is_completed(s) /\ ~is_closed(s)
  <2>1. drop_waker(s) = Then(u, IF is_scheduled(u) THEN "DoNothing" ELSE "Schedule")
    BY <1>2, <1>6 DEF drop_waker, t, u
  <2> QED  BY <1>3, <1>6, <2>1 DEF Then, Flags
<1> QED  BY <1>4, <1>5, <1>6

-----------------------------------------------------------------------------
(* The inductive invariant *)

(* The type of each field of a task *)
Typed(v) ==
  /\ v.state     \in Snapshot
  /\ v.awaiter   \in BOOLEAN
  /\ v.memory    \in {"live", "freed"}
  /\ v.output    \in {"none", "stored", "moved"}
  /\ v.drops     \in Nat
  /\ v.runnables \in Nat
  /\ v.phase     \in Phases
  /\ v.wakers    \in 0..MaxWakers
  /\ v.handle    \in {"held", "dropped"}
  /\ v.result    \in {"pending", "some", "none"}
  /\ v.cancelled \in BOOLEAN
  /\ v.woken     \in BOOLEAN
  /\ v.executor  \in {"up", "down"}
  /\ v.fault     \in Faults

(* Whoever holds the task knows that it is live, and counted. *)
Counts(v) ==
  /\ v.wakers \in Nat /\ v.runnables \in Nat /\ Holders(v) \in Nat
  /\ v.state \in Word /\ v.state.refs \in Nat
  /\ Holders(v) > 0 => v.memory = "live" /\ v.state.refs >= Holders(v)

(* What Push does to the fields it writes *)
Pushed(v, w, submit) ==
  /\ w.runnables = IF submit /\ v.executor = "up" THEN v.runnables + 1 ELSE v.runnables
  /\ w.fault = IF submit /\ v.executor = "down" THEN "no_executor" ELSE v.fault

(***************************************************************************)
(* The count covers the holders, and one more once the handle of an open   *)
(* task is gone: nobody frees a task that still may run.                   *)
(***************************************************************************)
Refs(v) ==
  /\ v.memory = "live" => v.state.refs >= Holders(v)
  /\ v.memory = "freed" => Holders(v) = 0
  /\ v.memory = "live" /\ v.handle = "dropped" /\ ~is_closed(v.state) => v.state.refs > Holders(v)

(* A task that was never started: nobody but the handle knows it. *)
Fresh(v) ==
  need_start(v.state) =>
    /\ ~is_running(v.state) /\ ~is_completed(v.state) /\ ~is_scheduled(v.state)
    /\ v.runnables = 0 /\ v.phase = "idle" /\ v.wakers = 0 /\ v.drops = 0 /\ ~v.awaiter /\ ~v.woken

(* RUNNING is set from the call of F::poll to the end of the run. *)
Phase(v) ==
  /\ is_running(v.state) <=> v.phase \in {"polling", "completing"}
  /\ is_running(v.state) => v.runnables = 0
  /\ v.phase \in {"dropping", "discarding"} => is_closed(v.state)

Completed(v) ==
  is_completed(v.state) => v.runnables = 0 /\ v.phase = "idle" /\ ~is_scheduled(v.state)

(* Who may be queued, and how often. *)
Queued(v) ==
  /\ v.runnables > 1 => is_closed(v.state)
  /\ v.runnables > 0 /\ ~is_scheduled(v.state) /\ ~is_closed(v.state) => v.wakers = 0
  /\ is_scheduled(v.state) => v.runnables > 0 \/ is_running(v.state) \/ v.fault # "none"

(***************************************************************************)
(* The life of the future.  A closed task that somebody still awaits       *)
(* either dropped it already or has a run ahead that will.                 *)
(***************************************************************************)
Future(v) ==
  /\ v.phase = "polling" => v.drops = 0
  /\ v.phase \in {"completing", "dropping", "discarding"} => v.drops > 0
  /\ v.drops > 0 /\ v.phase # "completing" => is_closed(v.state) \/ is_completed(v.state)
  /\ is_closed(v.state) /\ ~need_start(v.state) /\ v.handle = "held" /\ v.result = "pending"
       => v.drops > 0 \/ is_scheduled(v.state) \/ is_running(v.state)

Output(v) == v.output = "none" <=> ~is_completed(v.state)

Cancelled(v) == v.cancelled => is_closed(v.state) \/ is_completed(v.state)

(* OutputOwned, NoLostWakeup and AwaiterNotStranded of Task *)
Owns(v) ==
  /\ v.output = "stored" <=> is_completed(v.state) /\ ~is_closed(v.state)
  /\ v.memory = "freed" => v.output # "stored"

Wakes(v) ==
  v.woken =>
    \/ is_completed(v.state) \/ is_closed(v.state)
    \/ v.runnables > 0 \/ v.fault # "none"
    \/ is_running(v.state) /\ is_scheduled(v.state)

Serves(v) ==
  v.awaiter =>
    \/ ~is_completed(v.state) /\ ~is_closed(v.state)
    \/ v.runnables > 0 \/ v.phase # "idle"
    \/ v.handle = "dropped" \/ v.fault # "none"

IInv(v) ==
  /\ Typed(v) /\ Refs(v) /\ Fresh(v) /\ Phase(v) /\ Completed(v) /\ Queued(v) /\ Future(v)
  /\ Output(v) /\ Cancelled(v)
  /\ Owns(v) /\ Wakes(v) /\ Serves(v)

(* The initial word: only NEED_START, and the handle's reference. *)
LEMMA InitialWord ==
  /\ INITIAL_STATE \in Snapshot /\ INITIAL_STATE.refs = 1
  /\ Flags(INITIAL_STATE, FALSE, FALSE, FALSE, FALSE, TRUE)
BY DEF INITIAL_STATE, Snapshot, STATE_MASK, Flags, is_running, is_completed, is_closed,
   is_scheduled, need_start, RUNNING, COMPLETED, CLOSED, SCHEDULED, NEED_START

(* A task that was just allocated satisfies the invariant. *)
LEMMA InitIInv == NewTask \in TaskRecord /\ IInv(NewTask)
<1> DEFINE v == NewTask
<1>1. /\ v.state = INITIAL_STATE /\ ~v.awaiter /\ v.memory = "live" /\ v.output = "none"
      /\ v.drops = 0 /\ v.runnables = 0 /\ v.phase = "idle" /\ v.wakers = 0
      /\ v.handle = "held" /\ v.result = "pending" /\ ~v.cancelled /\ ~v.woken
      /\ v.executor = "up" /\ v.fault = "none"
  BY DEF NewTask
<1>2. v \in TaskRecord
  <2>1. 0 \in 0..MaxWakers
    BY MaxWakersType
  <2> QED  BY <2>1, InitialWord DEF NewTask, TaskRecord, Phases, Faults
<1>3. Typed(v)
  BY <1>2 DEF TaskRecord, Typed
<1> HIDE DEF v
<1> USE <1>1, InitialWord DEF Flags
<1>4. Refs(v) /\ Fresh(v) /\ Phase(v) /\ Completed(v)
  BY DEF Refs, Holders, Fresh, Phase, Completed
<1>5. Queued(v) /\ Future(v) /\ Output(v) /\ Cancelled(v)
  BY DEF Queued, Future, Output, Cancelled
<1>6. Owns(v) /\ Wakes(v) /\ Serves(v)
  BY DEF Owns, Wakes, Serves
<1> QED  BY <1>2, <1>3, <1>4, <1>5, <1>6 DEF IInv, v

(* A word whose count is not negative is a Snapshot. *)
LEMMA WordType ==
  ASSUME NEW s
  PROVE  s \in Snapshot <=> s \in Word /\ s.refs >= 0
BY DEF Word, Snapshot

(* A well-typed state is a word that the lemmas above apply to. *)
LEMMA StateWord ==
  ASSUME NEW v, Typed(v)
  PROVE  v.state \in Word
BY DEF Typed, Word, Snapshot

(* Whoever holds the task knows that it is live, and counted. *)
LEMMA Counted ==
  ASSUME NEW v \in TaskRecord, IInv(v)
  PROVE  Counts(v)
<1>1. v.wakers \in Nat /\ v.runnables \in Nat
  BY MaxWakersType DEF IInv, Typed
<1>2. Holders(v) \in Nat
  BY <1>1 DEF Holders
<1> QED  BY <1>1, <1>2 DEF Counts, IInv, Typed, Refs, Snapshot, Word

-----------------------------------------------------------------------------
(* Each action preserves it *)

(* Polling the handle (JoinHandle::poll) preserves the invariant. *)
LEMMA PollHandleStep ==
  ASSUME NEW v \in TaskRecord, NEW w, IInv(v), PollHandle(v, w)
  PROVE  IInv(w)
<1> DEFINE r == poll_join_handle(v.state)
           u == incr_ref(r.state)
<1>c. Counts(v)
  BY Counted
<1>1. Holders(v) > 0
  BY <1>c DEF Counts, Holders, PollHandle, TaskRecord
<1>2. /\ r.action \in {"Start", "Register", "CompleteNone", "CompleteSome",
                       "assert_waiting", "assert_finished"}
      /\ r.action = "Start" <=> need_start(v.state) /\ ~is_closed(v.state)
      /\ r.action = "CompleteSome" <=>
           is_completed(v.state) /\ ~is_closed(v.state) /\ ~need_start(v.state)
      /\ r.action = "CompleteNone" =>
           is_closed(v.state) /\ ~is_scheduled(v.state) /\ ~is_running(v.state)
      /\ r.action = "Register" =>
           \/ ~is_closed(v.state) /\ ~need_start(v.state) /\ ~is_completed(v.state)
           \/ is_closed(v.state) /\ (is_scheduled(v.state) \/ is_running(v.state))
      /\ r.state \in Snapshot /\ r.state.refs = v.state.refs
      /\ Flags(r.state, is_running(v.state), is_completed(v.state),
               is_closed(v.state) \/ r.action = "CompleteSome", is_scheduled(v.state),
               need_start(v.state) /\ r.action \notin {"Start", "CompleteNone"})
  BY <1>1, <1>c, PollHandleTransition, WordType DEF Counts
<1>3. r.state \in Word
  BY <1>2, WordType
<1> HIDE DEF r
<1>4. /\ u \in Snapshot /\ u.refs = v.state.refs + 1
      /\ Flags(u, is_running(v.state), is_completed(v.state),
               is_closed(v.state) \/ r.action = "CompleteSome", is_scheduled(v.state),
               need_start(v.state) /\ r.action \notin {"Start", "CompleteNone"})
  BY <1>2, <1>3, <1>c, RefTransitions, WordType DEF Counts, Flags
<1> HIDE DEF u
<1>5. /\ r.action = "Start" =>
            /\ w.state = u /\ w.awaiter = TRUE /\ Pushed(v, w, TRUE)
            /\ w.output = v.output /\ w.result = v.result
      /\ r.action \in {"Register", "assert_waiting", "assert_finished"} =>
            /\ w.state = v.state /\ w.output = v.output /\ w.runnables = v.runnables
               /\ w.result = v.result
            /\ w.awaiter = (v.awaiter \/ r.action = "Register")
            /\ w.fault = PanicOr(r.action, v.fault)
      /\ r.action \in {"CompleteNone", "CompleteSome"} =>
            /\ w.state = r.state /\ w.awaiter = FALSE
            /\ w.result = IF r.action = "CompleteNone" THEN "none" ELSE "some"
            /\ w.output = IF r.action = "CompleteNone" THEN v.output ELSE "moved"
            /\ w.runnables = v.runnables /\ w.fault = v.fault
      /\ w.memory = v.memory /\ w.drops = v.drops /\ w.phase = v.phase /\ w.wakers = v.wakers
         /\ w.handle = v.handle /\ w.cancelled = v.cancelled /\ w.woken = v.woken
         /\ w.executor = v.executor
  BY ZenonT(60), <1>2 DEF PollHandle, schedule, Push, Pushed, r, u, Panics, TaskRecord
<1>6. v.fault = "none" /\ v.handle = "held" /\ v.result = "pending" /\ v.phase = "idle"
  BY DEF PollHandle, TaskRecord
<1>0. w.fault \in Faults
  BY <1>2, <1>5, <1>6 DEF Pushed, PanicOr, Panics, Faults
<1> USE <1>0, <1>1, <1>2, <1>4, <1>5, <1>6, <1>c DEF Counts, Flags, IInv, Typed, Phase, Pushed,
       PanicOr
<1>7. Typed(w)
  <2>1. w.state \in Snapshot /\ w.awaiter \in BOOLEAN
    OBVIOUS
  <2>2. /\ w.output \in {"none", "stored", "moved"} /\ w.result \in {"pending", "some", "none"}
        /\ w.runnables \in Nat
    OBVIOUS
  <2> QED  BY <2>1, <2>2
<1>8. Refs(w)
  BY DEF Refs, Holders
<1>9. Fresh(w) /\ Phase(w) /\ Completed(w)
  BY DEF Fresh, Completed
<1>10. Queued(w) /\ Future(w)
  BY DEF Queued, Future, Fresh, Completed
<1>11. Output(w) /\ Cancelled(w) /\ Owns(w)
  BY DEF Output, Cancelled, Owns, Completed
<1>12. Wakes(w) /\ Serves(w)
  BY DEF Wakes, Serves, Completed, Queued, Fresh
<1> QED  BY <1>7, <1>8, <1>9, <1>10, <1>11, <1>12

(* Cancelling (JoinHandle::cancel), which may queue the task a second time. *)
LEMMA CancelStep ==
  ASSUME NEW v \in TaskRecord, NEW w, IInv(v), Cancel(v, w)
  PROVE  IInv(w)
<1> DEFINE r == transition_to_closed(v.state)
           u == incr_ref(r.state)
           live == ~need_start(v.state) /\ ~is_completed(v.state) /\ ~is_closed(v.state)
           rest == ~is_scheduled(v.state) /\ ~is_running(v.state)
<1>c. Counts(v)
  BY Counted
<1>1. Holders(v) > 0
  BY <1>c DEF Counts, Holders, Cancel, TaskRecord
<1>2. /\ r.action = IF live THEN (IF rest THEN "CloseAndSchedule" ELSE "Close") ELSE "DoNothing"
      /\ r.state \in Snapshot
      /\ r.state.refs = IF live /\ rest THEN v.state.refs + 1 ELSE v.state.refs
      /\ Flags(r.state, is_running(v.state), is_completed(v.state),
               live \/ need_start(v.state) \/ is_closed(v.state),
               is_scheduled(v.state) \/ (live /\ rest), need_start(v.state))
  BY <1>1, <1>c, ClosedTransition, WordType DEF Counts
<1>3. r.state \in Word
  BY <1>2, WordType
<1> HIDE DEF r
<1>4. /\ u \in Snapshot /\ u.refs = r.state.refs + 1
      /\ Flags(u, is_running(r.state), is_completed(r.state), is_closed(r.state),
               is_scheduled(r.state), need_start(r.state))
  BY <1>2, <1>3, <1>c, RefTransitions, WordType DEF Counts
<1> HIDE DEF u
<1>5. /\ w.state = IF live /\ rest THEN u ELSE r.state
      /\ Pushed(v, w, live /\ rest)
      /\ w.awaiter = (v.awaiter /\ ~live)
  BY <1>2 DEF Cancel, schedule, Push, Pushed, r, u, TaskRecord
<1>6. /\ v.fault = "none" /\ v.handle = "held" /\ v.result = "pending" /\ w.cancelled = TRUE
      /\ w.memory = v.memory /\ w.output = v.output /\ w.drops = v.drops /\ w.phase = v.phase
         /\ w.wakers = v.wakers /\ w.handle = v.handle /\ w.result = v.result
         /\ w.woken = v.woken /\ w.executor = v.executor
  BY DEF Cancel, schedule, Push, TaskRecord
<1> USE <1>1, <1>2, <1>4, <1>5, <1>6, <1>c DEF Counts, Flags, IInv, Typed, Phase, Pushed
<1>7. Typed(w)
  <2>1. w.state \in Snapshot /\ w.awaiter \in BOOLEAN
    OBVIOUS
  <2>2. w.runnables \in Nat /\ w.fault \in Faults
    BY DEF Faults
  <2> QED  BY <2>1, <2>2
<1>8. Refs(w)
  BY DEF Refs, Holders
<1>9. Fresh(w) /\ Phase(w) /\ Completed(w)
  BY DEF Fresh, Completed
<1>10. Queued(w) /\ Future(w)
  BY DEF Queued, Future, Fresh, Completed
<1>11. Output(w) /\ Cancelled(w) /\ Owns(w)
  BY DEF Output, Cancelled, Owns, Completed, Fresh
<1>12. Wakes(w) /\ Serves(w)
  BY DEF Wakes, Serves, Completed, Fresh
<1> QED  BY <1>7, <1>8, <1>9, <1>10, <1>11, <1>12

(* Cloning a waker takes a reference for the new holder. *)
LEMMA CloneWakerStep ==
  ASSUME NEW v \in TaskRecord, NEW w, IInv(v), CloneWaker(v, w)
  PROVE  IInv(w)
<1> DEFINE s == incr_ref(v.state)
<1>c. Counts(v)
  BY Counted
<1>1. Holders(v) > 0
  BY <1>c DEF Counts, Holders, CloneWaker, WakerInReach, IInv, Typed, TaskRecord
<1>2. /\ s \in Snapshot /\ s.refs = v.state.refs + 1
      /\ Flags(s, is_running(v.state), is_completed(v.state), is_closed(v.state),
               is_scheduled(v.state), need_start(v.state))
  BY <1>1, <1>c, RefTransitions, WordType DEF Counts
<1> HIDE DEF s
<1>3. w.state = s
  BY DEF CloneWaker, s, TaskRecord
<1> USE <1>1, <1>2, <1>3, <1>c, MaxWakersType DEF Counts, CloneWaker, WakerInReach, Flags, IInv,
       Typed, Phase, TaskRecord
<1>4. Typed(w)
  BY DEF Phases, Faults
<1>5. Refs(w)
  BY DEF Refs, Holders
<1>6. Fresh(w) /\ Phase(w) /\ Completed(w)
  BY DEF Fresh, Completed
<1>7. Queued(w) /\ Future(w)
  BY DEF Queued, Future, Fresh, Completed
<1>8. Output(w) /\ Cancelled(w) /\ Owns(w)
  BY DEF Output, Cancelled, Owns, Completed
<1>9. Wakes(w) /\ Serves(w)
  BY DEF Wakes, Serves, Completed
<1> QED  BY <1>4, <1>5, <1>6, <1>7, <1>8, <1>9

(* Waking by reference queues the task or marks it for its poll. *)
LEMMA WakeByRefStep ==
  ASSUME NEW v \in TaskRecord, NEW w, IInv(v), WakeByRef(v, w)
  PROVE  IInv(w)
<1> DEFINE t == do_wake(v).state
           u == incr_ref(t)
           submit == do_wake(v).action = "Submit"
<1>c. Counts(v)
  BY Counted
<1>1. Holders(v) > 0
  BY <1>c DEF Counts, Holders, WakeByRef, WakerInReach, IInv, Typed, TaskRecord
<1>2. /\ submit <=> /\ ~is_completed(v.state) /\ ~is_closed(v.state)
                    /\ ~is_scheduled(v.state) /\ ~is_running(v.state)
      /\ t \in Word /\ t.refs = v.state.refs
      /\ Flags(t, is_running(v.state), is_completed(v.state), is_closed(v.state),
               (~is_completed(v.state) /\ ~is_closed(v.state)) \/ is_scheduled(v.state),
               need_start(v.state))
  BY <1>1, <1>c, ScheduledTransition DEF Counts, do_wake
<1> HIDE DEF t, submit
<1>3. /\ u \in Word /\ u.refs = v.state.refs + 1
      /\ Flags(u, is_running(t), is_completed(t), is_closed(t), is_scheduled(t), need_start(t))
  BY <1>2, RefTransitions
<1>4. t \in Snapshot /\ u \in Snapshot
  BY <1>2, <1>3, <1>c, WordType DEF Counts
<1> HIDE DEF u
<1>5. /\ w.state = IF submit THEN u ELSE t
      /\ Pushed(v, w, submit)
  BY DEF WakeByRef, schedule, Push, Pushed, t, u, submit, TaskRecord
<1>6. /\ v.fault = "none" /\ WakerInReach(v) /\ w.woken = TRUE
      /\ w.awaiter = v.awaiter /\ w.memory = v.memory /\ w.output = v.output
         /\ w.drops = v.drops /\ w.phase = v.phase /\ w.wakers = v.wakers /\ w.handle = v.handle
         /\ w.result = v.result /\ w.cancelled = v.cancelled /\ w.executor = v.executor
  BY DEF WakeByRef, schedule, Push, TaskRecord
<1> USE <1>1, <1>2, <1>3, <1>4, <1>5, <1>6, <1>c
    DEF Counts, WakerInReach, Flags, IInv, Typed, Phase, Pushed
<1>7. Typed(w)
  <2>1. w.state \in Snapshot /\ w.awaiter \in BOOLEAN
    OBVIOUS
  <2>2. w.runnables \in Nat /\ w.fault \in Faults
    BY DEF Faults
  <2> QED  BY <2>1, <2>2
<1>8. Refs(w)
  BY DEF Refs, Holders
<1>9. Fresh(w) /\ Phase(w) /\ Completed(w)
  BY DEF Fresh, Completed
<1>10. Queued(w) /\ Future(w)
  BY DEF Queued, Future, Fresh, Completed
<1>11. Output(w) /\ Cancelled(w) /\ Owns(w)
  BY DEF Output, Cancelled, Owns, Completed
<1>12. Wakes(w) /\ Serves(w)
  BY DEF Wakes, Serves, Completed, Queued
<1> QED  BY <1>7, <1>8, <1>9, <1>10, <1>11, <1>12

(* Dropping the handle (JoinHandle::drop), in each build. *)
LEMMA DropHandleStep ==
  ASSUME NEW v \in TaskRecord, NEW w, IInv(v), DropHandle(v, w)
  PROVE  IInv(w)
<1> DEFINE r == drop_join_handle(v.state)
           u == incr_ref(r.state)
<1>c. Counts(v)
  BY Counted
<1>1. Holders(v) > 0
  BY <1>c DEF Counts, Holders, DropHandle, TaskRecord
<1>2. /\ v.fault = "none" /\ v.handle = "held" /\ w.handle = "dropped"
      /\ w.awaiter = v.awaiter /\ w.drops = v.drops /\ w.phase = v.phase /\ w.wakers = v.wakers
         /\ w.result = v.result /\ w.cancelled = v.cancelled /\ w.woken = v.woken
         /\ w.executor = v.executor
  BY DEF DropHandle, schedule, Push, TaskRecord
<1>3. Destroyed(v.state, r) \/ OutputDropped(v.state, r) \/ QueuedOnce(v.state, r)
      \/ Detached(v.state, r) \/ Panicked(v.state, r)
  BY <1>c, DropHandleTransition DEF Counts
<1>4. IF r.action \in Panics
        THEN w.fault = r.action /\ w.state = v.state /\ w.memory = v.memory
                                   /\ w.output = v.output /\ w.runnables = v.runnables
        ELSE /\ w.state = IF r.action = "Schedule" THEN u ELSE r.state
             /\ Pushed(v, w, r.action = "Schedule")
             /\ w.memory = IF r.action \in {"Destroy", "DropOutputDestroy"}
                             THEN "freed" ELSE v.memory
             /\ w.output = IF r.action \in {"DropOutput", "DropOutputDestroy"}
                             THEN "moved" ELSE v.output
  BY ZenonT(60) DEF DropHandle, schedule, Push, Pushed, r, u, TaskRecord
<1> HIDE DEF r
<1> USE <1>1, <1>2, <1>c DEF Counts, Flags, IInv, Typed, Phase, Pushed, open, kept, idle
<1>5. CASE Destroyed(v.state, r)
  <2> USE <1>5 DEF Destroyed
  <2>1. /\ w.state = r.state /\ r.state \in Snapshot /\ w.memory = "freed" /\ Holders(w) = 0
        /\ w.output = v.output /\ w.runnables = v.runnables /\ w.fault = v.fault
    BY <1>4, WordType DEF Panics, Holders
  <2> USE <2>1
  <2>2. Typed(w)
    BY DEF Phases, Faults
  <2>3. Refs(w)
    BY DEF Refs, Holders
  <2>4. Fresh(w) /\ Phase(w) /\ Completed(w)
    BY DEF Fresh, Completed
  <2>5. Queued(w) /\ Future(w)
    BY DEF Queued, Future, Fresh, Completed
  <2>6. Output(w) /\ Cancelled(w) /\ Owns(w)
    BY DEF Output, Cancelled, Owns, Completed, Fresh
  <2>7. Wakes(w) /\ Serves(w)
    BY DEF Wakes, Serves, Completed, Fresh
  <2> QED  BY <2>2, <2>3, <2>4, <2>5, <2>6, <2>7
<1>6. CASE OutputDropped(v.state, r)
  <2> USE <1>6 DEF OutputDropped
  <2>1. /\ w.state = r.state /\ r.state \in Snapshot /\ w.output = "moved"
        /\ w.memory = IF v.state.refs = 1 THEN "freed" ELSE v.memory
        /\ w.runnables = v.runnables /\ w.fault = v.fault
    <3>1. r.state \in Snapshot
      BY WordType
    <3> QED  BY <1>4, <3>1 DEF Panics
  <2> USE <2>1
  <2>2. Typed(w)
    BY DEF Phases, Faults
  <2>3. Refs(w)
    BY DEF Refs, Holders
  <2>4. Fresh(w) /\ Phase(w) /\ Completed(w)
    BY DEF Fresh, Completed
  <2>5. Queued(w) /\ Future(w)
    BY DEF Queued, Future, Fresh, Completed
  <2>6. Output(w) /\ Cancelled(w) /\ Owns(w)
    BY DEF Output, Cancelled, Owns, Completed, Fresh
  <2>7. Wakes(w) /\ Serves(w)
    BY DEF Wakes, Serves, Completed, Fresh
  <2> QED  BY <2>2, <2>3, <2>4, <2>5, <2>6, <2>7
<1>7. CASE QueuedOnce(v.state, r)
  <2> USE <1>7 DEF QueuedOnce
  <2>1. /\ w.state = u /\ u \in Snapshot /\ u.refs = 2
        /\ Flags(u, FALSE, FALSE, FALSE, is_scheduled(v.state), FALSE)
        /\ Pushed(v, w, TRUE)
        /\ w.memory = v.memory /\ w.output = v.output
    BY <1>4, WordType, RefTransitions DEF Panics, u
  <2>2. v.runnables = 0 /\ v.wakers = 0 /\ v.phase = "idle" /\ ~is_scheduled(v.state)
    BY DEF Holders, Queued
  <2> USE <2>1, <2>2
  <2>3. Typed(w)
    BY DEF Phases, Faults
  <2>4. Refs(w)
    BY DEF Refs, Holders
  <2>5. Fresh(w) /\ Phase(w) /\ Completed(w)
    BY DEF Fresh, Completed
  <2>6. Queued(w) /\ Future(w)
    BY DEF Queued, Future, Fresh, Completed
  <2>7. Output(w) /\ Cancelled(w) /\ Owns(w)
    BY DEF Output, Cancelled, Owns, Completed, Fresh
  <2>8. Wakes(w) /\ Serves(w)
    BY DEF Wakes, Serves, Completed, Fresh
  <2> QED  BY <2>3, <2>4, <2>5, <2>6, <2>7, <2>8
<1>8. CASE Detached(v.state, r)
  <2> USE <1>8 DEF Detached
  <2>1. /\ w.state = r.state /\ r.state \in Snapshot
        /\ w.memory = v.memory /\ w.output = v.output /\ w.runnables = v.runnables
           /\ w.fault = v.fault
    BY <1>4, WordType DEF Panics, Holders
  <2> USE <2>1
  <2>2. Typed(w)
    BY DEF Phases, Faults
  <2>3. Refs(w)
    BY DEF Refs, Holders
  <2>4. Fresh(w) /\ Phase(w) /\ Completed(w)
    BY DEF Fresh, Completed
  <2>5. Queued(w) /\ Future(w)
    BY DEF Queued, Future, Fresh, Completed
  <2>6. Output(w) /\ Cancelled(w) /\ Owns(w)
    BY DEF Output, Cancelled, Owns, Completed, Fresh
  <2>7. Wakes(w) /\ Serves(w)
    BY DEF Wakes, Serves, Completed, Fresh
  <2> QED  BY <2>2, <2>3, <2>4, <2>5, <2>6, <2>7
<1>9. CASE Panicked(v.state, r)
  <2> USE <1>9 DEF Panicked
  <2>1. w.fault \in Faults \ {"none"} /\ w.state = v.state /\ w.memory = v.memory
                                         /\ w.output = v.output /\ w.runnables = v.runnables
    BY <1>4 DEF Panics, Faults
  <2> USE <2>1
  <2>2. Typed(w)
    BY DEF Phases, Faults
  <2>3. Refs(w)
    BY DEF Refs, Holders
  <2>4. Fresh(w) /\ Phase(w) /\ Completed(w)
    BY DEF Fresh, Completed
  <2>5. Queued(w) /\ Future(w)
    BY DEF Queued, Future, Fresh, Completed
  <2>6. Output(w) /\ Cancelled(w) /\ Owns(w)
    BY DEF Output, Cancelled, Owns, Completed, Fresh
  <2>7. Wakes(w) /\ Serves(w)
    BY DEF Wakes, Serves, Completed, Fresh
  <2> QED  BY <2>2, <2>3, <2>4, <2>5, <2>6, <2>7
<1> QED  BY <1>3, <1>5, <1>6, <1>7, <1>8, <1>9

(* Dropping a waker frees the task only if it was the last holder. *)
LEMMA DropWakerStep ==
  ASSUME NEW v \in TaskRecord, NEW w, IInv(v), DropWaker(v, w)
  PROVE  IInv(w)
<1> DEFINE r == drop_waker(v.state)
<1>c. Counts(v)
  BY Counted
<1>1. Holders(v) > 0 /\ v.fault = "none" /\ v.wakers > 0 /\ ~need_start(v.state)
  BY <1>c DEF Counts, Holders, DropWaker, IInv, Fresh, TaskRecord
<1>2. /\ r.state \in Word
      /\ \/ /\ r.action = "DoNothing" /\ v.state.refs # 1 /\ r.state.refs = v.state.refs - 1
         \/ /\ r.action = "Destroy" /\ v.state.refs = 1 /\ r.state.refs = 0
            /\ is_completed(v.state) \/ is_closed(v.state)
      /\ Flags(r.state, is_running(v.state), is_completed(v.state), is_closed(v.state),
               is_scheduled(v.state), need_start(v.state))
  <2>1. ~(v.state.refs = 1 /\ ~is_completed(v.state) /\ ~is_closed(v.state))
    BY <1>1, <1>c DEF Counts, IInv, Typed, Refs, Holders, DropWaker, TaskRecord
  <2> QED  BY <2>1, <1>c, DropWakerTransition DEF Counts, Flags
<1> HIDE DEF r
<1>3. /\ w.state = r.state /\ r.state \in Snapshot
      /\ w.memory = IF r.action = "Destroy" THEN "freed" ELSE v.memory
      /\ w.wakers = v.wakers - 1
      /\ w.awaiter = v.awaiter /\ w.output = v.output /\ w.drops = v.drops
         /\ w.runnables = v.runnables /\ w.phase = v.phase /\ w.handle = v.handle
         /\ w.result = v.result /\ w.cancelled = v.cancelled /\ w.woken = v.woken
         /\ w.executor = v.executor /\ w.fault = v.fault
  BY <1>1, <1>2, <1>c, WordType DEF Counts, DropWaker, schedule, Push, Pushed, r, TaskRecord
<1> USE <1>1, <1>2, <1>3, <1>c, MaxWakersType DEF Counts, Flags, IInv, Typed, Phase
<1>4. Typed(w)
  BY DEF Phases, Faults
<1>5. Refs(w)
  BY DEF Refs, Holders
<1>6. Fresh(w) /\ Phase(w) /\ Completed(w)
  BY DEF Fresh, Completed
<1>7. Queued(w) /\ Future(w)
  BY DEF Queued, Future, Fresh, Completed
<1>8. Output(w) /\ Cancelled(w) /\ Owns(w)
  BY DEF Output, Cancelled, Owns, Completed, Refs, Holders
<1>9. Wakes(w) /\ Serves(w)
  BY DEF Wakes, Serves, Completed
<1> QED  BY <1>4, <1>5, <1>6, <1>7, <1>8, <1>9

(* Waking by value is a wake and the drop of that waker. *)
LEMMA WakeByValStep ==
  ASSUME NEW v \in TaskRecord, NEW w, IInv(v), WakeByVal(v, w)
  PROVE  IInv(w)
<1> DEFINE t == do_wake(v).state
           u == incr_ref(t)
           submit == do_wake(v).action = "Submit"
<1>c. Counts(v)
  BY Counted
<1>1. Holders(v) > 0
  BY <1>c DEF Counts, Holders, WakeByVal, IInv, Typed, TaskRecord
<1>2. /\ submit <=> /\ ~is_completed(v.state) /\ ~is_closed(v.state)
                    /\ ~is_scheduled(v.state) /\ ~is_running(v.state)
      /\ t \in Word /\ t.refs = v.state.refs
      /\ Flags(t, is_running(v.state), is_completed(v.state), is_closed(v.state),
               (~is_completed(v.state) /\ ~is_closed(v.state)) \/ is_scheduled(v.state),
               need_start(v.state))
  BY <1>1, <1>c, ScheduledTransition DEF Counts, do_wake
<1> HIDE DEF t, submit
<1>3. /\ u \in Word /\ u.refs = v.state.refs + 1
      /\ Flags(u, is_running(t), is_completed(t), is_closed(t), is_scheduled(t), need_start(t))
  BY <1>2, RefTransitions
<1> DEFINE k == IF submit THEN u ELSE t
           r == drop_waker(k)
<1>4. v.fault = "none" /\ v.wakers > 0 /\ ~need_start(v.state)
  BY <1>c DEF Counts, WakeByVal, IInv, Fresh, TaskRecord
<1>5. /\ k \in Word /\ k.refs = IF submit THEN v.state.refs + 1 ELSE v.state.refs
      /\ Flags(k, is_running(v.state), is_completed(v.state), is_closed(v.state),
               (~is_completed(v.state) /\ ~is_closed(v.state)) \/ is_scheduled(v.state),
               need_start(v.state))
  BY <1>2, <1>3 DEF Flags
<1> HIDE DEF u, k
<1>6. /\ r.state \in Word /\ r.state.refs = k.refs - 1
      /\ \/ r.action = "DoNothing" /\ k.refs # 1
         \/ r.action = "Destroy" /\ k.refs = 1 /\ (is_completed(k) \/ is_closed(k))
      /\ Flags(r.state, is_running(k), is_completed(k), is_closed(k),
               is_scheduled(k), need_start(k))
  <2>1. ~(k.refs = 1 /\ ~is_completed(k) /\ ~is_closed(k))
    BY <1>1, <1>4, <1>5, <1>c DEF Counts, IInv, Typed, Refs, Holders, Flags
  <2> QED  BY <1>5, <2>1, DropWakerTransition DEF Flags
<1>7. r.state \in Snapshot /\ u \in Snapshot
  BY <1>1, <1>2, <1>3, <1>5, <1>6, <1>c, WordType DEF Counts
<1> HIDE DEF r
<1>8. /\ \/ /\ ~(submit /\ v.executor = "down")
            /\ w.wakers = v.wakers - 1
            /\ w.state = r.state
            /\ w.memory = IF r.action = "Destroy" THEN "freed" ELSE v.memory
            /\ Pushed(v, w, submit)
         \/ /\ submit /\ v.executor = "down"
            /\ w.state = u /\ Pushed(v, w, TRUE)
            /\ w.wakers = v.wakers /\ w.memory = v.memory
      /\ w.woken = TRUE
      /\ w.awaiter = v.awaiter /\ w.output = v.output /\ w.drops = v.drops /\ w.phase = v.phase
         /\ w.handle = v.handle /\ w.result = v.result /\ w.cancelled = v.cancelled
         /\ w.executor = v.executor
  BY ZenonT(60), <1>6 DEF WakeByVal, schedule, Push, Pushed, r, t, u, k, submit, TaskRecord
<1> USE <1>1, <1>2, <1>3, <1>4, <1>5, <1>6, <1>7, <1>8, <1>c, MaxWakersType
    DEF Counts, Flags, IInv, Typed, Phase, Pushed
<1>9. Typed(w)
  <2>1. w.state \in Snapshot /\ w.wakers \in 0..MaxWakers
    OBVIOUS
  <2>2. w.runnables \in Nat /\ w.fault \in Faults
    BY DEF Faults
  <2>3. w.memory \in {"live", "freed"}
    OBVIOUS
  <2> QED  BY <2>1, <2>2, <2>3
<1>10. Refs(w)
  <2>1. CASE submit /\ v.executor = "down"
    BY <2>1 DEF Refs, Holders
  <2>2. CASE ~(submit /\ v.executor = "down")
    BY <2>2 DEF Refs, Holders
  <2> QED  BY <2>1, <2>2
<1>11. Fresh(w) /\ Phase(w) /\ Completed(w)
  BY DEF Fresh, Completed
<1>12. Queued(w) /\ Future(w)
  BY DEF Queued, Future, Fresh, Completed
<1>13. Output(w) /\ Cancelled(w) /\ Owns(w)
  BY DEF Output, Cancelled, Owns, Completed, Refs, Holders
<1>14. Wakes(w) /\ Serves(w)
  BY DEF Wakes, Serves, Completed, Queued
<1> QED  BY <1>9, <1>10, <1>11, <1>12, <1>13, <1>14

(* The end of a run that dropped the future of a closed task. *)
LEMMA FinishDropStep ==
  ASSUME NEW v \in TaskRecord, NEW w, IInv(v), FinishDrop(v, w)
  PROVE  IInv(w)
<1> DEFINE s == decr_ref(v.state)
<1>c. Counts(v)
  BY Counted
<1>1. Holders(v) > 0
  BY <1>c DEF Counts, Holders, FinishDrop, TaskRecord
<1>2. /\ s \in Snapshot /\ s.refs = v.state.refs - 1
      /\ Flags(s, is_running(v.state), is_completed(v.state), is_closed(v.state),
               is_scheduled(v.state), need_start(v.state))
  BY <1>1, <1>c, RefTransitions, WordType DEF Counts
<1> HIDE DEF s
<1>3. /\ v.fault = "none" /\ v.phase = "dropping" /\ w.phase = "idle" /\ w.awaiter = FALSE
      /\ w.state = s /\ w.memory = IF s.refs = 0 THEN "freed" ELSE v.memory
      /\ w.output = v.output /\ w.drops = v.drops /\ w.runnables = v.runnables
      /\ w.wakers = v.wakers /\ w.handle = v.handle /\ w.result = v.result
      /\ w.cancelled = v.cancelled /\ w.woken = v.woken /\ w.executor = v.executor
      /\ w.fault = v.fault
  BY DEF FinishDrop, drop_task_ref, s, TaskRecord
<1> USE <1>1, <1>2, <1>3, <1>c DEF Counts, Flags, IInv, Typed, Phase
<1>4. Typed(w)
  BY DEF Phases, Faults
<1>5. Refs(w)
  BY DEF Refs, Holders
<1>6. Fresh(w) /\ Phase(w) /\ Completed(w)
  BY DEF Fresh, Completed
<1>7. Queued(w) /\ Future(w)
  BY DEF Queued, Future, Fresh, Completed
<1>8. Output(w) /\ Cancelled(w) /\ Owns(w)
  BY DEF Output, Cancelled, Owns, Completed
<1>9. Wakes(w) /\ Serves(w)
  BY DEF Wakes, Serves, Completed
<1> QED  BY <1>4, <1>5, <1>6, <1>7, <1>8, <1>9

(* The start of a run, which polls the future or drops it. *)
LEMMA RunStep ==
  ASSUME NEW v \in TaskRecord, NEW w, IInv(v), Run(v, w)
  PROVE  IInv(w)
<1> DEFINE r == transition_to_running(v.state)
<1>c. Counts(v)
  BY Counted
<1>1. Holders(v) > 0 /\ ~need_start(v.state) /\ ~is_running(v.state) /\ ~is_completed(v.state)
  BY <1>c DEF Counts, Holders, Run, IInv, Typed, Fresh, Phase, Completed, TaskRecord
<1>2. /\ r.action = IF is_closed(v.state) THEN "Closed" ELSE "Running"
      /\ r.state \in Snapshot /\ r.state.refs = v.state.refs
      /\ Flags(r.state, ~is_closed(v.state), is_completed(v.state), is_closed(v.state),
               FALSE, FALSE)
  BY <1>1, <1>c, RunningTransition, WordType DEF Counts, Flags
<1> HIDE DEF r
<1>3. /\ w.state = r.state
      /\ w.phase = IF is_closed(v.state) THEN "dropping" ELSE "polling"
      /\ w.drops = IF is_closed(v.state) THEN v.drops + 1 ELSE v.drops
      /\ w.fault = v.fault
  BY <1>2 DEF Run, r, PanicOr, Panics, TaskRecord
<1>4. /\ v.fault = "none" /\ v.phase = "idle" /\ v.runnables > 0 /\ w.runnables = v.runnables - 1
      /\ w.woken = FALSE
      /\ w.awaiter = v.awaiter /\ w.memory = v.memory /\ w.output = v.output
         /\ w.wakers = v.wakers /\ w.handle = v.handle /\ w.result = v.result
         /\ w.cancelled = v.cancelled /\ w.executor = v.executor
  BY DEF Run, TaskRecord
<1> USE <1>1, <1>2, <1>3, <1>4, <1>c DEF Counts, Flags, IInv, Typed, Phase
<1>5. Typed(w)
  <2>1. w.phase \in Phases
    BY DEF Phases
  <2>2. w.drops \in Nat /\ w.runnables \in Nat
    OBVIOUS
  <2> QED  BY <2>1, <2>2
<1>6. Refs(w)
  BY DEF Refs, Holders
<1>7. Fresh(w) /\ Phase(w) /\ Completed(w)
  BY DEF Fresh, Completed, Queued
<1>8. Queued(w) /\ Future(w)
  BY DEF Queued, Future, Fresh, Completed
<1>9. Output(w) /\ Cancelled(w) /\ Owns(w)
  BY DEF Output, Cancelled, Owns, Completed
<1>10. Wakes(w) /\ Serves(w)
  BY DEF Wakes, Serves, Completed
<1> QED  BY <1>5, <1>6, <1>7, <1>8, <1>9, <1>10

(* F::poll returned its output: the future is dropped in place. *)
LEMMA PollReadyStep ==
  ASSUME NEW v \in TaskRecord, NEW w, IInv(v), PollReady(v, w)
  PROVE  IInv(w)
<1>c. Counts(v)
  BY Counted
<1> USE <1>c DEF Counts, PollReady, IInv, Typed, Phase, TaskRecord
<1>1. Typed(w)
  BY DEF Phases, Faults
<1>2. Refs(w)
  BY DEF Refs, Holders
<1>3. Fresh(w) /\ Phase(w) /\ Completed(w)
  BY DEF Fresh, Completed
<1>4. Queued(w) /\ Future(w)
  BY DEF Queued, Future, Fresh, Completed
<1>5. Output(w) /\ Cancelled(w) /\ Owns(w)
  BY DEF Output, Cancelled, Owns, Completed
<1>6. Wakes(w) /\ Serves(w)
  BY DEF Wakes, Serves, Completed
<1> QED  BY <1>1, <1>2, <1>3, <1>4, <1>5, <1>6

(* The output is stored or dropped, and the awaiter notified. *)
LEMMA FinishReadyStep ==
  ASSUME NEW v \in TaskRecord, NEW w, IInv(v), FinishReady(v, w)
  PROVE  IInv(w)
<1> DEFINE r == transition_to_completed(v.state)
           s == decr_ref(r.state)
<1>c. Counts(v)
  BY Counted
<1>1. Holders(v) > 0 /\ v.state.refs > 0
  BY <1>c DEF Counts, Holders, FinishReady, TaskRecord
<1>2. /\ r.action = IF is_closed(v.state) THEN "Closed" ELSE "DoNothing"
      /\ r.state \in Word /\ r.state.refs = v.state.refs
      /\ Flags(r.state, FALSE, TRUE, is_closed(v.state), FALSE, need_start(v.state))
  BY <1>1, <1>c, CompletedTransition DEF Counts, Flags
<1> HIDE DEF r
<1>3. /\ s \in Snapshot /\ s.refs = v.state.refs - 1
      /\ Flags(s, FALSE, TRUE, is_closed(v.state), FALSE, need_start(v.state))
  BY <1>1, <1>2, <1>c, RefTransitions, WordType DEF Counts, Flags
<1> HIDE DEF s
<1>4. /\ w.state = s /\ w.memory = IF s.refs = 0 THEN "freed" ELSE v.memory
      /\ w.output = IF is_closed(v.state) THEN "moved" ELSE "stored"
  BY <1>2 DEF FinishReady, drop_task_ref, r, s, TaskRecord
<1>5. /\ v.fault = "none" /\ v.phase = "completing" /\ w.phase = "idle" /\ w.awaiter = FALSE
      /\ w.drops = v.drops /\ w.runnables = v.runnables /\ w.wakers = v.wakers
         /\ w.handle = v.handle /\ w.result = v.result /\ w.cancelled = v.cancelled
         /\ w.woken = v.woken /\ w.executor = v.executor /\ w.fault = v.fault
  BY DEF FinishReady, drop_task_ref, TaskRecord
<1> USE <1>1, <1>3, <1>4, <1>5, <1>c DEF Counts, Flags, IInv, Typed, Phase
<1>6. Typed(w)
  BY DEF Phases, Faults
<1>7. Refs(w)
  BY DEF Refs, Holders
<1>8. Fresh(w) /\ Phase(w) /\ Completed(w)
  BY DEF Fresh, Completed
<1>9. Queued(w) /\ Future(w)
  BY DEF Queued, Future, Fresh, Completed
<1>10. Output(w) /\ Cancelled(w) /\ Owns(w)
  BY DEF Output, Cancelled, Owns, Completed, Refs, Holders
<1>11. Wakes(w) /\ Serves(w)
  BY DEF Wakes, Serves, Completed
<1> QED  BY <1>6, <1>7, <1>8, <1>9, <1>10, <1>11

(* F::poll returned Pending: idle, queued again, or closed meanwhile. *)
LEMMA PollPendingStep ==
  ASSUME NEW v \in TaskRecord, NEW w, IInv(v), PollPending(v, w)
  PROVE  IInv(w)
<1> DEFINE r == transition_to_idle(v.state)
           t == decr_ref(r.state)
           u == decr_ref(incr_ref(r.state))
<1>c. Counts(v)
  BY Counted
<1>1. Holders(v) > 0 /\ is_running(v.state)
  BY <1>c DEF Counts, Holders, PollPending, IInv, Phase, TaskRecord
<1>2. /\ r.action = IF is_closed(v.state) THEN "Closed"
                    ELSE IF is_scheduled(v.state) THEN "Schedule" ELSE "DoNothing"
      /\ r.state \in Snapshot /\ r.state.refs = v.state.refs
      /\ Flags(r.state, FALSE, is_completed(v.state), is_closed(v.state),
               is_scheduled(v.state) /\ ~is_closed(v.state), need_start(v.state))
  BY <1>1, <1>c, IdleTransition, WordType DEF Counts, Flags
<1>3. r.state \in Word /\ incr_ref(r.state) \in Word
  BY <1>2, WordType, RefTransitions
<1> HIDE DEF r
<1>4. /\ t \in Snapshot /\ t.refs = v.state.refs - 1
      /\ Flags(t, FALSE, is_completed(v.state), is_closed(v.state),
               is_scheduled(v.state) /\ ~is_closed(v.state), need_start(v.state))
  BY <1>1, <1>2, <1>3, <1>c, RefTransitions, WordType DEF Counts, Flags
<1>5. /\ u \in Snapshot /\ u.refs = v.state.refs
      /\ Flags(u, FALSE, is_completed(v.state), is_closed(v.state),
               is_scheduled(v.state) /\ ~is_closed(v.state), need_start(v.state))
  BY <1>1, <1>2, <1>3, <1>c, RefTransitions, WordType DEF Counts, Flags
<1>6. \/ /\ is_closed(v.state)
         /\ w.state = r.state /\ w.phase = "dropping" /\ w.drops = v.drops + 1
         /\ w.memory = v.memory /\ w.runnables = v.runnables /\ w.fault = v.fault
      \/ /\ ~is_closed(v.state) /\ is_scheduled(v.state)
         /\ w.state = u /\ w.phase = "idle" /\ w.runnables = v.runnables + 1
         /\ w.memory = IF u.refs = 0 THEN "freed" ELSE v.memory
         /\ w.drops = v.drops /\ w.fault = v.fault
      \/ /\ ~is_closed(v.state) /\ ~is_scheduled(v.state)
         /\ w.state = t /\ w.phase = "idle"
         /\ w.memory = IF t.refs = 0 THEN "freed" ELSE v.memory
         /\ w.runnables = v.runnables /\ w.drops = v.drops /\ w.fault = v.fault
  BY ZenonT(60), <1>2 DEF PollPending, drop_task_ref, PanicOr, Panics, r, t, u, TaskRecord
<1> HIDE DEF t, u
<1>7. /\ v.fault = "none" /\ v.phase = "polling"
      /\ w.awaiter = v.awaiter /\ w.output = v.output /\ w.wakers = v.wakers
         /\ w.handle = v.handle /\ w.result = v.result /\ w.cancelled = v.cancelled
         /\ w.woken = v.woken /\ w.executor = v.executor
  BY DEF PollPending, drop_task_ref, TaskRecord
<1> USE <1>1, <1>2, <1>4, <1>5, <1>6, <1>7, <1>c DEF Counts, Flags, IInv, Typed, Phase
<1>8. Typed(w)
  BY DEF Phases, Faults
<1>9. Refs(w)
  <2>1. CASE is_closed(v.state)
    BY <2>1 DEF Refs, Holders
  <2>2. CASE ~is_closed(v.state) /\ is_scheduled(v.state)
    BY <2>2 DEF Refs, Holders
  <2>3. CASE ~is_closed(v.state) /\ ~is_scheduled(v.state)
    BY <2>3 DEF Refs, Holders
  <2> QED  BY <2>1, <2>2, <2>3
<1>10. Fresh(w) /\ Phase(w) /\ Completed(w)
  BY DEF Fresh, Completed
<1>11. Queued(w) /\ Future(w)
  BY DEF Queued, Future, Fresh, Completed
<1>12. Output(w) /\ Cancelled(w) /\ Owns(w)
  BY DEF Output, Cancelled, Owns, Completed
<1>13. Wakes(w) /\ Serves(w)
  BY DEF Wakes, Serves, Completed
<1> QED  BY <1>8, <1>9, <1>10, <1>11, <1>12, <1>13

(* F::poll panicked, and the guard of run closed the task. *)
LEMMA PollPanicStep ==
  ASSUME NEW v \in TaskRecord, NEW w, IInv(v), PollPanic(v, w)
  PROVE  IInv(w)
<1> DEFINE s == set_closed(v.state)
<1>c. Counts(v)
  BY Counted
<1>1. Holders(v) > 0
  BY <1>c DEF Counts, Holders, PollPanic, TaskRecord
<1>2. /\ s \in Snapshot /\ s.refs = v.state.refs
      /\ Flags(s, FALSE, is_completed(v.state), TRUE, FALSE, need_start(v.state))
  <2>1. s \in Word /\ s.refs = v.state.refs
    BY <1>c, ClosingTransitions DEF Counts
  <2> QED  BY <1>1, <2>1, <1>c, ClosingTransitions, WordType DEF Counts, Flags
<1> HIDE DEF s
<1>3. w.state = s
  BY DEF PollPanic, s, TaskRecord
<1> USE <1>1, <1>2, <1>3, <1>c DEF Counts, PollPanic, Flags, IInv, Typed, Phase, TaskRecord
<1>4. Typed(w)
  BY DEF Phases, Faults
<1>5. Refs(w)
  BY DEF Refs, Holders
<1>6. Fresh(w) /\ Phase(w) /\ Completed(w)
  BY DEF Fresh, Completed
<1>7. Queued(w) /\ Future(w)
  BY DEF Queued, Future, Fresh, Completed
<1>8. Output(w) /\ Cancelled(w) /\ Owns(w)
  BY DEF Output, Cancelled, Owns, Completed
<1>9. Wakes(w) /\ Serves(w)
  BY DEF Wakes, Serves, Completed
<1> QED  BY <1>4, <1>5, <1>6, <1>7, <1>8, <1>9

(* The executor goes away with Tasks in its queue. *)
LEMMA ShutdownStep ==
  ASSUME NEW v \in TaskRecord, NEW w, IInv(v), Shutdown(v, w)
  PROVE  IInv(w)
<1>c. Counts(v)
  BY Counted
<1> USE <1>c DEF Counts, Shutdown, IInv, Typed, Phase, TaskRecord
<1>1. Typed(w)
  BY DEF Phases, Faults
<1>2. Refs(w)
  BY DEF Refs, Holders
<1>3. Fresh(w) /\ Phase(w) /\ Completed(w)
  BY DEF Fresh, Completed
<1>4. Queued(w) /\ Future(w)
  BY DEF Queued, Future, Fresh, Completed
<1>5. Output(w) /\ Cancelled(w) /\ Owns(w)
  BY DEF Output, Cancelled, Owns, Completed
<1>6. Wakes(w) /\ Serves(w)
  BY DEF Wakes, Serves, Completed
<1> QED  BY <1>1, <1>2, <1>3, <1>4, <1>5, <1>6

(* A queued Task is dropped without being run (Task::drop). *)
LEMMA DiscardTaskStep ==
  ASSUME NEW v \in TaskRecord, NEW w, IInv(v), DiscardTask(v, w)
  PROVE  IInv(w)
<1> DEFINE s == drop_task(v.state)
<1>c. Counts(v)
  BY Counted
<1>1. Holders(v) > 0
  BY <1>c DEF Counts, Holders, DiscardTask, TaskRecord
<1>2. /\ s \in Snapshot /\ s.refs = v.state.refs
      /\ Flags(s, is_running(v.state), is_completed(v.state), TRUE, FALSE, need_start(v.state))
  <2>1. s \in Word /\ s.refs = v.state.refs
    BY <1>c, ClosingTransitions DEF Counts
  <2> QED  BY <1>1, <2>1, <1>c, ClosingTransitions, WordType DEF Counts, Flags
<1> HIDE DEF s
<1>3. w.state = s
  BY DEF DiscardTask, s, TaskRecord
<1> USE <1>1, <1>2, <1>3, <1>c DEF Counts, DiscardTask, Flags, IInv, Typed, Phase, TaskRecord
<1>4. Typed(w)
  BY DEF Phases, Faults
<1>5. Refs(w)
  BY DEF Refs, Holders
<1>6. Fresh(w) /\ Phase(w) /\ Completed(w)
  BY DEF Fresh, Completed
<1>7. Queued(w) /\ Future(w)
  BY DEF Queued, Future, Fresh, Completed
<1>8. Output(w) /\ Cancelled(w) /\ Owns(w)
  BY DEF Output, Cancelled, Owns, Completed
<1>9. Wakes(w) /\ Serves(w)
  BY DEF Wakes, Serves, Completed
<1> QED  BY <1>4, <1>5, <1>6, <1>7, <1>8, <1>9

(* Its future was dropped, and its awaiter is notified. *)
LEMMA FinishDiscardStep ==
  ASSUME NEW v \in TaskRecord, NEW w, IInv(v), FinishDiscard(v, w)
  PROVE  IInv(w)
<1> DEFINE s == drop_task(v.state)
<1>c. Counts(v)
  BY Counted
<1>1. Holders(v) > 0
  BY <1>c DEF Counts, Holders, FinishDiscard, TaskRecord
<1>2. /\ s \in Snapshot /\ s.refs = v.state.refs
      /\ Flags(s, is_running(v.state), is_completed(v.state), TRUE, FALSE, need_start(v.state))
  <2>1. s \in Word /\ s.refs = v.state.refs
    BY <1>c, ClosingTransitions DEF Counts
  <2> QED  BY <1>1, <2>1, <1>c, ClosingTransitions, WordType DEF Counts, Flags
<1> HIDE DEF s
<1>3. w.state = s
  BY DEF FinishDiscard, s, TaskRecord
<1> USE <1>1, <1>2, <1>3, <1>c DEF Counts, FinishDiscard, Flags, IInv, Typed, Phase, TaskRecord
<1>4. Typed(w)
  BY DEF Phases, Faults
<1>5. Refs(w)
  BY DEF Refs, Holders
<1>6. Fresh(w) /\ Phase(w) /\ Completed(w)
  BY DEF Fresh, Completed
<1>7. Queued(w) /\ Future(w)
  BY DEF Queued, Future, Fresh, Completed
<1>8. Output(w) /\ Cancelled(w) /\ Owns(w)
  BY DEF Output, Cancelled, Owns, Completed
<1>9. Wakes(w) /\ Serves(w)
  BY DEF Wakes, Serves, Completed
<1> QED  BY <1>4, <1>5, <1>6, <1>7, <1>8, <1>9

-----------------------------------------------------------------------------
(* Every step preserves it *)

(* What has the fields of a task, each of its type, is a task. *)
LEMMA FieldsOfTask ==
  ASSUME NEW w, Typed(w), DOMAIN w = DOMAIN NewTask, w = [f \in DOMAIN w |-> w[f]]
  PROVE  w \in TaskRecord
BY DEF Typed, TaskRecord, NewTask

(* A step writes fields and adds none. *)
LEMMA FieldsKept ==
  ASSUME NEW v \in TaskRecord, NEW w, Step(v, w)
  PROVE  DOMAIN w = DOMAIN NewTask /\ w = [f \in DOMAIN w |-> w[f]]
<1>1. DOMAIN v = DOMAIN NewTask
  BY DEF TaskRecord, NewTask
<1>2. CASE PollHandle(v, w) \/ Cancel(v, w) \/ DropHandle(v, w)
  BY <1>1, <1>2 DEF PollHandle, Cancel, DropHandle, schedule, Push
<1>3. CASE CloneWaker(v, w) \/ WakeByRef(v, w) \/ WakeByVal(v, w) \/ DropWaker(v, w)
  BY <1>1, <1>3 DEF CloneWaker, WakeByRef, WakeByVal, DropWaker, schedule, Push
<1>4. CASE Run(v, w) \/ PollReady(v, w) \/ FinishReady(v, w) \/ PollPending(v, w)
  BY <1>1, <1>4 DEF Run, PollReady, FinishReady, PollPending, drop_task_ref
<1>5. CASE PollPanic(v, w) \/ FinishDrop(v, w) \/ Shutdown(v, w) \/ DiscardTask(v, w)
           \/ FinishDiscard(v, w)
  BY <1>1, <1>5 DEF PollPanic, FinishDrop, Shutdown, DiscardTask, FinishDiscard, drop_task_ref
<1> QED  BY <1>2, <1>3, <1>4, <1>5 DEF Step

(* The inductive step: no operation on a task breaks what the others rely on. *)
LEMMA StepKeepsIInv ==
  ASSUME NEW v \in TaskRecord, NEW w, IInv(v), Step(v, w)
  PROVE  w \in TaskRecord /\ IInv(w)
<1>1. IInv(w)
  <2>1. CASE PollHandle(v, w) \/ Cancel(v, w) \/ DropHandle(v, w)
    BY <2>1, PollHandleStep, CancelStep, DropHandleStep
  <2>2. CASE CloneWaker(v, w) \/ WakeByRef(v, w) \/ WakeByVal(v, w) \/ DropWaker(v, w)
    BY <2>2, CloneWakerStep, WakeByRefStep, WakeByValStep, DropWakerStep
  <2>3. CASE \/ Run(v, w) \/ PollReady(v, w) \/ FinishReady(v, w)
             \/ PollPending(v, w) \/ PollPanic(v, w) \/ FinishDrop(v, w)
    BY <2>3, RunStep, PollReadyStep, FinishReadyStep, PollPendingStep, PollPanicStep,
       FinishDropStep
  <2>4. CASE Shutdown(v, w) \/ DiscardTask(v, w) \/ FinishDiscard(v, w)
    BY <2>4, ShutdownStep, DiscardTaskStep, FinishDiscardStep
  <2> QED  BY <2>1, <2>2, <2>3, <2>4 DEF Step
<1>2. Typed(w)
  BY <1>1 DEF IInv
<1> QED  BY <1>1, <1>2, FieldsKept, FieldsOfTask

-----------------------------------------------------------------------------
(***************************************************************************)
(* An operation is known by the fields it writes: what relates two tasks   *)
(* field by field as the operation does is a step of it.  The executor,    *)
(* whose tasks are spread over several variables, is seen through these.   *)
(***************************************************************************)
Shaped(v) == v = [f \in DOMAIN NewTask |-> v[f]]

(* w differs from v in these fields only. *)
OnlyIn(v, w, fields) == \A f \in DOMAIN NewTask \ fields : w[f] = v[f]

(* Polling the handle of a task that was not started *)
LEMMA StartFields ==
  ASSUME NEW v, NEW w, Shaped(v), Shaped(w), v.fault = "none", v.executor = "up",
         v.handle = "held", v.result = "pending", v.phase = "idle", v.runnables \in Nat,
         OnlyIn(v, w, {"state", "runnables", "awaiter"}),
         LET r == poll_join_handle(v.state) IN
           /\ r.action = "Start" /\ w.state = incr_ref(r.state)
           /\ w.runnables = v.runnables + 1 /\ w.awaiter = TRUE
  PROVE  PollHandle(v, w)
<1> DEFINE z == [schedule(v, TRUE, poll_join_handle(v.state).state) EXCEPT !.awaiter = TRUE]
<1>1. Shaped(z)
  BY DEF Shaped, NewTask, schedule, Push
<1>2. \A f \in DOMAIN NewTask : w[f] = z[f]
  <2>1. z.state = w.state
    BY DEF Shaped, NewTask, schedule, Push
  <2>2. z.runnables = w.runnables
    BY DEF Shaped, NewTask, schedule, Push
  <2>3. z.awaiter = w.awaiter
    BY DEF Shaped, NewTask, schedule, Push
  <2>4. OnlyIn(v, z, {"state", "runnables", "awaiter"})
    BY DEF OnlyIn, Shaped, NewTask, schedule, Push
  <2> HIDE DEF z
  <2> QED  BY <2>1, <2>2, <2>3, <2>4 DEF OnlyIn, NewTask
<1> HIDE DEF z
<1>3. w = z
  BY <1>1, <1>2 DEF Shaped
<1> QED  BY <1>3 DEF PollHandle, z

(* Polling it while it runs, or failing to *)
LEMMA RegisterFields ==
  ASSUME NEW v, NEW w, Shaped(v), Shaped(w), v.fault = "none", v.executor = "up",
         v.handle = "held", v.result = "pending", v.phase = "idle",
         OnlyIn(v, w, {"awaiter", "fault"}),
         LET r == poll_join_handle(v.state) IN
           /\ r.action \in {"Register"} \union Panics
           /\ w.awaiter = (v.awaiter \/ r.action = "Register")
           /\ w.fault = PanicOr(r.action, v.fault)
  PROVE  PollHandle(v, w)
<1> DEFINE z == [v EXCEPT !.awaiter = @ \/ poll_join_handle(v.state).action = "Register",
                      !.fault   = PanicOr(poll_join_handle(v.state).action, @)]
<1>1. Shaped(z)
  BY DEF Shaped, NewTask
<1>2. \A f \in DOMAIN NewTask : w[f] = z[f]
  BY DEF OnlyIn, Shaped, NewTask
<1> HIDE DEF z
<1>3. w = z
  BY <1>1, <1>2 DEF Shaped
<1> QED  BY <1>3 DEF PollHandle, z

(* Polling it when there is an answer *)
LEMMA AnswerFields ==
  ASSUME NEW v, NEW w, Shaped(v), Shaped(w), v.fault = "none", v.executor = "up",
         v.handle = "held", v.result = "pending", v.phase = "idle",
         OnlyIn(v, w, {"state", "awaiter", "result", "output"}),
         LET r == poll_join_handle(v.state) IN
           /\ r.action \in {"CompleteNone", "CompleteSome"}
           /\ w.state = r.state /\ w.awaiter = FALSE
           /\ w.result = IF r.action = "CompleteNone" THEN "none" ELSE "some"
           /\ w.output = IF r.action = "CompleteNone" THEN v.output ELSE "moved"
  PROVE  PollHandle(v, w)
<1> DEFINE r == poll_join_handle(v.state)
           z == [v EXCEPT !.state   = r.state,
                      !.awaiter = FALSE,
                      !.result  = IF r.action = "CompleteNone" THEN "none" ELSE "some",
                      !.output  = IF r.action = "CompleteNone" THEN @ ELSE "moved"]
<1>1. Shaped(z)
  BY DEF Shaped, NewTask
<1>2. \A f \in DOMAIN NewTask : w[f] = z[f]
  BY ZenonT(60) DEF OnlyIn, Shaped, NewTask
<1> HIDE DEF z
<1>3. w = z
  BY <1>1, <1>2 DEF Shaped
<1> QED  BY <1>3 DEF PollHandle, z

(* Cancelling *)
LEMMA CancelFields ==
  ASSUME NEW v, NEW w, Shaped(v), Shaped(w), v.fault = "none", v.executor = "up",
         "cancel" \in Client, v.handle = "held", v.result = "pending", ~v.cancelled,
         v.runnables \in Nat,
         OnlyIn(v, w, {"state", "runnables", "awaiter", "cancelled"}),
         LET r == transition_to_closed(v.state)
             submit == r.action = "CloseAndSchedule"
         IN  /\ w.state = (IF submit THEN incr_ref(r.state) ELSE r.state)
             /\ w.runnables = (IF submit THEN v.runnables + 1 ELSE v.runnables)
             /\ w.awaiter = (v.awaiter /\ r.action = "DoNothing")
             /\ w.cancelled = TRUE
  PROVE  Cancel(v, w)
<1> DEFINE r == transition_to_closed(v.state)
           z == [schedule(v, r.action = "CloseAndSchedule", r.state) EXCEPT
                  !.cancelled = TRUE,
                  !.awaiter   = @ /\ r.action = "DoNothing"]
<1>1. Shaped(z)
  BY ZenonT(60) DEF Shaped, NewTask, schedule, Push
<1>2. \A f \in DOMAIN NewTask : w[f] = z[f]
  <2>1. z.state = w.state
    BY DEF Shaped, NewTask, schedule, Push
  <2>2. z.runnables = w.runnables
    BY DEF Shaped, NewTask, schedule, Push
  <2>3. z.awaiter = w.awaiter
    BY DEF Shaped, NewTask, schedule, Push
  <2>4. z.cancelled = w.cancelled
    BY DEF Shaped, NewTask, schedule, Push
  <2>5. OnlyIn(v, z, {"state", "runnables", "awaiter", "cancelled"})
    BY DEF OnlyIn, Shaped, NewTask, schedule, Push
  <2> HIDE DEF z
  <2> QED  BY <2>1, <2>2, <2>3, <2>4, <2>5 DEF OnlyIn, NewTask
<1> HIDE DEF z
<1>3. w = z
  BY <1>1, <1>2 DEF Shaped
<1> QED  BY <1>3 DEF Cancel, z

(* Dropping the handle *)
LEMMA DropHandleFields ==
  ASSUME NEW v, NEW w, Shaped(v), Shaped(w), v.fault = "none", v.executor = "up",
         v.handle = "held",
         v.result # "pending" \/ "early_drop" \in Client, v.wakers = 0 \/ "stray_waker" \in Client,
         OnlyIn(v, w, {"state", "runnables", "handle", "memory", "output"}),
         LET r == drop_join_handle(v.state) IN
           /\ r.action \notin Panics
           /\ w.state = (IF r.action = "Schedule" THEN incr_ref(r.state) ELSE r.state)
           /\ w.runnables = (IF r.action = "Schedule" THEN v.runnables + 1 ELSE v.runnables)
           /\ w.handle = "dropped"
           /\ w.memory = IF r.action \in {"Destroy", "DropOutputDestroy"} THEN "freed" ELSE v.memory
           /\ w.output = IF r.action \in {"DropOutput", "DropOutputDestroy"} THEN "moved"
                                                                             ELSE v.output
  PROVE  DropHandle(v, w)
<1> DEFINE r == drop_join_handle(v.state)
           z == [schedule(v, r.action = "Schedule", r.state) EXCEPT
                  !.handle = "dropped",
                  !.memory = IF r.action \in {"Destroy", "DropOutputDestroy"} THEN "freed" ELSE @,
                  !.output = IF r.action \in {"DropOutput", "DropOutputDestroy"}
                               THEN "moved" ELSE @]
<1>1. Shaped(z)
  BY ZenonT(60) DEF Shaped, NewTask, schedule, Push
<1>2. \A f \in DOMAIN NewTask : w[f] = z[f]
  <2>1. z.state = w.state
    BY DEF Shaped, NewTask, schedule, Push
  <2>2. z.runnables = w.runnables
    BY DEF Shaped, NewTask, schedule, Push
  <2>3. z.handle = w.handle
    BY DEF Shaped, NewTask, schedule, Push
  <2>4. z.memory = w.memory
    BY DEF Shaped, NewTask, schedule, Push
  <2>5. z.output = w.output
    BY DEF Shaped, NewTask, schedule, Push
  <2>6. OnlyIn(v, z, {"state", "runnables", "handle", "memory", "output"})
    BY DEF OnlyIn, Shaped, NewTask, schedule, Push
  <2> HIDE DEF z
  <2> QED  BY <2>1, <2>2, <2>3, <2>4, <2>5, <2>6 DEF OnlyIn, NewTask
<1> HIDE DEF z
<1>3. w = z
  BY <1>1, <1>2 DEF Shaped
<1> QED  BY <1>3 DEF DropHandle, z

(* Panicking in the drop of the handle *)
LEMMA DropHandlePanicFields ==
  ASSUME NEW v, NEW w, Shaped(v), Shaped(w), v.fault = "none", v.executor = "up",
         v.handle = "held",
         v.result # "pending" \/ "early_drop" \in Client, v.wakers = 0 \/ "stray_waker" \in Client,
         OnlyIn(v, w, {"handle", "fault"}),
         drop_join_handle(v.state).action \in Panics, w.handle = "dropped",
         w.fault = drop_join_handle(v.state).action
  PROVE  DropHandle(v, w)
<1> DEFINE z == [v EXCEPT !.handle = "dropped", !.fault = drop_join_handle(v.state).action]
<1>1. Shaped(z)
  BY DEF Shaped, NewTask
<1>2. \A f \in DOMAIN NewTask : w[f] = z[f]
  BY DEF OnlyIn, Shaped, NewTask
<1> HIDE DEF z
<1>3. w = z
  BY <1>1, <1>2 DEF Shaped
<1> QED  BY <1>3 DEF DropHandle, z

(* Cloning a waker *)
LEMMA CloneWakerFields ==
  ASSUME NEW v, NEW w, Shaped(v), Shaped(w), v.fault = "none", v.executor = "up",
         WakerInReach(v), v.wakers < MaxWakers,
         OnlyIn(v, w, {"wakers", "state"}),
         w.wakers = v.wakers + 1, w.state = incr_ref(v.state)
  PROVE  CloneWaker(v, w)
<1> DEFINE z == [v EXCEPT !.wakers = @ + 1, !.state = incr_ref(@)]
<1>1. Shaped(z)
  BY DEF Shaped, NewTask
<1>2. \A f \in DOMAIN NewTask : w[f] = z[f]
  BY DEF OnlyIn, Shaped, NewTask
<1> HIDE DEF z
<1>3. w = z
  BY <1>1, <1>2 DEF Shaped
<1> QED  BY <1>3 DEF CloneWaker, z

(* Waking *)
LEMMA WakeByRefFields ==
  ASSUME NEW v, NEW w, Shaped(v), Shaped(w), v.fault = "none", v.executor = "up",
         WakerInReach(v),
         OnlyIn(v, w, {"state", "runnables", "woken"}),
         LET r == transition_to_scheduled(v.state) IN
           /\ w.state = (IF r.action = "Submit" THEN incr_ref(r.state) ELSE r.state)
           /\ w.runnables = (IF r.action = "Submit" THEN v.runnables + 1 ELSE v.runnables)
           /\ w.woken = TRUE
  PROVE  WakeByRef(v, w)
<1> DEFINE z == [schedule(v, do_wake(v).action = "Submit", do_wake(v).state) EXCEPT !.woken = TRUE]
<1>1. Shaped(z)
  BY DEF Shaped, NewTask, schedule, Push, do_wake
<1>2. \A f \in DOMAIN NewTask : w[f] = z[f]
  BY ZenonT(60) DEF OnlyIn, Shaped, NewTask, schedule, Push, do_wake
<1> HIDE DEF z
<1>3. w = z
  BY <1>1, <1>2 DEF Shaped
<1> QED  BY <1>3 DEF WakeByRef, z

(* Dropping a waker *)
LEMMA DropWakerFields ==
  ASSUME NEW v, NEW w, Shaped(v), Shaped(w), v.fault = "none", v.executor = "up",
         v.wakers > 0,
         OnlyIn(v, w, {"state", "runnables", "wakers", "memory"}),
         w.wakers = v.wakers - 1,
         LET r == drop_waker(v.state) IN
           /\ w.state = (IF r.action = "Schedule" THEN incr_ref(r.state) ELSE r.state)
           /\ w.runnables = (IF r.action = "Schedule" THEN v.runnables + 1 ELSE v.runnables)
           /\ w.memory = IF r.action = "Destroy" THEN "freed" ELSE v.memory
  PROVE  DropWaker(v, w)
<1> DEFINE r == drop_waker(v.state)
           z == [schedule(v, r.action = "Schedule", r.state) EXCEPT
                  !.wakers = @ - 1,
                  !.memory = IF r.action = "Destroy" THEN "freed" ELSE @]
<1>1. Shaped(z)
  BY ZenonT(60) DEF Shaped, NewTask, schedule, Push
<1>2. \A f \in DOMAIN NewTask : w[f] = z[f]
  BY ZenonT(60) DEF OnlyIn, Shaped, NewTask, schedule, Push
<1> HIDE DEF z
<1>3. w = z
  BY <1>1, <1>2 DEF Shaped
<1> QED  BY <1>3 DEF DropWaker, z

(* Popping the task *)
LEMMA RunFields ==
  ASSUME NEW v, NEW w, Shaped(v), Shaped(w), v.fault = "none", v.executor = "up",
         v.phase = "idle", v.runnables > 0,
         OnlyIn(v, w, {"state", "runnables", "phase", "drops", "woken", "fault"}),
         LET r == transition_to_running(v.state) IN
           /\ w.state = r.state /\ w.runnables = v.runnables - 1 /\ w.woken = FALSE
           /\ w.phase = CASE r.action = "Running" -> "polling"
                           [] r.action = "Closed"  -> "dropping"
                           [] r.action \in Panics  -> "idle"
           /\ w.drops = (IF r.action = "Closed" THEN v.drops + 1 ELSE v.drops)
           /\ w.fault = PanicOr(r.action, v.fault)
  PROVE  Run(v, w)
<1> DEFINE r == transition_to_running(v.state)
           z == [v EXCEPT
                  !.state     = r.state,
                  !.runnables = @ - 1,
                  !.phase     = CASE r.action = "Running" -> "polling"
                                  [] r.action = "Closed"  -> "dropping"
                                  [] r.action \in Panics  -> "idle",
                  !.drops     = IF r.action = "Closed" THEN @ + 1 ELSE @,
                  !.woken     = FALSE,
                  !.fault     = PanicOr(r.action, @)]
<1>1. Shaped(z)
  BY ZenonT(60) DEF Shaped, NewTask
<1>2. \A f \in DOMAIN NewTask : w[f] = z[f]
  BY DEF OnlyIn, Shaped, NewTask
<1> HIDE DEF z
<1>3. w = z
  BY <1>1, <1>2 DEF Shaped
<1> QED  BY <1>3 DEF Run, z

(* Ready *)
LEMMA PollReadyFields ==
  ASSUME NEW v, NEW w, Shaped(v), Shaped(w), v.fault = "none", v.executor = "up",
         v.phase = "polling",
         OnlyIn(v, w, {"phase", "drops"}),
         w.phase = "completing", w.drops = v.drops + 1
  PROVE  PollReady(v, w)
<1> DEFINE z == [v EXCEPT !.phase = "completing", !.drops = @ + 1]
<1>1. Shaped(z)
  BY DEF Shaped, NewTask
<1>2. \A f \in DOMAIN NewTask : w[f] = z[f]
  BY DEF OnlyIn, Shaped, NewTask
<1> HIDE DEF z
<1>3. w = z
  BY <1>1, <1>2 DEF Shaped
<1> QED  BY <1>3 DEF PollReady, z

(* Storing the output *)
LEMMA FinishReadyFields ==
  ASSUME NEW v, NEW w, Shaped(v), Shaped(w), v.fault = "none", v.executor = "up",
         v.phase = "completing",
         OnlyIn(v, w, {"state", "memory", "phase", "output", "awaiter"}),
         LET r == transition_to_completed(v.state)
             d == decr_ref(r.state)
         IN  /\ w.state = d /\ w.memory = (IF d.refs = 0 THEN "freed" ELSE v.memory)
             /\ w.output = IF r.action = "Closed" THEN "moved" ELSE "stored"
             /\ w.phase = "idle" /\ w.awaiter = FALSE
  PROVE  FinishReady(v, w)
<1> DEFINE r == transition_to_completed(v.state)
           z == [drop_task_ref(v, r.state) EXCEPT
                  !.phase   = "idle",
                  !.output  = IF r.action = "Closed" THEN "moved" ELSE "stored",
                  !.awaiter = FALSE]
<1>1. Shaped(z)
  BY DEF Shaped, NewTask, drop_task_ref
<1>2. \A f \in DOMAIN NewTask : w[f] = z[f]
  BY ZenonT(60) DEF OnlyIn, Shaped, NewTask, drop_task_ref
<1> HIDE DEF z
<1>3. w = z
  BY <1>1, <1>2 DEF Shaped
<1> QED  BY <1>3 DEF FinishReady, z

(* Pending, when the task was closed meanwhile *)
LEMMA ClosedFields ==
  ASSUME NEW v, NEW w, Shaped(v), Shaped(w), v.fault = "none", v.executor = "up",
         v.phase = "polling",
         OnlyIn(v, w, {"state", "phase", "drops"}),
         LET r == transition_to_idle(v.state) IN
           /\ r.action = "Closed" /\ w.state = r.state
           /\ w.phase = "dropping" /\ w.drops = v.drops + 1
  PROVE  PollPending(v, w)
<1> DEFINE z == [v EXCEPT !.phase = "dropping", !.drops = @ + 1,
                          !.state = transition_to_idle(v.state).state]
<1>1. Shaped(z)
  BY DEF Shaped, NewTask
<1>2. \A f \in DOMAIN NewTask : w[f] = z[f]
  BY DEF OnlyIn, Shaped, NewTask
<1> HIDE DEF z
<1>3. w = z
  BY <1>1, <1>2 DEF Shaped
<1> QED  BY <1>3 DEF PollPending, z

(* Pending *)
LEMMA PollPendingFields ==
  ASSUME NEW v, NEW w, Shaped(v), Shaped(w), v.fault = "none", v.executor = "up",
         v.phase = "polling",
         OnlyIn(v, w, {"state", "memory", "phase", "runnables"}),
         LET r == transition_to_idle(v.state)
             again == r.action = "Schedule"
             d == decr_ref(IF again THEN incr_ref(r.state) ELSE r.state)
         IN  /\ r.action \in {"Schedule", "DoNothing"}
             /\ w.state = d /\ w.memory = (IF d.refs = 0 THEN "freed" ELSE v.memory)
             /\ w.runnables = (IF again THEN v.runnables + 1 ELSE v.runnables)
             /\ w.phase = "idle"
  PROVE  PollPending(v, w)
<1> DEFINE r == transition_to_idle(v.state)
           z == [drop_task_ref(v, IF r.action = "Schedule" THEN incr_ref(r.state) ELSE r.state)
                  EXCEPT
                  !.phase     = "idle",
                  !.runnables = IF r.action = "Schedule" THEN @ + 1 ELSE @,
                  !.fault     = PanicOr(r.action, @)]
<1>1. Shaped(z)
  BY ZenonT(60) DEF Shaped, NewTask, drop_task_ref, PanicOr, Panics
<1>2. \A f \in DOMAIN NewTask : w[f] = z[f]
  BY ZenonT(60) DEF OnlyIn, Shaped, NewTask, drop_task_ref, PanicOr, Panics
<1> HIDE DEF z
<1>3. w = z
  BY <1>1, <1>2 DEF Shaped
<1> QED  BY <1>3 DEF PollPending, z

(* Returning from the drop of a closed task *)
LEMMA FinishDropFields ==
  ASSUME NEW v, NEW w, Shaped(v), Shaped(w), v.fault = "none", v.executor = "up",
         v.phase = "dropping",
         OnlyIn(v, w, {"state", "memory", "phase", "awaiter"}),
         LET d == decr_ref(v.state) IN
           /\ w.state = d /\ w.memory = (IF d.refs = 0 THEN "freed" ELSE v.memory)
           /\ w.phase = "idle" /\ w.awaiter = FALSE
  PROVE  FinishDrop(v, w)
<1> DEFINE z == [drop_task_ref(v, v.state) EXCEPT !.phase = "idle", !.awaiter = FALSE]
<1>1. Shaped(z)
  BY DEF Shaped, NewTask, drop_task_ref
<1>2. \A f \in DOMAIN NewTask : w[f] = z[f]
  BY DEF OnlyIn, Shaped, NewTask, drop_task_ref
<1> HIDE DEF z
<1>3. w = z
  BY <1>1, <1>2 DEF Shaped
<1> QED  BY <1>3 DEF FinishDrop, z

(* Waking and dropping the waker.  While it is alive, the drop is not of the last one. *)
LEMMA WakeByValFields ==
  ASSUME NEW v \in TaskRecord, NEW w, IInv(v), Shaped(v), Shaped(w),
         v.fault = "none", v.executor = "up", v.wakers > 0,
         OnlyIn(v, w, {"state", "runnables", "wakers", "memory", "woken"}),
         w.wakers = v.wakers - 1, w.woken = TRUE,
         LET submit == transition_to_scheduled(v.state).action = "Submit"
             t == transition_to_scheduled(v.state).state
             r == drop_waker(IF submit THEN incr_ref(t) ELSE t)
         IN  /\ w.state = (IF r.action = "Schedule" THEN incr_ref(r.state) ELSE r.state)
             /\ w.runnables = v.runnables + (IF submit THEN 1 ELSE 0)
                                         + (IF r.action = "Schedule" THEN 1 ELSE 0)
             /\ w.memory = IF r.action = "Destroy" THEN "freed" ELSE v.memory
  PROVE  WakeByVal(v, w)
<1> DEFINE submit == do_wake(v).action = "Submit"
           s == IF submit THEN incr_ref(do_wake(v).state) ELSE do_wake(v).state
           r == drop_waker(s)
           z == [Push(v, submit \/ r.action = "Schedule") EXCEPT
                  !.woken  = TRUE,
                  !.wakers = @ - 1,
                  !.state  = IF r.action = "Schedule" THEN incr_ref(r.state) ELSE r.state,
                  !.memory = IF r.action = "Destroy" THEN "freed" ELSE @]
<1>c. Counts(v)
  BY Counted
<1>1. v.state \in Word /\ v.wakers \in Nat /\ v.runnables \in Nat /\ v.state.refs >= 1
  BY <1>c DEF Counts, Holders
<1>2. submit => r.action # "Schedule"
  <2>1. do_wake(v).state \in Word /\ do_wake(v).state.refs = v.state.refs
    BY <1>1, ScheduledTransition DEF do_wake
  <2>2. submit => s \in Word /\ s.refs # 1
    BY <1>1, <2>1, RefTransitions DEF Word
  <2> HIDE DEF s
  <2> QED  BY <2>2, DropWakerTransition
<1>3. Shaped(z)
  BY ZenonT(60) DEF Shaped, NewTask, Push
<1>4. \A f \in DOMAIN NewTask : w[f] = z[f]
  <2>1. z.runnables = w.runnables
    BY <1>1, <1>2 DEF Shaped, NewTask, Push, do_wake
  <2>2. z.state = w.state /\ z.wakers = w.wakers /\ z.memory = w.memory /\ z.woken = w.woken
    BY DEF Shaped, NewTask, Push, do_wake
  <2>3. OnlyIn(v, z, {"state", "runnables", "wakers", "memory", "woken"})
    BY DEF OnlyIn, Shaped, NewTask, Push
  <2> HIDE DEF z
  <2> QED  BY <2>1, <2>2, <2>3 DEF OnlyIn, NewTask
<1> HIDE DEF z
<1>5. w = z
  BY <1>3, <1>4 DEF Shaped
<1> QED  BY <1>5 DEF WakeByVal, z

=============================================================================
