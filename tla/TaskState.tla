------------------------------ MODULE TaskState ------------------------------
(***************************************************************************)
(* The state word of a task (src/src/task/state.rs): five flag bits and a  *)
(* reference count, and the transitions the rest of the crate makes on it. *)
(*                                                                         *)
(* The flag bits are a set, so the word's masking is set algebra: `|=` is  *)
(* union, `&= !bit` is difference and `&` is intersection.  A transition   *)
(* is an operator from the old word to a record of the new word and the    *)
(* action it tells its caller to take.  The caller stores the word only    *)
(* when the transition returns, so one that panics leaves it alone.        *)
(***************************************************************************)
EXTENDS Integers

CONSTANT DebugAssertions    \* TRUE in a build that compiles debug_assert! in

ASSUME DebugAssertionsType == DebugAssertions \in BOOLEAN

-----------------------------------------------------------------------------
RUNNING    == "RUNNING"     \* the future is being polled
COMPLETED  == "COMPLETED"   \* the future returned its output
CLOSED     == "CLOSED"      \* cancelled, panicked, or the output is gone
SCHEDULED  == "SCHEDULED"   \* woken: queued, or to be queued after the poll
NEED_START == "NEED_START"  \* the JoinHandle was never polled

STATE_MASK == {RUNNING, COMPLETED, CLOSED, SCHEDULED, NEED_START}

Snapshot == [bits : SUBSET STATE_MASK, refs : Nat]

INITIAL_STATE == [bits |-> {NEED_START}, refs |-> 1]

is_running(s)   == RUNNING \in s.bits
is_completed(s) == COMPLETED \in s.bits
is_closed(s)    == CLOSED \in s.bits
is_scheduled(s) == SCHEDULED \in s.bits
need_start(s)   == NEED_START \in s.bits

Set(s, flags)   == [s EXCEPT !.bits = @ \union flags]
Unset(s, flags) == [s EXCEPT !.bits = @ \ flags]
incr_ref(s)     == [s EXCEPT !.refs = @ + 1]
decr_ref(s)     == [s EXCEPT !.refs = @ - 1]

(***************************************************************************)
(* (self.0 & REF_COUNT_MAX) & state: an AND with a word that has neither   *)
(* reference bits nor any bit the task lacks, so it can only clear.        *)
(***************************************************************************)
set_state(s, flags) == [bits |-> s.bits \intersect flags, refs |-> 0]

-----------------------------------------------------------------------------
Then(s, what) == [state |-> s, action |-> what]

(***************************************************************************)
(* The panics a transition can end in.  All are debug assertions but the   *)
(* last, the unreachable! of drop_join_handle.                             *)
(***************************************************************************)
Panics == {"assert_started", "assert_running", "assert_waiting",
           "assert_finished", "assert_output_idle", "assert_last_idle",
           "assert_detached_active", "unreachable"}

Assert(holds, name, s, result) ==
  IF DebugAssertions /\ ~holds THEN Then(s, name) ELSE result

-----------------------------------------------------------------------------
(* Mutant: a closed task is polled like any other. *)
running_ignores_closed(s) ==
  Assert(~need_start(s), "assert_started", s,
    Then(Set(Unset(s, {SCHEDULED}), {RUNNING}), "Running"))

transition_to_running(s) ==
  LET t == Unset(s, {SCHEDULED})
  IN  Assert(~need_start(s), "assert_started", s,
        IF is_closed(s) THEN Then(t, "Closed")
                        ELSE Then(Set(t, {RUNNING}), "Running"))

(* Mutant: a wake that came during the poll is cleared with RUNNING. *)
idle_forgets_wake(s) ==
  Assert(is_running(s), "assert_running", s,
    Then(Unset(s, {RUNNING, SCHEDULED}), IF is_closed(s) THEN "Closed" ELSE "DoNothing"))

transition_to_idle(s) ==
  LET t == Unset(s, {RUNNING})
  IN  Assert(is_running(s), "assert_running", s,
        CASE is_closed(s)                       -> Then(Unset(t, {SCHEDULED}), "Closed")
          [] ~is_closed(s) /\ is_scheduled(s)   -> Then(t, "Schedule")
          [] ~is_closed(s) /\ ~is_scheduled(s)  -> Then(t, "DoNothing"))

(* Mutants: a task is queued again while it is queued, or after it was closed. *)
scheduled_twice(s) ==
  IF {COMPLETED, CLOSED} \intersect s.bits # {}
    THEN Then(s, "DoNothing")
    ELSE Then(Set(s, {SCHEDULED}), IF is_running(s) THEN "DoNothing" ELSE "Submit")

scheduled_when_closed(s) ==
  IF {COMPLETED, SCHEDULED} \intersect s.bits # {}
    THEN Then(s, "DoNothing")
    ELSE Then(Set(s, {SCHEDULED}), IF is_running(s) THEN "DoNothing" ELSE "Submit")

transition_to_scheduled(s) ==
  IF {COMPLETED, CLOSED, SCHEDULED} \intersect s.bits # {}
    THEN Then(s, "DoNothing")
    ELSE Then(Set(s, {SCHEDULED}),
              IF is_running(s) THEN "DoNothing" ELSE "Submit")

(* Mutant: the SCHEDULED bit of a wake during the last poll survives. *)
completed_stays_scheduled(s) ==
  LET t == Set(Unset(s, {RUNNING}), {COMPLETED})
  IN  IF s.refs = 0 \/ is_closed(s) THEN Then(Set(t, {CLOSED}), "Closed")
                                    ELSE Then(t, "DoNothing")

(* Mutant: the output is given up although a JoinHandle may still take it. *)
completed_unwanted(s) ==
  LET t == Set(Unset(s, {RUNNING, SCHEDULED}), {COMPLETED})
  IN  IF s.refs <= 2 \/ is_closed(s) THEN Then(Set(t, {CLOSED}), "Closed")
                                     ELSE Then(t, "DoNothing")

transition_to_completed(s) ==
  LET t == Set(Unset(s, {RUNNING, SCHEDULED}), {COMPLETED})
  IN  IF s.refs = 0 \/ is_closed(s) THEN Then(Set(t, {CLOSED}), "Closed")
                                    ELSE Then(t, "DoNothing")

(* Mutant: only an idle task is closed. *)
closes_only_idle(s) ==
  IF {NEED_START, COMPLETED, CLOSED, SCHEDULED, RUNNING} \intersect s.bits = {}
    THEN Then(incr_ref(Set(s, {SCHEDULED, CLOSED})), "CloseAndSchedule")
    ELSE Then(IF need_start(s) THEN Set(s, {CLOSED}) ELSE s, "DoNothing")

(***************************************************************************)
(* JoinHandle::cancel.  "Close" is Closed(false), "CloseAndSchedule" is    *)
(* Closed(true), which also takes a reference.                             *)
(***************************************************************************)
transition_to_closed(s) ==
  CASE need_start(s) -> Then(Set(s, {CLOSED}), "DoNothing")
    [] ~need_start(s) /\ (is_completed(s) \/ is_closed(s)) -> Then(s, "DoNothing")
    [] ~need_start(s) /\ ~is_completed(s) /\ ~is_closed(s) ->
         IF ~is_scheduled(s) /\ ~is_running(s)
           THEN Then(incr_ref(Set(s, {SCHEDULED, CLOSED})), "CloseAndSchedule")
           ELSE Then(Set(s, {CLOSED}), "Close")

(* Mutant: the last reference to a task whose output was taken frees nothing. *)
last_handle_keeps(s) ==
  LET t == decr_ref(s)
  IN  CASE s = INITIAL_STATE -> Then(s, "Destroy")
        [] s # INITIAL_STATE /\ is_closed(s) -> Then(t, "DoNothing")
        [] s # INITIAL_STATE /\ ~is_closed(s) -> Then(Set(t, {CLOSED}), "DropOutput")

(***************************************************************************)
(* JoinHandle::drop.  The match is on (last reference, completed, closed)  *)
(* after the handle's own reference is given back.                         *)
(***************************************************************************)
drop_join_handle(s) ==
  LET t    == decr_ref(s)
      last == t.refs = 0
      idle == ~is_scheduled(s) /\ ~is_running(s)
  IN  CASE s = INITIAL_STATE -> Then(s, "Destroy")
        [] s # INITIAL_STATE /\ is_completed(s) /\ ~is_closed(s) ->
             Assert(idle, "assert_output_idle", s,
               Then(Set(t, {CLOSED}), IF last THEN "DropOutputDestroy" ELSE "DropOutput"))
        [] s # INITIAL_STATE /\ last /\ ~is_completed(s) /\ ~is_closed(s) ->
             Assert(idle, "assert_last_idle", s,
               Then(incr_ref(set_state(t, {SCHEDULED, CLOSED})), "Schedule"))
        [] s # INITIAL_STATE /\ last /\ is_closed(s) ->
             Assert(idle, "assert_last_idle", s, Then(t, "Destroy"))
        [] s # INITIAL_STATE /\ ~last /\ ~is_completed(s) /\ ~is_closed(s) ->
             Assert(~idle, "assert_detached_active", s, Then(Set(t, {CLOSED}), "DoNothing"))
        [] s # INITIAL_STATE /\ ~last /\ is_closed(s) -> Then(s, "unreachable")

(* Mutants: the output is taken without closing the task; a closed task does *)
(* not wait for its future; a closed task that completed still has an output. *)
poll_leaves_open(s) ==
  IF is_closed(s) THEN Then(Unset(s, {NEED_START}), "CompleteNone")
  ELSE IF need_start(s) THEN Then(Unset(s, {NEED_START}), "Start")
  ELSE Then(s, IF is_completed(s) THEN "CompleteSome" ELSE "Register")

poll_does_not_wait(s) ==
  CASE is_closed(s)                      -> Then(Unset(s, {NEED_START}), "CompleteNone")
    [] ~is_closed(s) /\ need_start(s)    -> Then(Unset(s, {NEED_START}), "Start")
    [] ~is_closed(s) /\ ~need_start(s)   ->
         IF is_completed(s) THEN Then(Set(s, {CLOSED}), "CompleteSome")
                            ELSE Then(s, "Register")

poll_takes_closed_output(s) ==
  CASE is_completed(s)                     -> Then(Set(s, {CLOSED}), "CompleteSome")
    [] ~is_completed(s) /\ is_closed(s)    ->
         Then(Unset(s, {NEED_START}),
              IF is_scheduled(s) \/ is_running(s) THEN "Register" ELSE "CompleteNone")
    [] ~is_completed(s) /\ ~is_closed(s)   ->
         Then(Unset(s, {NEED_START}), IF need_start(s) THEN "Start" ELSE "Register")

(***************************************************************************)
(* JoinHandle::poll.  "CompleteNone" is Complete(true), "CompleteSome" is  *)
(* Complete(false).                                                        *)
(***************************************************************************)
poll_join_handle(s) ==
  CASE is_closed(s) /\ (is_scheduled(s) \/ is_running(s)) ->
         Assert(~is_completed(s) /\ ~need_start(s), "assert_waiting", s, Then(s, "Register"))
    [] is_closed(s) /\ ~is_scheduled(s) /\ ~is_running(s) ->
         Assert(is_completed(s) \/ need_start(s), "assert_finished", s,
           Then(Unset(s, {NEED_START}), "CompleteNone"))
    [] ~is_closed(s) /\ need_start(s) -> Then(Unset(s, {NEED_START}), "Start")
    [] ~is_closed(s) /\ ~need_start(s) /\ ~is_completed(s) -> Then(s, "Register")
    [] ~is_closed(s) /\ ~need_start(s) /\ is_completed(s) ->
         Then(Set(s, {CLOSED}), "CompleteSome")

(***************************************************************************)
(* set_closed is the panic guard of a poll, drop_task the drop of a queued *)
(* Task that never ran: it takes no reference away.                        *)
(***************************************************************************)
set_closed(s) == Set(Unset(s, {RUNNING, SCHEDULED}), {CLOSED})

drop_task(s) ==
  LET t == Unset(s, {SCHEDULED})
  IN  IF is_completed(s) /\ is_closed(s) THEN t ELSE Set(t, {CLOSED})

(* Mutants: the waker of a closed task frees it, or keeps its reference. *)
waker_frees_closed(s) ==
  LET t == decr_ref(s)
  IN  Then(t, IF t.refs = 0 \/ is_closed(s) THEN "Destroy" ELSE "DoNothing")

waker_keeps_ref(s) == Then(s, "DoNothing")

(***************************************************************************)
(* Waker::drop.  The scheduled bit is tested after set_state.              *)
(***************************************************************************)
drop_waker(s) ==
  LET t == decr_ref(s)
      u == set_state(t, {SCHEDULED, CLOSED})
  IN  CASE t.refs # 0 -> Then(t, "DoNothing")
        [] t.refs = 0 /\ (is_completed(s) \/ is_closed(s)) -> Then(t, "Destroy")
        [] t.refs = 0 /\ ~is_completed(s) /\ ~is_closed(s) ->
             Then(u, IF is_scheduled(u) THEN "DoNothing" ELSE "Schedule")
=============================================================================
