----------------------------- MODULE UringDriver -----------------------------
(***************************************************************************)
(* The io_uring driver (src/src/driver/uring): the futures of operations   *)
(* (Op), the table of their lifecycles (Ops), the rings shared with the    *)
(* kernel, and the calls of the executor: submit, park and park_timeout.   *)
(*                                                                         *)
(* One thread takes every step but KernelComplete.  The kernel consumes    *)
(* the submission queue inside a system call and completes what it took    *)
(* whenever it likes, so a call that enters the kernel is several steps,   *)
(* and so is tick, which wakes tasks between two completions.              *)
(* Completions that do not fit the ring are kept by the kernel, so cq has  *)
(* no bound.                                                               *)
(***************************************************************************)
EXTENDS Integers, Sequences, FiniteSets

CONSTANTS
  NumOps,        \* bound: how many operations are ever submitted
  Wakers,        \* the wakers that operations are polled with
  NoWaker,       \* not a waker
  SqCapacity,    \* entries of the submission queue, 256 in the code
  MaxTimeouts,   \* bound: calls of park_timeout
  ReversedTest   \* TRUE: the test in tick as it is written, FALSE: as commented

ASSUME NumOpsType      == NumOps \in Nat
ASSUME WakersType      == NoWaker \notin Wakers
ASSUME SqCapacityType  == SqCapacity \in Nat \ {0}
ASSUME MaxTimeoutsType == MaxTimeouts \in Nat
ASSUME ReversedType    == ReversedTest \in BOOLEAN

-----------------------------------------------------------------------------
(* User data: SlotMap never gives a key twice, and the largest are reserved. *)
OpsKey                == 0..(NumOps - 1)
MIN_REVERSED_USERDATA == NumOps
TIMEOUT_USERDATA      == NumOps + 1

UserData == OpsKey \union {TIMEOUT_USERDATA}

(* Lifecycle::Ignored is never constructed.  Here "Vacant" is no slot. *)
Lifecycle ==
  [tag : {"Vacant", "Submitted", "Completed"}, waker : {NoWaker}]
    \union [tag : {"Waiting"}, waker : Wakers]

Vacant     == [tag |-> "Vacant",    waker |-> NoWaker]
Submitted  == [tag |-> "Submitted", waker |-> NoWaker]
Completed  == [tag |-> "Completed", waker |-> NoWaker]
Waiting(w) == [tag |-> "Waiting",   waker |-> w]

Panics == {"invalid_key",          \* slot[key], or "invalid internal state"
           "invalid_operation",    \* "invalid operation state"
           "queue_full",           \* unimplemented!("when is this hit?")
           "ops_left"}             \* assert!(self.slot.is_empty())

VARIABLES
  slot,      \* slot[k]: the lifecycle of operation k
  op,        \* op[k]: its future: "new", "held", "resolved" or "dropped"
  polled,    \* polled[k]: the waker of the last poll of the future
  notified,  \* notified[k]: the waker that was woken since, or NoWaker
  sq,        \* the submission queue
  kernel,    \* kernel[u]: how many submissions of u the kernel works on
  cq,        \* the completion queue
  visible,   \* how many completions the sync of tick saw and it has not reaped
  timeouts,  \* calls of park_timeout so far
  pc,        \* where the thread is in the driver
  caller,    \* what UringInner::submit returns to
  skipped,   \* history: the user data that tick passed over
  fault      \* the panic that ended the program, or "none"

vars == <<slot, op, polled, notified, sq, kernel, cq, visible, timeouts, pc, caller,
          skipped, fault>>

opVars   == <<slot, op, polled, notified>>
ringVars == <<sq, kernel, cq, visible, timeouts>>

Init ==
  /\ slot     = [k \in OpsKey |-> Vacant]
  /\ op       = [k \in OpsKey |-> "new"]
  /\ polled   = [k \in OpsKey |-> NoWaker]
  /\ notified = [k \in OpsKey |-> NoWaker]
  /\ sq = <<>> /\ cq = <<>>
  /\ kernel   = [u \in UserData |-> 0]
  /\ visible = 0 /\ timeouts = 0
  /\ pc = "idle" /\ caller = "none"
  /\ skipped = {} /\ fault = "none"

-----------------------------------------------------------------------------
(* Mutant: the queue takes one entry more than it has. *)
sq_full_late == Len(sq) > SqCapacity

sq_full == Len(sq) = SqCapacity

Idle == pc = "idle" /\ fault = "none"

Goto(p, c) == pc' = p /\ caller' = c

(* How often u lies in a queue *)
Occurs(q, u) == Cardinality({i \in DOMAIN q : q[i] = u})

-----------------------------------------------------------------------------
(* UringInner::tick, inside a call of submit or at the end of one of caller *)

TickSync ==
  /\ pc = "tick" /\ fault = "none"
  /\ visible' = Len(cq)
  /\ Goto("reap", caller)
  /\ UNCHANGED <<opVars, sq, kernel, cq, timeouts, skipped, fault>>

(* Mutant: a completion does not wake who waits for it. *)
complete_silently(k) ==
  /\ slot' = [slot EXCEPT ![k] = Completed]
  /\ UNCHANGED <<notified, fault>>

(* Ops::complete and Lifecycle::complete *)
complete(k) ==
  \/ /\ slot[k].tag = "Submitted"
     /\ slot' = [slot EXCEPT ![k] = Completed]
     /\ UNCHANGED <<notified, fault>>
  \/ /\ slot[k].tag = "Waiting"
     /\ slot' = [slot EXCEPT ![k] = Completed]
     /\ notified' = [notified EXCEPT ![k] = slot[k].waker]
     /\ UNCHANGED fault
  \/ /\ slot[k].tag \in {"Vacant", "Completed"}
     /\ fault' = IF slot[k].tag = "Vacant" THEN "invalid_key" ELSE "invalid_operation"
     /\ UNCHANGED <<slot, notified>>

passed_over(u) == IF ReversedTest THEN u <= MIN_REVERSED_USERDATA
                                  ELSE u >= MIN_REVERSED_USERDATA

(* The body of the loop: one completion *)
Reap ==
  LET u == Head(cq) IN
  /\ pc = "reap" /\ fault = "none" /\ visible > 0
  /\ visible' = visible - 1
  /\ cq' = Tail(cq)
  /\ \/ /\ passed_over(u)
        /\ skipped' = skipped \union {u}
        /\ UNCHANGED <<slot, notified, fault>>
     \/ /\ ~passed_over(u) /\ u \in OpsKey
        /\ complete(u)
        /\ UNCHANGED skipped
     \/ /\ ~passed_over(u) /\ u \notin OpsKey
        /\ fault' = "invalid_key"
        /\ UNCHANGED <<slot, notified, skipped>>
  /\ UNCHANGED <<op, polled, sq, kernel, timeouts, pc, caller>>

(* Back in the loop of UringInner::submit, or the call of the driver ends. *)
TickEnds ==
  /\ pc = "reap" /\ fault = "none" /\ visible = 0
  /\ IF caller \in {"op", "timeout", "driver"} THEN Goto("submit", caller)
                                              ELSE Goto("idle", "none")
  /\ UNCHANGED <<opVars, ringVars, skipped, fault>>

-----------------------------------------------------------------------------
(* UringInner::submit *)

(* What the rest of the call of c does once submit returned Ok or was skipped. *)
Resume(c) ==
  CASE c = "op"      -> Goto("push_op", "none")
    [] c = "timeout" -> Goto("push_timeout", "none")
    [] c = "driver"  -> Goto("tick", "none")

(* The kernel takes the first n entries. *)
Taken(n) ==
  /\ sq' = SubSeq(sq, n + 1, Len(sq))
  /\ kernel' = [u \in UserData |-> kernel[u] + Occurs(SubSeq(sq, 1, n), u)]

(* The kernel takes some entries, and at least one if there is one. *)
Partly == {n \in 0..Len(sq) : sq # <<>> => n > 0}

SubmitOk ==
  /\ pc = "submit" /\ fault = "none"
  /\ \E n \in Partly : Taken(n)
  /\ Resume(caller)
  /\ UNCHANGED <<opVars, cq, visible, timeouts, skipped, fault>>

(* Completions have to be reaped before the kernel takes more: tick, retry. *)
SubmitBusy ==
  /\ pc = "submit" /\ fault = "none" /\ cq # <<>>
  /\ Goto("tick", caller)
  /\ UNCHANGED <<opVars, ringVars, skipped, fault>>

(* Any other error ends the call, before anything of it was pushed. *)
SubmitErr ==
  /\ pc = "submit" /\ fault = "none"
  /\ Goto("idle", "none")
  /\ UNCHANGED <<opVars, ringVars, skipped, fault>>

-----------------------------------------------------------------------------
(* Operations *)

(* The next operation.  There is one when submit_with was called. *)
NewOp == CHOOSE k \in OpsKey : op[k] = "new" /\ \A i \in OpsKey : i < k => op[i] # "new"

(* Mutant: the slot is taken before a flush that may fail. *)
SubmitWithEarly ==
  /\ Idle
  /\ \E k \in OpsKey : op[k] = "new"
  /\ IF sq_full THEN Goto("submit", "op") ELSE Resume("op")
  /\ slot' = [slot EXCEPT ![NewOp] = Submitted]
  /\ UNCHANGED <<op, polled, notified, ringVars, skipped, fault>>

(* Mutant: the queue is flushed one entry too late. *)
SubmitWithLate ==
  /\ Idle
  /\ \E k \in OpsKey : op[k] = "new"
  /\ IF Len(sq) > SqCapacity THEN Goto("submit", "op") ELSE Resume("op")
  /\ UNCHANGED <<opVars, ringVars, skipped, fault>>

(* Op::submit_with, up to the flush of a full submission queue *)
SubmitWith ==
  /\ Idle
  /\ \E k \in OpsKey : op[k] = "new"
  /\ IF sq_full THEN Goto("submit", "op") ELSE Resume("op")
  /\ UNCHANGED <<opVars, ringVars, skipped, fault>>

PushOp ==
  /\ pc = "push_op" /\ fault = "none"
  /\ slot' = [slot EXCEPT ![NewOp] = Submitted]
  /\ op' = [op EXCEPT ![NewOp] = "held"]
  /\ IF sq_full THEN fault' = "queue_full" /\ UNCHANGED sq
                ELSE sq' = Append(sq, NewOp) /\ UNCHANGED fault
  /\ Goto("idle", "none")
  /\ UNCHANGED <<polled, notified, kernel, cq, visible, timeouts, skipped>>

(* Mutant: the waker of the first poll is kept. *)
PollKeepsWaker(k, w) ==
  /\ Idle /\ op[k] = "held"
  /\ polled' = [polled EXCEPT ![k] = w]
  /\ notified' = [notified EXCEPT ![k] = NoWaker]
  /\ slot' = [slot EXCEPT ![k] = CASE @ = Submitted -> Waiting(w)
                                   [] @ = Completed -> Vacant
                                   [] OTHER -> @]
  /\ op' = IF slot[k] = Completed THEN [op EXCEPT ![k] = "resolved"] ELSE op
  /\ UNCHANGED <<ringVars, pc, caller, skipped, fault>>

(* Op::poll with a context of waker w *)
Poll(k, w) ==
  /\ Idle /\ op[k] = "held"
  /\ polled' = [polled EXCEPT ![k] = w]
  /\ notified' = [notified EXCEPT ![k] = NoWaker]
  /\ \/ /\ slot[k].tag \in {"Submitted", "Waiting"}
        /\ slot' = [slot EXCEPT ![k] = Waiting(w)]
        /\ UNCHANGED <<op, fault>>
     \/ /\ slot[k] = Completed
        /\ slot' = [slot EXCEPT ![k] = Vacant]
        /\ op' = [op EXCEPT ![k] = "resolved"]
        /\ UNCHANGED fault
     \/ /\ slot[k] = Vacant
        /\ fault' = "invalid_key"
        /\ UNCHANGED <<slot, op>>
  /\ UNCHANGED <<ringVars, pc, caller, skipped>>

(* An Op has no Drop: its data is freed and its slot stays as it is. *)
DropOp(k) ==
  /\ Idle /\ op[k] = "held"
  /\ op' = [op EXCEPT ![k] = "dropped"]
  /\ UNCHANGED <<slot, polled, notified, ringVars, pc, caller, skipped, fault>>

-----------------------------------------------------------------------------
(* IoUringDriver *)

(* IoUringDriver::submit: enter the kernel, then tick. *)
DriverSubmit ==
  /\ Idle
  /\ Goto("submit", "driver")
  /\ UNCHANGED <<opVars, ringVars, skipped, fault>>

(* park() is inner_park(None): it only ticks. *)
Park ==
  /\ Idle
  /\ Goto("tick", "park")
  /\ UNCHANGED <<opVars, ringVars, skipped, fault>>

(* Mutant: no space is flushed for the timeout. *)
ParkTimeoutUnflushed ==
  /\ Idle /\ timeouts < MaxTimeouts
  /\ timeouts' = timeouts + 1
  /\ Resume("timeout")
  /\ UNCHANGED <<opVars, sq, kernel, cq, visible, skipped, fault>>

(* park_timeout: flush_space, install_timeout, submit_and_wait, tick *)
ParkTimeout ==
  /\ Idle /\ timeouts < MaxTimeouts
  /\ timeouts' = timeouts + 1
  /\ IF Len(sq) + 1 > SqCapacity THEN Goto("submit", "timeout") ELSE Resume("timeout")
  /\ UNCHANGED <<opVars, sq, kernel, cq, visible, skipped, fault>>

(* The result of the push is ignored: a timeout for which there is no space  *)
(* is not installed.                                                         *)
InstallTimeout ==
  /\ pc = "push_timeout" /\ fault = "none"
  /\ sq' = IF sq_full THEN sq ELSE Append(sq, TIMEOUT_USERDATA)
  /\ Goto("enter", "timeout")
  /\ UNCHANGED <<opVars, kernel, cq, visible, timeouts, skipped, fault>>

(* submit_and_wait(1): the kernel blocks the thread once it took everything, *)
(* and returns at once when it took less.                                    *)
EnterKernel ==
  /\ pc = "enter" /\ fault = "none"
  /\ \E n \in Partly : /\ Taken(n)
                      /\ IF n = Len(sq) THEN Goto("wait", "timeout") ELSE Goto("tick", "none")
  /\ UNCHANGED <<opVars, cq, visible, timeouts, skipped, fault>>

WaitEnds ==
  /\ pc = "wait" /\ fault = "none" /\ cq # <<>>
  /\ Goto("tick", "none")
  /\ UNCHANGED <<opVars, ringVars, skipped, fault>>

(* An error of submit_and_wait, a signal for one, returns without a tick. *)
WaitErr ==
  /\ pc \in {"enter", "wait"} /\ fault = "none"
  /\ Goto("idle", "none")
  /\ UNCHANGED <<opVars, ringVars, skipped, fault>>

(* The driver and the operations share the rings; the last to go drops them. *)
DriverDrop ==
  /\ Idle
  /\ \A k \in OpsKey : op[k] # "held"
  /\ pc' = "dropped"
  /\ fault' = IF \E k \in OpsKey : slot[k] # Vacant THEN "ops_left" ELSE fault
  /\ UNCHANGED <<opVars, ringVars, caller, skipped>>

-----------------------------------------------------------------------------
(* The kernel: it completes what it took, in any order. *)
KernelComplete(u) ==
  /\ kernel[u] > 0
  /\ kernel' = [kernel EXCEPT ![u] = @ - 1]
  /\ cq' = Append(cq, u)
  /\ UNCHANGED <<opVars, sq, visible, timeouts, pc, caller, skipped, fault>>

Next ==
  \/ SubmitWith \/ PushOp
  \/ SubmitOk \/ SubmitBusy \/ SubmitErr
  \/ TickSync \/ Reap \/ TickEnds
  \/ DriverSubmit \/ Park
  \/ ParkTimeout \/ InstallTimeout \/ EnterKernel \/ WaitEnds \/ WaitErr
  \/ DriverDrop
  \/ \E k \in OpsKey : DropOp(k) \/ \E w \in Wakers : Poll(k, w)
  \/ \E u \in UserData : KernelComplete(u)

Spec == Init /\ [][Next]_vars

(***************************************************************************)
(* Fairness.  The thread goes on, and the kernel completes what it took    *)
(* and does not refuse a submission for ever.  Until run returns, every    *)
(* round of LocalExecutor ends in a call of the driver, but which one is   *)
(* not known here: submit if tasks are queued, and else park, which does   *)
(* not submit, possibly for ever.  The tasks that were woken poll again    *)
(* (WokenIsPolled of Task).                                                *)
(***************************************************************************)
Fairness ==
  /\ WF_vars(PushOp) /\ WF_vars(TickSync) /\ WF_vars(Reap) /\ WF_vars(TickEnds)
  /\ WF_vars(InstallTimeout) /\ WF_vars(EnterKernel) /\ WF_vars(WaitEnds)
  /\ SF_vars(SubmitOk) /\ SF_vars(DriverSubmit \/ Park)
  /\ \A u \in UserData : WF_vars(KernelComplete(u))
  /\ \A k \in OpsKey, w \in Wakers : SF_vars(notified[k] = w /\ Poll(k, w))

FairSpec == Spec /\ Fairness

-----------------------------------------------------------------------------
TypeOK ==
  /\ slot \in [OpsKey -> Lifecycle]
  /\ op \in [OpsKey -> {"new", "held", "resolved", "dropped"}]
  /\ polled \in [OpsKey -> Wakers \union {NoWaker}]
  /\ notified \in [OpsKey -> Wakers \union {NoWaker}]
  /\ sq \in Seq(UserData) /\ Len(sq) <= SqCapacity
  /\ kernel \in [UserData -> Nat]
  /\ cq \in Seq(UserData)
  /\ visible \in 0..Len(cq)
  /\ timeouts \in 0..MaxTimeouts
  /\ pc \in {"idle", "submit", "push_op", "push_timeout", "enter", "wait", "tick", "reap",
             "dropped"}
  /\ caller \in {"none", "op", "driver", "timeout", "park"}
  /\ skipped \subseteq UserData
  /\ fault \in Panics \union {"none"}

(* No call of the driver panics: a full queue was flushed, every completion  *)
(* finds the slot it belongs to, and slots are left when the rings go only   *)
(* by operations that were dropped.                                          *)
NoPanic ==
  fault = "none" \/ (fault = "ops_left" /\ \E k \in OpsKey : op[k] = "dropped")

(* Who polled an operation last is woken by its completion, whichever task   *)
(* that was: Op::poll exchanges the waker it stored.                         *)
CompletionWakes ==
  \A k \in OpsKey :
    slot[k] = Completed /\ op[k] = "held" => notified[k] = polled[k]

(* An operation is on exactly one way: in a queue or the kernel while its    *)
(* slot waits for it, and afterwards its result is in the slot or taken.     *)
(* A completion that tick passed over is the one its slot still waits for.   *)
OneCompletion ==
  \A k \in OpsKey :
    Occurs(sq, k) + kernel[k] + Occurs(cq, k) + (IF k \in skipped THEN 1 ELSE 0) =
      IF slot[k].tag \in {"Submitted", "Waiting"} THEN 1 ELSE 0

(* Whenever park_timeout blocks the thread, its timeout is with the kernel   *)
(* or has completed: a full queue never made it block without a limit.       *)
WaitIsTimed == pc = "wait" => kernel[TIMEOUT_USERDATA] + Occurs(cq, TIMEOUT_USERDATA) > 0

(* An operation that was polled and that the kernel took from the queue      *)
(* resolves: it is completed, reaped and its last poller polls it again, or  *)
(* it is dropped.  One that lies in the queue may do so for ever: who only   *)
(* parks does not submit it.                                                 *)
Resolves ==
  \A k \in OpsKey :
    polled[k] # NoWaker /\ Occurs(sq, k) = 0 ~> op[k] \in {"resolved", "dropped"}

(* tick passes over completions of timeouts and cancellations alone. *)
PassesOverReserved == skipped \subseteq {TIMEOUT_USERDATA}

(* A park with operations pending returns when one completed. *)
ParkWaits ==
  [][pc = "tick" /\ caller = "park" =>
       cq # <<>> \/ (sq = <<>> /\ \A u \in UserData : kernel[u] = 0)]_vars
=============================================================================
