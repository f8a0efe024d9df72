---------------------------- MODULE JoinContract ----------------------------
(***************************************************************************)
(* What a task promises whoever awaits it (the docs of Task and JoinHandle *)
(* in src/src/task/task_impl.rs), without queue, wakers or counts: the     *)
(* future is polled one poll at a time and never after it was dropped, it  *)
(* is dropped before there is an output, the output is written once and    *)
(* read at most once, and the await ends once, with Some only when it gets *)
(* that output and with None only when there is no output left to get.     *)
(***************************************************************************)
VARIABLES
  future,   \* "waiting", "polled" or "dropped"
  value,    \* the output slot: "none", "stored" or "moved" out
  answer    \* what the await returned: "pending", "some" or "none"

contract == <<future, value, answer>>

Init ==
  /\ future = "waiting"
  /\ value  = "none"
  /\ answer = "pending"

Poll ==
  /\ future = "waiting"
  /\ future' = "polled"
  /\ UNCHANGED <<value, answer>>

Suspend ==
  /\ future = "polled"
  /\ future' = "waiting"
  /\ UNCHANGED <<value, answer>>

Discard ==
  /\ future' = "dropped"
  /\ UNCHANGED <<value, answer>>

(* The output is stored, or dropped at once when nobody will ask for it. *)
Complete ==
  /\ future = "dropped" /\ value = "none"
  /\ value' \in {"stored", "moved"}
  /\ UNCHANGED <<future, answer>>

TakeOutput ==
  /\ value = "stored" /\ answer = "pending"
  /\ value' = "moved"
  /\ answer' = "some"
  /\ UNCHANGED future

AnswerNone ==
  /\ value # "stored" /\ answer = "pending"
  /\ answer' = "none"
  /\ UNCHANGED <<future, value>>

(* The handle is dropped before it asked for the output. *)
DropOutput ==
  /\ value = "stored"
  /\ value' = "moved"
  /\ UNCHANGED <<future, answer>>

Next ==
  \/ Poll \/ Suspend \/ Discard
  \/ Complete \/ TakeOutput \/ AnswerNone \/ DropOutput

Spec == Init /\ [][Next]_contract
=============================================================================
