------------------------------ MODULE MCMemory ------------------------------
(***************************************************************************)
(* Instances of Buffers and of TaskLayout for TLC, with words of four bits.*)
(* They share no state: a behaviour is one of the buffers, or allocates.   *)
(***************************************************************************)
EXTENDS Buffers, TaskLayout

PowersOfWord == {1, 2, 4, 8}
SmallAndMax  == 0..MaxCapacity \union {MAX}

Untouched == vec = [len |-> 0, cap |-> 0] /\ views = <<>> /\ checks /\ lost = {} /\ ~panicked

MemoryNext ==
  /\ task = NoTask
  /\ \/ Next /\ UNCHANGED task
     \/ Untouched /\ AllocateAny /\ UNCHANGED vars

MemoryInit == Init /\ Unallocated

MemorySpec == MemoryInit /\ [][MemoryNext]_<<vars, task>>
=============================================================================
