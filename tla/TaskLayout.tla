----------------------------- MODULE TaskLayout -----------------------------
(***************************************************************************)
(* The layout of the allocation of a task (src/src/task/utils.rs and raw): *)
(* the header, the scheduler, and a union of the future and its output.    *)
(* An Option is the set of the values it holds.                            *)
(***************************************************************************)
EXTENDS Usize

VARIABLE task  \* the layouts of the parts of a task, and what it is allocated with

Layout(size, align) == [size |-> size, align |-> align]

(* What Layout::new gives: sizes of types are multiples of their alignment. *)
TypeLayouts == {l \in [size : 0..IsizeMax, align : Powers] : l.size % l.align = 0}

(* x & !(align - 1) is x without what exceeds a multiple of align. *)
padding_needed_for(len, align) ==
  LET up == wrapping_sub(wrapping_add(len, align), 1)
  IN  wrapping_sub(up - (up % align), len)

(* Mutant: what only overflows when it is rounded up is let through. *)
extend_unrounded(layout, other) ==
  LET offset   == layout.size + padding_needed_for(layout.size, other.align)
      new_size == offset + other.size
  IN  IF ~Fits(offset) \/ ~Fits(new_size)
        THEN {}
        ELSE {[size |-> new_size, align |-> Greater(layout.align, other.align),
               offset |-> offset]}

(* Layout::extend; all alignments are powers of two. *)
extend(layout, other) ==
  LET new_align == Greater(layout.align, other.align)
      offset    == layout.size + padding_needed_for(layout.size, other.align)
      new_size  == offset + other.size
  IN  IF ~Fits(offset) \/ ~Fits(new_size) \/ new_size > MAX - (new_align - 1)
        THEN {}
        ELSE {[size |-> new_size, align |-> new_align, offset |-> offset]}

(* Layout of union {F, R} *)
UnionOf(future, output) ==
  Layout(Greater(future.size, output.size), Greater(future.align, output.align))

eval_task_layout(header, scheduler, future, output) ==
  UNION {{[size |-> u.size, align |-> u.align,
           offset_scheduler |-> s.offset, offset_union |-> u.offset] :
             u \in extend(s, UnionOf(future, output))} :
               s \in extend(header, scheduler)}

NoTask == [parts |-> <<>>, layout |-> {}]

Unallocated == task = NoTask

(* RawTask::allocate: the process is aborted if there is no layout. *)
Allocate(header, scheduler, future, output) ==
  /\ task = NoTask
  /\ task' = [parts  |-> <<header, scheduler, future, output>>,
              layout |-> eval_task_layout(header, scheduler, future, output)]

AllocateAny == \E h, s, f, r \in TypeLayouts : Allocate(h, s, f, r)

LayoutSpec == Unallocated /\ [][AllocateAny]_task

-----------------------------------------------------------------------------
(* The reference: without a word that wraps *)

(* The first multiple of a from n on *)
AlignUp(n, a) == CHOOSE m \in n..(n + a - 1) : m % a = 0

ExactLayout(h, s, u) ==
  LET at_s == AlignUp(h.size, s.align)
      at_u == AlignUp(at_s + s.size, u.align)
  IN  [size |-> at_u + u.size, align |-> Greater(Greater(h.align, s.align), u.align),
       offset_scheduler |-> at_s, offset_union |-> at_u]

(* A task is allocated only if its layout, rounded up to its alignment, fits *)
(* the word, and then its parts lie at the first aligned places, in order.   *)
LayoutFits ==
  task # NoTask =>
    LET h == task.parts[1]
        s == task.parts[2]
        e == ExactLayout(h, s, UnionOf(task.parts[3], task.parts[4]))
    IN  task.layout = IF e.size + e.align - 1 > MAX THEN {} ELSE {e}
=============================================================================
