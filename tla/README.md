# A TLA+ model of simpleio (structureio)

`simpleio` is a single-threaded async runtime for Linux: a task allocation with
a bit-packed state word, a local executor, an io_uring driver, and the
beginnings of a hierarchical timer wheel. This directory keeps TLA+ modules of
it, the TLC configurations that check them on small instances, and TLAPS
proofs about the task, the executor, the io_uring driver, the intrusive list, the timer level, the io
buffers and the layout of a task. `src/` below is the root of the repository's source, the crate
is `src/src/`.

At the modelled commit the crate does not build as it stands (modules refer to
items that are missing, `time` is not part of `lib.rs`). The models follow the
text of each function. Where the text contradicts its own comments, the model
follows the text and the disagreement is listed under *Findings*.

## 1. Inventory

| component | source | state | operations | interacts with |
|---|---|---|---|---|
| task state word | `task/state.rs` | five flag bits and a reference count in one word | the `transition_to_*` calls, `poll_join_handle`, `drop_join_handle`, `drop_waker`, `drop_task`, `set_closed` | called by the task runtime, which does what the returned action says |
| task runtime | `task/raw.rs`, `join.rs`, `header.rs`, `task_impl.rs` | header (state, awaiter, vtable), future or output in one union | spawn, `JoinHandle::poll/cancel/drop`, waker clone/wake/drop, `RawTask::run`, `Task::drop` | pushes on the executor's queue; wakes and is woken by other tasks; calls user code (`F::poll`, `F::drop`) |
| local executor | `executor/*`, `task/waker_fn.rs`, `task/yield_now.rs` | `TaskQueue`, thread-local `SHOULD_POLL`, `max_round` | `LocalExecutor::run`, `spawn`, `schedule`, `yield_now` | runs tasks, polls the root future, calls `submit`/`park` of the driver |
| io_uring driver | `driver/uring/*` | slot map of lifecycles, submission and completion queue | `Op::submit_with`, `Op::poll`, `submit`, `park`, `park_timeout`, `tick`, drop | the kernel, over the rings; wakes tasks |
| intrusive list | `utils/linked_list.rs` | head, tail, and the `prev`/`next` of each node | `push_front`, `pop_back`, `remove`, `is_empty`, `last`, `drain_filter` | the timer wheel |
| timer wheel level | `time/driver/wheel/level.rs` | 64 lists and a bit field | `next_expiration`, `add_entry`, `remove_entry`, `take_slot` | the wheel, which the crate does not have yet |
| io buffers | `buf/*` | a buffer, and the begin and end of slices nested over it | `slice`, `slice_unchecked`, `into_inner`, `get_mut`, `set_init` | operations of the driver |
| task layout | `task/utils.rs` | none | `Layout::extend`, `padding_needed_for`, `abort_on_panic` | allocation of a task |
| task debugger, glue | `task/debugging.rs`, `lib.rs`, `macros/`, `thread_id.rs` | labels, counters | | nothing else reads them |

What makes this code hard is not parallelism, since one thread runs everything, but
*re-entrance*. A poll calls user code that clones, wakes and drops wakers of
the task being polled, drops or cancels the handles of others, and returns
into code that assumed something about the state word before the call. The
hazards are listed, each at its line, in `PROJECT.json`. In short:

* **Ownership by counting.** Handle, wakers, queued `Task`s and the run each own
  a reference. Some order of their ends could free the task early or never.
* **One word, five flags.** Legality of a call depends on combinations (closed
  but not completed, scheduled while running, closed while queued) that only
  long histories reach.
* **Wake-ups.** A wake during a poll, a notify of an awaiter that is being
  replaced, `SHOULD_POLL` set while the root is polled: each can be lost.
* **Rounds.** `max_round` is computed once from a queue that then grows.
* **The kernel.** It takes part of the submission queue, refuses some, completes
  in any order, and does so while the driver is in the middle of a call.
* **Pointers.** List nodes hold each other's addresses, `drain_filter` unlinks the
  node it stands on.
* **Time modulo the wheel.** A slot before `now` means the next rotation, on the
  top level only.
* **Words that wrap.** Bounds of ranges and paddings are computed modulo 2^w, partly
  checked, and compared afterwards.

Correctness, per component:

* state word and task: no use after free, no double or missing drop of future
  and output, no poll of a dropped future, no lost wake, no stranded awaiter, the
  source's own assertions;
* executor: never parks with nothing to come, leaves nothing behind, is fair to
  io, root and tasks, and uses every task only in ways the task module allows;
* driver: one completion per operation, delivered to the latest waker, no panic;
* list and level: pointers, bit field and expirations agree;
* buffers and layout: what a slice hands out lies in its buffer, what was read becomes
  its length, and the parts of an allocation neither overlap nor leave it.

## 2. Modules

```
TaskState ── TaskSteps ──┬── Task ── MCTask
                         │    └ implements JoinContract
                         └── Executor ── MCExecutor
                              └ each step is a step of TaskSteps for every task
UringDriver ── MCUringDriver
LinkedList ── TimerLevel
                └ extends it: its lists are the slots and the taken list
Usize ──┬── Buffers ─────┬── MCMemory
        └── TaskLayout ──┘

TLAPS:
TaskStepsProofs ── AwaitProofs ──┬── TaskProofs (extends Task)
                                 └── ExecutorProofs (extends Executor)
UringDriverProofs    LinkedListProofs    TimerLevelProofs    MemoryProofs (Buffers, TaskLayout)
```

**`TaskState`** has one operator per transition of `state.rs`, from the old word
to the new word and the action for the caller. The flag bits are a set, so
masks are set algebra; `set_state` (`state.rs:212`) is the AND it is in the code, and
clears the count with the other bits. `debug_assert!`s panic when the
constant `DebugAssertions` is TRUE; a panicking transition leaves the word alone
because the caller stores it afterwards.

**`TaskSteps`** is one task and all who hold a pointer to it. A task is a record, and an operation
is a relation between the record `v` before it and the record `w` after it, so that one definition serves
the task alone and each of the tasks of an executor. There is one relation per
operation; `RawTask::run` is cut where it calls `F::poll` and `F::drop`, because
that is where anything else may happen:

| action | code |
|---|---|
| `PollHandle`, `Cancel`, `DropHandle` | `JoinHandle::poll`, `cancel`, `drop` in `join.rs` |
| `CloneWaker`, `WakeByRef`, `WakeByVal`, `DropWaker` | the waker's vtable functions in `raw.rs` |
| `Run`, `PollReady`, `FinishReady`, `PollPending`, `FinishDrop` | `RawTask::run` up to `F::poll`; its Ready arm up to and after `F::drop`; its Pending arm; the tail after the future of a closed task was dropped |
| `PollPanic` | the guard that runs when `F::poll` unwinds |
| `Shutdown`, `DiscardTask`, `FinishDiscard` | drop of the executor; `Task::drop` before and after `F::drop` |

`Client` says what the code around the task may do besides awaiting it. A property that holds
only of some histories says which: `OnlyAwaited` (not cancelled, handle not dropped without its
answer, executor up) and `cancelled` are conditions of the properties, not restrictions of the
client, so one run checks all of them where everything may happen.
**`Task`** is the state machine of one such record, with its properties.

**`JoinContract`** is the abstract specification: what `Task` promises whoever
awaits it, without queue, wakers or counts. `Task` implements it under the mapping
in `Contract` (`Task.tla`).

**`Executor`** composes several tasks: one queue, awaiters that are wakers of other
tasks, futures whose drop drops the handles they hold. What a call does to the
shared memory is an operator from heap to heap, so that a wake inside a notify
inside a run is a composition. `pc` follows the loop of `LocalExecutor::run`.
`View(t)` collects what the executor's variables say of task `t` in the record of `TaskSteps`, and
`TasksAreTasks` states that every step of the executor is, for each task, one step of `TaskSteps`
between its two views or a stutter: every task of an executor is a `Task`. That is what
carries the theorems about one task over to the executor.

**`UringDriver`** is the driver, its operations and the kernel. A call that enters
the kernel is several steps (`pc`, `caller`), and `KernelComplete` may come between
any two. `tick` is a step that syncs the completion queue (`visible` is what the ring shows
since), one step per completion that is reaped, in which a task is woken, and one that ends it.
`ReversedTest` chooses how `tick` recognises reserved user data: TRUE is the test as written (`mod.rs:33`), FALSE as its comment says. With the test as
written no completion ever reaches an operation, so nothing else about the driver could be
asked; run `uring` therefore uses FALSE, and run `uring_tick` shows the rest.

**`LinkedList`** is `linked_list.rs` as operators on the pointers of all nodes and
lists; `Represents(s, l, c)` says link by link that list `l` is the sequence `c`, and
`Linked` the same of all lists, and that no node is in two.
**`TimerLevel`** is one level over 4 such lists. The crate has no wheel around it, so the
comments of `level.rs` on what the wheel does are its environment: `Belongs` (which timers
come to the level), `Advance` and the order of `Expire`. They are marked external.
`FullRotation` chooses between the distance the comment allows and the one that is safe.

**`Usize`** is the word: a number modulo `Modulus`, with the powers of two it may be aligned to.
**`Buffers`** is a `Vec` and the slices nested over it, each owning the one below; `Slice` and
`SliceMut` differ only in the trait they ask for and are one. `parse_range` is `begin_of`, `end_of`
and `OutOfRange`: the excluded start is added with wrapping in a release build, the included end
is always checked. `slice_unchecked` does without the assertions, not without these panics. `lost` remembers what `get_mut` took from under the slices.
**`TaskLayout`** is `Layout::extend`, `padding_needed_for` and `eval_task_layout` for any header,
scheduler, future and output; `ExactLayout` is the reference, in numbers that do not wrap.

The operators and actions marked "Mutant" are plausible bugs in the definition that
follows them; replacing the definition by the mutant breaks the property that
`PROJECT.json` pairs them with. No specification uses them.

## 3. Runs

| run | instance | asks | states |
|---|---|---|---|
| `task_any` | one task, up to 4 waker clones, release build, every client act | memory, future and output safe; no wake lost and every wake polled; every end resolves the handle; contract kept. A task that was not cancelled is queued once and dropped once; one that is only awaited has an exact count and meets no panic | 1 218 |
| `exec_await` | root, tasks `a` and `c` of the root, `b` of `a`; debug build; clients await and may wake themselves in every poll for ever | nothing left, tasks are `Task`s, io, root and every queued task get their turn, `run` returns if the yields end | 9 290 |
| `exec_any` | chain root, `a`, `b`; release build; cancel, early drop, wakers left in a channel | tasks are `Task`s, parks only when a wake may come, only cancelled tasks fail | 800 958 |
| `memory` | buffers of up to 3 bytes, 2 nested slices, bounds 0 to 3 and the greatest; words of 4 bits; builds with and without overflow checks | slices stay in their buffer, a range means what it says or panics, a read sets the length, layouts are exact | 53 551 |
| `uring` | 2 operations, a queue of 2 entries, 2 wakers, 1 timeout | no panic, one completion each, latest poller woken, every polled operation that the kernel took resolves, `park_timeout` never blocks without its timeout | 42 454 |
| `timer_level` | 3 timers, 4 slots, either level of 2, instants up to 6 and a rotation beyond | links, bits and expirations agree | 302 030 |

and six that show a disagreement between the source and what it says of itself (next
section). `CHECK_DEADLOCK FALSE` everywhere: each system may end (the task is freed,
`run` returned, the driver was dropped, the buffer is gone, all time has passed), and NoDeadlock
of `Executor` says for the loop what it must not be stuck in.

Why the bounds are enough:

* *Wakers.* The count is compared with zero only. Four clones give zero, the last,
  and more than the last while others are dropped. The proofs remove the bound.
* *Tasks.* Two levels of awaiting is the smallest tree in which a notify runs
  inside a run whose own task is awaited; a third task shares the root as
  awaiter and the queue. `exec_any` needs the branching of four client acts and keeps to
  the chain.
* *Yields.* In `exec_any` one self-wake per future reaches "scheduled while running".
  `exec_await` has no bound: `yields` is not counted there.
* *Queue.* Two entries are the fewest of which the kernel can take a part. Two operations and a
  timeout fill them: what a failed or partial `enter` leaves in the queue makes the next call
  meet the flush, which may again take only a part, and the push after it.
* *Timers.* Three timers give a first, a middle and a last node in one list. Two levels
  give a lower level, where a deadline before `now` panics, and a top level, where
  it wraps.
* *Buffers.* Three bytes give a length strictly between nothing and the capacity, and a slice
  of a slice begins at two offsets that are added. The greatest number is where bounds wrap.
* *Words.* In four bits `isize::MAX` is 7, so sums of four sizes overflow in every one of the
  three places where `extend` may refuse.

### Fairness

* `Task`: weak fairness of `Run`, of the end of a poll, and of the end of `F::drop`: the
  executor goes on popping, and user code returns. Weak fairness of polling the handle only
  while no awaiter is registered: then the awaiting task was woken (or never waited)
  and is polled by the same executor. Nothing is assumed of wakers: nobody needs to wake.
  A panic of `F::poll` ends `run`, but it closes the task, and of a closed task the liveness
  properties ask nothing more; `Ended` excuses programs that panicked or whose executor is gone.
* `Executor`: weak fairness of `Next`, no more. One thread runs, and takes some
  step while there is one. In particular the order between tasks is the
  queue's, never fairness's.
* `UringDriver`: the thread goes on within a call (weak); the kernel completes what it
  took (weak) and does not refuse or fail a submission for ever (strong, on `SubmitOk`); the
  loop of `run` comes back to the driver (strong, on `DriverSubmit \/ Park`, since other calls
  disable them in between); a woken task polls its operation with the waker it was
  woken through (strong, likewise). Until `run` returns, every round of its loop ends in `submit`
  or in `park` (`executor.rs:86-115`), and each of them ticks. Which of the two is not
  assumed: with an empty queue the loop only parks, perhaps for ever, and `park` does not
  submit (finding `uring_park`). So `Resolves` speaks of operations that the kernel took; one
  that lies in the queue is promised nothing.

## 4. Findings

Each has a run that TLC ends with a counterexample.

1. `task_cancel_panics` - `drop_join_handle` calls a closed task with references left
   `unreachable!` (`state.rs:397-400`). `transition_to_closed` counts a reference for the `Task`
   it has queued (`state.rs:344`) and `schedule` counts one again (`raw.rs:267`), and only one is
   ever given back. So `Task::cancel` of a started task ends in that panic when it drops the
   handle, in release builds too: in the trace the cancel falls between the start and the first
   run, and it does the same to a suspended task. A debug build fails before, in the await: the task is
   closed, and neither completed nor fresh (`state.rs:420`). The run is of a release
   build, and does not meet that assertion.
2. `task_cancel_twice` - "At any moment in time, there is at most one `Task` reference"
   (`task_impl.rs:66`). The start of a task queues it without SCHEDULED, so a cancel before its
   first run queues it again (`state.rs:340`). Both runs find it closed and drop its future in
   place: it is dropped twice.
3. `task_drop_polls` - "When the `JoinHandle` is dropped, the task is cancelled". If the
   handle is the last reference, `set_state` clears the bits it should set
   (`state.rs:212`, `379`), and the task is queued open and polled again.
4. `uring_tick` - the test in `tick` is the wrong way round (`mod.rs:33`): completions of
   operations are passed over.
5. `uring_park` - `park` neither submits nor waits (`mod.rs:178`), although the loop calls it
   to "wait for io blockingly".
6. `timer_rotation` - a timer nearly one rotation of the top level away lands in the slot
   of `now` and hides timers due earlier (`level.rs:200`).

Other behaviour of the code that the models contain, and no property forbids:

* A handle that was never polled destroys the task without dropping its future
  (`state.rs:359`). So does the last waker of a task whose handle was dropped while it was
  suspended: that handle set CLOSED, and `drop_waker` frees a closed task although "it will get
  scheduled one more time so that its future gets dropped" (`raw.rs:180-182`).
  `FutureDroppedOnce` says that these, and the `None` of a task cancelled before it was started,
  are the only cases.
* `Task::drop` never gives back its reference (`task_impl.rs:140`): the allocation leaks.
* `drop_join_handle` panics for a closed task when a waker is still alive
  (`state.rs:400`), and asserts in a debug build when an open task with a live waker is
  idle (`state.rs:392`). Hence `stray_waker` is a client act of its own.
* In a debug build, awaiting a task whose `F::poll` panicked (`run` called again after the
  panic was caught) fails the assertion of `state.rs:420` too.
* An excluded start bound of `usize::MAX` wraps to 0 in a release build (`io_buf.rs:123`), so the
  slice begins with its buffer where a debug build panics. `RangesKept` says so (`StartOf`). `get_mut` may shrink the capacity under a slice, which
  nothing notices (`ViewsInBounds`).
* An `Op` dropped in flight leaves its slot, and frees what the kernel works on: nothing
  constructs `Lifecycle::Ignored` (`DropOp`).
* `run` may park while the root future is due, because it was woken during its own poll
  (`executor.rs:97-107`). `NoDeadlock` counts that as due. It would matter if `park` blocked.

## 5. Proofs

### The task

`TaskProofs` proves, for every `MaxWakers`, every `Client` and both builds:

| theorem | says |
|---|---|
| `Invariance` | `Spec => []TaskInv` |
| `TypeCorrect` | type invariant; in particular no count goes below zero |
| `MemorySafe` | no use after free |
| `PolledAlive` | no poll of a dropped future |
| `OutputConsistent` | output slot full exactly while the word says so |
| `WakesKept` | a wake is kept until the next poll |
| `AwaiterServed` | an awaiter always has a notification ahead |
| `Assertions` | the debug assertions listed in `AssertionsHold` |
| `CancelStopsPolls` | no poll begins after `cancel` |
| `NoneMeansDropped` | `None` only after the drop of the future |
| `Refinement` | `Task` implements `JoinContract` |
| `AwaitInvariance` | `Spec => []AwaitInv` |
| `AwaitNeverFaults` | a task that is only awaited meets no panic but that of a handle dropped while a waker is alive (release builds, or `F::poll` does not panic) |
| `QueuedAtMostOnce` | a task that was not cancelled has one `Task` at most |
| `DroppedOnce` | its future is dropped once at most, and forgotten only by who got no answer |
| `AwaitFrees` | the count of a task that is only awaited is the number of its holders |

The only assumptions are the constants' types (`MaxWakers \in Nat`,
`Client \subseteq ClientActs`, `DebugAssertions \in BOOLEAN`). The work is done in two
modules below it, which speak of a record and of no specification, so that `ExecutorProofs` can use
them too: `TaskStepsProofs` shows that every step of `TaskSteps` preserves `IInv`,
`AwaitProofs` that it preserves `AInv`. `TaskInv` and `AwaitInv` say the two of the variable of `Task`.

*The argument.* First, one lemma per transition says what it does to each of the five bits
and to the count (`Flags`), so that the proofs of the steps never open the word again. Then
one lemma per action shows that the step keeps `IInv`. The safety properties are not
inductive by themselves; what `IInv` adds, and why:

* `Refs`: the count is *at least* the number of holders, not equal to it. A discarded
  `Task` leaks a reference, and dropping the handle of an open task leaves one more. The
  second excess is needed: the run that ends with the last `drop_task` would
  otherwise free a task that a later wake still reaches.
* `Fresh`: until NEED_START is cleared nobody but the handle knows the task. It is what makes
  the shortcut on `INITIAL_STATE` in `drop_join_handle` safe.
* `Phase`, `Completed`: which bits and holders exclude each other during a run. An open task
  is never queued while it runs.
* `Queued`: a task is queued twice only when closed, and queued without SCHEDULED only after
  the bits were lost in `set_state` or before the first run, when no waker exists that could
  queue it again.
* `Future`: a closed task that is still awaited either has dropped its future or has a run
  ahead; this gives `NoneAfterDrop`.
* `Output`, `Cancelled`: tie the slot and the history to the word.

`AInv` strengthens it twice. `Once` and `Answered` hold whatever the client does: while a task was
not cancelled, it is queued only when it is open, idle and not queued, and an open idle task has
its future (`SubmitsAlone`, `OpenUndropped`, `LastWaker`), so one run at most is left that drops it.
`Awaited` holds as long as the task is only awaited, which a task ceases to be but never becomes
(`AwaitedBefore`). There the count is exact (`HandleLast`, where `Refs` only bounds it), the handle is
the last holder to go, and a closed task has no run ahead (`ClosedRests`). So the waker that
is dropped is never the last reference (`NotLast`), and the branches of `drop_waker` and
`drop_join_handle` that schedule, panic or leak are not taken.

### The executor

`ExecutorProofs` proves, for every finite set of tasks, whoever spawns whom, whatever the futures do,
and both builds:

| theorem | says |
|---|---|
| `Invariance` | `Spec => []Inv` |
| `TypeCorrect` | type invariant |
| `Implements` | `TasksAreTasks`: each step is, for each task, a step of `TaskSteps` or a stutter |
| `AllTasksSafe` | a task is freed in nobody's hands, no dropped future is polled, no output is read twice or lost, and who was not cancelled is never queued twice or while it runs |
| `CancelFails` | awaiting a task fails only if it was cancelled |
| `NeverStuck` | `run` never parks with an empty queue while the root waits only for tasks |
| `AllFreed` | `run` returns with an empty queue and all spawned tasks freed, if futures only await |
| `AwaitersNeverPanic` | no call on any task panics, if futures only await |

The assumptions are the constants' types; nothing is assumed of `Owner`, so a task whose owners go round
in a circle is never spawned. That futures only await, and may wake themselves for ever, is
`Client \subseteq {"yield_forever"}` in the last two. They are false otherwise: a cancelled
task leaks a reference (section 4), and a channel may keep a waker of a task whose handle is dropped.

*The argument.* Nothing about the state word is proved again. One lemma per operator on the heap
(`Wakes`, `DropsWaker`, `Notifies`, `Registers` and so on) says what the call does to the task it is
meant for (`Effect`: its word, how often it is queued, whether it is freed or woken) and that it leaves the
other tasks alone (`Beside`); counts of occurrences (`Times`) tie the queue, the awaiters and
the channel to the numbers in a task's record. From them, one lemma per action shows that the step
is, in the view of each task, a step of `TaskSteps` or a stutter, although a single
step of the loop may finish one task, wake its awaiter and queue that. So `AInv`, which `AwaitProofs` shows
such steps to keep, holds of every task (`EachTask`). What is left of `Inv` relates
tasks to each other, and is needed for the following:

* `Loop`, `Panicked`: where the loop is while a future is polled or dropped.
* `Family`: only the future that spawned a task awaits it, and who spawned whom is a tree. It
  makes a waker of `f` a different thing from a waker of any other future, and it is what `NeverStuck` counts on.
* `Bereft`: a future that was dropped holds no handle, so a task that is alive has an owner that is.
* `Sleepers`: whoever is suspended, neither queued nor woken, has left its waker in the channel or
  with a task it awaits. This is no lost wakeup across tasks.
* `OnlyAwaits`: what awaiting alone leaves out (nothing is cancelled, a handle is dropped only with its answer,
  nothing but an await stores a waker).

For `NeverStuck`, suppose `run` parks with an empty queue, no waker in the channel and the root
asleep. Every awaited task is suspended, so it too waits for one (`AwaitedWaits`). The
awaited tasks would then be a finite set in which the root and every member is the owner of a
member: more owners than tasks, in a map from tasks to owners (`Childless`).
For `AllFreed`, suppose handles are still held when `run` returns. Of those tasks one has an owner that
is not among them (`Family`): the root, or a task whose handle, and so whose future, was dropped.
Neither holds a handle any more (`Bereft`). So all handles are dropped, and with them the last
reference, because the count is exact (`AInv`).

### Buffers

`MemoryProofs` proves, for words of any width, a `Vec` of any capacity and slices nested to any depth,
with and without overflow checks:

| theorem | says |
|---|---|
| `SlicesInVec` | `ViewsInBounds`: each slice keeps to the buffer it was cut from, and to the bytes of the `Vec` |
| `SliceKeepsRange` | `RangesKept`: a slice begins and ends where its range says, or the call panics; only an excluded start of `MAX` is lost, unless overflow is checked |
| `SetInitKept` | `InitKept`: after a read the slice reports the position it was told |

The assumptions are the types of the constants, among them that no buffer exceeds `isize::MAX`. The
inductive invariant `BInv` says of the nested slices alone that each ends within the one
below (`Nested`), that the outermost ends within the `Vec` unless the owner took
capacity away, and that every slice begins among initialized bytes unless the owner took bytes. The address and
length of a slice are defined by recursion down to the `Vec` (`Level`). That this recursion has
a solution is proved once (`LevelsExist`), and so is what follows from it for all depths; both take the least
depth that would be an exception, which exists in every nonempty set of numbers.

### The layout of a task

`MemoryProofs` also proves `LayoutsFit`: for words of any width, `eval_task_layout` gives the exact
layout of header, scheduler and union, or nothing when that does not fit, although
`padding_needed_for` wraps; and `PartsApart`: the parts follow each other without overlapping,
inside the allocation, each at a multiple of its alignment. The argument (`PaddingExact`): when
`len + align - 1` fits the word, masking rounds up exactly; when it does not, the padding wraps so
that `len` and padding add up to `Modulus`, which `checked_add` refuses, as it should. What is assumed of
alignments is `PowersChain`: of two, the greater is a multiple of the smaller.

### The list and the timer level

`LinkedListProofs` has one lemma per call of the list, for any number of nodes and lists:
`PushFrontLinked`, `RemoveLinked`, `PopBackLinked` and `TakeLinked` say that a call on lists that
are `Linked` fails no assertion, returns the right node, and leaves the lists `Linked` to what
the call should have made of them. Each rests on a lemma that says what the call does to every single
pointer; the neighbours of a node are then identified by `Position`, since a node is at one place of one
list.

`TimerLevelProofs` proves, for any number of slots (64 in the code), levels, timers and instants:

| theorem | says |
|---|---|
| `Invariance` | `Spec => []IInv` |
| `TypeCorrect` | type invariant |
| `PointersKept` | the pointers are those of the lists |
| `BitsExact` | a bit is set exactly while its slot has timers |
| `NeverPanics` | no assertion of list (`push_front`, `remove`, `is_empty`) or level (`remove_entry`, `next_expiration`) fails |
| `FindsEarliest` | `next_expiration` finds the earliest slot, if timers are less than a rotation away |
| `ExpiresOnTime` | no slot is passed over, on the same condition |

The last two assume `~FullRotation`; run `timer_rotation` shows that `FindsEarliest` fails
without it. The other assumptions are the constants' types and
`SlotRangeType`: powers of `LEVEL_MULT` are positive, which the prover does not know of `^`.

*The argument.* `Index(t)`, the slot of an instant counted without end, does away with the
rotation. `IInv` adds three things to the properties: `Placed` (a timer is in the slot of its
`cached_when`, so `remove_entry` looks in the right list), `Cursor` (a filter stands on a timer of the
list it drains) and `Timely`: every timer lies in a later slot than `now`, by less than a turn,
and on a lower level within the rotation at hand. Less than a turn makes the slot number
determine the index (`TurnOnce`), so the first set bit from `now` on is the earliest slot
(`NextDeadline`); within the rotation means that a lower level never wraps, which is the first assertion of
`next_expiration`. The second, that a deadline is not before `now`, is part of `StartTyped`: where a
rotation is added, its sum with the start of the level is after `now`. On a top level with `FullRotation` `Timely` is not claimed, and the other
theorems do without it. The proofs begin with lemmas on division with unknown divisors.

### What is only model-checked

Every invariant and every action property of the passing runs is a theorem. What remains with TLC
is liveness (`WokenIsPolled`, `FinishedResolves`, `Returns`, `EveryoneServed`, `Resolves`), since
liveness under fairness and ENABLED are out of reach of the prover. No module declares a RECURSIVE operator.
The induction theorems of the library cannot be instantiated by the provers either; the two places
that need induction (the tree of tasks, the depth of slices) take a least element of a set instead.

## 6. Not modelled, and why

* `State::cancel`, `Task::run_right_away`: no caller. Debug-build thread checks: one thread.
* Overflow of the 59-bit reference count.
* `F::drop` that panics: `abort_on_panic` ends the process.
* `TaskDebugger` (`task/debugging.rs`), names, logging: nothing the crate reads depends on them.
* `lib.rs`, `macros/`, `thread_id.rs`, `driver/util.rs`, `scheduler.rs`: declarations, a counter, a
  conversion, and a file that is commented out.
* The bytes in buffers, and a `slice_unchecked` whose caller breaks its contract.
* The iteration order of `Debug` for the list, and the `Link` trait.
* The wheel, the kernel's ring memory protocol (barriers, `sq.sync()`), and the concrete
  operations: the driver treats them all alike.

## 7. Plan

Done: all modules of section 2, their runs, and the proofs of section 5.

Next, in this order:

1. A panic of a future inside the composed executor (`PollPanic` is a step of `Task` only), with the
   theorems of `ExecutorProofs` extended to it.
2. The executor with the driver (`Executor` and `UringDriver` over one set of wakers), which would replace
   the fairness of `DriverSubmit \/ Park` by the executor's loop, and say for which programs every
   queued operation is submitted.
