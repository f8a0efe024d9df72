---------------------------- MODULE ExecutorProofs ----------------------------
(***************************************************************************)
(* Proofs about the executor, for every set of tasks, whoever spawns whom, *)
(* and whatever the futures do.  Each step of the executor is a step of    *)
(* TaskSteps for each task it touches, so that what AwaitProofs proves of  *)
(* one task holds of all of them; what remains to be proved here is what   *)
(* relates the tasks to each other: who waits for whom.                    *)
(***************************************************************************)
EXTENDS Executor, SequenceTheorems, FiniteSetTheorems, WellFoundedInduction, TLAPS

P == INSTANCE AwaitProofs WITH
  MaxWakers <- Cardinality(Tasks) + 1,
  Client    <- TaskClient

-----------------------------------------------------------------------------
(* The constants are those that TaskSteps assumes. *)
LEMMA Constants ==
  /\ DebugAssertions \in BOOLEAN
  /\ Cardinality(Tasks) \in Nat /\ Cardinality(Tasks) + 1 \in Nat
  /\ TaskClient \subseteq P!ClientActs /\ "panic" \notin TaskClient
  /\ ~(Client \subseteq {"yield_forever"}) =>
       TaskClient = {"cancel", "early_drop", "stray_waker"}
<1>1. Cardinality(Tasks) \in Nat
  BY TasksType, FS_CardinalityType
<1> QED  BY <1>1, DebugAssertionsType DEF TaskClient, P!ClientActs

(* The state words of the two are the same. *)
LEMMA SameWords ==
  /\ INITIAL_STATE = P!INITIAL_STATE /\ Panics = P!Panics /\ Snapshot = P!Snapshot
  /\ \A s : /\ is_running(s) <=> P!is_running(s)
            /\ is_completed(s) <=> P!is_completed(s)
            /\ is_closed(s) <=> P!is_closed(s)
            /\ is_scheduled(s) <=> P!is_scheduled(s)
            /\ need_start(s) <=> P!need_start(s)
            /\ incr_ref(s) = P!incr_ref(s) /\ decr_ref(s) = P!decr_ref(s)
<1> USE DEF RUNNING, COMPLETED, CLOSED, SCHEDULED, NEED_START, P!RUNNING, P!COMPLETED,
        P!CLOSED, P!SCHEDULED, P!NEED_START, STATE_MASK, P!STATE_MASK
<1>1. INITIAL_STATE = P!INITIAL_STATE /\ Panics = P!Panics /\ Snapshot = P!Snapshot
  BY DEF INITIAL_STATE, P!INITIAL_STATE, Panics, P!Panics, Snapshot, P!Snapshot
<1>2. ASSUME NEW s
      PROVE  /\ is_running(s) <=> P!is_running(s)
             /\ is_completed(s) <=> P!is_completed(s)
             /\ is_closed(s) <=> P!is_closed(s)
             /\ is_scheduled(s) <=> P!is_scheduled(s)
             /\ need_start(s) <=> P!need_start(s)
  BY DEF is_running, P!is_running, is_completed, P!is_completed, is_closed, P!is_closed,
     is_scheduled, P!is_scheduled, need_start, P!need_start
<1>3. ASSUME NEW s
      PROVE  incr_ref(s) = P!incr_ref(s) /\ decr_ref(s) = P!decr_ref(s)
  BY DEF incr_ref, P!incr_ref, decr_ref, P!decr_ref
<1> QED  BY <1>1, <1>2, <1>3

(* And so are the transitions on them. *)
LEMMA SameTransitions ==
  \A s : /\ transition_to_running(s) = P!transition_to_running(s)
         /\ transition_to_idle(s) = P!transition_to_idle(s)
         /\ transition_to_scheduled(s) = P!transition_to_scheduled(s)
         /\ transition_to_completed(s) = P!transition_to_completed(s)
         /\ transition_to_closed(s) = P!transition_to_closed(s)
         /\ drop_join_handle(s) = P!drop_join_handle(s)
         /\ poll_join_handle(s) = P!poll_join_handle(s)
         /\ drop_waker(s) = P!drop_waker(s)
<1> USE DEF RUNNING, COMPLETED, CLOSED, SCHEDULED, NEED_START, P!RUNNING, P!COMPLETED,
        P!CLOSED, P!SCHEDULED, P!NEED_START, is_running, P!is_running, is_completed,
        P!is_completed, is_closed, P!is_closed, is_scheduled, P!is_scheduled,
        need_start, P!need_start, incr_ref, P!incr_ref, decr_ref, P!decr_ref,
        INITIAL_STATE, P!INITIAL_STATE, Set, P!Set, Unset, P!Unset, set_state, P!set_state,
        Then, P!Then, Assert, P!Assert
<1>1. ASSUME NEW s PROVE transition_to_running(s) = P!transition_to_running(s)
  BY DEF transition_to_running, P!transition_to_running
<1>2. ASSUME NEW s PROVE transition_to_idle(s) = P!transition_to_idle(s)
  BY DEF transition_to_idle, P!transition_to_idle
<1>3. ASSUME NEW s PROVE transition_to_scheduled(s) = P!transition_to_scheduled(s)
  BY DEF transition_to_scheduled, P!transition_to_scheduled
<1>4. ASSUME NEW s PROVE transition_to_completed(s) = P!transition_to_completed(s)
  BY DEF transition_to_completed, P!transition_to_completed
<1>5. ASSUME NEW s PROVE transition_to_closed(s) = P!transition_to_closed(s)
  BY DEF transition_to_closed, P!transition_to_closed
<1>6. ASSUME NEW s PROVE drop_join_handle(s) = P!drop_join_handle(s)
  BY DEF drop_join_handle, P!drop_join_handle
<1>7. ASSUME NEW s PROVE poll_join_handle(s) = P!poll_join_handle(s)
  BY DEF poll_join_handle, P!poll_join_handle
<1>8. ASSUME NEW s PROVE drop_waker(s) = P!drop_waker(s)
  BY DEF drop_waker, P!drop_waker
<1> QED  BY <1>1, <1>2, <1>3, <1>4, <1>5, <1>6, <1>7, <1>8

-----------------------------------------------------------------------------
(* Counting *)

(* Where x is, and how often, in a queue or among the awaiters *)
Spots(f, x) == {i \in DOMAIN f : f[i] = x}
Times(f, x) == Cardinality(Spots(f, x))

LEMMA CountsAreTimes ==
  /\ \A t : Queued(t) = Times(heap.queue, t)
  /\ heap.awaiter \in [Tasks -> Futures \union {None}] =>
       \A t : Wakers(t) = Times(heap.awaiter, t) + (IF t \in channel THEN 1 ELSE 0)
BY DEF Queued, Wakers, Times, Spots

LEMMA SpotsFinite ==
  ASSUME NEW S, NEW q \in Seq(S), NEW x
  PROVE  IsFiniteSet(Spots(q, x)) /\ Times(q, x) \in Nat
<1>1. Len(q) \in Nat /\ DOMAIN q = 1..Len(q)
  BY LenProperties
<1>2. IsFiniteSet(1..Len(q))
  BY <1>1, FS_Interval
<1>3. Spots(q, x) \in SUBSET (1..Len(q))
  BY <1>1 DEF Spots
<1>4. IsFiniteSet(Spots(q, x))
  BY <1>2, <1>3, FS_Subset
<1> QED  BY <1>4, FS_CardinalityType DEF Times

LEMMA TimesEmpty == \A x : Times(<<>>, x) = 0
<1>1. \A x : Spots(<<>>, x) = {}
  BY DEF Spots
<1> QED  BY <1>1, FS_EmptySet DEF Times

(* Adding a Task at the end of the queue *)
LEMMA TimesAppend ==
  ASSUME NEW S, NEW q \in Seq(S), NEW v \in S, NEW x
  PROVE  Append(q, v) \in Seq(S)
         /\ Times(Append(q, v), x) = Times(q, x) + (IF v = x THEN 1 ELSE 0)
<1> DEFINE r == Append(q, v)
           n == Len(q) + 1
<1>1. /\ r \in Seq(S) /\ Len(r) = n /\ Len(q) \in Nat
      /\ \A i \in 1..Len(q) : r[i] = q[i]
      /\ r[n] = v
      /\ DOMAIN q = 1..Len(q) /\ DOMAIN r = 1..n
  BY AppendProperties, LenProperties
<1> HIDE DEF r, n
<1>2. n \notin Spots(q, x)
  BY <1>1 DEF Spots, n
<1>3. IsFiniteSet(Spots(q, x)) /\ Times(q, x) \in Nat
  BY SpotsFinite
<1>4. CASE v = x
  <2>1. Spots(r, x) = Spots(q, x) \union {n}  BY <1>1, <1>4 DEF Spots, n
  <2>2. Times(r, x) = Times(q, x) + 1
    BY <1>2, <1>3, <2>1, FS_AddElement DEF Times
  <2> QED  BY <1>1, <1>3, <1>4, <2>2 DEF r
<1>5. CASE v # x
  <2>1. Spots(r, x) = Spots(q, x)  BY <1>1, <1>5 DEF Spots, n
  <2> QED  BY <1>1, <1>3, <1>5, <2>1 DEF r, Times
<1> QED  BY <1>4, <1>5

(* Adding one at the front *)
LEMMA TimesPrepend ==
  ASSUME NEW S, NEW q \in Seq(S), NEW v \in S, NEW x
  PROVE  <<v>> \o q \in Seq(S)
         /\ Times(<<v>> \o q, x) = Times(q, x) + (IF v = x THEN 1 ELSE 0)
<1> DEFINE r == <<v>> \o q
           f == [i \in Spots(q, x) |-> i + 1]
           A == {i \in 2..(Len(q) + 1) : r[i] = x}
<1>1. /\ r \in Seq(S) /\ Len(q) \in Nat /\ DOMAIN q = 1..Len(q)
      /\ DOMAIN r = 1..(Len(q) + 1)
      /\ r[1] = v /\ \A i \in 1..Len(q) : r[i + 1] = q[i]
  <2>1. <<v>> \in Seq(S) /\ Len(<<v>>) = 1 /\ <<v>>[1] = v /\ Len(q) \in Nat
    BY LenProperties
  <2>2. /\ r \in Seq(S) /\ Len(r) = 1 + Len(q)
        /\ \A i \in 1..(1 + Len(q)) : r[i] = IF i <= 1 THEN <<v>>[i] ELSE q[i - 1]
    BY <2>1, ConcatProperties
  <2> HIDE DEF r
  <2>3. DOMAIN r = 1..(Len(q) + 1) /\ DOMAIN q = 1..Len(q)
    BY <2>1, <2>2, LenProperties
  <2>4. r[1] = v
    BY <2>1, <2>2
  <2>5. ASSUME NEW i \in 1..Len(q) PROVE r[i + 1] = q[i]
    <3>1. i + 1 \in 1..(1 + Len(q)) /\ ~(i + 1 <= 1) /\ (i + 1) - 1 = i
      BY <2>1
    <3> QED  BY <2>2, <3>1
  <2> QED  BY <2>1, <2>2, <2>3, <2>4, <2>5
<1> HIDE DEF r
<1>2. IsFiniteSet(Spots(q, x)) /\ Times(q, x) \in Nat
  BY SpotsFinite
<1>3. f \in Bijection(Spots(q, x), A)
  <2>1. f \in [Spots(q, x) -> A]
    BY <1>1 DEF Spots
  <2>2. \A i, j \in Spots(q, x) : f[i] = f[j] => i = j
    BY <1>1 DEF Spots
  <2>3. ASSUME NEW a \in A PROVE \E i \in Spots(q, x) : f[i] = a
    <3>1. a - 1 \in 1..Len(q) /\ (a - 1) + 1 = a
      BY <1>1
    <3> QED  BY <1>1, <3>1 DEF Spots
  <2> QED  BY <2>1, <2>2, <2>3 DEF Bijection, Injection, Surjection, IsInjective
<1>4. IsFiniteSet(A) /\ Cardinality(A) = Times(q, x)
  BY <1>2, <1>3, FS_Bijection DEF ExistsBijection, Times
<1>5. 1 \notin A
  OBVIOUS
<1>6. CASE v = x
  <2>1. Spots(r, x) = A \union {1}  BY <1>1, <1>6 DEF Spots
  <2> HIDE DEF A
  <2>2. Times(r, x) = Times(q, x) + 1
    BY <1>4, <1>5, <2>1, FS_AddElement DEF Times
  <2> QED  BY <1>1, <1>2, <1>6, <2>2 DEF r
<1>7. CASE v # x
  <2>1. Spots(r, x) = A  BY <1>1, <1>7 DEF Spots
  <2>2. Times(r, x) = Times(q, x)
    BY <1>4, <2>1 DEF Times
  <2> QED  BY <1>1, <1>2, <1>7, <2>2 DEF r
<1> QED  BY <1>6, <1>7

(* Taking the first *)
LEMMA TimesTail ==
  ASSUME NEW S, NEW q \in Seq(S), q # <<>>, NEW x
  PROVE  /\ Head(q) \in S /\ Tail(q) \in Seq(S)
         /\ Times(q, x) = Times(Tail(q), x) + (IF Head(q) = x THEN 1 ELSE 0)
<1>1. Head(q) \in S /\ Tail(q) \in Seq(S) /\ Tail(q) = SubSeq(q, 2, Len(q))
  BY HeadTailProperties, TailIsSubSeq
<1>2. Len(q) \in Nat \ {0}
  BY EmptySeq
<1>3. q[1] = Head(q)
  BY <1>2, LenProperties
<1>4. q = <<Head(q)>> \o Tail(q)
  <2>1. 1 \in 1..Len(q) /\ Len(q) \in 1..Len(q) /\ 1 + 1 = 2
    BY <1>2
  <2>2. SubSeq(q, 1, Len(q)) = <<q[1]>> \o SubSeq(q, 1 + 1, Len(q))
    BY <2>1, SubSeqRecursiveFirst
  <2> QED  BY <1>1, <1>3, <2>1, <2>2, SubSeqFull
<1>5. Times(<<Head(q)>> \o Tail(q), x) = Times(Tail(q), x) + (IF Head(q) = x THEN 1 ELSE 0)
  <2> DEFINE h == Head(q)
             l == Tail(q)
  <2>1. h \in S /\ l \in Seq(S)
    BY <1>1
  <2> HIDE DEF h, l
  <2>2. Times(<<h>> \o l, x) = Times(l, x) + (IF h = x THEN 1 ELSE 0)
    BY <2>1, TimesPrepend
  <2> QED  BY <2>2 DEF h, l
<1> QED  BY <1>1, <1>4, <1>5

(* A queue that contains nobody is empty. *)
LEMMA NobodyQueued ==
  ASSUME NEW S, NEW q \in Seq(S), \A x \in S : Times(q, x) = 0
  PROVE  q = <<>>
<1> SUFFICES ASSUME q # <<>> PROVE FALSE
  OBVIOUS
<1>1. Head(q) \in S /\ Tail(q) \in Seq(S)
      /\ Times(q, Head(q)) = Times(Tail(q), Head(q)) + 1
  BY TimesTail
<1>2. Times(Tail(q), Head(q)) \in Nat
  BY <1>1, SpotsFinite
<1> QED  BY <1>1, <1>2

(* What several tasks hold of the same waker: at most one clone each. *)
LEMMA TimesHeld ==
  ASSUME NEW aw \in [Tasks -> Futures \union {None}], NEW f
  PROVE  /\ IsFiniteSet(Spots(aw, f)) /\ Spots(aw, f) \subseteq Tasks
         /\ Times(aw, f) \in Nat /\ Times(aw, f) <= Cardinality(Tasks)
         /\ (\E t \in Tasks : aw[t] = f) <=> Times(aw, f) > 0
         /\ (\E t \in Tasks : aw[t] # f) => Times(aw, f) < Cardinality(Tasks)
<1>1. Spots(aw, f) \in SUBSET Tasks
  BY DEF Spots
<1>2. /\ IsFiniteSet(Spots(aw, f)) /\ Times(aw, f) <= Cardinality(Tasks)
      /\ Times(aw, f) = Cardinality(Tasks) => Spots(aw, f) = Tasks
  BY <1>1, TasksType, FS_Subset DEF Times
<1>3. Times(aw, f) \in Nat /\ Cardinality(Tasks) \in Nat
  BY <1>2, TasksType, FS_CardinalityType DEF Times
<1>4. Times(aw, f) = 0 <=> Spots(aw, f) = {}
  BY <1>2, FS_EmptySet DEF Times
<1>5. (\E t \in Tasks : aw[t] = f) <=> Times(aw, f) > 0
  BY <1>3, <1>4 DEF Spots
<1>6. (\E t \in Tasks : aw[t] # f) => Times(aw, f) # Cardinality(Tasks)
  BY <1>2 DEF Spots
<1> QED  BY <1>1, <1>2, <1>3, <1>5, <1>6

(* A header that changes its awaiter *)
LEMMA TimesExcept ==
  ASSUME NEW aw \in [Tasks -> Futures \union {None}], NEW t \in Tasks,
         NEW g \in Futures \union {None}, NEW f
  PROVE  /\ [aw EXCEPT ![t] = g] \in [Tasks -> Futures \union {None}]
         /\ Times([aw EXCEPT ![t] = g], f) =
              Times(aw, f) + (IF g = f THEN 1 ELSE 0) - (IF aw[t] = f THEN 1 ELSE 0)
<1> DEFINE bw == [aw EXCEPT ![t] = g]
<1>1. bw \in [Tasks -> Futures \union {None}] /\ bw[t] = g /\ \A u \in Tasks \ {t} : bw[u] = aw[u]
  OBVIOUS
<1> HIDE DEF bw
<1>2. IsFiniteSet(Spots(aw, f)) /\ Times(aw, f) \in Nat
  BY TimesHeld
<1>3. CASE g = f /\ aw[t] # f
  <2>1. Spots(bw, f) = Spots(aw, f) \union {t} /\ t \notin Spots(aw, f)
    BY <1>1, <1>3 DEF Spots
  <2>2. Times(bw, f) = Times(aw, f) + 1
    BY <1>2, <2>1, FS_AddElement DEF Times
  <2> QED  BY <1>1, <1>2, <1>3, <2>2 DEF bw
<1>4. CASE g # f /\ aw[t] = f
  <2>1. Spots(bw, f) = Spots(aw, f) \ {t} /\ t \in Spots(aw, f)
    BY <1>1, <1>4 DEF Spots
  <2>2. Times(bw, f) = Times(aw, f) - 1
    BY <1>2, <2>1, FS_RemoveElement DEF Times
  <2> QED  BY <1>1, <1>2, <1>4, <2>2 DEF bw
<1>5. CASE g = f <=> aw[t] = f
  <2>1. Spots(bw, f) = Spots(aw, f)
    BY <1>1, <1>5 DEF Spots
  <2>2. Times(bw, f) = Times(aw, f)
    BY <2>1 DEF Times
  <2> QED  BY <1>1, <1>2, <1>5, <2>2 DEF bw
<1> QED  BY <1>3, <1>4, <1>5

-----------------------------------------------------------------------------
(* The heap *)

Heaps ==
  [state : [Tasks -> P!Word], awaiter : [Tasks -> Futures \union {None}],
   freed : SUBSET Tasks, queue : Seq(Tasks), should_poll : BOOLEAN, woken : SUBSET Tasks]

(* A call that leaves alone what the heap has of u, up to u's awaiter *)
Beside(h, g, u) ==
  /\ g.state[u] = h.state[u]
  /\ Times(g.queue, u) = Times(h.queue, u)
  /\ u \in g.freed <=> u \in h.freed
  /\ u \in g.woken <=> u \in h.woken

(* A call on f: its new word, how often it queues f, and whether it frees or wakes f *)
Effect(h, g, f, s, n, frees, wakes) ==
  /\ g.state[f] = s
  /\ Times(g.queue, f) = Times(h.queue, f) + n
  /\ f \in g.freed <=> f \in h.freed \/ frees
  /\ f \in g.woken <=> f \in h.woken \/ wakes

OnTask(h, g, f, s, n, frees, wakes) ==
  /\ g \in Heaps /\ g.awaiter = h.awaiter /\ g.should_poll = h.should_poll
  /\ Effect(h, g, f, s, n, frees, wakes)
  /\ \A u \in Tasks \ {f} : Beside(h, g, u)

(* schedule, drop_waker and wake, as they change one task *)
Dropped(h, g, f) ==
  LET r == drop_waker(h.state[f]) IN
  Effect(h, g, f, IF r.action = "Schedule" THEN incr_ref(r.state) ELSE r.state,
         IF r.action = "Schedule" THEN 1 ELSE 0, r.action = "Destroy", FALSE)

Woken(h, g, f) ==
  LET r == transition_to_scheduled(h.state[f]) IN
  Effect(h, g, f, IF r.action = "Submit" THEN incr_ref(r.state) ELSE r.state,
         IF r.action = "Submit" THEN 1 ELSE 0, FALSE, TRUE)

WokenByVal(h, g, f) ==
  LET r == transition_to_scheduled(h.state[f])
      submit == r.action = "Submit"
      d == drop_waker(IF submit THEN incr_ref(r.state) ELSE r.state)
  IN  Effect(h, g, f, IF d.action = "Schedule" THEN incr_ref(d.state) ELSE d.state,
             (IF submit THEN 1 ELSE 0) + (IF d.action = "Schedule" THEN 1 ELSE 0),
             d.action = "Destroy", TRUE)

LEMMA HeapFields ==
  ASSUME NEW h \in Heaps
  PROVE  /\ h.state \in [Tasks -> P!Word] /\ h.awaiter \in [Tasks -> Futures \union {None}]
         /\ h.freed \in SUBSET Tasks /\ h.queue \in Seq(Tasks)
         /\ h.should_poll \in BOOLEAN /\ h.woken \in SUBSET Tasks
         /\ \A u : Times(h.queue, u) \in Nat
         /\ h = [state |-> h.state, awaiter |-> h.awaiter, freed |-> h.freed,
                 queue |-> h.queue, should_poll |-> h.should_poll, woken |-> h.woken]
<1>1. h.queue \in Seq(Tasks)
  BY DEF Heaps
<1>2. \A u : Times(h.queue, u) \in Nat
  BY <1>1, SpotsFinite
<1> QED  BY <1>2 DEF Heaps

(* Words stay words. *)
LEMMA WordsKept ==
  \A s \in P!Word :
    /\ incr_ref(s) \in P!Word /\ decr_ref(s) \in P!Word
    /\ transition_to_scheduled(s).state \in P!Word
    /\ drop_waker(s).state \in P!Word
    /\ drop_waker(s).action \in {"Destroy", "Schedule", "DoNothing"}
<1> SUFFICES ASSUME NEW s \in P!Word
             PROVE  /\ P!incr_ref(s) \in P!Word /\ P!decr_ref(s) \in P!Word
                    /\ P!transition_to_scheduled(s).state \in P!Word
                    /\ P!drop_waker(s).state \in P!Word
                    /\ P!drop_waker(s).action \in {"Destroy", "Schedule", "DoNothing"}
  BY SameWords, SameTransitions
<1>1. P!incr_ref(s) \in P!Word /\ P!decr_ref(s) \in P!Word
  BY Constants, P!RefTransitions
<1>2. P!transition_to_scheduled(s).state \in P!Word
  BY Constants, P!ScheduledTransition
<1>3. /\ P!drop_waker(s).state \in P!Word
      /\ P!drop_waker(s).action \in {"Destroy", "Schedule", "DoNothing"}
  BY Constants, P!DropWakerTransition
<1> QED  BY <1>1, <1>2, <1>3

LEMMA SetState ==
  ASSUME NEW h \in Heaps, NEW t \in Tasks, NEW s \in P!Word
  PROVE  OnTask(h, [h EXCEPT !.state[t] = s], t, s, 0, FALSE, FALSE)
<1> DEFINE g == [h EXCEPT !.state[t] = s]
<1>1. /\ g.state = [h.state EXCEPT ![t] = s] /\ g.awaiter = h.awaiter /\ g.freed = h.freed
      /\ g.queue = h.queue /\ g.should_poll = h.should_poll /\ g.woken = h.woken
  BY DEF Heaps
<1>2. g \in Heaps
  BY DEF Heaps
<1>3. h.state \in [Tasks -> P!Word] /\ \A u : Times(h.queue, u) \in Nat
  BY HeapFields
<1> HIDE DEF g
<1>4. Effect(h, g, t, s, 0, FALSE, FALSE)
  BY <1>1, <1>3 DEF Effect
<1>5. \A u \in Tasks \ {t} : Beside(h, g, u)
  BY <1>1, <1>3 DEF Beside
<1>6. OnTask(h, g, t, s, 0, FALSE, FALSE)
  BY <1>1, <1>2, <1>4, <1>5 DEF OnTask
<1> QED  BY <1>6 DEF g

LEMMA SetAwaiter ==
  ASSUME NEW h \in Heaps, NEW t \in Tasks, NEW f \in Futures \union {None}
  PROVE  LET g == [h EXCEPT !.awaiter[t] = f] IN
         /\ g \in Heaps /\ g.awaiter = [h.awaiter EXCEPT ![t] = f]
         /\ g.state = h.state /\ g.queue = h.queue /\ g.freed = h.freed
         /\ g.should_poll = h.should_poll /\ g.woken = h.woken
         /\ \A u \in Tasks : Beside(h, g, u)
BY HeapFields DEF Beside, Heaps

LEMMA Schedules ==
  ASSUME NEW h \in Heaps, NEW t \in Tasks, NEW yield_now
  PROVE  OnTask(h, schedule(h, t, yield_now), t, incr_ref(h.state[t]), 1, FALSE, FALSE)
<1> DEFINE s == incr_ref(h.state[t])
           q == IF yield_now THEN <<t>> \o h.queue ELSE Append(h.queue, t)
           g == schedule(h, t, yield_now)
<1>1. h.queue \in Seq(Tasks) /\ h.state \in [Tasks -> P!Word]
  BY HeapFields
<1>2. s \in P!Word
  BY <1>1, WordsKept
<1>3. q \in Seq(Tasks) /\ \A u : Times(q, u) = Times(h.queue, u) + (IF t = u THEN 1 ELSE 0)
  BY <1>1, TimesAppend, TimesPrepend
<1>4. /\ g.state = [h.state EXCEPT ![t] = s] /\ g.awaiter = h.awaiter /\ g.freed = h.freed
      /\ g.queue = q /\ g.should_poll = h.should_poll /\ g.woken = h.woken
  BY <1>1 DEF schedule, Heaps
<1>5. g \in Heaps
  <2>1. g = [[h EXCEPT !.state = [h.state EXCEPT ![t] = s]] EXCEPT !.queue = q]
    BY DEF schedule, Heaps
  <2>2. [h.state EXCEPT ![t] = s] \in [Tasks -> P!Word]
    BY <1>1, <1>2
  <2> HIDE DEF g, q, s
  <2> QED  BY <1>3, <2>1, <2>2 DEF Heaps
<1> HIDE DEF g, q, s
<1>6. \A u : Times(h.queue, u) \in Nat
  BY HeapFields
<1>7. Effect(h, g, t, s, 1, FALSE, FALSE)
  BY <1>1, <1>3, <1>4 DEF Effect
<1>8. \A u \in Tasks \ {t} : Beside(h, g, u)
  BY <1>1, <1>3, <1>4, <1>6 DEF Beside
<1>9. OnTask(h, g, t, s, 1, FALSE, FALSE)
  BY <1>4, <1>5, <1>7, <1>8 DEF OnTask
<1> QED  BY <1>9 DEF g, s

LEMMA DropsTask ==
  ASSUME NEW h \in Heaps, NEW t \in Tasks
  PROVE  OnTask(h, drop_task_ref(h, t), t, decr_ref(h.state[t]), 0,
                decr_ref(h.state[t]).refs = 0, FALSE)
<1> DEFINE s == decr_ref(h.state[t])
           g == [h EXCEPT !.state[t] = s]
<1>1. h.state \in [Tasks -> P!Word] /\ s \in P!Word
  BY HeapFields, WordsKept
<1>2. OnTask(h, g, t, s, 0, FALSE, FALSE)
  BY <1>1, SetState
<1>3. drop_task_ref(h, t) = IF s.refs = 0 THEN [g EXCEPT !.freed = @ \union {t}] ELSE g
  <2>1. drop_task_ref(h, t) = IF g.state[t].refs = 0 THEN [g EXCEPT !.freed = @ \union {t}] ELSE g
    BY <1>1 DEF drop_task_ref, destroy, Heaps
  <2> QED  BY <1>2, <2>1 DEF OnTask, Effect
<1> HIDE DEF g, s
<1> QED  BY <1>2, <1>3, HeapFields DEF OnTask, Effect, Beside, s, Heaps

LEMMA ClonesWaker ==
  ASSUME NEW h \in Heaps, NEW f \in Futures
  PROVE  /\ f = Root => clone_waker(h, f) = h
         /\ f # Root => OnTask(h, clone_waker(h, f), f, incr_ref(h.state[f]), 0, FALSE, FALSE)
<1>1. CASE f # Root
  <2>1. f \in Tasks /\ incr_ref(h.state[f]) \in P!Word
    BY <1>1, HeapFields, WordsKept DEF Futures
  <2>2. clone_waker(h, f) = [h EXCEPT !.state[f] = incr_ref(h.state[f])]
    BY <1>1 DEF clone_waker
  <2> DEFINE s == incr_ref(h.state[f])
  <2> HIDE DEF s
  <2>3. s \in P!Word  BY <2>1 DEF s
  <2>4. OnTask(h, [h EXCEPT !.state[f] = s], f, s, 0, FALSE, FALSE)
    BY <2>1, <2>3, SetState
  <2> QED  BY <1>1, <2>2, <2>4 DEF s
<1> QED  BY <1>1 DEF clone_waker

LEMMA DropsWaker ==
  ASSUME NEW h \in Heaps, NEW f \in Futures
  PROVE  LET g == drop_the_waker(h, f) IN
         /\ f = Root => g = h
         /\ f # Root =>
              /\ g \in Heaps /\ g.awaiter = h.awaiter /\ g.should_poll = h.should_poll
              /\ Dropped(h, g, f)
              /\ \A u \in Tasks \ {f} : Beside(h, g, u)
<1>1. CASE f # Root
  <2> DEFINE r == drop_waker(h.state[f])
             g == [h EXCEPT !.state[f] = r.state]
             k == drop_the_waker(h, f)
  <2>1. f \in Tasks /\ r.state \in P!Word /\ r.action \in {"Destroy", "Schedule", "DoNothing"}
    BY <1>1, HeapFields, WordsKept DEF Futures
  <2>2. OnTask(h, g, f, r.state, 0, FALSE, FALSE)
    BY <2>1, SetState
  <2>3. /\ r.action = "Destroy" => k = [g EXCEPT !.freed = @ \union {f}]
        /\ r.action = "Schedule" => k = schedule(g, f, FALSE)
        /\ r.action = "DoNothing" => k = g
    BY <1>1 DEF drop_the_waker, destroy
  <2> HIDE DEF r, g, k
  <2>4. g \in Heaps /\ g.state[f] = r.state /\ \A u : Times(g.queue, u) \in Nat
    <3>1. g \in Heaps /\ g.state[f] = r.state
      BY <2>2 DEF OnTask, Effect
    <3> QED  BY <3>1, HeapFields
  <2>5. CASE r.action = "Destroy"
    <3>1. /\ k \in Heaps /\ k.awaiter = g.awaiter /\ k.should_poll = g.should_poll
          /\ k.state = g.state /\ k.queue = g.queue /\ k.woken = g.woken
          /\ k.freed = g.freed \union {f}
      BY <2>1, <2>3, <2>4, <2>5 DEF Heaps
    <3>2. Effect(h, k, f, r.state, 0, TRUE, FALSE) /\ \A u \in Tasks \ {f} : Beside(h, k, u)
      BY <2>1, <2>2, <3>1 DEF OnTask, Effect, Beside
    <3>3. Dropped(h, k, f)
      BY <2>5, <3>2 DEF Dropped, r
    <3> QED  BY <1>1, <2>2, <3>1, <3>2, <3>3 DEF OnTask, k
  <2>6. CASE r.action = "Schedule"
    <3>1. OnTask(g, k, f, incr_ref(r.state), 1, FALSE, FALSE)
      <4>1. OnTask(g, schedule(g, f, FALSE), f, incr_ref(g.state[f]), 1, FALSE, FALSE)
        BY <2>1, <2>4, Schedules
      <4> QED  BY <2>3, <2>4, <2>6, <4>1
    <3>2. \A u : Times(h.queue, u) \in Nat
      BY HeapFields
    <3>3. Effect(h, k, f, incr_ref(r.state), 1, FALSE, FALSE)
      BY <2>1, <2>2, <3>1, <3>2 DEF OnTask, Effect
    <3>4. \A u \in Tasks \ {f} : Beside(h, k, u)
      BY <2>2, <3>1 DEF OnTask, Beside
    <3>5. Dropped(h, k, f)
      BY <2>6, <3>3 DEF Dropped, r
    <3> QED  BY <1>1, <2>2, <3>1, <3>4, <3>5 DEF OnTask, k
  <2>7. CASE r.action = "DoNothing"
    <3>1. Dropped(h, k, f)
      BY <2>2, <2>3, <2>7 DEF Dropped, r, OnTask
    <3> QED  BY <1>1, <2>2, <2>3, <2>7, <3>1 DEF OnTask, k
  <2> QED  BY <2>1, <2>5, <2>6, <2>7
<1> QED  BY <1>1 DEF drop_the_waker

LEMMA Wakes ==
  ASSUME NEW h \in Heaps, NEW f \in Futures
  PROVE  LET k == do_wake(h, f) IN
         /\ k \in Heaps /\ k.awaiter = h.awaiter
         /\ k.should_poll = (h.should_poll \/ f = Root)
         /\ f # Root => Woken(h, k, f)
         /\ \A u \in Tasks \ {f} : Beside(h, k, u)
<1> DEFINE r == transition_to_scheduled(h.state[f])
           g == [h EXCEPT !.state[f] = r.state, !.woken = @ \union {f}]
           i == [h EXCEPT !.state[f] = r.state]
           k == do_wake(h, f)
<1>1. CASE f = Root
  <2>1. k = [h EXCEPT !.should_poll = TRUE]
    BY <1>1 DEF do_wake
  <2> HIDE DEF k
  <2>2. /\ k \in Heaps /\ k.awaiter = h.awaiter /\ k.state = h.state /\ k.queue = h.queue
        /\ k.freed = h.freed /\ k.woken = h.woken /\ k.should_poll = TRUE
    BY <2>1 DEF Heaps
  <2> QED  BY <1>1, <2>2 DEF Beside, k
<1>2. CASE f # Root
  <2>1. f \in Tasks /\ r.state \in P!Word
    BY <1>2, HeapFields, WordsKept DEF Futures
  <2>2. OnTask(h, i, f, r.state, 0, FALSE, FALSE)
    BY <2>1, SetState
  <2>3. g = [i EXCEPT !.woken = @ \union {f}]
    BY DEF Heaps
  <2>4. k = IF r.action = "Submit" THEN schedule(g, f, FALSE) ELSE g
    BY <1>2 DEF do_wake
  <2> HIDE DEF r, g, i, k
  <2>5. /\ g \in Heaps /\ g.awaiter = i.awaiter /\ g.should_poll = i.should_poll
        /\ g.state = i.state /\ g.queue = i.queue /\ g.freed = i.freed
        /\ g.woken = i.woken \union {f} /\ i \in Heaps
    BY <2>1, <2>2, <2>3 DEF OnTask, Heaps
  <2>6. OnTask(h, g, f, r.state, 0, FALSE, TRUE)
    BY <2>1, <2>2, <2>5 DEF OnTask, Effect, Beside
  <2>7. CASE r.action = "Submit"
    <3>1. OnTask(g, k, f, incr_ref(r.state), 1, FALSE, FALSE)
      <4>1. OnTask(g, schedule(g, f, FALSE), f, incr_ref(g.state[f]), 1, FALSE, FALSE)
        BY <2>1, <2>5, Schedules
      <4>2. g.state[f] = r.state
        BY <2>6 DEF OnTask, Effect
      <4> QED  BY <2>4, <2>7, <4>1, <4>2
    <3>2. \A u : Times(h.queue, u) \in Nat
      BY HeapFields
    <3>3. Effect(h, k, f, incr_ref(r.state), 1, FALSE, TRUE)
      BY <2>1, <2>6, <3>1, <3>2 DEF OnTask, Effect
    <3>4. \A u \in Tasks \ {f} : Beside(h, k, u)
      BY <2>6, <3>1 DEF OnTask, Beside
    <3>5. Woken(h, k, f)
      BY <2>7, <3>3 DEF Woken, r
    <3>6. k \in Heaps /\ k.awaiter = h.awaiter /\ k.should_poll = h.should_poll
      BY <2>6, <3>1 DEF OnTask
    <3>7. h.should_poll \in BOOLEAN
      BY HeapFields
    <3> QED  BY <1>2, <3>4, <3>5, <3>6, <3>7 DEF k
  <2>8. CASE r.action # "Submit"
    <3>1. Woken(h, k, f)
      BY <2>4, <2>6, <2>8 DEF Woken, r, OnTask
    <3>2. h.should_poll \in BOOLEAN
      BY HeapFields
    <3> QED  BY <1>2, <2>4, <2>6, <2>8, <3>1, <3>2 DEF OnTask, k
  <2> QED  BY <2>7, <2>8
<1> QED  BY <1>1, <1>2

LEMMA WakesByVal ==
  ASSUME NEW h \in Heaps, NEW f \in Futures
  PROVE  LET k == wake_by_val(h, f) IN
         /\ k \in Heaps /\ k.awaiter = h.awaiter
         /\ k.should_poll = (h.should_poll \/ f = Root)
         /\ f # Root => WokenByVal(h, k, f)
         /\ \A u \in Tasks \ {f} : Beside(h, k, u)
<1> DEFINE g == do_wake(h, f)
           k == drop_the_waker(g, f)
<1>1. wake_by_val(h, f) = k
  BY DEF wake_by_val
<1>2. /\ g \in Heaps /\ g.awaiter = h.awaiter
      /\ g.should_poll = (h.should_poll \/ f = Root)
      /\ f # Root => Woken(h, g, f)
      /\ \A u \in Tasks \ {f} : Beside(h, g, u)
  BY Wakes
<1> HIDE DEF g
<1>3. /\ f = Root => k = g
      /\ f # Root =>
           /\ k \in Heaps /\ k.awaiter = g.awaiter /\ k.should_poll = g.should_poll
           /\ Dropped(g, k, f)
           /\ \A u \in Tasks \ {f} : Beside(g, k, u)
  BY <1>2, DropsWaker
<1> HIDE DEF k
<1>4. /\ k \in Heaps /\ k.awaiter = h.awaiter
      /\ k.should_poll = (h.should_poll \/ f = Root)
  BY <1>2, <1>3
<1>5. \A u \in Tasks \ {f} : Beside(h, k, u)
  BY <1>2, <1>3 DEF Beside
<1>6. ASSUME f # Root
      PROVE  WokenByVal(h, k, f)
  <2> DEFINE r == transition_to_scheduled(h.state[f])
             submit == r.action = "Submit"
             s == IF submit THEN incr_ref(r.state) ELSE r.state
             d == drop_waker(s)
             m == IF submit THEN 1 ELSE 0
             n == IF d.action = "Schedule" THEN 1 ELSE 0
             z == IF d.action = "Schedule" THEN incr_ref(d.state) ELSE d.state
  <2>1. Effect(h, g, f, s, m, FALSE, TRUE)
    BY <1>2, <1>6 DEF Woken
  <2>2. Effect(g, k, f, z, n, d.action = "Destroy", FALSE)
    <3>1. g.state[f] = s
      BY <2>1 DEF Effect
    <3> HIDE DEF s
    <3> QED  BY <1>3, <1>6, <3>1 DEF Dropped
  <2>3. m \in Int /\ n \in Int
    OBVIOUS
  <2>4. \A u : Times(h.queue, u) \in Nat
    BY HeapFields
  <2> HIDE DEF m, n, s, z, d
  <2>5. Effect(h, k, f, z, m + n, d.action = "Destroy", TRUE)
    BY <2>1, <2>2, <2>3, <2>4 DEF Effect
  <2> QED  BY <2>5 DEF WokenByVal, m, n, s, z, d
<1> QED  BY <1>1, <1>4, <1>5, <1>6

(***************************************************************************)
(* Waking the awaiter of t, which is another task: the word of t itself is *)
(* left alone.                                                             *)
(***************************************************************************)
LEMMA Notifies ==
  ASSUME NEW h \in Heaps, NEW t \in Tasks
  PROVE  LET k == notify(h, t)
             f == h.awaiter[t]
         IN
         /\ k \in Heaps /\ k.awaiter = [h.awaiter EXCEPT ![t] = None]
         /\ k.should_poll = (h.should_poll \/ f = Root)
         /\ f \in Tasks => WokenByVal(h, k, f)
         /\ \A u \in Tasks \ {f} : Beside(h, k, u)
<1> DEFINE f == h.awaiter[t]
           g == [h EXCEPT !.awaiter[t] = None]
           k == notify(h, t)
<1>1. /\ f \in Futures \union {None} /\ h.should_poll \in BOOLEAN
      /\ h.awaiter \in [Tasks -> Futures \union {None}]
  BY HeapFields
<1>2. CASE f = None
  <2>1. k = h /\ f # Root /\ f \notin Tasks
    BY <1>2, TasksType DEF notify, Futures
  <2>2. [h.awaiter EXCEPT ![t] = None] = h.awaiter
    BY <1>1, <1>2
  <2> QED  BY <1>1, <2>1, <2>2 DEF Beside
<1>3. CASE f # None
  <2>1. f \in Futures /\ k = wake_by_val(g, f)
    BY <1>1, <1>3 DEF notify
  <2>2. /\ g \in Heaps /\ g.awaiter = [h.awaiter EXCEPT ![t] = None]
        /\ g.state = h.state /\ g.queue = h.queue /\ g.freed = h.freed
        /\ g.should_poll = h.should_poll /\ g.woken = h.woken
    BY SetAwaiter
  <2> HIDE DEF g, k, f
  <2>3. /\ k \in Heaps /\ k.awaiter = g.awaiter
        /\ k.should_poll = (g.should_poll \/ f = Root)
        /\ f # Root => WokenByVal(g, k, f)
        /\ \A u \in Tasks \ {f} : Beside(g, k, u)
    BY <2>1, <2>2, WakesByVal
  <2>4. f \in Tasks => WokenByVal(h, k, f)
    BY <2>2, <2>3, TasksType DEF WokenByVal, Effect
  <2>5. \A u \in Tasks \ {f} : Beside(h, k, u)
    BY <2>2, <2>3 DEF Beside
  <2> QED  BY <2>2, <2>3, <2>4, <2>5 DEF f, k
<1> QED  BY <1>2, <1>3

(* The same without the wake, for a future that polls t itself *)
LEMMA NotifiesUnless ==
  ASSUME NEW h \in Heaps, NEW t \in Tasks, NEW f \in Futures, h.awaiter[t] \in {None, f}
  PROVE  LET k == notify_unless(h, t, f) IN
         /\ k \in Heaps /\ k.awaiter = [h.awaiter EXCEPT ![t] = None]
         /\ k.should_poll = h.should_poll
         /\ h.awaiter[t] = None => \A u \in Tasks : Beside(h, k, u)
         /\ h.awaiter[t] = f /\ f \in Tasks => Dropped(h, k, f)
         /\ \A u \in Tasks \ {f} : Beside(h, k, u)
<1> DEFINE g == [h EXCEPT !.awaiter[t] = None]
           k == notify_unless(h, t, f)
<1>1. h.awaiter \in [Tasks -> Futures \union {None}] /\ None \notin Futures
  BY HeapFields, TasksType
<1>2. CASE h.awaiter[t] = None
  <2>1. k = h
    BY <1>1, <1>2 DEF notify_unless, notify
  <2>2. [h.awaiter EXCEPT ![t] = None] = h.awaiter
    BY <1>1, <1>2
  <2> QED  BY <1>1, <1>2, <2>1, <2>2 DEF Beside
<1>3. CASE h.awaiter[t] = f
  <2>1. k = drop_the_waker(g, f)
    BY <1>3 DEF notify_unless
  <2>2. /\ g \in Heaps /\ g.awaiter = [h.awaiter EXCEPT ![t] = None]
        /\ g.state = h.state /\ g.queue = h.queue /\ g.freed = h.freed
        /\ g.should_poll = h.should_poll /\ g.woken = h.woken
    BY SetAwaiter
  <2> HIDE DEF g, k
  <2>3. /\ f = Root => k = g
        /\ f # Root =>
             /\ k \in Heaps /\ k.awaiter = g.awaiter /\ k.should_poll = g.should_poll
             /\ Dropped(g, k, f)
             /\ \A u \in Tasks \ {f} : Beside(g, k, u)
    BY <2>1, <2>2, DropsWaker
  <2>4. f \in Tasks => Dropped(h, k, f)
    BY <2>2, <2>3, TasksType DEF Dropped, Effect
  <2>5. \A u \in Tasks \ {f} : Beside(h, k, u)
    BY <2>2, <2>3 DEF Beside
  <2> QED  BY <1>1, <1>3, <2>2, <2>3, <2>4, <2>5 DEF k
<1> QED  BY <1>2, <1>3

(***************************************************************************)
(* Registering with t the waker of f, which is there already or is cloned: *)
(* a clone that takes the place of another changes nothing.                *)
(***************************************************************************)
LEMMA Registers ==
  ASSUME NEW h \in Heaps, NEW t \in Tasks, NEW f \in Futures, h.awaiter[t] \in {None, f},
         f \in Tasks => h.state[f].refs >= 1
  PROVE  LET k == register(h, t, f) IN
         /\ k \in Heaps /\ k.awaiter = [h.awaiter EXCEPT ![t] = f]
         /\ k.should_poll = h.should_poll
         /\ h.awaiter[t] = None /\ f \in Tasks =>
              Effect(h, k, f, incr_ref(h.state[f]), 0, FALSE, FALSE)
         /\ h.awaiter[t] = f => \A u \in Tasks : Beside(h, k, u)
         /\ \A u \in Tasks \ {f} : Beside(h, k, u)
<1> DEFINE c == clone_waker(h, f)
           g == [c EXCEPT !.awaiter[t] = f]
           k == register(h, t, f)
<1>1. /\ h.awaiter \in [Tasks -> Futures \union {None}] /\ None \notin Futures
      /\ h.state \in [Tasks -> P!Word] /\ \A u : Times(h.queue, u) \in Nat
  BY HeapFields, TasksType
<1>2. /\ c \in Heaps /\ c.awaiter = h.awaiter /\ c.should_poll = h.should_poll
      /\ f = Root => c = h
      /\ f # Root => Effect(h, c, f, incr_ref(h.state[f]), 0, FALSE, FALSE)
      /\ \A u \in Tasks \ {f} : Beside(h, c, u)
  BY ClonesWaker DEF OnTask, Beside
<1>3. k = IF h.awaiter[t] = None THEN g ELSE drop_the_waker(g, h.awaiter[t])
  BY DEF register
<1> HIDE DEF c
<1>4. /\ g \in Heaps /\ g.awaiter = [c.awaiter EXCEPT ![t] = f]
      /\ g.state = c.state /\ g.queue = c.queue /\ g.freed = c.freed
      /\ g.should_poll = c.should_poll /\ g.woken = c.woken
  BY <1>2, SetAwaiter
<1> HIDE DEF g, k
<1>5. CASE h.awaiter[t] = None
  <2>1. k = g /\ h.awaiter[t] # f
    BY <1>1, <1>3, <1>5
  <2>2. f \in Tasks => Effect(h, k, f, incr_ref(h.state[f]), 0, FALSE, FALSE)
    BY <1>2, <1>4, <2>1, TasksType DEF Effect
  <2>3. \A u \in Tasks \ {f} : Beside(h, k, u)
    BY <1>2, <1>4, <2>1 DEF Beside
  <2> QED  BY <1>2, <1>4, <2>1, <2>2, <2>3 DEF k
<1>6. CASE h.awaiter[t] = f
  <2>1. k = drop_the_waker(g, f) /\ h.awaiter[t] # None
    BY <1>1, <1>3, <1>6
  <2>2. /\ f = Root => k = g
        /\ f # Root =>
             /\ k \in Heaps /\ k.awaiter = g.awaiter /\ k.should_poll = g.should_poll
             /\ Dropped(g, k, f)
             /\ \A u \in Tasks \ {f} : Beside(g, k, u)
    BY <1>4, <2>1, DropsWaker
  <2>3. \A u \in Tasks \ {f} : Beside(h, k, u)
    BY <1>2, <1>4, <2>2 DEF Beside
  <2>4. ASSUME f \in Tasks
        PROVE  Beside(h, k, f)
    <3> DEFINE s == h.state[f]
               r == drop_waker(incr_ref(s))
    <3>1. f # Root /\ s \in P!Word /\ s.refs >= 1
      BY <1>1, <2>4, TasksType
    <3>2. g.state[f] = incr_ref(s)
      BY <1>2, <1>4, <3>1 DEF Effect
    <3>3. r.action = "DoNothing" /\ r.state = s
      <4> HIDE DEF s
      <4>1. decr_ref(incr_ref(s)) = s /\ s.refs # 0
        <5>1. PICK b \in SUBSET P!STATE_MASK, n \in Int : s = [bits |-> b, refs |-> n]
          BY <3>1 DEF P!Word
        <5>2. incr_ref(s) = [bits |-> b, refs |-> n + 1]
          BY <5>1 DEF incr_ref
        <5>3. decr_ref(incr_ref(s)) = [bits |-> b, refs |-> (n + 1) - 1]
          BY <5>2 DEF decr_ref
        <5>4. (n + 1) - 1 = n /\ s.refs # 0
          BY <3>1
        <5> QED  BY <5>1, <5>3, <5>4
      <4>2. r = Then(decr_ref(incr_ref(s)), "DoNothing")
        BY <4>1 DEF drop_waker
      <4> QED  BY <4>1, <4>2 DEF Then
    <3>4. Effect(g, k, f, s, 0, FALSE, FALSE)
      <4>1. Dropped(g, k, f)
        BY <2>2, <3>1
      <4> HIDE DEF s
      <4> QED  BY <3>2, <3>3, <4>1 DEF Dropped
    <3>5. Effect(h, g, f, incr_ref(s), 0, FALSE, FALSE)
      BY <1>2, <1>4, <3>1 DEF Effect
    <3> QED  BY <1>1, <3>4, <3>5 DEF Effect, Beside
  <2> QED  BY <1>2, <1>4, <2>1, <2>2, <2>3, <2>4 DEF k
<1> QED  BY <1>5, <1>6

-----------------------------------------------------------------------------
(* The inductive invariant *)

Typed ==
  /\ heap \in Heaps
  /\ handle \in [Tasks -> {"unspawned", "held", "dropped"}]
  /\ output \in [Tasks -> {"none", "stored", "moved"}]
  /\ drops \in [Tasks -> Nat]
  /\ result \in [Tasks -> {"pending", "some", "none"}]
  /\ cancelled \subseteq Tasks /\ channel \subseteq Futures
  /\ yields \in [Futures -> 0..MaxYields]
  /\ pc \in Places /\ max_round \in Nat
  /\ current \in Futures \union {None}
  /\ phase \in {"idle", "polling", "completing", "dropping"}
  /\ fault \in [Tasks -> Panics \union {"none"}]

(* Where the loop is while it polls a future or drops one *)
Loop ==
  /\ current = None <=> phase = "idle"
  /\ current \in Tasks => pc = "tasks"
  /\ current = Root => pc = "root" /\ phase # "dropping"

(***************************************************************************)
(* Who spawned whom is a tree below the root: of any tasks that were       *)
(* spawned, one was spawned by none of them.  A task is awaited only by    *)
(* the future that spawned it.                                             *)
(***************************************************************************)
Family ==
  /\ \A t \in Tasks : heap.awaiter[t] \in {None, Owner[t]}
  /\ \A t \in Tasks : handle[t] = "unspawned" => View(t) = P!NewTask
  /\ \A t \in Tasks : handle[t] # "unspawned" /\ Owner[t] \in Tasks
                        => handle[Owner[t]] # "unspawned"
  /\ \A S \in SUBSET Tasks : S # {} /\ (\A t \in S : handle[t] # "unspawned")
                               => \E t \in S : Owner[t] \notin S

(* Each task is what AwaitProofs says of a task. *)
EachTask ==
  \A t \in Tasks : View(t) \in P!TaskRecord /\ P!AInv(View(t)) /\ P!Explained(View(t))

(* A future that was dropped holds no handles any more. *)
Bereft ==
  /\ \A t \in Tasks : drops[t] > 0 /\ current # t => \A u \in Children(t) : handle[u] # "held"
  /\ pc = "returned" => \A u \in Children(Root) : handle[u] # "held"

(* A panic ends the program while a future is polled or dropped, or popped. *)
Panicked == (\E t \in Tasks : fault[t] # "none") => pc \in {"tasks", "root"}

(***************************************************************************)
(* Whoever is asleep has left its waker in the channel or with a task that *)
(* it awaits.  The root is asleep when should_poll is not set.             *)
(***************************************************************************)
Awaited(t) == handle[t] = "held" /\ result[t] = "pending" /\ heap.awaiter[t] = Owner[t]

Waits(f) == f \in channel \/ \E t \in Children(f) : Awaited(t)

Sleepers ==
  /\ \A t \in Tasks : P!Asleep(View(t)) => Waits(t)
  /\ ~heap.should_poll /\ current # Root /\ pc # "returned" => Waits(Root)

(* When futures only await, they drop a handle once it was answered. *)
OnlyAwaits ==
  Client \subseteq {"yield_forever"} =>
    /\ cancelled = {} /\ channel = {} /\ phase # "dropping"
    /\ \A t \in Tasks : handle[t] = "dropped" => result[t] # "pending"
    /\ \A t \in Tasks : heap.awaiter[t] # None => Awaited(t)
    /\ phase = "completing" =>
         \A t \in Children(current) : handle[t] = "held" => result[t] # "pending"

Inv ==
  /\ Typed /\ Loop /\ Family /\ EachTask /\ Bereft /\ Panicked /\ Sleepers /\ OnlyAwaits

-----------------------------------------------------------------------------
(* A task, seen through the variables it is spread over *)

LEMMA ViewFields ==
  ASSUME NEW u \in Tasks, heap \in Heaps
  PROVE  /\ P!Shaped(View(u))
         /\ View(u).state = heap.state[u]
         /\ View(u).awaiter = (heap.awaiter[u] # None)
         /\ View(u).memory = (IF u \in heap.freed THEN "freed" ELSE "live")
         /\ View(u).output = output[u] /\ View(u).drops = drops[u]
         /\ View(u).runnables = Times(heap.queue, u) /\ View(u).runnables \in Nat
         /\ View(u).phase = (IF current = u THEN phase ELSE "idle")
         /\ View(u).wakers = Times(heap.awaiter, u) + (IF u \in channel THEN 1 ELSE 0)
         /\ View(u).handle = (IF handle[u] = "dropped" THEN "dropped" ELSE "held")
         /\ View(u).result = result[u] /\ View(u).cancelled = (u \in cancelled)
         /\ View(u).woken = (u \in heap.woken)
         /\ View(u).executor = "up" /\ View(u).fault = fault[u]
<1>1. P!Shaped(View(u))
  BY DEF View, P!Shaped, P!NewTask
<1>2. heap.awaiter \in [Tasks -> Futures \union {None}] /\ Times(heap.queue, u) \in Nat
  BY HeapFields
<1> QED  BY <1>1, <1>2, CountsAreTimes DEF View

LEMMA NextViewFields ==
  ASSUME NEW u \in Tasks, heap' \in Heaps
  PROVE  /\ P!Shaped(View(u)')
         /\ View(u)'.state = heap'.state[u]
         /\ View(u)'.awaiter = (heap'.awaiter[u] # None)
         /\ View(u)'.memory = (IF u \in heap'.freed THEN "freed" ELSE "live")
         /\ View(u)'.output = output'[u] /\ View(u)'.drops = drops'[u]
         /\ View(u)'.runnables = Times(heap'.queue, u) /\ View(u)'.runnables \in Nat
         /\ View(u)'.phase = (IF current' = u THEN phase' ELSE "idle")
         /\ View(u)'.wakers = Times(heap'.awaiter, u) + (IF u \in channel' THEN 1 ELSE 0)
         /\ View(u)'.handle = (IF handle'[u] = "dropped" THEN "dropped" ELSE "held")
         /\ View(u)'.result = result'[u] /\ View(u)'.cancelled = (u \in cancelled')
         /\ View(u)'.woken = (u \in heap'.woken)
         /\ View(u)'.executor = "up" /\ View(u)'.fault = fault'[u]
<1>1. P!Shaped(View(u)')
  BY DEF View, P!Shaped, P!NewTask
<1>2. heap'.awaiter \in [Tasks -> Futures \union {None}] /\ Times(heap'.queue, u) \in Nat
  BY HeapFields
<1>3. Queued(u)' = Times(heap'.queue, u)
  BY DEF Queued, Times, Spots
<1>4. Wakers(u)' = Times(heap'.awaiter, u) + (IF u \in channel' THEN 1 ELSE 0)
  BY <1>2 DEF Wakers, Times, Spots
<1> QED  BY <1>1, <1>2, <1>3, <1>4 DEF View

(* The parts of a task that are not on the heap *)
Calls(u) ==
  <<output[u], drops[u], result[u], fault[u], handle[u] = "dropped", u \in cancelled>>

(* Its awaiter and its phase; and its waker clones *)
Bound(u) == <<heap.awaiter[u] # None, IF current = u THEN phase ELSE "idle">>
Clones(u) == Times(heap.awaiter, u) + (IF u \in channel THEN 1 ELSE 0)

LEMMA SameCalls ==
  ASSUME NEW u \in Tasks, heap \in Heaps, heap' \in Heaps, UNCHANGED Calls(u),
         UNCHANGED Bound(u)
  PROVE  /\ View(u)'.output = View(u).output /\ View(u)'.drops = View(u).drops
         /\ View(u)'.result = View(u).result /\ View(u)'.fault = View(u).fault
         /\ View(u)'.handle = View(u).handle /\ View(u)'.cancelled = View(u).cancelled
         /\ View(u)'.awaiter = View(u).awaiter /\ View(u)'.phase = View(u).phase
         /\ View(u)'.executor = View(u).executor
<1>1. /\ output'[u] = output[u] /\ drops'[u] = drops[u] /\ result'[u] = result[u]
      /\ fault'[u] = fault[u] /\ (handle'[u] = "dropped" <=> handle[u] = "dropped")
      /\ u \in cancelled' <=> u \in cancelled
      /\ (heap'.awaiter[u] # None) <=> (heap.awaiter[u] # None)
      /\ (IF current' = u THEN phase' ELSE "idle") = (IF current = u THEN phase ELSE "idle")
  BY DEF Calls, Bound
<1> QED  BY <1>1, ViewFields, NextViewFields

LEMMA ClonesAre ==
  ASSUME NEW u \in Tasks, heap \in Heaps, heap' \in Heaps
  PROVE  View(u).wakers = Clones(u) /\ View(u)'.wakers = Clones(u)'
<1>1. Clones(u)' = Times(heap'.awaiter, u) + (IF u \in channel' THEN 1 ELSE 0)
  BY DEF Clones, Times, Spots
<1> QED  BY <1>1, ViewFields, NextViewFields DEF Clones

LEMMA Untouched ==
  ASSUME NEW u \in Tasks, heap \in Heaps, heap' \in Heaps, Beside(heap, heap', u),
         UNCHANGED Calls(u), UNCHANGED Bound(u), UNCHANGED Clones(u)
  PROVE  View(u)' = View(u)
<1>1. /\ View(u)'.state = View(u).state /\ View(u)'.runnables = View(u).runnables
      /\ View(u)'.memory = View(u).memory /\ View(u)'.woken = View(u).woken
  BY ViewFields, NextViewFields DEF Beside
<1>2. \A f \in DOMAIN P!NewTask : View(u)'[f] = View(u)[f]
  BY <1>1, SameCalls, ClonesAre DEF P!NewTask
<1> QED  BY <1>2, ViewFields, NextViewFields DEF P!Shaped

-----------------------------------------------------------------------------
(* What a step does to the tasks *)

(* The invariant of each task and of who spawned whom, before a step *)
Ready == Typed /\ Loop /\ Family /\ EachTask /\ \A t \in Tasks : fault[t] = "none"

Rouses(f) == IF f = Root THEN heap'.should_poll ELSE f \in heap'.woken

(***************************************************************************)
(* A step of the executor is a step of each task it changes.  A header     *)
(* changes its awaiter when the awaiter polls, or loses it in a wake.      *)
(***************************************************************************)
Moved ==
  /\ heap' \in Heaps
  /\ \A u \in Tasks :
       View(u)' = View(u) \/ (handle[u] # "unspawned" /\ P!Step(View(u), View(u)'))
  /\ \A u \in Tasks :
       \/ heap'.awaiter[u] = heap.awaiter[u]
       \/ /\ heap'.awaiter[u] \in {None, Owner[u]} /\ handle[u] # "unspawned"
          /\ current = Owner[u] \/ Rouses(heap.awaiter[u])
  /\ heap.should_poll => heap'.should_poll \/ current' = Root

LEMMA TaskFacts ==
  ASSUME Ready, NEW u \in Tasks
  PROVE  /\ heap \in Heaps /\ View(u) \in P!TaskRecord /\ P!IInv(View(u)) /\ P!Counts(View(u))
         /\ View(u).fault = "none" /\ View(u).executor = "up" /\ P!Shaped(View(u))
         /\ heap.state[u] \in P!Word /\ View(u).state = heap.state[u]
         /\ View(u).wakers \in Nat /\ View(u).runnables \in Nat
         /\ u # Root /\ u # None /\ u \in Futures
<1>1. /\ heap \in Heaps /\ View(u) \in P!TaskRecord /\ P!IInv(View(u)) /\ fault[u] = "none"
  BY DEF Ready, Typed, EachTask, P!AInv
<1>2. P!Counts(View(u))
  BY <1>1, Constants, P!Counted
<1>3. View(u).wakers \in Nat /\ View(u).runnables \in Nat
  BY <1>2 DEF P!Counts
<1> QED  BY <1>1, <1>2, <1>3, ViewFields, HeapFields, TasksType DEF Futures

(* Whom anybody knows of was spawned, and not by itself. *)
LEMMA Known ==
  ASSUME Ready, NEW u \in Tasks
  PROVE  /\ \/ current = u \/ View(u).wakers > 0 \/ View(u).runnables > 0 \/ u \in channel
            \/ \E t \in Tasks : heap.awaiter[t] = u
            => handle[u] # "unspawned"
         /\ handle[u] # "unspawned" => Owner[u] # u
<1> DEFINE n == Times(heap.awaiter, u)
           c == IF u \in channel THEN 1 ELSE 0
           v == View(u)
<1>1. v.wakers = n + c /\ v.phase = (IF current = u THEN phase ELSE "idle")
  BY TaskFacts, ViewFields
<1>2. n \in Nat /\ ((\E t \in Tasks : heap.awaiter[t] = u) <=> n > 0)
  BY TaskFacts, HeapFields, TimesHeld
<1>3. current = u => phase # "idle"
  BY TaskFacts DEF Ready, Loop
<1>4. handle[u] = "unspawned" => v.phase = "idle" /\ v.wakers = 0 /\ v.runnables = 0
  BY DEF Ready, Family, P!NewTask
<1>5. handle[u] # "unspawned" => Owner[u] # u
  <2>1. {u} \in SUBSET Tasks /\ {u} # {}
    OBVIOUS
  <2>2. (\A t \in {u} : handle[t] # "unspawned") => \E t \in {u} : Owner[t] \notin {u}
    BY <2>1 DEF Ready, Family
  <2> QED  BY <2>2
<1> HIDE DEF n, v
<1>6. c \in Nat /\ (u \in channel => c > 0)
  OBVIOUS
<1> HIDE DEF c
<1> QED  BY <1>1, <1>2, <1>3, <1>4, <1>5, <1>6 DEF v, n

(* Steps of the loop, and those that only say who polls what *)
LEMMA QuietSteps ==
  ASSUME Ready,
         \/ QueueDrained \/ SkipRoot \/ Park \/ Submit \/ RootPending \/ Return
         \/ \E t \in Tasks : Spawn(t)
  PROVE  Moved
<1>1. heap' = heap /\ heap \in Heaps
  BY DEF Ready, Typed, QueueDrained, SkipRoot, Park, Submit, Turn, RootPending, Return, Spawn
<1>2. ASSUME NEW u \in Tasks
      PROVE  View(u)' = View(u)
  <2>1. UNCHANGED Calls(u)
    <3>1. CASE \E t \in Tasks : Spawn(t)
      BY <3>1 DEF Spawn, Calls, Ready, Typed
    <3>2. CASE QueueDrained \/ SkipRoot \/ Park \/ Submit \/ RootPending \/ Return
      BY <3>2 DEF QueueDrained, SkipRoot, Park, Submit, Turn, RootPending, Return, Calls,
         clientVars
    <3> QED  BY <3>1, <3>2
  <2>2. channel' = channel
    BY DEF QueueDrained, SkipRoot, Park, Submit, Turn, RootPending, Return, Spawn, clientVars
  <2>3. (IF current' = u THEN phase' ELSE "idle") = (IF current = u THEN phase ELSE "idle")
    BY TasksType DEF QueueDrained, SkipRoot, Park, Submit, Turn, RootPending, Return, Spawn,
       loopVars, Enter, Polling, Futures
  <2>4. UNCHANGED Bound(u) /\ UNCHANGED Clones(u)
    BY <1>1, <2>2, <2>3 DEF Bound, Clones, Times, Spots
  <2> QED  BY <1>1, <2>1, <2>4, Untouched DEF Beside
<1>3. \A u \in Tasks : View(u)' = View(u)
  BY <1>2
<1> QED  BY <1>1, <1>3 DEF Moved

LEMMA PollRootStep ==
  ASSUME Ready, PollRoot
  PROVE  Moved
<1>1. /\ heap' \in Heaps /\ heap'.awaiter = heap.awaiter /\ heap \in Heaps
      /\ heap'.state = heap.state /\ heap'.queue = heap.queue /\ heap'.freed = heap.freed
      /\ heap'.woken = heap.woken
  BY DEF PollRoot, Heaps, Ready, Typed
<1>2. ASSUME NEW u \in Tasks
      PROVE  View(u)' = View(u)
  <2>1. UNCHANGED Calls(u) /\ channel' = channel
    BY DEF PollRoot, clientVars, Calls
  <2>2. (IF current' = u THEN phase' ELSE "idle") = (IF current = u THEN phase ELSE "idle")
    BY TasksType DEF PollRoot, Enter, Futures
  <2>3. UNCHANGED Bound(u) /\ UNCHANGED Clones(u)
    BY <1>1, <2>1, <2>2 DEF Bound, Clones, Times, Spots
  <2> QED  BY <1>1, <2>1, <2>3, Untouched DEF Beside
<1> QED  BY <1>1, <1>2 DEF Moved, PollRoot, Enter

(***************************************************************************)
(* What the calls on a waker of f do to f: they write its word, and may    *)
(* queue it, free it and wake it.                                          *)
(***************************************************************************)
LEMMA EffectFields ==
  ASSUME NEW f \in Tasks, heap \in Heaps, heap' \in Heaps, NEW s, NEW n \in Nat,
         NEW frees \in BOOLEAN, NEW wakes \in BOOLEAN,
         Effect(heap, heap', f, s, n, frees, wakes)
  PROVE  /\ View(f).state = heap.state[f] /\ View(f)'.state = s
         /\ View(f)'.runnables = View(f).runnables + n /\ View(f).runnables \in Nat
         /\ View(f)'.memory = IF frees THEN "freed" ELSE View(f).memory
         /\ wakes => View(f)'.woken = TRUE
         /\ ~wakes => View(f)'.woken = View(f).woken
BY ViewFields, NextViewFields DEF Effect

(* The fields that they leave alone *)
LEMMA EffectOnly ==
  ASSUME NEW f \in Tasks, heap \in Heaps, heap' \in Heaps, UNCHANGED Calls(f), UNCHANGED Bound(f)
  PROVE  /\ View(f)'.woken = View(f).woken /\ View(f)'.memory = View(f).memory
              /\ View(f)'.runnables = View(f).runnables
            => P!OnlyIn(View(f), View(f)', {"wakers", "state"})
         /\ View(f)'.wakers = View(f).wakers /\ View(f)'.memory = View(f).memory
            => P!OnlyIn(View(f), View(f)', {"state", "runnables", "woken"})
         /\ View(f)'.woken = View(f).woken
            => P!OnlyIn(View(f), View(f)', {"state", "runnables", "wakers", "memory"})
         /\ P!OnlyIn(View(f), View(f)', {"state", "runnables", "wakers", "memory", "woken"})
BY SameCalls DEF P!OnlyIn, P!NewTask

LEMMA ViewCloned ==
  ASSUME Ready, NEW f \in Tasks, heap' \in Heaps, UNCHANGED Calls(f), UNCHANGED Bound(f),
         Effect(heap, heap', f, incr_ref(heap.state[f]), 0, FALSE, FALSE),
         Clones(f)' = Clones(f) + 1, Clones(f) <= Cardinality(Tasks), View(f).phase = "polling"
  PROVE  P!Step(View(f), View(f)')
<1> DEFINE v == View(f)
           w == View(f)'
<1>1. /\ P!Shaped(v) /\ P!Shaped(w) /\ v.fault = "none" /\ v.executor = "up"
      /\ v.phase = "polling" /\ heap \in Heaps
  BY TaskFacts, NextViewFields
<1>2. /\ v.state = heap.state[f] /\ w.state = incr_ref(heap.state[f])
      /\ w.runnables = v.runnables /\ w.memory = v.memory /\ w.woken = v.woken
  <2> DEFINE s == incr_ref(heap.state[f])
             n == 0
  <2>1. Effect(heap, heap', f, s, n, FALSE, FALSE) /\ n \in Nat
    OBVIOUS
  <2> HIDE DEF s, n
  <2>2. /\ v.state = heap.state[f] /\ w.state = s /\ w.runnables = v.runnables + n
        /\ w.memory = v.memory /\ w.woken = v.woken /\ v.runnables \in Nat
    BY <1>1, <2>1, EffectFields
  <2> QED  BY <2>2 DEF s, n
<1>3. w.wakers = v.wakers + 1 /\ v.wakers < Cardinality(Tasks) + 1
  BY <1>1, ClonesAre, TaskFacts, Constants
<1>4. P!OnlyIn(v, w, {"wakers", "state"})
  BY <1>1, <1>2, EffectOnly
<1> HIDE DEF v, w
<1>5. P!CloneWaker(v, w)
  BY <1>1, <1>2, <1>3, <1>4, Constants, P!CloneWakerFields, SameWords DEF P!WakerInReach
<1> QED  BY <1>5 DEF P!Step, v, w

LEMMA ViewDropped ==
  ASSUME Ready, NEW f \in Tasks, heap' \in Heaps, UNCHANGED Calls(f), UNCHANGED Bound(f),
         Dropped(heap, heap', f), Clones(f)' = Clones(f) - 1, Clones(f) > 0
  PROVE  P!Step(View(f), View(f)')
<1> DEFINE v == View(f)
           w == View(f)'
           r == drop_waker(v.state)
           again == r.action = "Schedule"
           s == IF again THEN incr_ref(r.state) ELSE r.state
           n == IF again THEN 1 ELSE 0
<1>1. /\ P!Shaped(v) /\ P!Shaped(w) /\ v.fault = "none" /\ v.executor = "up"
      /\ heap \in Heaps /\ v.state = heap.state[f]
  BY TaskFacts, NextViewFields
<1>2. w.wakers = v.wakers - 1 /\ v.wakers > 0
  BY <1>1, ClonesAre
<1>3. /\ w.state = s /\ w.runnables = v.runnables + n /\ v.runnables \in Nat
      /\ w.memory = (IF r.action = "Destroy" THEN "freed" ELSE v.memory) /\ w.woken = v.woken
  <2>1. Effect(heap, heap', f, s, n, r.action = "Destroy", FALSE)
    BY <1>1 DEF Dropped
  <2>2. n \in Nat
    OBVIOUS
  <2> HIDE DEF s, n, r
  <2> QED  BY <1>1, <2>1, <2>2, EffectFields
<1>4. P!OnlyIn(v, w, {"state", "runnables", "wakers", "memory"})
  BY <1>1, <1>3, EffectOnly
<1> HIDE DEF v, w
<1>5. r = P!drop_waker(v.state) /\ \A x : incr_ref(x) = P!incr_ref(x)
  BY SameTransitions, SameWords
<1>6. w.runnables = IF again THEN v.runnables + 1 ELSE v.runnables
  BY <1>3
<1> HIDE DEF r, n
<1>7. P!DropWaker(v, w)
  BY <1>1, <1>2, <1>3, <1>4, <1>5, <1>6, Constants, P!DropWakerFields
<1> QED  BY <1>7 DEF P!Step, v, w

LEMMA ViewWoken ==
  ASSUME Ready, NEW f \in Tasks, heap' \in Heaps, UNCHANGED Calls(f), UNCHANGED Bound(f),
         WokenByVal(heap, heap', f), Clones(f)' = Clones(f) - 1, Clones(f) > 0
  PROVE  P!Step(View(f), View(f)')
<1> DEFINE v == View(f)
           w == View(f)'
           t == transition_to_scheduled(v.state)
           submit == t.action = "Submit"
           r == drop_waker(IF submit THEN incr_ref(t.state) ELSE t.state)
           again == r.action = "Schedule"
           s == IF again THEN incr_ref(r.state) ELSE r.state
           m == IF submit THEN 1 ELSE 0
           n == IF again THEN 1 ELSE 0
<1>1. /\ P!Shaped(v) /\ P!Shaped(w) /\ v.fault = "none" /\ v.executor = "up"
      /\ heap \in Heaps /\ v.state = heap.state[f] /\ v \in P!TaskRecord /\ P!IInv(v)
  BY TaskFacts, NextViewFields
<1>2. w.wakers = v.wakers - 1 /\ v.wakers > 0
  BY <1>1, ClonesAre
<1>3. /\ w.state = s /\ w.runnables = v.runnables + (m + n) /\ v.runnables \in Nat
      /\ w.memory = (IF r.action = "Destroy" THEN "freed" ELSE v.memory) /\ w.woken = TRUE
  <2> DEFINE both == m + n
             frees == r.action = "Destroy"
  <2>1. Effect(heap, heap', f, s, both, frees, TRUE)
    BY <1>1 DEF WokenByVal
  <2>2. both \in Nat /\ frees \in BOOLEAN
    OBVIOUS
  <2> HIDE DEF s, both, frees
  <2>3. f \in Tasks /\ heap \in Heaps /\ heap' \in Heaps
    BY <1>1
  <2>4. /\ v.memory = (IF f \in heap.freed THEN "freed" ELSE "live")
        /\ v.runnables = Times(heap.queue, f) /\ v.runnables \in Nat
    BY <2>3, ViewFields
  <2>5. /\ w.memory = (IF f \in heap'.freed THEN "freed" ELSE "live")
        /\ w.runnables = Times(heap'.queue, f)
        /\ w.state = heap'.state[f] /\ w.woken = (f \in heap'.woken)
    BY <2>3, NextViewFields
  <2> HIDE DEF v, w
  <2>6. (f \in heap'.woken) = TRUE
    BY <2>1 DEF Effect
  <2>7. w.memory = (IF frees THEN "freed" ELSE v.memory)
    BY <2>1, <2>4, <2>5 DEF Effect
  <2>8. w.state = s /\ w.runnables = v.runnables + both
    BY <2>1, <2>4, <2>5 DEF Effect
  <2> QED  BY <2>4, <2>5, <2>6, <2>7, <2>8 DEF both, frees
<1>4. P!OnlyIn(v, w, {"state", "runnables", "wakers", "memory", "woken"})
  BY <1>1, EffectOnly
<1> HIDE DEF v, w
<1>5. /\ t = P!transition_to_scheduled(v.state)
      /\ r = P!drop_waker(IF submit THEN P!incr_ref(t.state) ELSE t.state)
      /\ \A x : incr_ref(x) = P!incr_ref(x)
  BY SameTransitions, SameWords
<1>6. m \in Int /\ n \in Int
  OBVIOUS
<1> HIDE DEF r, t
<1>7. w.runnables = v.runnables + (IF submit THEN 1 ELSE 0) + (IF again THEN 1 ELSE 0)
  BY <1>3, <1>6
<1> HIDE DEF m, n
<1>8. P!WakeByVal(v, w)
  BY <1>1, <1>2, <1>3, <1>4, <1>5, <1>7, Constants, P!WakeByValFields
<1> QED  BY <1>8 DEF P!Step, v, w

LEMMA YieldStep ==
  ASSUME Ready, Yield, NEW f, current = f
  PROVE  Moved
<1>1. /\ f \in Futures /\ phase = "polling" /\ heap' = do_wake(heap, f) /\ heap \in Heaps
      /\ UNCHANGED <<handle, output, drops, result, cancelled, channel, loopVars, fault>>
  BY DEF Yield, Ready, Typed, Loop
<1>2. /\ heap' \in Heaps /\ heap'.awaiter = heap.awaiter
      /\ heap'.should_poll = (heap.should_poll \/ f = Root)
      /\ f # Root => Woken(heap, heap', f)
      /\ \A u \in Tasks \ {f} : Beside(heap, heap', u)
  BY <1>1, Wakes
<1>3. \A u \in Tasks : UNCHANGED Calls(u) /\ UNCHANGED Bound(u) /\ UNCHANGED Clones(u)
  BY <1>1, <1>2 DEF Calls, Bound, Clones, Times, Spots, loopVars
<1>4. ASSUME NEW u \in Tasks, u # f
      PROVE  View(u)' = View(u)
  BY <1>1, <1>2, <1>3, <1>4, Untouched
<1>5. ASSUME f \in Tasks
      PROVE  handle[f] # "unspawned" /\ P!Step(View(f), View(f)')
  <2> DEFINE v == View(f)
             w == View(f)'
             r == transition_to_scheduled(v.state)
             s == IF r.action = "Submit" THEN incr_ref(r.state) ELSE r.state
             n == IF r.action = "Submit" THEN 1 ELSE 0
  <2>1. /\ P!Shaped(v) /\ P!Shaped(w) /\ v.fault = "none" /\ v.executor = "up"
        /\ v.phase = "polling" /\ f # Root /\ v.state = heap.state[f]
    BY <1>1, <1>2, <1>5, TaskFacts, ViewFields, NextViewFields
  <2>2. /\ w.state = s /\ w.runnables = v.runnables + n /\ v.runnables \in Nat
        /\ w.memory = v.memory /\ w.woken = TRUE
    <3>1. Effect(heap, heap', f, s, n, FALSE, TRUE)
      BY <1>2, <2>1 DEF Woken
    <3>2. n \in Nat
      OBVIOUS
    <3> HIDE DEF s, n
    <3> QED  BY <1>1, <1>2, <1>5, <3>1, <3>2, EffectFields
  <2>3. P!OnlyIn(v, w, {"state", "runnables", "woken"})
    BY <1>1, <1>2, <1>3, <1>5, <2>2, ClonesAre, EffectOnly
  <2>4. handle[f] # "unspawned"
    BY <1>5, Known
  <2> HIDE DEF v, w
  <2>5. r = P!transition_to_scheduled(v.state) /\ \A x : incr_ref(x) = P!incr_ref(x)
    BY SameTransitions, SameWords
  <2>6. w.runnables = IF r.action = "Submit" THEN v.runnables + 1 ELSE v.runnables
    BY <2>2
  <2> HIDE DEF r, n
  <2>7. P!WakeByRef(v, w)
    BY <2>1, <2>2, <2>3, <2>5, <2>6, Constants, P!WakeByRefFields DEF P!WakerInReach
  <2> QED  BY <2>4, <2>7 DEF P!Step, v, w
<1> QED  BY <1>1, <1>2, <1>4, <1>5, HeapFields DEF Moved

LEMMA LeaveWakerStep ==
  ASSUME Ready, LeaveWaker, NEW f, current = f
  PROVE  Moved
<1>1. /\ f \in Futures /\ phase = "polling" /\ heap' = clone_waker(heap, f) /\ heap \in Heaps
      /\ f \notin channel /\ channel' = channel \union {f}
      /\ UNCHANGED <<handle, output, drops, result, cancelled, loopVars, fault>>
  BY DEF LeaveWaker, Ready, Typed, Loop
<1>2. /\ heap' \in Heaps /\ heap'.awaiter = heap.awaiter /\ heap'.should_poll = heap.should_poll
      /\ f # Root => Effect(heap, heap', f, incr_ref(heap.state[f]), 0, FALSE, FALSE)
      /\ \A u \in Tasks \ {f} : Beside(heap, heap', u)
  BY <1>1, ClonesWaker DEF OnTask, Beside
<1>3. \A u \in Tasks : UNCHANGED Calls(u) /\ UNCHANGED Bound(u)
  BY <1>1, <1>2 DEF Calls, Bound, loopVars
<1>4. ASSUME NEW u \in Tasks, u # f
      PROVE  View(u)' = View(u)
  <2>1. UNCHANGED Clones(u)
    BY <1>1, <1>2, <1>4 DEF Clones, Times, Spots
  <2> QED  BY <1>1, <1>2, <1>3, <1>4, <2>1, Untouched
<1>5. ASSUME f \in Tasks
      PROVE  handle[f] # "unspawned" /\ P!Step(View(f), View(f)')
  <2> DEFINE n == Times(heap.awaiter, f)
  <2>1. n \in Nat /\ n <= Cardinality(Tasks)
    BY <1>1, HeapFields, TimesHeld
  <2>2. Clones(f) = n + 0 /\ Clones(f)' = n + 1
    BY <1>1, <1>2 DEF Clones, Times, Spots
  <2> HIDE DEF n
  <2>3. Clones(f)' = Clones(f) + 1 /\ Clones(f) <= Cardinality(Tasks)
    BY <2>1, <2>2
  <2>4. View(f).phase = "polling" /\ f # Root
    BY <1>1, <1>5, ViewFields, TasksType
  <2> QED  BY <1>2, <1>3, <1>5, <2>3, <2>4, Known, ViewCloned
<1> QED  BY <1>1, <1>2, <1>4, <1>5 DEF Moved

LEMMA WakeOtherStep ==
  ASSUME Ready, NEW f \in Futures, WakeOther(f)
  PROVE  Moved /\ Rouses(f)
<1>1. /\ heap' = wake_by_val(heap, f) /\ heap \in Heaps
      /\ f \in channel /\ channel' = channel \ {f}
      /\ UNCHANGED <<handle, output, drops, result, cancelled, loopVars, fault>>
  BY DEF WakeOther, Ready, Typed
<1>2. /\ heap' \in Heaps /\ heap'.awaiter = heap.awaiter
      /\ heap'.should_poll = (heap.should_poll \/ f = Root)
      /\ f # Root => WokenByVal(heap, heap', f)
      /\ \A u \in Tasks \ {f} : Beside(heap, heap', u)
  BY <1>1, WakesByVal
<1>3. \A u \in Tasks : UNCHANGED Calls(u) /\ UNCHANGED Bound(u)
  BY <1>1, <1>2 DEF Calls, Bound, loopVars
<1>4. ASSUME NEW u \in Tasks, u # f
      PROVE  View(u)' = View(u)
  <2>1. UNCHANGED Clones(u)
    BY <1>1, <1>2, <1>4 DEF Clones, Times, Spots
  <2> QED  BY <1>1, <1>2, <1>3, <1>4, <2>1, Untouched
<1>5. ASSUME f \in Tasks
      PROVE  handle[f] # "unspawned" /\ P!Step(View(f), View(f)')
  <2> DEFINE n == Times(heap.awaiter, f)
  <2>1. n \in Nat
    BY <1>1, HeapFields, TimesHeld
  <2>2. Clones(f) = n + 1 /\ Clones(f)' = n + 0
    BY <1>1, <1>2 DEF Clones, Times, Spots
  <2> HIDE DEF n
  <2>3. Clones(f)' = Clones(f) - 1 /\ Clones(f) > 0
    BY <2>1, <2>2
  <2>4. f # Root
    BY <1>5, TasksType
  <2> QED  BY <1>1, <1>2, <1>3, <1>5, <2>3, <2>4, Known, ViewWoken
<1>6. Moved
  BY <1>1, <1>2, <1>4, <1>5, HeapFields DEF Moved
<1>7. Rouses(f)
  BY <1>2 DEF Rouses, WokenByVal, Effect
<1> QED  BY <1>6, <1>7

LEMMA PollReadyStep ==
  ASSUME Ready, PollReady, NEW f, current = f
  PROVE  Moved
<1>1. /\ f \in Futures /\ phase = "polling" /\ phase' = "completing"
      /\ heap' = heap /\ heap \in Heaps /\ current' = current
      /\ drops' = IF f = Root THEN drops ELSE [drops EXCEPT ![f] = @ + 1]
      /\ UNCHANGED <<handle, output, result, cancelled, channel, fault>>
  BY DEF PollReady, Ready, Typed, Loop
<1>2. \A u \in Tasks : Beside(heap, heap', u) /\ UNCHANGED Clones(u)
  BY <1>1 DEF Beside, Clones, Times, Spots
<1>3. ASSUME NEW u \in Tasks, u # f
      PROVE  View(u)' = View(u)
  <2>1. UNCHANGED Calls(u) /\ UNCHANGED Bound(u)
    BY <1>1, <1>3 DEF Calls, Bound, Ready, Typed
  <2> QED  BY <1>1, <1>2, <2>1, Untouched
<1>4. ASSUME f \in Tasks
      PROVE  handle[f] # "unspawned" /\ P!Step(View(f), View(f)')
  <2> DEFINE v == View(f)
             w == View(f)'
  <2>1. drops'[f] = drops[f] + 1
    BY <1>1, <1>4, TasksType DEF Ready, Typed
  <2>2. /\ P!Shaped(v) /\ P!Shaped(w) /\ v.fault = "none" /\ v.executor = "up"
        /\ v.phase = "polling" /\ w.phase = "completing" /\ w.drops = v.drops + 1
    BY <1>1, <1>4, <2>1, TaskFacts, ViewFields, NextViewFields
  <2>3. P!OnlyIn(v, w, {"phase", "drops"})
    BY <1>1, <1>2, <1>4, ViewFields, NextViewFields DEF Beside, P!OnlyIn, P!NewTask
  <2>4. handle[f] # "unspawned"
    BY <1>4, Known
  <2> HIDE DEF v, w
  <2>5. P!PollReady(v, w)
    BY <2>2, <2>3, Constants, P!PollReadyFields
  <2> QED  BY <2>4, <2>5 DEF P!Step, v, w
<1>5. \A u \in Tasks :
        View(u)' = View(u) \/ (handle[u] # "unspawned" /\ P!Step(View(u), View(u)'))
  BY <1>3, <1>4
<1> QED  BY <1>1, <1>5 DEF Moved

(* Only a task that was started is queued, so it may run. *)
LEMMA PopTaskStep ==
  ASSUME Ready, PopTask, NEW t, t = Head(heap.queue)
  PROVE  /\ Moved /\ t \in Tasks /\ fault' = fault
         /\ \/ Enter(t, "polling") /\ UNCHANGED drops
            \/ /\ Enter(t, "dropping") /\ is_closed(heap.state[t])
               /\ drops' = [drops EXCEPT ![t] = @ + 1]
<1> DEFINE r == transition_to_running(heap.state[t])
<1>1. /\ t \in Tasks /\ Tail(heap.queue) \in Seq(Tasks) /\ heap \in Heaps
      /\ \A u : Times(heap.queue, u) = Times(Tail(heap.queue), u) + (IF t = u THEN 1 ELSE 0)
      /\ \A u : Times(Tail(heap.queue), u) \in Nat
  <2>1. heap.queue \in Seq(Tasks) /\ heap.queue # <<>>
    BY HeapFields DEF PopTask, Ready, Typed
  <2>2. /\ t \in Tasks /\ Tail(heap.queue) \in Seq(Tasks) /\ heap \in Heaps
        /\ \A u : Times(heap.queue, u) = Times(Tail(heap.queue), u) + (IF t = u THEN 1 ELSE 0)
    BY <2>1, TimesTail DEF Ready, Typed
  <2> QED  BY <2>2, SpotsFinite
<1>2. /\ r.state \in P!Word /\ r.action = IF is_closed(heap.state[t]) THEN "Closed" ELSE "Running"
  <2> DEFINE v == View(t)
             q == P!transition_to_running(v.state)
  <2>1. /\ P!IInv(v) /\ v.state \in P!Word /\ v.state = heap.state[t] /\ v.runnables > 0
    <3>1. Times(heap.queue, t) = Times(Tail(heap.queue), t) + 1
      BY <1>1
    <3>2. Times(heap.queue, t) > 0
      BY <1>1, <3>1
    <3> QED  BY <1>1, <3>2, TaskFacts, ViewFields
  <2> HIDE DEF v
  <2>2. ~P!need_start(v.state)
    BY <2>1 DEF P!IInv, P!Fresh
  <2>3. q.state \in P!Word /\ q.action = IF P!is_closed(v.state) THEN "Closed" ELSE "Running"
    BY <2>1, <2>2, Constants, P!RunningTransition
  <2> QED  BY <2>1, <2>3, SameTransitions, SameWords
<1>3. /\ heap' = [heap EXCEPT !.queue = Tail(heap.queue), !.state[t] = r.state,
                              !.woken = heap.woken \ {t}]
      /\ current = None
      /\ UNCHANGED <<handle, output, result, cancelled, channel>>
  BY DEF PopTask
<1>4. /\ fault' = fault
      /\ \/ r.action = "Running" /\ Enter(t, "polling") /\ UNCHANGED drops
         \/ /\ r.action = "Closed" /\ Enter(t, "dropping") /\ is_closed(heap.state[t])
            /\ drops' = [drops EXCEPT ![t] = @ + 1]
  BY <1>2 DEF PopTask, Panics
<1> HIDE DEF r
<1>5. /\ heap' \in Heaps /\ heap'.awaiter = heap.awaiter /\ heap'.should_poll = heap.should_poll
      /\ heap'.state = [heap.state EXCEPT ![t] = r.state] /\ heap'.queue = Tail(heap.queue)
      /\ heap'.woken = heap.woken \ {t} /\ heap'.freed = heap.freed
  BY <1>1, <1>2, <1>3 DEF Heaps
<1>6. heap.state \in [Tasks -> P!Word]
  BY <1>1, HeapFields
<1>7. ASSUME NEW u \in Tasks
      PROVE  UNCHANGED Clones(u)
  BY <1>3, <1>5 DEF Clones, Times, Spots
<1>8. ASSUME NEW u \in Tasks, u # t
      PROVE  View(u)' = View(u)
  <2>1. Beside(heap, heap', u)
    <3>1. Times(heap.queue, u) = Times(Tail(heap.queue), u) + 0
      BY <1>1, <1>8
    <3>2. Times(heap.queue, u) = Times(Tail(heap.queue), u)
      BY <1>1, <3>1
    <3> QED  BY <1>1, <1>5, <1>6, <1>8, <3>2 DEF Beside
  <2>2. UNCHANGED Calls(u) /\ UNCHANGED Bound(u)
    BY <1>3, <1>4, <1>5, <1>8, TaskFacts DEF Calls, Bound, Enter, Ready, Typed
  <2> QED  BY <1>1, <1>5, <1>7, <2>1, <2>2, Untouched
<1>9. handle[t] # "unspawned" /\ P!Step(View(t), View(t)')
  <2> DEFINE v == View(t)
             w == View(t)'
             q == P!transition_to_running(v.state)
  <2>1. /\ P!Shaped(v) /\ P!Shaped(w) /\ v.fault = "none" /\ v.executor = "up"
        /\ v.phase = "idle" /\ v.state = heap.state[t]
    BY <1>1, <1>3, <1>5, TaskFacts, ViewFields, NextViewFields
  <2>2. /\ w.state = r.state /\ w.woken = FALSE
        /\ w.runnables = v.runnables - 1 /\ v.runnables > 0
    <3>1. Times(heap.queue, t) = Times(Tail(heap.queue), t) + 1
      BY <1>1
    <3>2. /\ v.runnables = Times(heap.queue, t) /\ w.runnables = Times(Tail(heap.queue), t)
          /\ Times(Tail(heap.queue), t) \in Nat
      BY <1>1, <1>5, ViewFields, NextViewFields
    <3>3. w.state = r.state /\ w.woken = FALSE
      <4>1. w.state = heap'.state[t] /\ w.woken = (t \in heap'.woken)
        BY <1>1, <1>5, NextViewFields
      <4> HIDE DEF w
      <4>2. w.state = r.state
        BY <1>1, <1>5, <1>6, <4>1
      <4>3. (t \in heap'.woken) = FALSE
        BY <1>5
      <4>4. w.woken = FALSE
        BY <4>1, <4>3, Zenon
      <4> QED  BY <4>2, <4>4
    <3> QED  BY <3>1, <3>2, <3>3
  <2>3. /\ \/ r.action = "Running" /\ w.phase = "polling" /\ w.drops = v.drops
           \/ r.action = "Closed" /\ w.phase = "dropping" /\ w.drops = v.drops + 1
        /\ w.fault = v.fault
    BY <1>1, <1>4, <1>5, ViewFields, NextViewFields DEF Enter, Ready, Typed
  <2>4. P!OnlyIn(v, w, {"state", "runnables", "phase", "drops", "woken", "fault"})
    <3>1. View(t).wakers = View(t)'.wakers
      BY <1>1, <1>5, <1>7, ClonesAre
    <3> QED
      BY <1>1, <1>3, <1>5, <3>1, ViewFields, NextViewFields DEF P!OnlyIn, P!NewTask
  <2>5. handle[t] # "unspawned"
    BY <1>1, <2>2, Known
  <2> HIDE DEF v, w
  <2>6. q = r
    BY <2>1, SameTransitions DEF r
  <2> HIDE DEF q
  <2>7. w.phase = CASE q.action = "Running" -> "polling"
                    [] q.action = "Closed"  -> "dropping"
                    [] q.action \in P!Panics -> "idle"
    BY <2>3, <2>6 DEF P!Panics
  <2>8. w.drops = IF q.action = "Closed" THEN v.drops + 1 ELSE v.drops
    BY <2>3, <2>6
  <2>9. w.fault = P!PanicOr(q.action, v.fault)
    BY <2>3, <2>6 DEF P!Panics, P!PanicOr
  <2>10. P!Run(v, w)
    BY <2>1, <2>2, <2>4, <2>6, <2>7, <2>8, <2>9, Constants, P!RunFields DEF q
  <2> QED  BY <2>5, <2>10 DEF P!Step, v, w
<1>10. Moved
  <2>1. \A u \in Tasks :
          View(u)' = View(u) \/ (handle[u] # "unspawned" /\ P!Step(View(u), View(u)'))
    BY <1>8, <1>9
  <2> QED  BY <1>5, <2>1 DEF Moved
<1> QED  BY <1>1, <1>4, <1>10

(* What two states have in common of a task, field by field *)
LEMMA SameFields ==
  ASSUME NEW u \in Tasks, heap \in Heaps, heap' \in Heaps
  PROVE  /\ heap'.awaiter[u] # None => View(u)'.awaiter = TRUE
         /\ heap'.awaiter[u] = None => View(u)'.awaiter = FALSE
         /\ heap'.awaiter[u] = heap.awaiter[u] => View(u)'.awaiter = View(u).awaiter
         /\ (u \in heap'.freed <=> u \in heap.freed) => View(u)'.memory = View(u).memory
         /\ (u \in heap'.woken <=> u \in heap.woken) => View(u)'.woken = View(u).woken
         /\ (u \in cancelled' <=> u \in cancelled) => View(u)'.cancelled = View(u).cancelled
         /\ u \in cancelled' => View(u)'.cancelled = TRUE
         /\ UNCHANGED Clones(u) => View(u)'.wakers = View(u).wakers
         /\ UNCHANGED <<output[u], result[u], drops[u], fault[u]>> =>
              /\ View(u)'.output = View(u).output /\ View(u)'.drops = View(u).drops
              /\ View(u)'.result = View(u).result /\ View(u)'.fault = View(u).fault
         /\ (handle'[u] = "dropped" <=> handle[u] = "dropped") => View(u)'.handle = View(u).handle
         /\ UNCHANGED Calls(u) =>
              /\ View(u)'.output = View(u).output /\ View(u)'.drops = View(u).drops
              /\ View(u)'.result = View(u).result /\ View(u)'.fault = View(u).fault
              /\ View(u)'.handle = View(u).handle /\ View(u)'.cancelled = View(u).cancelled
              /\ View(u)'.executor = View(u).executor
         /\ (IF current' = u THEN phase' ELSE "idle") = (IF current = u THEN phase ELSE "idle")
              => View(u)'.phase = View(u).phase
<1> DEFINE v == View(u)
           w == View(u)'
<1>1. /\ v.awaiter = (heap.awaiter[u] # None) /\ w.awaiter = (heap'.awaiter[u] # None)
      /\ v.woken = (u \in heap.woken) /\ w.woken = (u \in heap'.woken)
      /\ v.cancelled = (u \in cancelled) /\ w.cancelled = (u \in cancelled')
  BY ViewFields, NextViewFields
<1>2. (u \in heap'.freed <=> u \in heap.freed) => w.memory = v.memory
  BY ViewFields, NextViewFields
<1>3. UNCHANGED Clones(u) => w.wakers = v.wakers
  BY ClonesAre
<1>4. /\ w.phase = (IF current' = u THEN phase' ELSE "idle")
      /\ v.phase = (IF current = u THEN phase ELSE "idle")
      /\ w.output = output'[u] /\ w.drops = drops'[u] /\ w.result = result'[u]
      /\ w.fault = fault'[u] /\ w.handle = (IF handle'[u] = "dropped" THEN "dropped" ELSE "held")
      /\ v.output = output[u] /\ v.drops = drops[u] /\ v.result = result[u]
      /\ v.fault = fault[u] /\ v.handle = (IF handle[u] = "dropped" THEN "dropped" ELSE "held")
      /\ v.executor = "up" /\ w.executor = "up"
  BY ViewFields, NextViewFields
<1> HIDE DEF v, w
<1>5. ASSUME UNCHANGED Calls(u)
      PROVE  /\ w.output = v.output /\ w.drops = v.drops /\ w.result = v.result
             /\ w.fault = v.fault /\ w.handle = v.handle /\ w.executor = v.executor
             /\ u \in cancelled' <=> u \in cancelled
  BY <1>4, <1>5 DEF Calls
<1>6. ASSUME heap'.awaiter[u] # None PROVE w.awaiter = TRUE
  <2>1. (heap'.awaiter[u] # None) = TRUE  BY <1>6
  <2> QED  BY <1>1, <2>1, Zenon
<1>7. ASSUME heap'.awaiter[u] = None PROVE w.awaiter = FALSE
  <2>1. (heap'.awaiter[u] # None) = FALSE  BY <1>7
  <2> QED  BY <1>1, <2>1, Zenon
<1>8. ASSUME heap'.awaiter[u] = heap.awaiter[u] PROVE w.awaiter = v.awaiter
  <2>1. (heap'.awaiter[u] # None) = (heap.awaiter[u] # None)  BY <1>8
  <2> QED  BY <1>1, <2>1, Zenon
<1>9. ASSUME u \in heap'.woken <=> u \in heap.woken PROVE w.woken = v.woken
  <2>1. (u \in heap'.woken) = (u \in heap.woken)  BY <1>9
  <2> QED  BY <1>1, <2>1, Zenon
<1>10. ASSUME u \in cancelled' <=> u \in cancelled PROVE w.cancelled = v.cancelled
  <2>1. (u \in cancelled') = (u \in cancelled)  BY <1>10
  <2> QED  BY <1>1, <2>1, Zenon
<1>11. ASSUME u \in cancelled' PROVE w.cancelled = TRUE
  <2>1. (u \in cancelled') = TRUE  BY <1>11
  <2> QED  BY <1>1, <2>1, Zenon
<1> QED  BY <1>2, <1>3, <1>4, <1>5, <1>6, <1>7, <1>8, <1>9, <1>10, <1>11 DEF v, w

(***************************************************************************)
(* A call on t, up to t itself: the other tasks are as they were, but for  *)
(* the one that spawned t, whose waker t gets or gives back.               *)
(***************************************************************************)
LEMMA OthersMove ==
  ASSUME Ready, NEW t \in Tasks, NEW f, f = Owner[t], f # t, heap' \in Heaps,
         channel' = channel, NEW a \in {None, f}, heap'.awaiter = [heap.awaiter EXCEPT ![t] = a],
         \A u \in Tasks \ {t} :
           /\ UNCHANGED Calls(u)
           /\ (IF current' = u THEN phase' ELSE "idle") = (IF current = u THEN phase ELSE "idle"),
         \A u \in Tasks \ {t, f} : Beside(heap, heap', u),
         f \in Tasks =>
           \/ a = heap.awaiter[t] /\ Beside(heap, heap', f)
           \/ /\ a = f /\ heap.awaiter[t] = None /\ current = f /\ phase = "polling"
              /\ Effect(heap, heap', f, incr_ref(heap.state[f]), 0, FALSE, FALSE)
           \/ /\ a = None /\ heap.awaiter[t] = f
              /\ Dropped(heap, heap', f) \/ WokenByVal(heap, heap', f)
  PROVE  /\ \A u \in Tasks \ {t} :
              View(u)' = View(u) \/ (handle[u] # "unspawned" /\ P!Step(View(u), View(u)'))
         /\ UNCHANGED Clones(t)
<1>1. /\ heap \in Heaps /\ heap.awaiter \in [Tasks -> Futures \union {None}]
      /\ f \in Futures /\ None \notin Futures /\ heap.awaiter[t] \in {None, f}
      /\ a \in Futures \union {None}
  BY HeapFields, TasksType, OwnerType DEF Ready, Typed, Family
<1> DEFINE b == heap.awaiter[t]
<1>2. ASSUME NEW u \in Tasks
      PROVE  /\ Times(heap.awaiter, u) \in Nat
             /\ Times(heap'.awaiter, u) =
                  Times(heap.awaiter, u) + (IF a = u THEN 1 ELSE 0) - (IF b = u THEN 1 ELSE 0)
             /\ Clones(u) = Times(heap.awaiter, u) + (IF u \in channel THEN 1 ELSE 0)
             /\ Clones(u)' = Times(heap'.awaiter, u) + (IF u \in channel THEN 1 ELSE 0)
  <2>1. Times(heap.awaiter, u) \in Nat
    BY <1>1, TimesHeld
  <2>2. Times([heap.awaiter EXCEPT ![t] = a], u) =
          Times(heap.awaiter, u) + (IF a = u THEN 1 ELSE 0) - (IF heap.awaiter[t] = u THEN 1 ELSE 0)
    BY <1>1, TimesExcept
  <2>3. Clones(u)' = Times(heap'.awaiter, u) + (IF u \in channel THEN 1 ELSE 0)
    BY DEF Clones, Times, Spots
  <2> QED  BY <2>1, <2>2, <2>3 DEF Clones
<1> HIDE DEF b
<1>3. ASSUME NEW u \in Tasks, a = b \/ u # f
      PROVE  UNCHANGED Clones(u)
  <2>1. /\ (IF a = u THEN 1 ELSE 0) = (IF b = u THEN 1 ELSE 0)
        /\ (IF a = u THEN 1 ELSE 0) \in Nat
    BY <1>1, <1>3, TasksType DEF b, Futures
  <2>2. Times(heap'.awaiter, u) = Times(heap.awaiter, u)
    BY <1>2, <2>1
  <2> QED  BY <1>2, <2>2
<1>4. \A u \in Tasks \ {t} : UNCHANGED Bound(u)
  BY <1>1 DEF Bound
<1>5. ASSUME NEW u \in Tasks, u # t, u # f
      PROVE  View(u)' = View(u)
  BY <1>1, <1>3, <1>4, <1>5, Untouched
<1>6. ASSUME f \in Tasks
      PROVE  View(f)' = View(f) \/ (handle[f] # "unspawned" /\ P!Step(View(f), View(f)'))
  <2>1. CASE a = b /\ Beside(heap, heap', f)
    BY <1>1, <1>3, <1>4, <1>6, <2>1, Untouched
  <2>2. CASE /\ a = f /\ b = None /\ current = f /\ phase = "polling"
             /\ Effect(heap, heap', f, incr_ref(heap.state[f]), 0, FALSE, FALSE)
    <3>1. Times(heap'.awaiter, f) = Times(heap.awaiter, f) + 1
      BY <1>1, <1>2, <1>6, <2>2
    <3>2. Clones(f)' = Clones(f) + 1
      BY <1>2, <1>6, <3>1
    <3>3. Clones(f) <= Cardinality(Tasks)
      <4>1. Times(heap.awaiter, f) < Cardinality(Tasks)
        BY <1>1, <2>2, TimesHeld DEF b
      <4> QED  BY <1>2, <1>6, <4>1, Constants
    <3>4. View(f).phase = "polling"
      BY <1>1, <1>6, <2>2, ViewFields
    <3> QED  BY <1>1, <1>4, <1>6, <2>2, <3>2, <3>3, <3>4, Known, ViewCloned
  <2>3. CASE a = None /\ b = f /\ (Dropped(heap, heap', f) \/ WokenByVal(heap, heap', f))
    <3>1. Times(heap'.awaiter, f) = Times(heap.awaiter, f) - 1 /\ Times(heap.awaiter, f) > 0
      <4>1. Times(heap'.awaiter, f) = Times(heap.awaiter, f) - 1
        BY <1>1, <1>2, <1>6, <2>3
      <4>2. Times(heap.awaiter, f) > 0
        BY <1>1, <2>3, TimesHeld DEF b
      <4> QED  BY <4>1, <4>2
    <3>2. Clones(f)' = Clones(f) - 1 /\ Clones(f) > 0
      BY <1>2, <1>6, <3>1
    <3>3. handle[f] # "unspawned"
      BY <1>6, <2>3, Known DEF b
    <3> QED  BY <1>1, <1>4, <1>6, <2>3, <3>2, <3>3, ViewDropped, ViewWoken
  <2> QED  BY <1>6, <2>1, <2>2, <2>3 DEF b
<1> QED  BY <1>1, <1>3, <1>5, <1>6

(* Moved follows from what the step does to one task and to its awaiter. *)
LEMMA MovedWith ==
  ASSUME Ready, NEW t \in Tasks, NEW f, f = Owner[t], heap' \in Heaps, NEW a \in {None, f},
         heap'.awaiter = [heap.awaiter EXCEPT ![t] = a], handle[t] # "unspawned",
         a = heap.awaiter[t] \/ current = f \/ Rouses(heap.awaiter[t]),
         \A u \in Tasks \ {t} :
           View(u)' = View(u) \/ (handle[u] # "unspawned" /\ P!Step(View(u), View(u)')),
         View(t)' = View(t) \/ P!Step(View(t), View(t)'),
         heap.should_poll => heap'.should_poll
  PROVE  Moved
<1>1. heap.awaiter \in [Tasks -> Futures \union {None}]
  BY HeapFields DEF Ready, Typed
<1>2. \A u \in Tasks :
        View(u)' = View(u) \/ (handle[u] # "unspawned" /\ P!Step(View(u), View(u)'))
  OBVIOUS
<1>3. \A u \in Tasks :
       \/ heap'.awaiter[u] = heap.awaiter[u]
       \/ /\ heap'.awaiter[u] \in {None, Owner[u]} /\ handle[u] # "unspawned"
          /\ current = Owner[u] \/ Rouses(heap.awaiter[u])
  BY <1>1
<1> QED  BY <1>2, <1>3 DEF Moved

(* The same of a step that leaves all awaiters as they are *)
LEMMA OthersStay ==
  ASSUME Ready, NEW t \in Tasks, NEW f, f = Owner[t], f # t, heap' \in Heaps,
         channel' = channel, heap'.awaiter = heap.awaiter,
         \A u \in Tasks \ {t} :
           /\ UNCHANGED Calls(u)
           /\ (IF current' = u THEN phase' ELSE "idle") = (IF current = u THEN phase ELSE "idle"),
         \A u \in Tasks \ {t} : Beside(heap, heap', u)
  PROVE  /\ \A u \in Tasks \ {t} :
              View(u)' = View(u) \/ (handle[u] # "unspawned" /\ P!Step(View(u), View(u)'))
         /\ UNCHANGED Clones(t)
<1> DEFINE a == heap.awaiter[t]
<1>1. heap.awaiter \in [Tasks -> Futures \union {None}] /\ a \in {None, f}
  BY HeapFields DEF Ready, Typed, Family
<1>2. heap'.awaiter = [heap.awaiter EXCEPT ![t] = a] /\ a = heap.awaiter[t]
  BY <1>1
<1>3. /\ \A u \in Tasks \ {t, f} : Beside(heap, heap', u)
      /\ f \in Tasks => Beside(heap, heap', f)
  OBVIOUS
<1> HIDE DEF a
<1> QED  BY <1>1, <1>2, <1>3, OthersMove

LEMMA MovedAlone ==
  ASSUME Ready, NEW t \in Tasks, heap' \in Heaps, heap'.awaiter = heap.awaiter,
         handle[t] # "unspawned",
         \A u \in Tasks \ {t} :
           View(u)' = View(u) \/ (handle[u] # "unspawned" /\ P!Step(View(u), View(u)')),
         View(t)' = View(t) \/ P!Step(View(t), View(t)'),
         heap.should_poll => heap'.should_poll
  PROVE  Moved
<1> \A u \in Tasks :
      View(u)' = View(u) \/ (handle[u] # "unspawned" /\ P!Step(View(u), View(u)'))
  OBVIOUS
<1> QED  BY DEF Moved

(* What a future knows of a task whose handle it holds, and of itself. *)
LEMMA Holds ==
  ASSUME Ready, NEW t \in Tasks, NEW f, f = Owner[t], current = f, handle[t] # "unspawned"
  PROVE  /\ f \in Futures /\ f # None /\ f # t /\ heap.awaiter[t] \in {None, f}
         /\ heap \in Heaps /\ heap.state \in [Tasks -> P!Word]
         /\ heap.awaiter \in [Tasks -> Futures \union {None}]
         /\ \A u : Times(heap.queue, u) \in Nat
         /\ View(t).phase = "idle" /\ View(t).state = heap.state[t] /\ heap.state[t] \in P!Word
         /\ View(t).fault = "none" /\ View(t).executor = "up" /\ P!Shaped(View(t))
         /\ View(t).runnables = Times(heap.queue, t) /\ View(t).runnables \in Nat
         /\ View(t).awaiter = (heap.awaiter[t] # None)
         /\ f \in Tasks => heap.state[f].refs >= 1
<1>1. f \in Futures /\ f # None /\ f # t /\ heap.awaiter[t] \in {None, f} /\ heap \in Heaps
  BY OwnerType, TasksType, Known DEF Ready, Typed, Family
<1>2. /\ heap.state \in [Tasks -> P!Word] /\ \A u : Times(heap.queue, u) \in Nat
      /\ heap.awaiter \in [Tasks -> Futures \union {None}]
  BY <1>1, HeapFields
<1>3. ASSUME f \in Tasks
      PROVE  heap.state[f].refs >= 1
  <2> DEFINE v == View(f)
  <2>1. P!Counts(v) /\ v.state = heap.state[f] /\ v.phase # "idle"
    <3>1. phase # "idle"
      BY <1>1 DEF Ready, Loop
    <3> QED  BY <1>1, <1>3, <3>1, TaskFacts, ViewFields
  <2> HIDE DEF v
  <2> QED  BY <2>1 DEF P!Counts, P!Holders
<1> QED  BY <1>1, <1>2, <1>3, TaskFacts, ViewFields

LEMMA PollHandleStep ==
  ASSUME Ready, NEW t \in Tasks, PollHandle(t), NEW f, f = Owner[t]
  PROVE  Moved
<1> DEFINE v == View(t)
           w == View(t)'
           r == poll_join_handle(heap.state[t])
           g == [heap EXCEPT !.state[t] = r.state]
<1>1. /\ current = f /\ phase = "polling" /\ handle[t] = "held" /\ result[t] = "pending"
      /\ UNCHANGED <<handle, drops, cancelled, channel, current, phase>>
  BY DEF PollHandle, Polling, loopVars
<1>2. /\ f \in Futures /\ f # None /\ f # t /\ heap.awaiter[t] \in {None, f}
      /\ heap \in Heaps /\ heap.state \in [Tasks -> P!Word]
      /\ heap.awaiter \in [Tasks -> Futures \union {None}]
      /\ \A u : Times(heap.queue, u) \in Nat
      /\ v.phase = "idle" /\ v.state = heap.state[t] /\ heap.state[t] \in P!Word
      /\ v.fault = "none" /\ v.executor = "up" /\ P!Shaped(v)
      /\ v.runnables = Times(heap.queue, t) /\ v.runnables \in Nat
      /\ v.awaiter = (heap.awaiter[t] # None)
      /\ f \in Tasks => heap.state[f].refs >= 1
  BY <1>1, Holds
<1>3. v.handle = "held" /\ v.result = "pending"
  BY <1>1, <1>2, ViewFields
<1>4. r = P!poll_join_handle(v.state) /\ r.state \in P!Word
  BY <1>2, SameTransitions, Constants, P!PollHandleTransition
<1>5. OnTask(heap, g, t, r.state, 0, FALSE, FALSE)
  BY <1>2, <1>4, SetState
<1>6. r.action = "Register" => r.state = heap.state[t]
  BY DEF poll_join_handle, Then, Assert
<1>7. output \in [Tasks -> {"none", "stored", "moved"}]
      /\ result \in [Tasks -> {"pending", "some", "none"}]
      /\ fault \in [Tasks -> Panics \union {"none"}] /\ fault[t] = "none"
  BY DEF Ready, Typed
<1>8. /\ handle[t] # "unspawned"
      /\ "Start" \notin Panics /\ "Register" \notin Panics /\ "CompleteNone" \notin Panics
      /\ "CompleteSome" \notin Panics
  BY <1>1 DEF Panics
<1>9. \/ /\ r.action = "Start" /\ heap' = schedule(register(g, t, f), t, TRUE)
         /\ UNCHANGED <<output, result, fault>>
      \/ /\ r.action = "Register" /\ heap' = register(g, t, f)
         /\ UNCHANGED <<output, result, fault>>
      \/ /\ r.action \in {"CompleteNone", "CompleteSome"} /\ heap' = notify_unless(g, t, f)
         /\ result' = [result EXCEPT ![t] = IF r.action = "CompleteNone" THEN "none" ELSE "some"]
         /\ output' = IF r.action = "CompleteNone" THEN output
                                                   ELSE [output EXCEPT ![t] = "moved"]
         /\ UNCHANGED fault
      \/ /\ r.action \in Panics /\ fault' = [fault EXCEPT ![t] = r.action]
         /\ UNCHANGED <<heap, output, result>>
  BY DEF PollHandle
<1> HIDE DEF r, g
<1>10. g \in Heaps /\ g.awaiter = heap.awaiter /\ g.should_poll = heap.should_poll
       /\ g.state[t] = r.state /\ Times(g.queue, t) = Times(heap.queue, t)
       /\ \A u \in Tasks \ {t} : Beside(heap, g, u)
  BY <1>2, <1>5 DEF OnTask, Effect
<1>11. f \in Tasks => g.state[f] = heap.state[f] /\ g.state[f].refs >= 1
  BY <1>2, <1>10 DEF Beside
<1>12. \A u \in Tasks \ {t} :
         /\ UNCHANGED Calls(u)
         /\ (IF current' = u THEN phase' ELSE "idle") = (IF current = u THEN phase ELSE "idle")
  BY <1>1, <1>7, <1>9 DEF Calls
<1> DEFINE k == register(g, t, f)
<1>13. /\ k \in Heaps /\ k.awaiter = [heap.awaiter EXCEPT ![t] = f]
       /\ k.should_poll = heap.should_poll
       /\ heap.awaiter[t] = None /\ f \in Tasks =>
            Effect(heap, k, f, incr_ref(heap.state[f]), 0, FALSE, FALSE)
       /\ heap.awaiter[t] = f /\ f \in Tasks => Beside(heap, k, f)
       /\ \A u \in Tasks \ {t, f} : Beside(heap, k, u)
       /\ Beside(g, k, t)
  <2>1. /\ k \in Heaps /\ k.awaiter = [g.awaiter EXCEPT ![t] = f]
        /\ k.should_poll = g.should_poll
        /\ g.awaiter[t] = None /\ f \in Tasks =>
             Effect(g, k, f, incr_ref(g.state[f]), 0, FALSE, FALSE)
        /\ g.awaiter[t] = f => \A u \in Tasks : Beside(g, k, u)
        /\ \A u \in Tasks \ {f} : Beside(g, k, u)
    <3>1. /\ g \in Heaps /\ f \in Futures /\ g.awaiter[t] \in {None, f}
          /\ f \in Tasks => g.state[f].refs >= 1
      BY <1>2, <1>10, <1>11
    <3> QED  BY ZenonT(60), <3>1, Registers DEF k
  <2> HIDE DEF k
  <2>2. heap.awaiter[t] = None /\ f \in Tasks =>
          Effect(heap, k, f, incr_ref(heap.state[f]), 0, FALSE, FALSE)
    BY <1>2, <1>10, <1>11, <2>1 DEF Effect, Beside
  <2>3. /\ heap.awaiter[t] = f /\ f \in Tasks => Beside(heap, k, f)
        /\ \A u \in Tasks \ {t, f} : Beside(heap, k, u)
    BY <1>2, <1>10, <2>1 DEF Beside
  <2> QED  BY <1>2, <1>10, <2>1, <2>2, <2>3
<1> HIDE DEF k
<1>14. CASE r.action = "Start"
  <2>1. heap' = schedule(k, t, TRUE) /\ UNCHANGED <<output, result, fault>>
    BY <1>8, <1>9, <1>14 DEF k
  <2>2. OnTask(k, heap', t, incr_ref(k.state[t]), 1, FALSE, FALSE)
    BY <1>13, <2>1, Schedules
  <2>3. /\ heap' \in Heaps /\ heap'.awaiter = [heap.awaiter EXCEPT ![t] = f]
        /\ heap'.should_poll = heap.should_poll
        /\ heap'.state[t] = incr_ref(r.state)
        /\ Times(heap'.queue, t) = Times(heap.queue, t) + 1
        /\ t \in heap'.freed <=> t \in heap.freed
        /\ t \in heap'.woken <=> t \in heap.woken
    BY <1>5, <1>10, <1>13, <2>2 DEF OnTask, Effect, Beside
  <2>4. /\ heap.awaiter[t] = None /\ f \in Tasks =>
             Effect(heap, heap', f, incr_ref(heap.state[f]), 0, FALSE, FALSE)
        /\ heap.awaiter[t] = f /\ f \in Tasks => Beside(heap, heap', f)
        /\ \A u \in Tasks \ {t, f} : Beside(heap, heap', u)
    BY <1>2, <1>13, <2>2 DEF OnTask, Effect, Beside
  <2>5. /\ \A u \in Tasks \ {t} :
              View(u)' = View(u) \/ (handle[u] # "unspawned" /\ P!Step(View(u), View(u)'))
        /\ UNCHANGED Clones(t)
    BY <1>1, <1>2, <1>12, <2>3, <2>4, OthersMove
  <2>6. /\ P!Shaped(w) /\ w.state = incr_ref(r.state) /\ w.runnables = v.runnables + 1
        /\ w.awaiter = TRUE
        /\ P!OnlyIn(v, w, {"state", "runnables", "awaiter"})
    <3>1. /\ P!Shaped(w) /\ w.state = incr_ref(r.state) /\ w.runnables = v.runnables + 1
          /\ w.awaiter = TRUE /\ w.wakers = v.wakers
      <4>1. P!Shaped(w) /\ w.state = incr_ref(r.state) /\ w.runnables = v.runnables + 1
        BY <1>2, <2>3, NextViewFields
      <4> QED  BY <1>2, <2>3, <2>5, <4>1, SameFields
    <3>2. w.memory = v.memory /\ w.woken = v.woken
      BY <1>2, <2>3, SameFields
    <3>3. P!OnlyIn(v, w, {"state", "runnables", "awaiter"})
      <4>1. /\ w.output = v.output /\ w.drops = v.drops /\ w.phase = v.phase
            /\ w.handle = v.handle /\ w.result = v.result /\ w.cancelled = v.cancelled
            /\ w.executor = v.executor /\ w.fault = v.fault /\ w.wakers = v.wakers
        <5>1. UNCHANGED Calls(t)
          BY <1>1, <2>1 DEF Calls
        <5>2. /\ w.output = v.output /\ w.drops = v.drops /\ w.phase = v.phase
              /\ w.handle = v.handle /\ w.result = v.result /\ w.cancelled = v.cancelled
              /\ w.executor = v.executor /\ w.fault = v.fault
          BY <1>1, <1>2, <2>3, <5>1, SameFields
        <5> QED  BY <3>1, <5>2
      <4> HIDE DEF v, w
      <4> QED  BY <3>2, <4>1 DEF P!OnlyIn, P!NewTask
    <3> QED  BY <3>1, <3>3
  <2> HIDE DEF v, w
  <2>7. P!PollHandle(v, w)
    BY <1>2, <1>3, <1>4, <1>14, <2>6, SameWords, Constants, P!StartFields
  <2>8. P!Step(View(t), View(t)')
    BY <2>7 DEF P!Step, v, w
  <2> QED  BY <1>1, <1>2, <2>3, <2>5, <2>8, MovedWith
<1>15. CASE r.action = "Register"
  <2>1. heap' = k /\ UNCHANGED <<output, result, fault>>
    BY <1>8, <1>9, <1>15 DEF k
  <2>2. /\ heap'.state[t] = heap.state[t] /\ Times(heap'.queue, t) = Times(heap.queue, t)
        /\ t \in heap'.freed <=> t \in heap.freed
        /\ t \in heap'.woken <=> t \in heap.woken
    BY <1>5, <1>6, <1>10, <1>13, <1>15, <2>1 DEF OnTask, Effect, Beside
  <2>3. /\ \A u \in Tasks \ {t} :
              View(u)' = View(u) \/ (handle[u] # "unspawned" /\ P!Step(View(u), View(u)'))
        /\ UNCHANGED Clones(t)
    BY <1>1, <1>2, <1>12, <1>13, <2>1, OthersMove
  <2>4. /\ P!Shaped(w) /\ w.awaiter = TRUE /\ w.fault = v.fault
        /\ P!OnlyIn(v, w, {"awaiter", "fault"})
    <3>1. P!Shaped(w) /\ w.awaiter = TRUE /\ w.fault = v.fault /\ w.wakers = v.wakers
      <4>1. P!Shaped(w) /\ w.fault = v.fault
        BY <1>2, <1>13, <2>1, ViewFields, NextViewFields
      <4> QED  BY <1>2, <1>13, <2>1, <2>3, <4>1, SameFields
    <3>2. P!OnlyIn(v, w, {"awaiter", "fault"})
      BY <1>1, <1>2, <1>13, <2>1, <2>2, <3>1, ViewFields, NextViewFields DEF P!OnlyIn, P!NewTask
    <3> QED  BY <3>1, <3>2
  <2> HIDE DEF v, w
  <2>5. w.fault = P!PanicOr(r.action, v.fault) /\ w.awaiter = (v.awaiter \/ r.action = "Register")
    BY <1>2, <1>15, <2>4 DEF P!PanicOr, P!Panics
  <2>6. P!PollHandle(v, w)
    BY <1>2, <1>3, <1>4, <1>15, <2>4, <2>5, Constants, P!RegisterFields
  <2>7. P!Step(View(t), View(t)')
    BY <2>6 DEF P!Step, v, w
  <2> QED  BY <1>1, <1>2, <1>13, <2>1, <2>3, <2>7, MovedWith
<1>16. CASE r.action \in {"CompleteNone", "CompleteSome"}
  <2>1. /\ heap' = notify_unless(g, t, f)
        /\ result' = [result EXCEPT ![t] = IF r.action = "CompleteNone" THEN "none" ELSE "some"]
        /\ output' = IF r.action = "CompleteNone" THEN output ELSE [output EXCEPT ![t] = "moved"]
        /\ UNCHANGED fault
    BY <1>8, <1>9, <1>16
  <2>2. /\ heap' \in Heaps /\ heap'.awaiter = [heap.awaiter EXCEPT ![t] = None]
        /\ heap'.should_poll = heap.should_poll
        /\ heap.awaiter[t] = None => \A u \in Tasks : Beside(g, heap', u)
        /\ heap.awaiter[t] = f /\ f \in Tasks => Dropped(g, heap', f)
        /\ \A u \in Tasks \ {f} : Beside(g, heap', u)
    BY <1>2, <1>10, <2>1, NotifiesUnless
  <2>3. /\ heap.awaiter[t] = f /\ f \in Tasks => Dropped(heap, heap', f)
        /\ heap.awaiter[t] = None /\ f \in Tasks => Beside(heap, heap', f)
        /\ \A u \in Tasks \ {t, f} : Beside(heap, heap', u)
    <3>1. heap.awaiter[t] = f /\ f \in Tasks => Dropped(heap, heap', f)
      BY <1>2, <1>10, <1>11, <2>2 DEF Dropped, Effect, Beside
    <3> QED  BY <1>2, <1>10, <2>2, <3>1 DEF Beside
  <2>4. /\ heap'.state[t] = r.state /\ Times(heap'.queue, t) = Times(heap.queue, t)
        /\ t \in heap'.freed <=> t \in heap.freed
        /\ t \in heap'.woken <=> t \in heap.woken
    BY <1>2, <1>5, <2>2 DEF OnTask, Effect, Beside
  <2>5. /\ \A u \in Tasks \ {t} :
              View(u)' = View(u) \/ (handle[u] # "unspawned" /\ P!Step(View(u), View(u)'))
        /\ UNCHANGED Clones(t)
    BY <1>1, <1>2, <1>12, <2>2, <2>3, OthersMove
  <2>6. /\ P!Shaped(w) /\ w.state = r.state /\ w.awaiter = FALSE
        /\ w.result = (IF r.action = "CompleteNone" THEN "none" ELSE "some")
        /\ w.output = (IF r.action = "CompleteNone" THEN v.output ELSE "moved")
        /\ P!OnlyIn(v, w, {"state", "awaiter", "result", "output"})
    <3>1. /\ P!Shaped(w) /\ w.state = r.state /\ w.awaiter = FALSE /\ w.wakers = v.wakers
          /\ w.result = result'[t] /\ w.output = output'[t] /\ v.output = output[t]
      <4>1. /\ P!Shaped(w) /\ w.state = r.state
            /\ w.result = result'[t] /\ w.output = output'[t] /\ v.output = output[t]
        BY <1>2, <2>2, <2>4, ViewFields, NextViewFields
      <4> QED  BY <1>2, <2>2, <2>5, <4>1, SameFields
    <3>2. P!OnlyIn(v, w, {"state", "awaiter", "result", "output"})
      BY <1>1, <1>2, <2>1, <2>2, <2>4, <3>1, ViewFields, NextViewFields DEF P!OnlyIn, P!NewTask
    <3>3. /\ result'[t] = (IF r.action = "CompleteNone" THEN "none" ELSE "some")
          /\ output'[t] = (IF r.action = "CompleteNone" THEN output[t] ELSE "moved")
      BY <1>7, <2>1
    <3> HIDE DEF v, w
    <3> QED  BY <3>1, <3>2, <3>3
  <2> HIDE DEF v, w
  <2>7. P!PollHandle(v, w)
    BY <1>2, <1>3, <1>4, <1>16, <2>6, Constants, P!AnswerFields
  <2>8. P!Step(View(t), View(t)')
    BY <2>7 DEF P!Step, v, w
  <2> QED  BY <1>1, <1>2, <2>2, <2>5, <2>8, MovedWith
<1>17. CASE r.action \in Panics
  <2>1. fault' = [fault EXCEPT ![t] = r.action] /\ UNCHANGED <<heap, output, result>>
    BY <1>8, <1>9, <1>17
  <2>2. UNCHANGED Clones(t) /\ heap'.awaiter = [heap.awaiter EXCEPT ![t] = heap.awaiter[t]]
        /\ \A u \in Tasks \ {t} : View(u)' = View(u)
    <3>1. heap'.awaiter = [heap.awaiter EXCEPT ![t] = heap.awaiter[t]]
      BY <1>2, <2>1, HeapFields
    <3>2. \A u \in Tasks : UNCHANGED Clones(u) /\ UNCHANGED Bound(u) /\ Beside(heap, heap', u)
      BY <1>1, <2>1 DEF Clones, Bound, Beside, Times, Spots
    <3> QED  BY <1>2, <1>12, <2>1, <3>1, <3>2, Untouched
  <2>3. P!Shaped(w) /\ w.fault = r.action /\ w.awaiter = v.awaiter
        /\ P!OnlyIn(v, w, {"awaiter", "fault"})
    <3>1. P!Shaped(w) /\ w.fault = r.action /\ w.wakers = v.wakers /\ w.awaiter = v.awaiter
      BY <1>2, <1>7, <2>1, <2>2, ViewFields, NextViewFields, ClonesAre
    <3>2. P!OnlyIn(v, w, {"awaiter", "fault"})
      BY <1>1, <1>2, <2>1, <3>1, ViewFields, NextViewFields DEF P!OnlyIn, P!NewTask
    <3> QED  BY <3>1, <3>2
  <2> HIDE DEF v, w
  <2>4. w.fault = P!PanicOr(r.action, v.fault) /\ w.awaiter = (v.awaiter \/ r.action = "Register")
        /\ r.action \in P!Panics
    BY <1>2, <1>8, <1>17, <2>3, SameWords DEF P!PanicOr
  <2>5. P!PollHandle(v, w)
    BY <1>2, <1>3, <1>4, <2>3, <2>4, Constants, P!RegisterFields
  <2>6. P!Step(View(t), View(t)')
    BY <2>5 DEF P!Step, v, w
  <2> QED  BY <1>1, <1>2, <2>1, <2>2, <2>6, MovedWith
<1> QED  BY <1>9, <1>14, <1>15, <1>16, <1>17

(* Two calls on the same task *)
LEMMA OnTaskTwice ==
  ASSUME NEW h \in Heaps, NEW g, NEW k, NEW t \in Tasks, NEW s, NEW z, NEW m \in Nat, NEW n \in Nat,
         NEW a \in BOOLEAN, NEW b \in BOOLEAN,
         OnTask(h, g, t, s, m, a, FALSE), OnTask(g, k, t, z, n, b, FALSE)
  PROVE  OnTask(h, k, t, z, m + n, a \/ b, FALSE)
<1>1. \A u : Times(h.queue, u) \in Nat
  BY HeapFields
<1>2. Effect(h, k, t, z, m + n, a \/ b, FALSE)
  BY <1>1 DEF OnTask, Effect
<1>3. \A u \in Tasks \ {t} : Beside(h, k, u)
  BY DEF OnTask, Beside
<1> QED  BY <1>2, <1>3 DEF OnTask

LEMMA Destroys ==
  ASSUME NEW h \in Heaps, NEW t \in Tasks
  PROVE  OnTask(h, destroy(h, t), t, h.state[t], 0, TRUE, FALSE)
<1> DEFINE k == destroy(h, t)
<1>1. /\ k \in Heaps /\ k.awaiter = h.awaiter /\ k.should_poll = h.should_poll
      /\ k.state = h.state /\ k.queue = h.queue /\ k.woken = h.woken
      /\ k.freed = h.freed \union {t}
  BY DEF destroy, Heaps
<1>2. Times(h.queue, t) \in Nat
  BY HeapFields
<1> HIDE DEF k
<1>3. Effect(h, k, t, h.state[t], 0, TRUE, FALSE) /\ \A u \in Tasks \ {t} : Beside(h, k, u)
  BY <1>1, <1>2 DEF Effect, Beside
<1>4. OnTask(h, k, t, h.state[t], 0, TRUE, FALSE)
  BY <1>1, <1>3 DEF OnTask
<1> QED  BY <1>4 DEF k

(* Waking the awaiter of t, once what t has on the heap was changed *)
LEMMA NotifyOwner ==
  ASSUME Ready, NEW t \in Tasks, NEW f, f = Owner[t], f # t, NEW g \in Heaps,
         g.awaiter = heap.awaiter, g.should_poll = heap.should_poll,
         \A u \in Tasks \ {t} : Beside(heap, g, u)
  PROVE  LET k == notify(g, t) IN
         /\ k \in Heaps /\ k.awaiter = [heap.awaiter EXCEPT ![t] = None]
         /\ heap.should_poll => k.should_poll
         /\ heap.awaiter[t] = Root => k.should_poll
         /\ heap.awaiter[t] \in Tasks => heap.awaiter[t] \in k.woken
         /\ Beside(g, k, t)
         /\ f \in Tasks /\ heap.awaiter[t] = f => WokenByVal(heap, k, f)
         /\ f \in Tasks /\ heap.awaiter[t] = None => Beside(heap, k, f)
         /\ \A u \in Tasks \ {t, f} : Beside(heap, k, u)
<1> DEFINE k == notify(g, t)
           b == heap.awaiter[t]
<1>1. b \in {None, f} /\ f \in Futures /\ None \notin Futures
  BY OwnerType, TasksType DEF Ready, Family
<1>2. /\ k \in Heaps /\ k.awaiter = [heap.awaiter EXCEPT ![t] = None]
      /\ k.should_poll = (heap.should_poll \/ b = Root)
      /\ b \in Tasks => WokenByVal(g, k, b)
      /\ \A u \in Tasks \ {b} : Beside(g, k, u)
  BY Notifies
<1> HIDE DEF k, b
<1>3. heap.should_poll \in BOOLEAN
  BY HeapFields DEF Ready, Typed
<1>4. ASSUME b \in Tasks
      PROVE  WokenByVal(heap, k, b) /\ b \in k.woken
  <2>1. b # t /\ Beside(heap, g, b)
    BY <1>1, <1>4, TasksType DEF Futures
  <2>2. WokenByVal(g, k, b)
    BY <1>2, <1>4
  <2>3. WokenByVal(heap, k, b)
    BY <2>1, <2>2 DEF WokenByVal, Effect, Beside
  <2>4. b \in k.woken
    BY <2>2 DEF WokenByVal, Effect
  <2> QED  BY <2>3, <2>4
<1>5. Beside(g, k, t)
  BY <1>1, <1>2, TasksType DEF Futures
<1>6. f \in Tasks /\ b = None => Beside(heap, k, f)
  BY <1>1, <1>2 DEF Beside
<1>7. \A u \in Tasks \ {t, f} : Beside(heap, k, u)
  BY <1>1, <1>2, TasksType DEF Beside, Futures
<1> QED  BY <1>2, <1>3, <1>4, <1>5, <1>6, <1>7 DEF k, b

LEMMA CancelStep ==
  ASSUME Ready, NEW t \in Tasks, Cancel(t), NEW f, f = Owner[t]
  PROVE  Moved
<1> DEFINE v == View(t)
           w == View(t)'
           r == transition_to_closed(heap.state[t])
           g == [heap EXCEPT !.state[t] = r.state]
<1>1. /\ current = f /\ handle[t] = "held" /\ result[t] = "pending" /\ t \notin cancelled
      /\ cancelled' = cancelled \union {t} /\ "cancel" \in Client
      /\ UNCHANGED <<handle, output, drops, result, channel, current, phase, fault>>
      /\ heap' = CASE r.action = "DoNothing"        -> g
                   [] r.action = "Close"            -> notify(g, t)
                   [] r.action = "CloseAndSchedule" -> notify(schedule(g, t, FALSE), t)
  BY DEF Cancel, Polling, loopVars
<1>2. /\ f \in Futures /\ f # None /\ f # t /\ heap.awaiter[t] \in {None, f}
      /\ heap \in Heaps /\ heap.awaiter \in [Tasks -> Futures \union {None}]
      /\ v.state = heap.state[t] /\ heap.state[t] \in P!Word
      /\ v.fault = "none" /\ v.executor = "up" /\ P!Shaped(v)
      /\ v.runnables \in Nat
  BY <1>1, Holds
<1>3. v.handle = "held" /\ v.result = "pending" /\ ~v.cancelled
  BY <1>1, <1>2, ViewFields
<1>4. "cancel" \in TaskClient
  BY <1>1, Constants
<1>5. r = P!transition_to_closed(v.state) /\ r.state \in P!Word
      /\ r.action \in {"DoNothing", "Close", "CloseAndSchedule"}
  BY <1>2, SameTransitions, Constants, P!ClosedTransition
<1>6. OnTask(heap, g, t, r.state, 0, FALSE, FALSE)
  BY <1>2, <1>5, SetState
<1> HIDE DEF r, g
<1> DEFINE submit == r.action = "CloseAndSchedule"
           k == IF submit THEN schedule(g, t, FALSE) ELSE g
           s == IF submit THEN incr_ref(r.state) ELSE r.state
           n == IF submit THEN 1 ELSE 0
<1>7. OnTask(heap, k, t, s, n, FALSE, FALSE)
  <2>1. CASE submit
    <3>1. g \in Heaps /\ g.state[t] = r.state
      BY <1>6 DEF OnTask, Effect
    <3>2. OnTask(g, schedule(g, t, FALSE), t, incr_ref(g.state[t]), 1, FALSE, FALSE)
      BY <3>1, Schedules
    <3>3. OnTask(g, k, t, s, 1, FALSE, FALSE)
      BY <2>1, <3>1, <3>2
    <3> HIDE DEF k, s
    <3>4. OnTask(heap, k, t, s, 0 + 1, FALSE \/ FALSE, FALSE)
      BY <1>2, <1>6, <3>3, OnTaskTwice
    <3>5. 0 + 1 = n /\ (FALSE \/ FALSE) = FALSE
      BY <2>1
    <3> QED  BY <3>4, <3>5
  <2> QED  BY <1>6, <2>1
<1> HIDE DEF s
<1>8. n \in Nat
  OBVIOUS
<1>9. /\ r.action = "DoNothing" => heap' = k
      /\ r.action # "DoNothing" => heap' = notify(k, t)
  BY <1>1, <1>5
<1> HIDE DEF k, n, submit
<1>10. \A u \in Tasks \ {t} :
         /\ UNCHANGED Calls(u)
         /\ (IF current' = u THEN phase' ELSE "idle") = (IF current = u THEN phase ELSE "idle")
  BY <1>1 DEF Calls
<1> DEFINE a == IF r.action = "DoNothing" THEN heap.awaiter[t] ELSE None
<1>11. /\ heap' \in Heaps /\ heap'.awaiter = [heap.awaiter EXCEPT ![t] = a] /\ a \in {None, f}
       /\ Effect(heap, heap', t, s, n, FALSE, FALSE)
       /\ heap.should_poll => heap'.should_poll
       /\ a = heap.awaiter[t] \/ Rouses(heap.awaiter[t])
       /\ \A u \in Tasks \ {t, f} : Beside(heap, heap', u)
       /\ f \in Tasks =>
            \/ a = heap.awaiter[t] /\ Beside(heap, heap', f)
            \/ a = None /\ heap.awaiter[t] = f /\ WokenByVal(heap, heap', f)
  <2>1. CASE r.action = "DoNothing"
    <3>1. heap' = k /\ a = heap.awaiter[t]
      BY <1>9, <2>1
    <3>2. heap.awaiter = [heap.awaiter EXCEPT ![t] = a]
      BY <1>2, <3>1
    <3> HIDE DEF a
    <3> QED  BY <1>2, <1>7, <3>1, <3>2 DEF OnTask
  <2>2. CASE r.action # "DoNothing"
    <3>1. heap' = notify(k, t) /\ a = None
      BY <1>9, <2>2
    <3> HIDE DEF a
    <3>2. k \in Heaps /\ k.awaiter = heap.awaiter /\ k.should_poll = heap.should_poll
          /\ \A u \in Tasks \ {t} : Beside(heap, k, u)
      BY <1>7 DEF OnTask
    <3>3. /\ heap' \in Heaps /\ heap'.awaiter = [heap.awaiter EXCEPT ![t] = None]
          /\ heap.should_poll => heap'.should_poll
          /\ heap.awaiter[t] = Root => heap'.should_poll
          /\ heap.awaiter[t] \in Tasks => heap.awaiter[t] \in heap'.woken
          /\ Beside(k, heap', t)
          /\ f \in Tasks /\ heap.awaiter[t] = f => WokenByVal(heap, heap', f)
          /\ f \in Tasks /\ heap.awaiter[t] = None => Beside(heap, heap', f)
          /\ \A u \in Tasks \ {t, f} : Beside(heap, heap', u)
      BY <1>2, <3>1, <3>2, NotifyOwner
    <3>4. Effect(heap, heap', t, s, n, FALSE, FALSE)
      BY <1>7, <3>3 DEF OnTask, Effect, Beside
    <3>5. a = heap.awaiter[t] \/ Rouses(heap.awaiter[t])
      BY <1>2, <3>1, <3>3, TasksType DEF Rouses, Futures
    <3> QED  BY <1>2, <3>1, <3>3, <3>4, <3>5
  <2> QED  BY <2>1, <2>2
<1>12. (a # None) <=> (heap.awaiter[t] # None) /\ r.action = "DoNothing"
  OBVIOUS
<1> HIDE DEF a
<1>13. /\ \A u \in Tasks \ {t} :
            View(u)' = View(u) \/ (handle[u] # "unspawned" /\ P!Step(View(u), View(u)'))
       /\ UNCHANGED Clones(t)
  <2>1. f \in Tasks =>
          \/ a = heap.awaiter[t] /\ Beside(heap, heap', f)
          \/ /\ a = f /\ heap.awaiter[t] = None /\ current = f /\ phase = "polling"
             /\ Effect(heap, heap', f, incr_ref(heap.state[f]), 0, FALSE, FALSE)
          \/ /\ a = None /\ heap.awaiter[t] = f
             /\ Dropped(heap, heap', f) \/ WokenByVal(heap, heap', f)
    BY <1>11
  <2>2. /\ heap' \in Heaps /\ heap'.awaiter = [heap.awaiter EXCEPT ![t] = a] /\ a \in {None, f}
        /\ channel' = channel /\ f # t /\ \A u \in Tasks \ {t, f} : Beside(heap, heap', u)
    BY <1>1, <1>2, <1>11
  <2> QED  BY <1>10, <2>1, <2>2, OthersMove
<1>14. /\ P!Shaped(w) /\ w.state = s /\ w.runnables = v.runnables + n /\ w.cancelled = TRUE
       /\ w.awaiter = (v.awaiter /\ r.action = "DoNothing")
       /\ P!OnlyIn(v, w, {"state", "runnables", "awaiter", "cancelled"})
  <2>1. /\ w.state = s /\ w.runnables = v.runnables + n /\ w.memory = v.memory
        /\ w.woken = v.woken /\ P!Shaped(w)
    <3>1. heap \in Heaps /\ heap' \in Heaps /\ Effect(heap, heap', t, s, n, FALSE, FALSE)
      BY <1>2, <1>11
    <3>2. /\ w.state = s /\ w.runnables = v.runnables + n /\ w.memory = v.memory
          /\ w.woken = v.woken
      BY <1>8, <3>1, EffectFields
    <3> QED  BY <3>1, <3>2, NextViewFields
  <2>2. /\ w.output = v.output /\ w.drops = v.drops /\ w.result = v.result /\ w.fault = v.fault
        /\ w.handle = v.handle /\ w.phase = v.phase /\ w.wakers = v.wakers /\ w.cancelled = TRUE
    BY <1>1, <1>2, <1>11, <1>13, SameFields
  <2>3. w.executor = v.executor
    BY <1>2, <1>11, NextViewFields
  <2>4. w.awaiter = (v.awaiter /\ r.action = "DoNothing")
    <3>1. v.awaiter = (heap.awaiter[t] # None) /\ w.awaiter = (heap'.awaiter[t] # None)
          /\ heap'.awaiter[t] = a
      BY <1>2, <1>11, ViewFields, NextViewFields
    <3> HIDE DEF v, w
    <3>2. (heap'.awaiter[t] # None) = ((heap.awaiter[t] # None) /\ r.action = "DoNothing")
      BY <1>12, <3>1
    <3> QED  BY <3>1, <3>2, Zenon
  <2> HIDE DEF v, w
  <2> QED  BY <2>1, <2>2, <2>3, <2>4 DEF P!OnlyIn, P!NewTask
<1> HIDE DEF v, w
<1>15. /\ w.state = (IF submit THEN P!incr_ref(r.state) ELSE r.state)
       /\ w.runnables = (IF submit THEN v.runnables + 1 ELSE v.runnables)
  BY <1>2, <1>14, SameWords DEF s, n
<1>16. P!Cancel(v, w)
  BY <1>2, <1>3, <1>4, <1>5, <1>14, <1>15, Constants, P!CancelFields DEF submit
<1>17. P!Step(View(t), View(t)')
  BY <1>16 DEF P!Step, v, w
<1> QED  BY <1>1, <1>2, <1>11, <1>13, <1>17, MovedWith

(***************************************************************************)
(* Futures that only await drop a handle that was answered, when all the   *)
(* wakers of the task are gone with the tasks that it awaited.             *)
(***************************************************************************)
LEMMA MayDrop ==
  ASSUME Ready, Bereft, OnlyAwaits, NEW t \in Tasks, DropHandle(t), NEW f, f = Owner[t]
  PROVE  /\ View(t).result # "pending" \/ "early_drop" \in TaskClient
         /\ View(t).wakers = 0 \/ "stray_waker" \in TaskClient
<1>1. /\ current = f /\ handle[t] = "held"
      /\ phase = "polling" => result[t] # "pending" \/ "early_drop" \in Client
  BY DEF DropHandle
<1>2. CASE ~(Client \subseteq {"yield_forever"})
  BY <1>2, Constants
<1>3. CASE Client \subseteq {"yield_forever"}
  <2> DEFINE v == View(t)
  <2>1. /\ cancelled = {} /\ channel = {} /\ phase # "dropping"
        /\ \A u \in Tasks : heap.awaiter[u] # None => Awaited(u)
        /\ phase = "completing" =>
             \A u \in Children(current) : handle[u] = "held" => result[u] # "pending"
    BY <1>3 DEF OnlyAwaits
  <2>2. f # None /\ f # t /\ phase # "idle" /\ t \in Children(current)
    BY <1>1, Holds DEF Ready, Loop, Children
  <2>3. result[t] # "pending"
    BY <1>1, <1>3, <2>1, <2>2 DEF Ready, Typed
  <2>4. /\ v.result = result[t] /\ v.drops = drops[t] /\ v.handle = "held" /\ v.executor = "up"
        /\ v.wakers = Times(heap.awaiter, t) + (IF t \in channel THEN 1 ELSE 0)
        /\ ~v.cancelled /\ v.fault = "none" /\ P!AInv(v)
    <3>1. /\ v.result = result[t] /\ v.drops = drops[t] /\ v.executor = "up"
          /\ v.wakers = Times(heap.awaiter, t) + (IF t \in channel THEN 1 ELSE 0)
          /\ v.handle = (IF handle[t] = "dropped" THEN "dropped" ELSE "held")
      BY TaskFacts, ViewFields
    <3>2. ~v.cancelled
      BY <2>1 DEF View
    <3> QED  BY <1>1, <3>1, <3>2, TaskFacts DEF Ready, EachTask
  <2> HIDE DEF v
  <2>5. drops[t] > 0
    BY <2>3, <2>4 DEF P!AInv, P!Awaits, P!Awaited, P!Tended, P!HandleLast, P!DropsOnce
  <2>6. \A u \in Children(t) : handle[u] # "held"
    BY <1>1, <2>2, <2>5 DEF Bereft
  <2>7. \A u \in Tasks : heap.awaiter[u] # t
    BY <2>1, <2>6, TaskFacts DEF Awaited, Children
  <2>8. Times(heap.awaiter, t) \in Nat /\ ~(Times(heap.awaiter, t) > 0)
    <3>1. heap.awaiter \in [Tasks -> Futures \union {None}]
      BY HeapFields DEF Ready, Typed
    <3> QED  BY <2>7, <3>1, TimesHeld
  <2>9. v.wakers = 0
    BY <2>1, <2>4, <2>8
  <2> QED  BY <2>3, <2>4, <2>9 DEF v
<1> QED  BY <1>2, <1>3

LEMMA DropHandleStep ==
  ASSUME Ready, Bereft, OnlyAwaits, NEW t \in Tasks, DropHandle(t), NEW f, f = Owner[t]
  PROVE  Moved
<1> DEFINE v == View(t)
           w == View(t)'
           r == drop_join_handle(heap.state[t])
           g == [heap EXCEPT !.state[t] = r.state]
<1>1. /\ current = f /\ handle[t] = "held" /\ handle' = [handle EXCEPT ![t] = "dropped"]
      /\ UNCHANGED <<drops, result, cancelled, channel, current, phase>>
      /\ \/ /\ r.action \notin Panics /\ UNCHANGED fault
            /\ heap' = CASE r.action = "Schedule" -> schedule(g, t, FALSE)
                         [] r.action \in {"Destroy", "DropOutputDestroy"} -> destroy(g, t)
                         [] r.action \in {"DoNothing", "DropOutput"} -> g
            /\ output' = IF r.action \in {"DropOutput", "DropOutputDestroy"}
                           THEN [output EXCEPT ![t] = "moved"] ELSE output
         \/ /\ r.action \in Panics /\ fault' = [fault EXCEPT ![t] = r.action]
            /\ UNCHANGED <<heap, output>>
  BY DEF DropHandle, loopVars
<1>2. /\ f \in Futures /\ f # None /\ f # t /\ heap.awaiter[t] \in {None, f}
      /\ heap \in Heaps /\ heap.awaiter \in [Tasks -> Futures \union {None}]
      /\ v.state = heap.state[t] /\ heap.state[t] \in P!Word
      /\ v.fault = "none" /\ v.executor = "up" /\ P!Shaped(v)
      /\ v.runnables \in Nat
  BY <1>1, Holds
<1>3. /\ v.handle = "held"
      /\ v.result # "pending" \/ "early_drop" \in TaskClient
      /\ v.wakers = 0 \/ "stray_waker" \in TaskClient
  BY <1>1, <1>2, ViewFields, MayDrop
<1>4. /\ r = P!drop_join_handle(v.state)
      /\ r.state \in P!Word
      /\ r.action \in {"Schedule", "Destroy", "DropOutputDestroy", "DoNothing", "DropOutput"}
                      \union Panics
  <2> DEFINE q == P!drop_join_handle(v.state)
  <2>1. P!Destroyed(v.state, q) \/ P!OutputDropped(v.state, q) \/ P!QueuedOnce(v.state, q)
        \/ P!Detached(v.state, q) \/ P!Panicked(v.state, q)
    BY <1>2, Constants, P!DropHandleTransition
  <2>2. r = q
    BY <1>2, SameTransitions
  <2> HIDE DEF q, r
  <2>3. q.state \in P!Word
        /\ q.action \in {"Schedule", "Destroy", "DropOutputDestroy", "DoNothing", "DropOutput",
                         "assert_output_idle", "assert_last_idle", "assert_detached_active",
                         "unreachable"}
    BY <1>2, <2>1 DEF P!Destroyed, P!OutputDropped, P!QueuedOnce, P!Detached, P!Panicked
  <2> QED  BY <2>2, <2>3 DEF Panics, q
<1>5. OnTask(heap, g, t, r.state, 0, FALSE, FALSE)
  BY <1>2, <1>4, SetState
<1>6. /\ fault \in [Tasks -> Panics \union {"none"}]
      /\ output \in [Tasks -> {"none", "stored", "moved"}]
      /\ handle \in [Tasks -> {"unspawned", "held", "dropped"}]
  BY DEF Ready, Typed
<1> HIDE DEF r, g
<1>7. \A u \in Tasks \ {t} :
        /\ UNCHANGED Calls(u)
        /\ (IF current' = u THEN phase' ELSE "idle") = (IF current = u THEN phase ELSE "idle")
  BY <1>1, <1>6 DEF Calls
<1>8. handle'[t] = "dropped"
  BY <1>1, <1>6
<1> DEFINE again == r.action = "Schedule"
           gone == r.action \in {"Destroy", "DropOutputDestroy"}
           s == IF again THEN incr_ref(r.state) ELSE r.state
           n == IF again THEN 1 ELSE 0
<1>9. CASE r.action \notin Panics
  <2>1. /\ heap' = CASE r.action = "Schedule" -> schedule(g, t, FALSE)
                     [] r.action \in {"Destroy", "DropOutputDestroy"} -> destroy(g, t)
                     [] r.action \in {"DoNothing", "DropOutput"} -> g
        /\ output' = IF r.action \in {"DropOutput", "DropOutputDestroy"}
                       THEN [output EXCEPT ![t] = "moved"] ELSE output
        /\ UNCHANGED fault
    BY <1>1, <1>9
  <2>2. OnTask(heap, heap', t, s, n, gone, FALSE)
    <3>1. g \in Heaps /\ g.state[t] = r.state
      BY <1>5 DEF OnTask, Effect
    <3>2. CASE again
      <4>1. heap' = schedule(g, t, FALSE)
        BY <2>1, <3>2
      <4>2. OnTask(g, heap', t, incr_ref(g.state[t]), 1, FALSE, FALSE)
        BY <3>1, <4>1, Schedules
      <4>3. OnTask(g, heap', t, s, 1, FALSE, FALSE)
        BY <3>1, <3>2, <4>2
      <4> HIDE DEF s
      <4>4. OnTask(heap, heap', t, s, 0 + 1, FALSE \/ FALSE, FALSE)
        BY <1>2, <1>5, <4>3, OnTaskTwice
      <4>5. 0 + 1 = n /\ (FALSE \/ FALSE) = gone
        BY <3>2
      <4> QED  BY <4>4, <4>5
    <3>3. CASE gone
      <4>1. heap' = destroy(g, t)
        BY <2>1, <3>3
      <4>2. OnTask(g, heap', t, g.state[t], 0, TRUE, FALSE)
        BY <3>1, <4>1, Destroys
      <4>3. OnTask(g, heap', t, s, 0, TRUE, FALSE)
        BY <3>1, <3>3, <4>2
      <4> HIDE DEF s
      <4>4. OnTask(heap, heap', t, s, 0 + 0, FALSE \/ TRUE, FALSE)
        BY <1>2, <1>5, <4>3, OnTaskTwice
      <4>5. 0 + 0 = n /\ (FALSE \/ TRUE) = gone
        BY <3>3
      <4> QED  BY <4>4, <4>5
    <3>4. CASE ~again /\ ~gone
      <4>1. heap' = g
        BY <1>4, <1>9, <2>1, <3>4
      <4>2. s = r.state /\ n = 0 /\ gone = FALSE
        BY <3>4
      <4> HIDE DEF s, n, gone
      <4> QED  BY <1>5, <4>1, <4>2
    <3> QED  BY <3>2, <3>3, <3>4
  <2>3. n \in Nat /\ gone \in BOOLEAN
    OBVIOUS
  <2> HIDE DEF s, n, again
  <2>4. /\ heap' \in Heaps /\ heap'.awaiter = heap.awaiter /\ heap'.should_poll = heap.should_poll
        /\ Effect(heap, heap', t, s, n, gone, FALSE)
        /\ \A u \in Tasks \ {t} : Beside(heap, heap', u)
    BY <2>2 DEF OnTask
  <2>5. heap'.awaiter = [heap.awaiter EXCEPT ![t] = heap.awaiter[t]]
    BY <1>2, <2>4
  <2>6. /\ \A u \in Tasks \ {t} :
              View(u)' = View(u) \/ (handle[u] # "unspawned" /\ P!Step(View(u), View(u)'))
        /\ UNCHANGED Clones(t)
    BY <1>1, <1>2, <1>7, <2>4, <2>5, OthersMove
  <2>7. /\ P!Shaped(w) /\ w.state = s /\ w.runnables = v.runnables + n
        /\ w.memory = (IF gone THEN "freed" ELSE v.memory) /\ w.handle = "dropped"
        /\ w.output = (IF r.action \in {"DropOutput", "DropOutputDestroy"}
                         THEN "moved" ELSE v.output)
        /\ P!OnlyIn(v, w, {"state", "runnables", "handle", "memory", "output"})
    <3>1. /\ w.state = s /\ w.runnables = v.runnables + n
          /\ w.memory = (IF gone THEN "freed" ELSE v.memory) /\ w.woken = v.woken
      <4>1. w.state = s /\ w.runnables = v.runnables + n
            /\ w.memory = (IF gone THEN "freed" ELSE v.memory)
        BY <1>2, <2>3, <2>4, ViewFields, NextViewFields DEF Effect
      <4>2. w.woken = v.woken
        BY <1>2, <2>4, SameFields DEF Effect
      <4> QED  BY <4>1, <4>2
    <3>2. /\ w.wakers = v.wakers /\ w.awaiter = v.awaiter /\ w.phase = v.phase
          /\ w.cancelled = v.cancelled
      BY <1>1, <1>2, <2>4, <2>6, SameFields
    <3>3. /\ P!Shaped(w) /\ w.output = output'[t] /\ v.output = output[t]
          /\ w.drops = drops'[t] /\ v.drops = drops[t]
          /\ w.result = result'[t] /\ v.result = result[t]
          /\ w.fault = fault'[t] /\ v.fault = fault[t]
          /\ w.executor = v.executor /\ w.handle = "dropped"
      BY <1>2, <1>8, <2>4, ViewFields, NextViewFields
    <3>4. output'[t] = IF r.action \in {"DropOutput", "DropOutputDestroy"}
                         THEN "moved" ELSE output[t]
      BY <1>6, <2>1
    <3> HIDE DEF v, w, gone
    <3> QED  BY <1>1, <2>1, <3>1, <3>2, <3>3, <3>4 DEF P!OnlyIn, P!NewTask
  <2> HIDE DEF v, w
  <2>8. /\ w.state = (IF again THEN P!incr_ref(r.state) ELSE r.state)
        /\ w.runnables = (IF again THEN v.runnables + 1 ELSE v.runnables)
    BY <1>2, <2>7, SameWords DEF s, n
  <2>9. P!DropHandle(v, w)
    BY <1>2, <1>3, <1>4, <1>9, <2>7, <2>8, Constants, SameWords, P!DropHandleFields DEF again
  <2>10. P!Step(View(t), View(t)')
    BY <2>9 DEF P!Step, v, w
  <2> QED  BY <1>1, <1>2, <2>4, <2>5, <2>6, <2>10, MovedWith
<1>10. CASE r.action \in Panics
  <2>1. fault' = [fault EXCEPT ![t] = r.action] /\ UNCHANGED <<heap, output>>
    BY <1>1, <1>10
  <2>2. heap'.awaiter = [heap.awaiter EXCEPT ![t] = heap.awaiter[t]]
        /\ \A u \in Tasks \ {t} : Beside(heap, heap', u)
    BY <1>2, <2>1 DEF Beside
  <2>3. /\ \A u \in Tasks \ {t} :
              View(u)' = View(u) \/ (handle[u] # "unspawned" /\ P!Step(View(u), View(u)'))
        /\ UNCHANGED Clones(t)
    BY <1>1, <1>2, <1>7, <2>1, <2>2, OthersMove
  <2>4. P!Shaped(w) /\ w.fault = r.action /\ w.handle = "dropped"
        /\ P!OnlyIn(v, w, {"handle", "fault"})
    <3>1. /\ w.wakers = v.wakers /\ w.awaiter = v.awaiter /\ w.phase = v.phase
          /\ w.cancelled = v.cancelled /\ w.memory = v.memory /\ w.woken = v.woken
      BY <1>1, <1>2, <2>1, <2>3, SameFields
    <3>2. /\ P!Shaped(w) /\ w.output = v.output /\ w.drops = v.drops /\ w.result = v.result
          /\ w.fault = r.action /\ w.handle = "dropped"
          /\ w.executor = v.executor /\ w.state = v.state /\ w.runnables = v.runnables
      BY <1>1, <1>2, <1>6, <1>8, <2>1, ViewFields, NextViewFields
    <3> HIDE DEF v, w
    <3> QED  BY <3>1, <3>2 DEF P!OnlyIn, P!NewTask
  <2> HIDE DEF v, w
  <2>5. P!DropHandle(v, w)
    BY <1>2, <1>3, <1>4, <1>10, <2>4, Constants, SameWords, P!DropHandlePanicFields
  <2>6. P!Step(View(t), View(t)')
    BY <2>5 DEF P!Step, v, w
  <2> QED  BY <1>1, <1>2, <2>1, <2>2, <2>3, <2>6, MovedWith
<1> QED  BY <1>9, <1>10

(* A call that writes the word of t, and queues t n times *)
Writes(h, g, t, s, n) == OnTask(h, g, t, s, n, FALSE, FALSE)

(* The end of a run of t gives the reference of the popped Task back. *)
LEMMA RunEnds ==
  ASSUME Ready, NEW t \in Tasks, NEW k \in Heaps, NEW s \in P!Word, NEW n \in Nat,
         Writes(heap, k, t, s, n), heap' = drop_task_ref(k, t)
  PROVE  /\ heap' \in Heaps /\ heap'.awaiter = heap.awaiter
         /\ heap'.should_poll = heap.should_poll
         /\ heap'.state[t] = decr_ref(s) /\ Times(heap'.queue, t) = Times(heap.queue, t) + n
         /\ t \in heap'.freed <=> t \in heap.freed \/ decr_ref(s).refs = 0
         /\ t \in heap'.woken <=> t \in heap.woken
         /\ \A u \in Tasks \ {t} : Beside(heap, heap', u)
<1>1. k.state[t] = s /\ heap \in Heaps
  BY DEF Writes, OnTask, Effect, Ready, Typed
<1>2. OnTask(k, heap', t, decr_ref(k.state[t]), 0, decr_ref(k.state[t]).refs = 0, FALSE)
  BY <1>1, DropsTask
<1> DEFINE d == decr_ref(s)
<1>3. OnTask(k, heap', t, d, 0, d.refs = 0, FALSE)
  BY <1>1, <1>2
<1> HIDE DEF d
<1>4. \A u : Times(heap.queue, u) \in Nat
  BY <1>1, HeapFields
<1>5. \A u \in Tasks \ {t} : Beside(heap, heap', u)
  BY <1>3 DEF Writes, OnTask, Beside
<1>6. /\ heap'.state[t] = d /\ Times(heap'.queue, t) = Times(heap.queue, t) + n
      /\ t \in heap'.freed <=> t \in heap.freed \/ d.refs = 0
      /\ t \in heap'.woken <=> t \in heap.woken
  BY <1>3, <1>4 DEF Writes, OnTask, Effect
<1> QED  BY <1>3, <1>5, <1>6 DEF Writes, OnTask, d

(* And so it does after the awaiter was notified. *)
LEMMA RunEndsNotified ==
  ASSUME Ready, NEW t \in Tasks, NEW f, f = Owner[t], f # t, NEW g \in Heaps, NEW s \in P!Word,
         Writes(heap, g, t, s, 0), heap' = drop_task_ref(notify(g, t), t)
  PROVE  /\ heap' \in Heaps /\ heap'.awaiter = [heap.awaiter EXCEPT ![t] = None]
         /\ heap.should_poll => heap'.should_poll
         /\ heap.awaiter[t] = None \/ Rouses(heap.awaiter[t])
         /\ heap'.state[t] = decr_ref(s) /\ Times(heap'.queue, t) = Times(heap.queue, t)
         /\ t \in heap'.freed <=> t \in heap.freed \/ decr_ref(s).refs = 0
         /\ t \in heap'.woken <=> t \in heap.woken
         /\ f \in Tasks /\ heap.awaiter[t] = f => WokenByVal(heap, heap', f)
         /\ f \in Tasks /\ heap.awaiter[t] = None => Beside(heap, heap', f)
         /\ \A u \in Tasks \ {t, f} : Beside(heap, heap', u)
<1> DEFINE k == notify(g, t)
           d == decr_ref(s)
<1>1. /\ g \in Heaps /\ g.awaiter = heap.awaiter /\ g.should_poll = heap.should_poll
      /\ \A u \in Tasks \ {t} : Beside(heap, g, u)
      /\ Effect(heap, g, t, s, 0, FALSE, FALSE)
  BY DEF Writes, OnTask
<1>2. /\ k \in Heaps /\ k.awaiter = [heap.awaiter EXCEPT ![t] = None]
      /\ heap.should_poll => k.should_poll
      /\ heap.awaiter[t] = Root => k.should_poll
      /\ heap.awaiter[t] \in Tasks => heap.awaiter[t] \in k.woken
      /\ Beside(g, k, t)
      /\ f \in Tasks /\ heap.awaiter[t] = f => WokenByVal(heap, k, f)
      /\ f \in Tasks /\ heap.awaiter[t] = None => Beside(heap, k, f)
      /\ \A u \in Tasks \ {t, f} : Beside(heap, k, u)
  BY <1>1, NotifyOwner
<1>3. heap' = drop_task_ref(k, t)
  OBVIOUS
<1> HIDE DEF k
<1>4. k.state[t] = s
  BY <1>1, <1>2 DEF Effect, Beside
<1>5. OnTask(k, heap', t, d, 0, d.refs = 0, FALSE)
  BY <1>2, <1>3, <1>4, DropsTask
<1> HIDE DEF d
<1>6. \A u : Times(heap.queue, u) \in Nat
  BY HeapFields DEF Ready, Typed
<1>7. /\ heap'.state[t] = d /\ Times(heap'.queue, t) = Times(heap.queue, t)
      /\ t \in heap'.freed <=> t \in heap.freed \/ d.refs = 0
      /\ t \in heap'.woken <=> t \in heap.woken
  BY <1>1, <1>2, <1>5, <1>6 DEF OnTask, Effect, Beside
<1>8. heap.awaiter[t] \in {None, f} /\ f \in Futures
  BY OwnerType DEF Ready, Family
<1>9. heap.awaiter[t] = None \/ Rouses(heap.awaiter[t])
  <2>1. CASE heap.awaiter[t] = Root
    BY <1>2, <1>5, <2>1 DEF Rouses, OnTask
  <2>2. CASE heap.awaiter[t] = f /\ f \in Tasks
    <3>1. f \in heap'.woken
      BY <1>2, <1>5, <2>2 DEF OnTask, Beside
    <3> QED  BY <2>2, <3>1, TasksType DEF Rouses
  <2> QED  BY <1>8, <2>1, <2>2 DEF Futures
<1>10. f \in Tasks /\ heap.awaiter[t] = f => WokenByVal(heap, heap', f)
  BY <1>2, <1>5 DEF WokenByVal, Effect, OnTask, Beside
<1>11. /\ f \in Tasks /\ heap.awaiter[t] = None => Beside(heap, heap', f)
       /\ \A u \in Tasks \ {t, f} : Beside(heap, heap', u)
  BY <1>2, <1>5 DEF OnTask, Beside
<1> QED  BY <1>2, <1>5, <1>7, <1>9, <1>10, <1>11 DEF OnTask, d

(* What the executor knows of the task that it runs. *)
LEMMA Runs ==
  ASSUME Ready, NEW t \in Tasks, current = t
  PROVE  /\ handle[t] # "unspawned" /\ Owner[t] # t /\ Owner[t] \in Futures
         /\ heap.awaiter[t] \in {None, Owner[t]} /\ heap \in Heaps
         /\ heap.awaiter \in [Tasks -> Futures \union {None}]
         /\ View(t).phase = phase /\ View(t).state = heap.state[t] /\ heap.state[t] \in P!Word
         /\ View(t).fault = "none" /\ View(t).executor = "up" /\ P!Shaped(View(t))
         /\ View(t).runnables \in Nat /\ P!IInv(View(t))
BY Known, TaskFacts, ViewFields, HeapFields, OwnerType DEF Ready, Family

LEMMA FinishReadyStep ==
  ASSUME Ready, NEW t \in Tasks, FinishReady(t), NEW f, f = Owner[t]
  PROVE  Moved
<1> DEFINE v == View(t)
           w == View(t)'
           r == transition_to_completed(heap.state[t])
           g == [heap EXCEPT !.state[t] = r.state]
           d == decr_ref(r.state)
<1>1. /\ current = t /\ phase = "completing" /\ current' = None /\ phase' = "idle"
      /\ heap' = drop_task_ref(notify(g, t), t)
      /\ output' = [output EXCEPT ![t] = IF r.action = "Closed" THEN "moved" ELSE "stored"]
      /\ UNCHANGED <<handle, drops, result, cancelled, channel, fault>>
  BY DEF FinishReady, Leave, Enter
<1>2. /\ handle[t] # "unspawned" /\ f # t /\ f \in Futures
      /\ heap.awaiter[t] \in {None, f} /\ heap \in Heaps
      /\ heap.awaiter \in [Tasks -> Futures \union {None}]
      /\ v.phase = phase /\ v.state = heap.state[t] /\ heap.state[t] \in P!Word
      /\ v.fault = "none" /\ v.executor = "up" /\ P!Shaped(v)
      /\ v.runnables \in Nat
  BY <1>1, Runs
<1>3. r = P!transition_to_completed(v.state) /\ r.state \in P!Word
  BY <1>2, SameTransitions, Constants, P!CompletedTransition
<1>4. OnTask(heap, g, t, r.state, 0, FALSE, FALSE)
  BY <1>2, <1>3, SetState
<1> HIDE DEF r, g
<1>5. /\ heap' \in Heaps /\ heap'.awaiter = [heap.awaiter EXCEPT ![t] = None]
      /\ heap.should_poll => heap'.should_poll
      /\ heap.awaiter[t] = None \/ Rouses(heap.awaiter[t])
      /\ heap'.state[t] = d /\ Times(heap'.queue, t) = Times(heap.queue, t)
      /\ t \in heap'.freed <=> t \in heap.freed \/ d.refs = 0
      /\ t \in heap'.woken <=> t \in heap.woken
      /\ f \in Tasks /\ heap.awaiter[t] = f => WokenByVal(heap, heap', f)
      /\ f \in Tasks /\ heap.awaiter[t] = None => Beside(heap, heap', f)
      /\ \A u \in Tasks \ {t, f} : Beside(heap, heap', u)
  <2>1. f # t /\ g \in Heaps /\ Writes(heap, g, t, r.state, 0)
    BY <1>2, <1>4 DEF OnTask, Writes
  <2> QED  BY <1>1, <1>3, <2>1, RunEndsNotified
<1>6. output \in [Tasks -> {"none", "stored", "moved"}]
  BY DEF Ready, Typed
<1>7. \A u \in Tasks \ {t} :
        /\ UNCHANGED Calls(u)
        /\ (IF current' = u THEN phase' ELSE "idle") = (IF current = u THEN phase ELSE "idle")
  BY <1>1, <1>6 DEF Calls
<1>8. /\ \A u \in Tasks \ {t} :
            View(u)' = View(u) \/ (handle[u] # "unspawned" /\ P!Step(View(u), View(u)'))
      /\ UNCHANGED Clones(t)
  BY <1>1, <1>2, <1>5, <1>7, OthersMove
<1>9. /\ P!Shaped(w) /\ w.state = d /\ w.memory = (IF d.refs = 0 THEN "freed" ELSE v.memory)
      /\ w.output = (IF r.action = "Closed" THEN "moved" ELSE "stored")
      /\ w.phase = "idle" /\ w.awaiter = FALSE
      /\ P!OnlyIn(v, w, {"state", "memory", "phase", "output", "awaiter"})
  <2>1. /\ w.state = d /\ w.memory = (IF d.refs = 0 THEN "freed" ELSE v.memory)
        /\ w.runnables = v.runnables /\ w.woken = v.woken
    <3>1. /\ w.state = d /\ w.memory = (IF d.refs = 0 THEN "freed" ELSE v.memory)
          /\ w.runnables = v.runnables
      BY <1>2, <1>5, ViewFields, NextViewFields
    <3>2. w.woken = v.woken
      BY <1>2, <1>5, SameFields
    <3> QED  BY <3>1, <3>2
  <2>2. /\ w.wakers = v.wakers /\ w.awaiter = FALSE /\ w.cancelled = v.cancelled
        /\ w.handle = v.handle
    BY <1>1, <1>2, <1>5, <1>8, SameFields
  <2>3. /\ P!Shaped(w) /\ w.output = output'[t] /\ w.drops = v.drops /\ w.result = v.result
        /\ w.fault = v.fault /\ w.executor = v.executor /\ w.phase = "idle"
    BY <1>1, <1>2, <1>5, TaskFacts, ViewFields, NextViewFields
  <2>4. output'[t] = IF r.action = "Closed" THEN "moved" ELSE "stored"
    BY <1>1, <1>6
  <2> HIDE DEF v, w, d
  <2> QED  BY <2>1, <2>2, <2>3, <2>4 DEF P!OnlyIn, P!NewTask
<1> HIDE DEF v, w
<1>10. d = P!decr_ref(r.state)
  BY SameWords
<1> HIDE DEF d
<1>11. P!FinishReady(v, w)
  BY <1>1, <1>2, <1>3, <1>9, <1>10, Constants, P!FinishReadyFields
<1>12. P!Step(View(t), View(t)')
  BY <1>11 DEF P!Step, v, w
<1> QED  BY <1>2, <1>5, <1>8, <1>12, MovedWith

LEMMA FinishDropStep ==
  ASSUME Ready, NEW t \in Tasks, FinishDrop(t), NEW f, f = Owner[t]
  PROVE  Moved
<1> DEFINE v == View(t)
           w == View(t)'
           s == heap.state[t]
           d == decr_ref(s)
<1>1. /\ current = t /\ phase = "dropping" /\ current' = None /\ phase' = "idle"
      /\ heap' = drop_task_ref(notify(heap, t), t)
      /\ UNCHANGED <<handle, output, drops, result, cancelled, channel, fault>>
  BY DEF FinishDrop, Leave, Enter, clientVars
<1>2. /\ handle[t] # "unspawned" /\ f # t /\ f \in Futures
      /\ heap.awaiter[t] \in {None, f} /\ heap \in Heaps
      /\ heap.awaiter \in [Tasks -> Futures \union {None}]
      /\ v.phase = phase /\ v.state = s /\ s \in P!Word
      /\ v.fault = "none" /\ v.executor = "up" /\ P!Shaped(v)
      /\ v.runnables \in Nat
  BY <1>1, Runs
<1>3. Writes(heap, heap, t, s, 0)
  <2>1. Times(heap.queue, t) \in Nat
    BY <1>2, HeapFields
  <2> QED  BY <1>2, <2>1 DEF Writes, OnTask, Effect, Beside
<1> HIDE DEF s
<1>4. /\ heap' \in Heaps /\ heap'.awaiter = [heap.awaiter EXCEPT ![t] = None]
      /\ heap.should_poll => heap'.should_poll
      /\ heap.awaiter[t] = None \/ Rouses(heap.awaiter[t])
      /\ heap'.state[t] = d /\ Times(heap'.queue, t) = Times(heap.queue, t)
      /\ t \in heap'.freed <=> t \in heap.freed \/ d.refs = 0
      /\ t \in heap'.woken <=> t \in heap.woken
      /\ f \in Tasks /\ heap.awaiter[t] = f => WokenByVal(heap, heap', f)
      /\ f \in Tasks /\ heap.awaiter[t] = None => Beside(heap, heap', f)
      /\ \A u \in Tasks \ {t, f} : Beside(heap, heap', u)
  BY <1>1, <1>2, <1>3, RunEndsNotified
<1>5. \A u \in Tasks \ {t} :
        /\ UNCHANGED Calls(u)
        /\ (IF current' = u THEN phase' ELSE "idle") = (IF current = u THEN phase ELSE "idle")
  BY <1>1 DEF Calls
<1>6. /\ \A u \in Tasks \ {t} :
            View(u)' = View(u) \/ (handle[u] # "unspawned" /\ P!Step(View(u), View(u)'))
      /\ UNCHANGED Clones(t)
  BY <1>1, <1>2, <1>4, <1>5, OthersMove
<1>7. /\ P!Shaped(w) /\ w.state = d /\ w.memory = (IF d.refs = 0 THEN "freed" ELSE v.memory)
      /\ w.phase = "idle" /\ w.awaiter = FALSE
      /\ P!OnlyIn(v, w, {"state", "memory", "phase", "awaiter"})
  <2>1. /\ w.state = d /\ w.memory = (IF d.refs = 0 THEN "freed" ELSE v.memory)
        /\ w.runnables = v.runnables /\ w.woken = v.woken
    <3>1. /\ w.state = d /\ w.memory = (IF d.refs = 0 THEN "freed" ELSE v.memory)
          /\ w.runnables = v.runnables
      BY <1>2, <1>4, ViewFields, NextViewFields
    <3>2. w.woken = v.woken
      BY <1>2, <1>4, SameFields
    <3> QED  BY <3>1, <3>2
  <2>2. /\ w.wakers = v.wakers /\ w.awaiter = FALSE /\ w.cancelled = v.cancelled
        /\ w.handle = v.handle /\ w.output = v.output
    BY <1>1, <1>2, <1>4, <1>6, SameFields
  <2>3. /\ P!Shaped(w) /\ w.drops = v.drops /\ w.result = v.result
        /\ w.fault = v.fault /\ w.executor = v.executor /\ w.phase = "idle"
    BY <1>1, <1>2, <1>4, TaskFacts, ViewFields, NextViewFields
  <2> HIDE DEF v, w, d
  <2> QED  BY <2>1, <2>2, <2>3 DEF P!OnlyIn, P!NewTask
<1> HIDE DEF v, w
<1>8. d = P!decr_ref(v.state)
  BY <1>2, SameWords
<1> HIDE DEF d
<1>9. P!FinishDrop(v, w)
  BY <1>1, <1>2, <1>7, <1>8, Constants, P!FinishDropFields
<1>10. P!Step(View(t), View(t)')
  BY <1>9 DEF P!Step, v, w
<1> QED  BY <1>2, <1>4, <1>6, <1>10, MovedWith

LEMMA PollPendingStep ==
  ASSUME Ready, NEW t \in Tasks, PollPending(t), NEW f, f = Owner[t]
  PROVE  /\ Moved /\ fault' = fault
         /\ \/ /\ Leave /\ UNCHANGED drops /\ heap'.awaiter = heap.awaiter
               /\ is_scheduled(heap.state[t]) => View(t)'.runnables > 0
            \/ /\ phase' = "dropping" /\ UNCHANGED <<current, pc, max_round>>
               /\ is_closed(heap.state[t])
               /\ drops' = [drops EXCEPT ![t] = @ + 1]
<1> DEFINE v == View(t)
           w == View(t)'
           r == transition_to_idle(heap.state[t])
           g == [heap EXCEPT !.state[t] = r.state]
<1>1. /\ current = t /\ phase = "polling"
      /\ UNCHANGED <<handle, output, result, cancelled, channel>>
  BY DEF PollPending, Polling
<1>2. /\ handle[t] # "unspawned" /\ f # t /\ f \in Futures
      /\ heap.awaiter[t] \in {None, f} /\ heap \in Heaps
      /\ heap.awaiter \in [Tasks -> Futures \union {None}]
      /\ v.phase = "polling" /\ v.state = heap.state[t] /\ heap.state[t] \in P!Word
      /\ v.fault = "none" /\ v.executor = "up" /\ P!Shaped(v)
      /\ v.runnables \in Nat /\ P!IInv(v)
  BY <1>1, Runs
<1>3. /\ r = P!transition_to_idle(v.state) /\ r.state \in P!Word
      /\ r.action = IF is_closed(heap.state[t]) THEN "Closed"
                    ELSE IF is_scheduled(heap.state[t]) THEN "Schedule" ELSE "DoNothing"
  <2> HIDE DEF v
  <2>1. v.state \in P!Word /\ P!is_running(v.state)
    BY <1>2 DEF P!IInv, P!Phase
  <2>2. LET q == P!transition_to_idle(v.state) IN
        /\ q.action = IF P!is_closed(v.state) THEN "Closed"
                      ELSE IF P!is_scheduled(v.state) THEN "Schedule" ELSE "DoNothing"
        /\ q.state \in P!Word
    BY <2>1, Constants, P!IdleTransition
  <2> QED  BY <1>2, <2>2, SameTransitions, SameWords
<1>4. OnTask(heap, g, t, r.state, 0, FALSE, FALSE)
  BY <1>2, <1>3, SetState
<1>5. \/ /\ r.action = "Closed" /\ heap' = g /\ phase' = "dropping" /\ is_closed(heap.state[t])
         /\ drops' = [drops EXCEPT ![t] = @ + 1] /\ UNCHANGED <<pc, max_round, current, fault>>
      \/ /\ r.action \in {"Schedule", "DoNothing"}
         /\ heap' = drop_task_ref(IF r.action = "Schedule" THEN schedule(g, t, FALSE) ELSE g, t)
         /\ Leave /\ UNCHANGED <<drops, fault>>
  BY <1>3 DEF PollPending, Panics
<1>6. drops \in [Tasks -> Nat] /\ heap.awaiter[t] \in {None, f}
      /\ heap.awaiter = [heap.awaiter EXCEPT ![t] = heap.awaiter[t]]
  BY <1>2 DEF Ready, Typed
<1> HIDE DEF r, g
<1>7. \A u \in Tasks \ {t} :
        /\ UNCHANGED Calls(u)
        /\ (IF current' = u THEN phase' ELSE "idle") = (IF current = u THEN phase ELSE "idle")
  BY <1>1, <1>5, <1>6, TaskFacts DEF Calls, Leave, Enter
<1>8. CASE r.action = "Closed"
  <2>1. /\ heap' = g /\ phase' = "dropping" /\ UNCHANGED <<current, fault>>
        /\ drops' = [drops EXCEPT ![t] = @ + 1]
    BY <1>5, <1>8
  <2>2. /\ heap' \in Heaps /\ heap'.awaiter = heap.awaiter /\ heap'.should_poll = heap.should_poll
        /\ heap'.state[t] = r.state /\ Times(heap'.queue, t) = Times(heap.queue, t)
        /\ t \in heap'.freed <=> t \in heap.freed
        /\ t \in heap'.woken <=> t \in heap.woken
        /\ \A u \in Tasks \ {t} : Beside(heap, heap', u)
    <3>1. \A u : Times(heap.queue, u) \in Nat
      BY <1>2, HeapFields
    <3> QED  BY <1>4, <2>1, <3>1 DEF OnTask, Effect
  <2>3. /\ \A u \in Tasks \ {t} :
              View(u)' = View(u) \/ (handle[u] # "unspawned" /\ P!Step(View(u), View(u)'))
        /\ UNCHANGED Clones(t)
    BY <1>1, <1>2, <1>7, <2>2, OthersStay
  <2>4. /\ P!Shaped(w) /\ w.state = r.state /\ w.phase = "dropping" /\ w.drops = v.drops + 1
        /\ P!OnlyIn(v, w, {"state", "phase", "drops"})
    <3>1. /\ w.memory = v.memory /\ w.woken = v.woken /\ w.wakers = v.wakers
          /\ w.awaiter = v.awaiter /\ w.cancelled = v.cancelled /\ w.handle = v.handle
      BY <1>1, <1>2, <2>2, <2>3, SameFields
    <3>2. /\ P!Shaped(w) /\ w.state = r.state /\ w.phase = "dropping" /\ w.drops = v.drops + 1
          /\ w.runnables = v.runnables /\ w.output = v.output /\ w.result = v.result
          /\ w.fault = v.fault /\ w.executor = v.executor
      BY <1>1, <1>2, <1>6, <2>1, <2>2, ViewFields, NextViewFields
    <3> HIDE DEF v, w
    <3> QED  BY <3>1, <3>2 DEF P!OnlyIn, P!NewTask
  <2> HIDE DEF v, w
  <2>5. P!PollPending(v, w)
    BY <1>2, <1>3, <1>8, <2>4, Constants, P!ClosedFields
  <2>6. P!Step(View(t), View(t)')
    BY <2>5 DEF P!Step, v, w
  <2>7. Moved
    BY <1>2, <2>2, <2>3, <2>6, MovedAlone
  <2> QED  BY <1>5, <1>8, <2>7
<1>9. CASE r.action \in {"Schedule", "DoNothing"}
  <2> DEFINE again == r.action = "Schedule"
             s == IF again THEN incr_ref(r.state) ELSE r.state
             n == IF again THEN 1 ELSE 0
             k == IF again THEN schedule(g, t, FALSE) ELSE g
             d == decr_ref(s)
  <2>1. heap' = drop_task_ref(k, t) /\ current' = None /\ phase' = "idle" /\ UNCHANGED fault
        /\ UNCHANGED drops
    BY <1>5, <1>9 DEF Leave, Enter
  <2>2. k \in Heaps /\ s \in P!Word /\ n \in Nat /\ Writes(heap, k, t, s, n)
    <3>1. g \in Heaps /\ g.state[t] = r.state
      BY <1>4 DEF OnTask, Effect
    <3>2. OnTask(g, schedule(g, t, FALSE), t, incr_ref(r.state), 1, FALSE, FALSE)
      BY <3>1, Schedules
    <3>3. OnTask(heap, schedule(g, t, FALSE), t, incr_ref(r.state), 1, FALSE, FALSE)
      <4> DEFINE q == schedule(g, t, FALSE)
      <4>1. OnTask(g, q, t, incr_ref(r.state), 1, FALSE, FALSE)
        BY <3>2
      <4> HIDE DEF q
      <4>2. Times(heap.queue, t) \in Nat
        BY <1>2, HeapFields
      <4>3. Effect(heap, q, t, incr_ref(r.state), 1, FALSE, FALSE)
        BY <1>4, <4>1, <4>2 DEF OnTask, Effect
      <4>4. OnTask(heap, q, t, incr_ref(r.state), 1, FALSE, FALSE)
        BY <1>4, <4>1, <4>3 DEF OnTask, Beside
      <4> QED  BY <4>4 DEF q
    <3>4. incr_ref(r.state) \in P!Word
      BY <1>3 DEF P!Word, incr_ref
    <3>5. CASE again
      BY <3>3, <3>4, <3>5 DEF Writes, OnTask
    <3>6. CASE ~again
      BY <1>3, <1>4, <3>1, <3>6 DEF Writes
    <3> QED  BY <3>5, <3>6
  <2> HIDE DEF k, s, n
  <2>3. /\ heap' \in Heaps /\ heap'.awaiter = heap.awaiter
        /\ heap'.should_poll = heap.should_poll
        /\ heap'.state[t] = d /\ Times(heap'.queue, t) = Times(heap.queue, t) + n
        /\ t \in heap'.freed <=> t \in heap.freed \/ d.refs = 0
        /\ t \in heap'.woken <=> t \in heap.woken
        /\ \A u \in Tasks \ {t} : Beside(heap, heap', u)
    BY <2>1, <2>2, RunEnds
  <2>4. /\ \A u \in Tasks \ {t} :
              View(u)' = View(u) \/ (handle[u] # "unspawned" /\ P!Step(View(u), View(u)'))
        /\ UNCHANGED Clones(t)
    BY <1>1, <1>2, <1>7, <2>3, OthersStay
  <2>5. /\ P!Shaped(w) /\ w.state = d /\ w.memory = (IF d.refs = 0 THEN "freed" ELSE v.memory)
        /\ w.runnables = v.runnables + n /\ w.phase = "idle"
        /\ P!OnlyIn(v, w, {"state", "memory", "phase", "runnables"})
    <3>1. /\ w.woken = v.woken /\ w.wakers = v.wakers /\ w.awaiter = v.awaiter
          /\ w.cancelled = v.cancelled /\ w.handle = v.handle
      BY <1>1, <1>2, <2>3, <2>4, SameFields
    <3>2. /\ w.state = d /\ w.memory = (IF d.refs = 0 THEN "freed" ELSE v.memory)
          /\ w.runnables = v.runnables + n
      BY <1>2, <2>3, ViewFields, NextViewFields
    <3>3. /\ P!Shaped(w) /\ w.phase = "idle" /\ w.drops = v.drops
          /\ w.output = v.output /\ w.result = v.result
          /\ w.fault = v.fault /\ w.executor = v.executor
      BY <1>1, <1>2, <2>1, <2>3, TaskFacts, ViewFields, NextViewFields
    <3> HIDE DEF v, w, d
    <3> QED  BY <3>1, <3>2, <3>3 DEF P!OnlyIn, P!NewTask
  <2> HIDE DEF v, w
  <2>6. w.runnables = IF again THEN v.runnables + 1 ELSE v.runnables
    BY <1>2, <2>5 DEF n
  <2>7. d = P!decr_ref(IF again THEN P!incr_ref(r.state) ELSE r.state)
    BY SameWords DEF s
  <2> HIDE DEF d
  <2>8. P!PollPending(v, w)
    BY <1>2, <1>3, <1>9, <2>5, <2>6, <2>7, Constants, P!PollPendingFields
  <2>9. P!Step(View(t), View(t)')
    BY <2>8 DEF P!Step, v, w
  <2>10. Moved
    BY <1>2, <2>3, <2>4, <2>9, MovedAlone
  <2>11. is_scheduled(heap.state[t]) => w.runnables > 0
    BY <1>2, <1>3, <1>9, <2>6
  <2> QED  BY <1>5, <1>9, <2>3, <2>10, <2>11 DEF v, w
<1> QED  BY <1>5, <1>8, <1>9

-----------------------------------------------------------------------------
(* The steps of the executor keep its invariant *)

LEMMA NextMoves ==
  ASSUME Inv, Next
  PROVE  Ready /\ Moved
<1>1. Ready /\ Bereft /\ OnlyAwaits
  BY DEF Inv, Ready, Next
<1>2. ASSUME QueueDrained \/ SkipRoot \/ Park \/ Submit \/ RootPending \/ Return
      PROVE  Moved
  BY <1>1, <1>2, QuietSteps
<1>3. ASSUME NEW t \in Tasks, Spawn(t)
      PROVE  Moved
  BY <1>1, <1>3, QuietSteps
<1>4. ASSUME PopTask PROVE Moved
  <2>1. PICK t : t = Head(heap.queue)
    OBVIOUS
  <2> QED  BY <1>1, <1>4, <2>1, PopTaskStep
<1>5. ASSUME PollRoot PROVE Moved
  BY <1>1, <1>5, PollRootStep
<1>6. ASSUME Yield \/ LeaveWaker \/ PollReady PROVE Moved
  <2>1. PICK f : current = f
    OBVIOUS
  <2> QED  BY <1>1, <1>6, <2>1, YieldStep, LeaveWakerStep, PollReadyStep
<1>7. ASSUME NEW f \in Futures, WakeOther(f)
      PROVE  Moved
  BY <1>1, <1>7, WakeOtherStep
<1>8. ASSUME NEW t \in Tasks, PollHandle(t) \/ Cancel(t) \/ DropHandle(t)
      PROVE  Moved
  BY <1>1, <1>8, PollHandleStep, CancelStep, DropHandleStep
<1>9. ASSUME NEW t \in Tasks, FinishReady(t) \/ PollPending(t) \/ FinishDrop(t)
      PROVE  Moved
  BY <1>1, <1>9, FinishReadyStep, PollPendingStep, FinishDropStep
<1> QED  BY <1>1, <1>2, <1>3, <1>4, <1>5, <1>6, <1>7, <1>8, <1>9 DEF Next

LEMMA TypedKept ==
  ASSUME Inv, Next
  PROVE  Typed'
<1>1. Typed /\ heap' \in Heaps
  BY NextMoves DEF Inv, Moved
<1>2. Panics = P!Panics /\ Root \in Futures /\ None \notin Futures /\ Tasks \subseteq Futures
  BY SameWords, TasksType DEF Futures
<1>3. CASE QueueDrained \/ SkipRoot \/ Park \/ Submit \/ PollRoot \/ RootPending \/ Return
  <2>1. Len(heap.queue) \in Nat
    BY <1>1, HeapFields, LenProperties DEF Typed
  <2> QED
    BY <1>1, <1>2, <1>3, <2>1 DEF Typed, QueueDrained, SkipRoot, Park, Submit, Turn, PollRoot,
       RootPending, Return, Enter, clientVars, Places
<1>4. CASE PopTask
  <2>1. PICK t : t = Head(heap.queue)
    OBVIOUS
  <2>2. /\ t \in Tasks /\ fault' = fault
        /\ \/ Enter(t, "polling") /\ UNCHANGED drops
           \/ Enter(t, "dropping") /\ drops' = [drops EXCEPT ![t] = @ + 1]
    BY <1>4, <2>1, NextMoves, PopTaskStep
  <2>3. UNCHANGED <<handle, output, result, cancelled, channel, yields, pc, max_round>>
    BY <1>4 DEF PopTask
  <2> QED  BY <1>1, <1>2, <2>2, <2>3 DEF Typed, Enter
<1>5. CASE Yield \/ LeaveWaker \/ PollReady
  <2>1. current \in Futures
    BY <1>1, <1>5 DEF Inv, Loop, Typed, Yield, LeaveWaker, PollReady
  <2>2. CASE Yield
    BY <1>1, <2>1, <2>2, YieldsType DEF Typed, Yield, loopVars
  <2>3. CASE LeaveWaker
    BY <1>1, <2>1, <2>3 DEF Typed, LeaveWaker, loopVars
  <2>4. CASE PollReady
    BY <1>1, <1>2, <2>1, <2>4 DEF Typed, PollReady, Futures
  <2> QED  BY <1>5, <2>2, <2>3, <2>4
<1>6. CASE \E f \in Futures : WakeOther(f)
  BY <1>1, <1>6 DEF Typed, WakeOther, loopVars
<1>7. ASSUME NEW t \in Tasks, Spawn(t) \/ Cancel(t)
      PROVE  Typed'
  BY <1>1, <1>7 DEF Typed, Spawn, Cancel, loopVars
<1>8. ASSUME NEW t \in Tasks, PollHandle(t)
      PROVE  Typed'
  BY <1>1, <1>8 DEF Typed, PollHandle, loopVars
<1>9. ASSUME NEW t \in Tasks, DropHandle(t)
      PROVE  Typed'
  BY <1>1, <1>9 DEF Typed, DropHandle, loopVars
<1>10. ASSUME NEW t \in Tasks, FinishReady(t) \/ FinishDrop(t)
       PROVE  Typed'
  BY <1>1, <1>2, <1>10 DEF Typed, FinishReady, FinishDrop, Leave, Enter, clientVars, Places
<1>11. ASSUME NEW t \in Tasks, PollPending(t)
       PROVE  Typed'
  <2>1. PICK f : f = Owner[t]
    OBVIOUS
  <2>2. /\ fault' = fault
        /\ \/ Leave /\ UNCHANGED drops
           \/ /\ phase' = "dropping" /\ UNCHANGED <<current, pc, max_round>>
              /\ drops' = [drops EXCEPT ![t] = @ + 1]
    BY <1>11, <2>1, NextMoves, PollPendingStep
  <2> QED  BY <1>1, <1>2, <1>11, <2>2 DEF Typed, PollPending, Leave, Enter, Places
<1> QED
  BY <1>3, <1>4, <1>5, <1>6, <1>7, <1>8, <1>9, <1>10, <1>11 DEF Next

LEMMA LoopKept ==
  ASSUME Inv, Next
  PROVE  Loop'
<1>1. Loop /\ current \in Futures \union {None} /\ Root \notin Tasks /\ None \notin Futures
  BY TasksType DEF Inv, Typed
<1>2. CASE QueueDrained \/ SkipRoot \/ Park \/ Submit \/ PollRoot \/ RootPending \/ Return
  BY <1>1, <1>2 DEF Loop, QueueDrained, SkipRoot, Park, Submit, Turn, PollRoot, RootPending,
     Return, Enter, clientVars, Polling, Futures
<1>3. CASE PopTask
  <2>1. PICK t : t = Head(heap.queue)
    OBVIOUS
  <2>2. t \in Tasks /\ (Enter(t, "polling") \/ Enter(t, "dropping"))
    BY <1>3, <2>1, NextMoves, PopTaskStep
  <2> QED  BY <1>1, <1>3, <2>2 DEF Loop, PopTask, Enter, Futures
<1>4. CASE Yield \/ LeaveWaker \/ PollReady \/ \E f \in Futures : WakeOther(f)
  BY <1>1, <1>4 DEF Loop, Yield, LeaveWaker, PollReady, WakeOther, loopVars
<1>5. ASSUME NEW t \in Tasks, Spawn(t) \/ PollHandle(t) \/ Cancel(t) \/ DropHandle(t)
      PROVE  Loop'
  BY <1>1, <1>5 DEF Loop, Spawn, PollHandle, Cancel, DropHandle, loopVars
<1>6. ASSUME NEW t \in Tasks, FinishReady(t) \/ FinishDrop(t)
      PROVE  Loop'
  BY <1>1, <1>6 DEF Loop, FinishReady, FinishDrop, Leave, Enter, Futures
<1>7. ASSUME NEW t \in Tasks, PollPending(t)
      PROVE  Loop'
  <2>1. PICK f : f = Owner[t]
    OBVIOUS
  <2>2. Leave \/ (phase' = "dropping" /\ UNCHANGED <<current, pc>>)
    BY <1>7, <2>1, NextMoves, PollPendingStep
  <2> QED  BY <1>1, <1>7, <2>2 DEF Loop, PollPending, Polling, Leave, Enter, Futures
<1> QED
  BY <1>2, <1>3, <1>4, <1>5, <1>6, <1>7 DEF Next

(* Handles are taken and dropped by the future that spawns the task. *)
LEMMA HandlesMove ==
  ASSUME Inv, Next, NEW t \in Tasks
  PROVE  \/ handle'[t] = handle[t]
         \/ /\ Spawn(t) /\ handle[t] = "unspawned" /\ handle'[t] = "held"
            /\ current = Owner[t] /\ current' = current
            /\ \A u \in Tasks \ {t} : handle'[u] = handle[u]
         \/ /\ DropHandle(t) /\ handle[t] = "held" /\ handle'[t] = "dropped"
            /\ current = Owner[t] /\ current' = current
<1>1. handle \in [Tasks -> {"unspawned", "held", "dropped"}]
  BY DEF Inv, Typed
<1>2. CASE QueueDrained \/ SkipRoot \/ Park \/ Submit \/ PollRoot \/ RootPending \/ Return
  BY <1>2 DEF QueueDrained, SkipRoot, Park, Submit, Turn, PollRoot, RootPending, Return,
     clientVars
<1>3. CASE PopTask \/ Yield \/ LeaveWaker \/ PollReady \/ \E f \in Futures : WakeOther(f)
  BY <1>3 DEF PopTask, Yield, LeaveWaker, PollReady, WakeOther
<1>4. ASSUME NEW u \in Tasks,
             PollHandle(u) \/ Cancel(u) \/ FinishReady(u) \/ PollPending(u) \/ FinishDrop(u)
      PROVE  handle' = handle
  BY <1>4 DEF PollHandle, Cancel, FinishReady, PollPending, FinishDrop, clientVars
<1>5. ASSUME NEW u \in Tasks, Spawn(u)
      PROVE  /\ handle[u] = "unspawned" /\ handle' = [handle EXCEPT ![u] = "held"]
             /\ current = Owner[u] /\ current' = current
  BY <1>5 DEF Spawn, Polling, loopVars
<1>6. ASSUME NEW u \in Tasks, DropHandle(u)
      PROVE  /\ handle[u] = "held" /\ handle' = [handle EXCEPT ![u] = "dropped"]
             /\ current = Owner[u] /\ current' = current
  BY <1>6 DEF DropHandle, loopVars
<1>7. ASSUME NEW u \in Tasks, Spawn(u)
      PROVE  \/ handle'[t] = handle[t]
             \/ /\ Spawn(t) /\ handle[t] = "unspawned" /\ handle'[t] = "held"
                /\ current = Owner[t] /\ current' = current
                /\ \A x \in Tasks \ {t} : handle'[x] = handle[x]
  BY <1>1, <1>5, <1>7
<1>8. ASSUME NEW u \in Tasks, DropHandle(u)
      PROVE  \/ handle'[t] = handle[t]
             \/ /\ DropHandle(t) /\ handle[t] = "held" /\ handle'[t] = "dropped"
                /\ current = Owner[t] /\ current' = current
  BY <1>1, <1>6, <1>8
<1> QED  BY <1>2, <1>3, <1>4, <1>7, <1>8 DEF Next

(* So are answers, and only once. *)
LEMMA ResultsMove ==
  ASSUME Inv, Next, NEW t \in Tasks
  PROVE  \/ result'[t] = result[t]
         \/ /\ Polling(Owner[t]) /\ UNCHANGED <<handle, current, phase>>
            /\ result[t] = "pending" /\ result'[t] # "pending"
<1>1. result \in [Tasks -> {"pending", "some", "none"}]
  BY DEF Inv, Typed
<1>2. CASE QueueDrained \/ SkipRoot \/ Park \/ Submit \/ PollRoot \/ RootPending \/ Return
  BY <1>2 DEF QueueDrained, SkipRoot, Park, Submit, Turn, PollRoot, RootPending, Return,
     clientVars
<1>3. CASE PopTask \/ Yield \/ LeaveWaker \/ PollReady \/ \E f \in Futures : WakeOther(f)
  BY <1>3 DEF PopTask, Yield, LeaveWaker, PollReady, WakeOther
<1>4. ASSUME NEW u \in Tasks,
             Spawn(u) \/ Cancel(u) \/ DropHandle(u) \/ FinishReady(u) \/ PollPending(u)
               \/ FinishDrop(u)
      PROVE  result' = result
  BY <1>4 DEF Spawn, Cancel, DropHandle, FinishReady, PollPending, FinishDrop, clientVars
<1>5. ASSUME NEW u \in Tasks, PollHandle(u)
      PROVE  /\ Polling(Owner[u]) /\ UNCHANGED <<handle, current, phase>> /\ result[u] = "pending"
             /\ result' = result \/ \E x \in {"none", "some"} : result' = [result EXCEPT ![u] = x]
  BY <1>5 DEF PollHandle, loopVars
<1>6. ASSUME NEW u \in Tasks, PollHandle(u)
      PROVE  \/ result'[t] = result[t]
             \/ /\ Polling(Owner[t]) /\ UNCHANGED <<handle, current, phase>>
                /\ result[t] = "pending" /\ result'[t] # "pending"
  BY <1>1, <1>5, <1>6
<1> QED  BY <1>2, <1>3, <1>4, <1>6 DEF Next

LEMMA FamilyKept ==
  ASSUME Inv, Next
  PROVE  Family'
<1>1. Ready /\ Moved /\ Family /\ Typed
  BY NextMoves DEF Inv
<1>2. handle \in [Tasks -> {"unspawned", "held", "dropped"}]
  BY <1>1 DEF Typed
<1>3. \A t \in Tasks : heap'.awaiter[t] \in {None, Owner[t]}
  BY <1>1 DEF Family, Moved
<1>4. \A t \in Tasks : handle[t] # "unspawned" => handle'[t] # "unspawned"
  BY <1>2, HandlesMove
<1>5. \A t \in Tasks : handle'[t] = "unspawned" => View(t)' = P!NewTask
  <2> TAKE t \in Tasks
  <2> HAVE handle'[t] = "unspawned"
  <2>1. handle[t] = "unspawned"
    BY <1>4
  <2>2. View(t)' = View(t)
    BY <1>1, <2>1 DEF Moved
  <2>3. View(t) = P!NewTask
    BY <1>1, <2>1 DEF Family
  <2> QED  BY <2>2, <2>3
<1>6. ASSUME NEW t \in Tasks, handle[t] = "unspawned", handle'[t] # "unspawned"
      PROVE  /\ Owner[t] \in Tasks => handle[Owner[t]] # "unspawned" /\ Owner[t] # t
             /\ \A u \in Tasks \ {t} : handle'[u] = handle[u]
  <2>1. /\ current = Owner[t] /\ \A u \in Tasks \ {t} : handle'[u] = handle[u]
    BY <1>6, HandlesMove
  <2>2. Owner[t] \in Tasks => handle[Owner[t]] # "unspawned"
    <3>1. \A u \in Tasks : current = u => handle[u] # "unspawned"
      BY <1>1, Known
    <3> QED  BY <2>1, <3>1
  <2> QED  BY <1>6, <2>1, <2>2
<1>7. \A t \in Tasks : handle'[t] # "unspawned" /\ Owner[t] \in Tasks
                         => handle'[Owner[t]] # "unspawned"
  <2> TAKE t \in Tasks
  <2> HAVE handle'[t] # "unspawned" /\ Owner[t] \in Tasks
  <2>1. handle[Owner[t]] # "unspawned"
    <3>1. CASE handle[t] = "unspawned"
      BY <1>6, <3>1
    <3>2. CASE handle[t] # "unspawned"
      BY <1>1, <3>2 DEF Family
    <3> QED  BY <3>1, <3>2
  <2> QED  BY <1>4, <2>1
<1>8. ASSUME NEW S \in SUBSET Tasks, S # {}, \A t \in S : handle'[t] # "unspawned"
      PROVE  \E t \in S : Owner[t] \notin S
  <2>1. CASE \A t \in S : handle[t] # "unspawned"
    BY <1>1, <1>8, <2>1 DEF Family
  <2>2. CASE \E t \in S : handle[t] = "unspawned"
    <3>1. PICK t \in S : handle[t] = "unspawned"
      BY <2>2
    <3>2. /\ Owner[t] \in Tasks => handle[Owner[t]] # "unspawned" /\ Owner[t] # t
          /\ \A u \in Tasks \ {t} : handle'[u] = handle[u]
      BY <1>6, <1>8, <3>1
    <3> DEFINE R == S \ {t}
    <3>3. R \in SUBSET Tasks /\ \A u \in R : handle[u] # "unspawned"
      BY <1>8, <3>2
    <3>4. CASE R = {}
      BY <1>8, <3>2, <3>4
    <3>5. CASE R # {}
      <4> HIDE DEF R
      <4>1. PICK u \in R : Owner[u] \notin R
        BY <1>1, <3>3, <3>5 DEF Family
      <4>2. Owner[u] # t
        BY <1>1, <3>1, <3>3, <4>1 DEF Family
      <4> QED  BY <4>1, <4>2 DEF R
    <3> QED  BY <3>4, <3>5
  <2> QED  BY <2>1, <2>2
<1>9. \A S \in SUBSET Tasks : S # {} /\ (\A t \in S : handle'[t] # "unspawned")
                                => \E t \in S : Owner[t] \notin S
  BY <1>8
<1> QED  BY <1>3, <1>5, <1>7, <1>9 DEF Family

LEMMA EachTaskKept ==
  ASSUME Inv, Next
  PROVE  EachTask'
<1> SUFFICES ASSUME NEW u \in Tasks
             PROVE  View(u)' \in P!TaskRecord /\ P!AInv(View(u)') /\ P!Explained(View(u)')
  BY DEF EachTask
<1> DEFINE v == View(u)
           w == View(u)'
<1>1. /\ v \in P!TaskRecord /\ P!AInv(v) /\ P!Explained(v) /\ v.executor = "up"
      /\ w = v \/ P!Step(v, w)
  BY NextMoves, TaskFacts DEF Inv, EachTask, Moved
<1> HIDE DEF v, w
<1>2. P!IInv(v)
  BY <1>1 DEF P!AInv
<1>3. P!Step(v, w) => w \in P!TaskRecord /\ P!AInv(w)
  BY <1>1, Constants, P!StepKeepsAInv
<1>4. P!Step(v, w) => P!Explained(w)
  BY <1>1, <1>2, Constants, P!StepKeepsExplained
<1> QED  BY <1>1, <1>3, <1>4 DEF v, w

(* A future is dropped in place by the call that is about to drop its handles. *)
LEMMA DropsMove ==
  ASSUME Inv, Next, NEW t \in Tasks
  PROVE  drops'[t] = drops[t] \/ current' = t
<1>1. drops \in [Tasks -> Nat]
  BY DEF Inv, Typed
<1>2. CASE QueueDrained \/ SkipRoot \/ Park \/ Submit \/ PollRoot \/ RootPending \/ Return
  BY <1>2 DEF QueueDrained, SkipRoot, Park, Submit, Turn, PollRoot, RootPending, Return,
     clientVars
<1>3. CASE Yield \/ LeaveWaker \/ \E f \in Futures : WakeOther(f)
  BY <1>3 DEF Yield, LeaveWaker, WakeOther
<1>4. CASE PollReady
  BY <1>1, <1>4, TasksType DEF PollReady
<1>5. ASSUME NEW u \in Tasks,
             Spawn(u) \/ PollHandle(u) \/ Cancel(u) \/ DropHandle(u) \/ FinishReady(u)
               \/ FinishDrop(u)
      PROVE  drops' = drops
  BY <1>5 DEF Spawn, PollHandle, Cancel, DropHandle, FinishReady, FinishDrop, clientVars
<1>6. CASE PopTask
  <2>1. PICK u : u = Head(heap.queue)
    OBVIOUS
  <2>2. \/ UNCHANGED drops
        \/ Enter(u, "dropping") /\ drops' = [drops EXCEPT ![u] = @ + 1]
    BY <1>6, <2>1, NextMoves, PopTaskStep
  <2> QED  BY <1>1, <2>2 DEF Enter
<1>7. ASSUME NEW u \in Tasks, PollPending(u)
      PROVE  drops'[t] = drops[t] \/ current' = t
  <2>1. PICK f : f = Owner[u]
    OBVIOUS
  <2>2. \/ UNCHANGED drops
        \/ UNCHANGED <<current, pc, max_round>> /\ drops' = [drops EXCEPT ![u] = @ + 1]
    BY <1>7, <2>1, NextMoves, PollPendingStep
  <2>3. current = u
    BY <1>7 DEF PollPending, Polling
  <2> QED  BY <1>1, <2>2, <2>3
<1> QED  BY <1>2, <1>3, <1>4, <1>5, <1>6, <1>7 DEF Next

(* The executor turns from a task to another future when it is done with it. *)
LEMMA Turns ==
  ASSUME Inv, Next, current # None
  PROVE  \/ current' = current
         \/ HandlesDropped /\ UNCHANGED handle /\ phase \in {"completing", "dropping"}
         \/ current \in Tasks /\ PollPending(current)
         \/ RootPending
<1>1. current \in Futures
  BY DEF Inv, Typed
<1>2. CASE QueueDrained \/ SkipRoot \/ Park \/ Submit \/ PollRoot \/ PopTask
  BY <1>2 DEF QueueDrained, SkipRoot, Park, Submit, Turn, PollRoot, PopTask
<1>3. CASE Yield \/ LeaveWaker \/ PollReady \/ \E f \in Futures : WakeOther(f)
  BY <1>3 DEF Yield, LeaveWaker, PollReady, WakeOther, loopVars
<1>4. ASSUME NEW t \in Tasks, Spawn(t) \/ PollHandle(t) \/ Cancel(t) \/ DropHandle(t)
      PROVE  current' = current
  BY <1>4 DEF Spawn, PollHandle, Cancel, DropHandle, loopVars
<1>5. ASSUME NEW t \in Tasks, FinishReady(t) \/ FinishDrop(t)
      PROVE  HandlesDropped /\ UNCHANGED handle /\ phase \in {"completing", "dropping"}
  BY <1>5 DEF FinishReady, FinishDrop, clientVars
<1>6. CASE Return
  BY <1>6 DEF Return, clientVars
<1>7. ASSUME NEW t \in Tasks, PollPending(t)
      PROVE  current = t
  BY <1>7 DEF PollPending, Polling
<1> QED  BY <1>2, <1>3, <1>4, <1>5, <1>6, <1>7 DEF Next

(* Once run returned it does nothing. *)
LEMMA Returned ==
  ASSUME Inv, Next
  PROVE  /\ pc # "returned"
         /\ pc' = "returned" => Return
<1>1. Loop /\ current \in Futures \union {None} /\ None \notin Futures
  BY TasksType DEF Inv, Typed
<1>2. CASE QueueDrained \/ SkipRoot \/ Park \/ Submit \/ PollRoot \/ RootPending
  BY <1>1, <1>2 DEF Loop, QueueDrained, SkipRoot, Park, Submit, Turn, PollRoot, RootPending,
     Polling, Futures
<1>3. CASE PopTask
  BY <1>3 DEF PopTask
<1>4. CASE Return
  BY <1>1, <1>4 DEF Return, Loop, Futures
<1>5. CASE Yield \/ LeaveWaker \/ PollReady \/ \E f \in Futures : WakeOther(f)
  BY <1>1, <1>5 DEF Loop, Yield, LeaveWaker, PollReady, WakeOther, loopVars, Futures
<1>6. ASSUME NEW t \in Tasks, Spawn(t) \/ PollHandle(t) \/ Cancel(t) \/ DropHandle(t)
      PROVE  pc # "returned" /\ pc' = pc
  BY <1>1, <1>6, OwnerType DEF Loop, Spawn, PollHandle, Cancel, DropHandle, Polling, loopVars,
     Futures
<1>7. ASSUME NEW t \in Tasks, FinishReady(t) \/ FinishDrop(t)
      PROVE  pc # "returned" /\ pc' # "returned"
  BY <1>1, <1>7 DEF Loop, FinishReady, FinishDrop, Leave
<1>8. ASSUME NEW t \in Tasks, PollPending(t)
      PROVE  pc # "returned" /\ pc' # "returned"
  <2>1. PICK f : f = Owner[t]
    OBVIOUS
  <2>2. Leave \/ UNCHANGED <<current, pc, max_round>>
    BY <1>8, <2>1, NextMoves, PollPendingStep
  <2> QED  BY <1>1, <1>8, <2>2 DEF Loop, PollPending, Polling, Leave
<1> QED
  BY <1>2, <1>3, <1>4, <1>5, <1>6, <1>7, <1>8 DEF Next

LEMMA BereftKept ==
  ASSUME Inv, Next
  PROVE  Bereft'
<1>1. Ready /\ Bereft /\ Loop /\ drops \in [Tasks -> Nat]
  BY NextMoves DEF Inv, Typed
<1>2. ASSUME NEW t \in Tasks, drops'[t] > 0, current' # t, NEW u \in Children(t)
      PROVE  handle'[u] # "held"
  <2>1. u \in Tasks /\ Owner[u] = t /\ drops'[t] = drops[t]
    BY <1>2, DropsMove DEF Children
  <2>2. handle'[u] = "held" => handle[u] = "held"
    BY <1>2, <2>1, HandlesMove
  <2>3. CASE current # t
    BY <1>1, <1>2, <2>1, <2>2, <2>3 DEF Bereft
  <2>4. CASE current = t
    <3>1. t # Root /\ t # None
      BY <1>1, TaskFacts
    <3>2. CASE HandlesDropped /\ UNCHANGED handle
      BY <1>2, <2>4, <3>2 DEF HandlesDropped
    <3>3. CASE PollPending(t)
      <4> DEFINE v == View(t)
      <4>1. v.phase = "polling" /\ v.drops = drops[t] /\ P!IInv(v)
        BY <1>1, <3>3, TaskFacts, ViewFields DEF PollPending, Polling
      <4> HIDE DEF v
      <4>2. drops[t] = 0
        BY <4>1 DEF P!IInv, P!Future
      <4> QED  BY <1>2, <2>1, <4>2
    <3>4. CASE RootPending
      BY <2>4, <3>1, <3>4 DEF RootPending, Polling
    <3> QED  BY <1>2, <2>4, <3>1, <3>2, <3>3, <3>4, Turns
  <2> QED  BY <2>3, <2>4
<1>3. pc' = "returned" => \A u \in Children(Root) : handle'[u] # "held"
  BY Returned DEF Return, HandlesDropped, clientVars
<1> QED  BY <1>2, <1>3 DEF Bereft, Children

LEMMA PanickedKept ==
  ASSUME Inv, Next
  PROVE  Panicked'
<1>1. /\ Loop /\ current \in Futures \union {None} /\ None \notin Futures
      /\ \A t \in Tasks : fault[t] = "none"
  BY TasksType DEF Inv, Typed, Next
<1>2. CASE fault' = fault
  BY <1>1, <1>2 DEF Panicked
<1>3. CASE QueueDrained \/ SkipRoot \/ Park \/ Submit \/ PollRoot \/ RootPending \/ Return
  BY <1>2, <1>3 DEF QueueDrained, SkipRoot, Park, Submit, Turn, PollRoot, RootPending, Return,
     clientVars
<1>4. CASE Yield \/ LeaveWaker \/ PollReady \/ \E f \in Futures : WakeOther(f)
  BY <1>2, <1>4 DEF Yield, LeaveWaker, PollReady, WakeOther
<1>5. CASE PopTask
  <2>1. PICK t : t = Head(heap.queue)
    OBVIOUS
  <2> QED  BY <1>2, <1>5, <2>1, NextMoves, PopTaskStep
<1>6. ASSUME NEW t \in Tasks, PollPending(t)
      PROVE  fault' = fault
  <2>1. PICK f : f = Owner[t]
    OBVIOUS
  <2> QED  BY <1>6, <2>1, NextMoves, PollPendingStep
<1>7. ASSUME NEW t \in Tasks, Spawn(t) \/ Cancel(t) \/ FinishReady(t) \/ FinishDrop(t)
      PROVE  fault' = fault
  BY <1>7 DEF Spawn, Cancel, FinishReady, FinishDrop, clientVars
<1>8. ASSUME NEW t \in Tasks, PollHandle(t) \/ DropHandle(t)
      PROVE  pc' \in {"tasks", "root"}
  <2>1. current = Owner[t] /\ pc' = pc
    BY <1>8 DEF PollHandle, DropHandle, Polling, loopVars
  <2> QED  BY <1>1, <2>1, OwnerType DEF Loop, Futures
<1> QED  BY <1>2, <1>3, <1>4, <1>5, <1>6, <1>7, <1>8 DEF Next, Panicked

(* What the invariant says of a task, when futures only await *)
LEMMA TendedTask ==
  ASSUME Ready, OnlyAwaits, Client \subseteq {"yield_forever"}, NEW t \in Tasks
  PROVE  /\ P!Tended(View(t)) /\ P!IInv(View(t))
         /\ View(t).runnables > 0 \/ View(t).phase = "polling" => ~is_closed(heap.state[t])
<1> DEFINE v == View(t)
<1>1. /\ v.result = result[t] /\ v.executor = "up" /\ v.fault = "none" /\ v.state = heap.state[t]
      /\ v.handle = (IF handle[t] = "dropped" THEN "dropped" ELSE "held")
      /\ P!AInv(v)
  BY TaskFacts, ViewFields DEF Ready, EachTask
<1>2. ~v.cancelled
  BY DEF OnlyAwaits, View
<1>3. handle[t] = "dropped" => result[t] # "pending"
  BY DEF OnlyAwaits
<1> HIDE DEF v
<1>4. P!Tended(v) /\ P!IInv(v)
  BY <1>1, <1>2, <1>3 DEF P!AInv, P!Awaits, P!Awaited
<1>5. v.runnables > 0 \/ v.phase = "polling" => ~P!is_closed(v.state)
  BY <1>4 DEF P!Tended, P!ClosedRests, P!IInv, P!Phase
<1> QED  BY <1>1, <1>4, <1>5, SameWords DEF v

(* Where phase changes *)
LEMMA PhaseMoves ==
  ASSUME Inv, Next
  PROVE  \/ UNCHANGED <<current, phase>>
         \/ phase' \in {"idle", "polling"}
         \/ PollReady
         \/ /\ phase' = "dropping"
            /\ \E t \in Tasks : /\ View(t).runnables > 0 \/ View(t).phase = "polling"
                                /\ is_closed(heap.state[t])
<1>1. CASE \/ QueueDrained \/ SkipRoot \/ Park \/ Submit \/ PollRoot \/ RootPending \/ Return
           \/ PollReady
  BY <1>1 DEF QueueDrained, SkipRoot, Park, Submit, Turn, PollRoot, RootPending, Return, Enter
<1>2. CASE Yield \/ LeaveWaker \/ \E f \in Futures : WakeOther(f)
  BY <1>2 DEF Yield, LeaveWaker, WakeOther, loopVars
<1>3. ASSUME NEW t \in Tasks, Spawn(t) \/ PollHandle(t) \/ Cancel(t) \/ DropHandle(t)
      PROVE  UNCHANGED <<current, phase>>
  BY <1>3 DEF Spawn, PollHandle, Cancel, DropHandle, loopVars
<1>4. ASSUME NEW t \in Tasks, FinishReady(t) \/ FinishDrop(t)
      PROVE  phase' = "idle"
  BY <1>4 DEF FinishReady, FinishDrop, Leave, Enter
<1>5. ASSUME PopTask, phase' # "polling"
      PROVE  /\ phase' = "dropping"
             /\ \E t \in Tasks : View(t).runnables > 0 /\ is_closed(heap.state[t])
  <2>1. PICK t : t = Head(heap.queue)
    OBVIOUS
  <2>2. t \in Tasks /\ phase' = "dropping" /\ is_closed(heap.state[t])
    BY <1>5, <2>1, NextMoves, PopTaskStep DEF Enter
  <2>3. Times(heap.queue, t) > 0
    <3>1. heap.queue \in Seq(Tasks) /\ heap.queue # <<>>
      BY <1>5, HeapFields DEF PopTask, Inv, Typed
    <3>2. Tail(heap.queue) \in Seq(Tasks) /\ Times(heap.queue, t) = Times(Tail(heap.queue), t) + 1
      BY <2>1, <3>1, TimesTail
    <3>3. Times(Tail(heap.queue), t) \in Nat
      BY <3>2, SpotsFinite
    <3> QED  BY <3>2, <3>3
  <2>4. View(t).runnables > 0
    BY <2>2, <2>3, ViewFields DEF Inv, Typed
  <2> QED  BY <2>2, <2>4
<1>6. ASSUME NEW t \in Tasks, PollPending(t), phase' # "idle"
      PROVE  /\ phase' = "dropping"
             /\ View(t).phase = "polling" /\ is_closed(heap.state[t])
  <2>1. PICK f : f = Owner[t]
    OBVIOUS
  <2>2. phase' = "dropping" /\ is_closed(heap.state[t])
    BY <1>6, <2>1, NextMoves, PollPendingStep DEF Leave, Enter
  <2>3. View(t).phase = "polling"
    BY <1>6, ViewFields DEF PollPending, Polling, Inv, Typed
  <2> QED  BY <2>2, <2>3
<1> QED
  BY <1>1, <1>2, <1>3, <1>4, <1>5, <1>6 DEF Next

LEMMA OnlyAwaitsKept ==
  ASSUME Inv, Next
  PROVE  OnlyAwaits'
<1> SUFFICES ASSUME Client \subseteq {"yield_forever"}
             PROVE  /\ cancelled' = {} /\ channel' = {} /\ phase' # "dropping"
                    /\ \A t \in Tasks : handle'[t] = "dropped" => result'[t] # "pending"
                    /\ \A t \in Tasks : heap'.awaiter[t] # None => Awaited(t)'
                    /\ phase' = "completing" =>
                         \A t \in Children(current') :
                           handle'[t] = "held" => result'[t] # "pending"
  BY DEF OnlyAwaits, Children
<1>1. /\ Ready /\ Moved /\ Typed /\ Loop /\ cancelled = {} /\ channel = {} /\ phase # "dropping"
      /\ \A t \in Tasks : handle[t] = "dropped" => result[t] # "pending"
      /\ \A t \in Tasks : heap.awaiter[t] # None => Awaited(t)
      /\ phase = "completing" =>
           \A t \in Children(current) : handle[t] = "held" => result[t] # "pending"
      /\ "cancel" \notin Client /\ "channel" \notin Client /\ "early_drop" \notin Client
  BY NextMoves DEF Inv, OnlyAwaits
<1>2. cancelled' = {} /\ channel' = {}
  <2>1. CASE QueueDrained \/ SkipRoot \/ Park \/ Submit \/ PollRoot \/ RootPending \/ Return
    BY <1>1, <2>1 DEF QueueDrained, SkipRoot, Park, Submit, Turn, PollRoot, RootPending, Return,
       clientVars
  <2>2. CASE PopTask \/ Yield \/ LeaveWaker \/ PollReady \/ \E f \in Futures : WakeOther(f)
    BY <1>1, <2>2 DEF PopTask, Yield, LeaveWaker, PollReady, WakeOther
  <2>3. ASSUME NEW t \in Tasks,
               \/ Spawn(t) \/ PollHandle(t) \/ Cancel(t) \/ DropHandle(t)
               \/ FinishReady(t) \/ PollPending(t) \/ FinishDrop(t)
        PROVE  cancelled' = {} /\ channel' = {}
    BY <1>1, <2>3 DEF Spawn, PollHandle, Cancel, DropHandle, FinishReady, PollPending, FinishDrop,
       clientVars
  <2> QED  BY <2>1, <2>2, <2>3 DEF Next
<1>3. phase' # "dropping"
  <2>1. \A t \in Tasks : View(t).runnables > 0 \/ View(t).phase = "polling"
                           => ~is_closed(heap.state[t])
    BY <1>1, TendedTask DEF Inv
  <2> QED  BY <1>1, <2>1, PhaseMoves DEF PollReady
<1>4. ASSUME NEW t \in Tasks, result[t] # "pending"
      PROVE  result'[t] # "pending"
  BY <1>4, ResultsMove
<1>5. ASSUME NEW t \in Tasks, DropHandle(t)
      PROVE  result[t] # "pending"
  <2>1. /\ current = Owner[t] /\ handle[t] = "held"
        /\ phase = "polling" => result[t] # "pending"
    BY <1>1, <1>5 DEF DropHandle
  <2>2. phase # "idle" /\ t \in Children(current)
    BY <2>1, OwnerType, TasksType DEF Inv, Loop, Children
  <2>3. phase \in {"polling", "completing"}
    BY <1>1, <2>2 DEF Typed
  <2> QED  BY <1>1, <2>1, <2>2, <2>3
<1>6. \A t \in Tasks : handle'[t] = "dropped" => result'[t] # "pending"
  BY <1>1, <1>4, <1>5, HandlesMove
<1>7. ASSUME NEW t \in Tasks, heap'.awaiter[t] # None
      PROVE  Awaited(t)'
  <2> DEFINE v == View(t)
             w == View(t)'
  <2>1. /\ v \in P!TaskRecord /\ w.awaiter = TRUE /\ v.awaiter = (heap.awaiter[t] # None)
        /\ v.result = result[t] /\ w.result = result'[t]
        /\ v.handle = (IF handle[t] = "dropped" THEN "dropped" ELSE "held")
        /\ w.handle = (IF handle'[t] = "dropped" THEN "dropped" ELSE "held")
    <3>1. heap \in Heaps /\ heap' \in Heaps
      BY <1>1 DEF Moved, Typed
    <3>2. w.awaiter = TRUE
      BY <1>7, <3>1, SameFields
    <3> QED  BY <1>1, <3>1, <3>2, TaskFacts, ViewFields, NextViewFields
  <2>2. w = v \/ (handle[t] # "unspawned" /\ P!Step(v, w))
    BY <1>1 DEF Moved
  <2>3. heap.awaiter[t] # None => handle[t] = "held" /\ result[t] = "pending"
    BY <1>1 DEF Awaited
  <2>4. "early_drop" \notin TaskClient
    BY DEF TaskClient
  <2> HIDE DEF v, w
  <2>5. v.awaiter => v.handle = "held" /\ v.result = "pending"
    BY <2>1, <2>3
  <2>6. w.handle = "held" /\ w.result = "pending" /\ handle[t] # "unspawned"
    <3>1. CASE w = v
      BY <2>1, <2>3, <2>5, <3>1
    <3>2. CASE handle[t] # "unspawned" /\ P!Step(v, w)
      BY <2>1, <2>4, <2>5, <3>2, Constants, P!AwaiterKept
    <3> QED  BY <2>2, <3>1, <3>2
  <2>7. handle'[t] = "held" /\ result'[t] = "pending"
    <3>1. handle \in [Tasks -> {"unspawned", "held", "dropped"}] /\ handle'[t] # "dropped"
      BY <1>1, <2>1, <2>6 DEF Typed
    <3> QED  BY <2>1, <2>6, <3>1, HandlesMove
  <2>8. heap'.awaiter[t] = Owner[t]
    <3>1. heap'.awaiter[t] \in {None, Owner[t]}
      BY FamilyKept DEF Family
    <3> QED  BY <1>7, <3>1
  <2> QED  BY <2>7, <2>8 DEF Awaited
<1>8. ASSUME phase' = "completing", NEW t \in Children(current'), handle'[t] = "held"
      PROVE  result'[t] # "pending"
  <2>1. CASE UNCHANGED <<current, phase>>
    <3>1. phase = "completing" /\ t \in Children(current) /\ t \in Tasks
      BY <1>8, <2>1 DEF Children
    <3>2. handle[t] = "held"
      <4>1. ~Spawn(t)
        BY <3>1 DEF Spawn, Polling
      <4> QED  BY <1>8, <3>1, <4>1, HandlesMove
    <3> QED  BY <1>1, <1>4, <3>1, <3>2
  <2>2. CASE PollReady
    <3>1. UNCHANGED <<handle, result, current>> /\ t \in Children(current)
          /\ \A u \in Children(current) : handle[u] = "held" => result[u] # "pending"
      BY <1>1, <1>8, <2>2 DEF PollReady
    <3> QED  BY <1>8, <3>1
  <2> QED  BY <1>8, <2>1, <2>2, PhaseMoves
<1> QED  BY <1>2, <1>3, <1>6, <1>7, <1>8

(* Who waits, waits until it is woken or polled. *)
LEMMA WaitKept ==
  ASSUME Inv, Next, NEW f \in Futures, Waits(f), current # f
  PROVE  Waits(f)' \/ Rouses(f)
<1>1. Moved /\ Ready
  BY NextMoves
<1>2. CASE f \in channel
  <2>1. CASE QueueDrained \/ SkipRoot \/ Park \/ Submit \/ PollRoot \/ RootPending \/ Return
    BY <1>2, <2>1 DEF QueueDrained, SkipRoot, Park, Submit, Turn, PollRoot, RootPending, Return,
       clientVars, Waits
  <2>2. CASE PopTask \/ Yield \/ LeaveWaker \/ PollReady
    BY <1>2, <2>2 DEF PopTask, Yield, LeaveWaker, PollReady, Waits
  <2>3. ASSUME NEW g \in Futures, WakeOther(g)
        PROVE  f \in channel' \/ Rouses(f)
    <3>1. channel' = channel \ {g} /\ Rouses(g)
      BY <1>1, <2>3, WakeOtherStep DEF WakeOther
    <3> QED  BY <1>2, <3>1
  <2>4. ASSUME NEW t \in Tasks,
               \/ Spawn(t) \/ PollHandle(t) \/ Cancel(t) \/ DropHandle(t)
               \/ FinishReady(t) \/ PollPending(t) \/ FinishDrop(t)
        PROVE  f \in channel'
    BY <1>2, <2>4 DEF Spawn, PollHandle, Cancel, DropHandle, FinishReady, PollPending, FinishDrop,
       clientVars
  <2> QED  BY <2>1, <2>2, <2>3, <2>4 DEF Next, Waits
<1>3. ASSUME NEW t \in Children(f), Awaited(t)
      PROVE  Waits(f)' \/ Rouses(f)
  <2>1. /\ t \in Tasks /\ Owner[t] = f /\ f # None
        /\ handle[t] = "held" /\ result[t] = "pending" /\ heap.awaiter[t] = f
    BY <1>3, TasksType DEF Children, Awaited
  <2>2. handle'[t] = "held"
    BY <2>1, HandlesMove
  <2>3. result'[t] = "pending"
    BY <2>1, ResultsMove DEF Polling
  <2>4. heap'.awaiter[t] = f \/ Rouses(f)
    BY <1>1, <2>1 DEF Moved
  <2> QED  BY <2>1, <2>2, <2>3, <2>4 DEF Waits, Awaited, Children
<1> QED  BY <1>2, <1>3 DEF Waits

(* Who goes to sleep has left its waker somewhere. *)
LEMMA SleepsLeft ==
  ASSUME Inv, Next, NEW t \in Tasks, current = t, phase = "polling", P!Asleep(View(t)')
  PROVE  Waits(t)'
<1>1. Ready /\ Moved /\ t # Root /\ t # None /\ heap' \in Heaps
  BY NextMoves, TaskFacts DEF Moved
<1>2. View(t)'.phase = "idle" /\ View(t)'.runnables = 0
  BY DEF P!Asleep
<1>3. current' # t
  <2>1. View(t)'.phase = (IF current' = t THEN phase' ELSE "idle")
    BY <1>1, NextViewFields
  <2> QED  BY <1>1, <1>2, <2>1, LoopKept DEF Loop
<1>4. PollPending(t)
  BY <1>1, <1>3, Turns DEF RootPending, Polling
<1>5. PICK f : f = Owner[t]
  OBVIOUS
<1>6. /\ heap'.awaiter = heap.awaiter
      /\ is_scheduled(heap.state[t]) => View(t)'.runnables > 0
  BY <1>1, <1>3, <1>4, <1>5, PollPendingStep
<1>7. ~is_scheduled(heap.state[t])
  BY <1>2, <1>6
<1>8. WakeToCome /\ UNCHANGED <<handle, result, channel>>
  BY <1>4 DEF PollPending
<1>9. \/ t \in channel
      \/ \E u \in Children(t) : handle[u] = "held" /\ result[u] = "pending" /\ heap.awaiter[u] = t
  BY <1>1, <1>7, <1>8 DEF WakeToCome
<1> QED  BY <1>6, <1>8, <1>9 DEF Waits, Awaited, Children

LEMMA SleepersKept ==
  ASSUME Inv, Next
  PROVE  Sleepers'
<1>1. Ready /\ Moved /\ Sleepers /\ Loop /\ Root \in Futures /\ None \notin Futures
  BY NextMoves, TasksType DEF Inv, Futures
<1>2. ASSUME NEW t \in Tasks, P!Asleep(View(t)')
      PROVE  Waits(t)'
  <2> DEFINE v == View(t)
             w == View(t)'
  <2>1. /\ v \in P!TaskRecord /\ P!IInv(v) /\ v.executor = "up"
        /\ v.phase = (IF current = t THEN phase ELSE "idle")
        /\ w = v \/ P!Step(v, w)
        /\ w.woken = (t \in heap'.woken) /\ P!IInv(w)
        /\ t \in Futures /\ t # Root /\ t # None
    <3>1. P!IInv(w)
      BY EachTaskKept DEF EachTask, P!AInv
    <3> QED  BY <1>1, <3>1, TaskFacts, ViewFields, NextViewFields DEF Moved
  <2>2. CASE current = t /\ phase = "polling"
    BY <1>2, <2>2, SleepsLeft
  <2>3. CASE ~(current = t /\ phase = "polling")
    <3> HIDE DEF v, w
    <3>1. P!Asleep(w)
      BY <1>2 DEF w
    <3>2. v.phase # "polling"
      BY <2>1, <2>3
    <3>3. P!Asleep(v)
      BY <2>1, <3>1, <3>2, Constants, P!FallsAsleep
    <3>4. current # t
      BY <1>1, <2>1, <3>3 DEF P!Asleep, Loop
    <3>5. ~w.woken
      BY <2>1, <3>1, Constants, P!AsleepUnwoken
    <3>6. Waits(t)
      BY <1>1, <3>3 DEF Sleepers, v
    <3>7. ~Rouses(t)
      BY <2>1, <3>5 DEF Rouses
    <3> QED  BY <2>1, <3>4, <3>6, <3>7, WaitKept
  <2> QED  BY <2>2, <2>3
<1>3. ASSUME ~heap'.should_poll, current' # Root, pc' # "returned"
      PROVE  Waits(Root)'
  <2>1. CASE current = Root
    <3>1. RootPending
      <4>1. ~(HandlesDropped /\ UNCHANGED handle /\ phase \in {"completing", "dropping"})
            \/ Return
        <5>1. CASE QueueDrained \/ SkipRoot \/ Park \/ Submit \/ PollRoot \/ PopTask
          BY <1>1, <2>1, <5>1 DEF QueueDrained, SkipRoot, Park, Submit, Turn, PollRoot, PopTask,
             Loop
        <5>2. CASE RootPending \/ Return
          BY <5>2 DEF RootPending, Polling
        <5>3. CASE Yield \/ LeaveWaker \/ PollReady \/ \E f \in Futures : WakeOther(f)
          BY <1>3, <2>1, <5>3 DEF Yield, LeaveWaker, PollReady, WakeOther, loopVars
        <5>4. ASSUME NEW t \in Tasks, Spawn(t) \/ PollHandle(t) \/ Cancel(t) \/ DropHandle(t)
              PROVE  current' = current
          BY <5>4 DEF Spawn, PollHandle, Cancel, DropHandle, loopVars
        <5>5. ASSUME NEW t \in Tasks, FinishReady(t) \/ FinishDrop(t) \/ PollPending(t)
              PROVE  current = t
          BY <5>5 DEF FinishReady, FinishDrop, PollPending, Polling
        <5>6. Root \notin Tasks
          BY TasksType
        <5> QED  BY <1>3, <2>1, <5>1, <5>2, <5>3, <5>4, <5>5, <5>6 DEF Next
      <4> QED  BY <1>1, <1>3, <2>1, <4>1, Turns, TasksType DEF Return
    <3>2. WakeToCome /\ UNCHANGED <<heap, handle, result, channel>>
      BY <3>1 DEF RootPending, clientVars
    <3> QED  BY <1>3, <2>1, <3>2 DEF WakeToCome, Waits, Awaited, Children
  <2>2. CASE current # Root
    <3>1. ~heap.should_poll
      BY <1>1, <1>3 DEF Moved
    <3>2. Waits(Root)
      BY <1>1, <2>2, <3>1, Returned DEF Sleepers
    <3>3. ~Rouses(Root)
      BY <1>3 DEF Rouses
    <3> QED  BY <1>1, <2>2, <3>2, <3>3, WaitKept
  <2> QED  BY <2>1, <2>2
<1> QED  BY <1>2, <1>3 DEF Sleepers

-----------------------------------------------------------------------------
(* At first no task is known to anybody, and the root is to be polled. *)
LEMMA InitHeap == Init => heap \in Heaps
<1>1. INITIAL_STATE \in P!Word
  BY P!InitIInv, Constants, SameWords DEF P!TaskRecord, P!NewTask, P!Word, P!Snapshot
<1>2. <<>> \in Seq(Tasks)
  BY EmptySeq
<1> QED  BY <1>1, <1>2 DEF Init, NewHeap, Heaps

LEMMA InitView ==
  ASSUME Init, NEW t \in Tasks
  PROVE  View(t) = P!NewTask
<1>1. heap \in Heaps
  BY InitHeap
<1>2. /\ heap.state[t] = P!INITIAL_STATE /\ heap.awaiter = [u \in Tasks |-> None]
      /\ heap.freed = {} /\ heap.queue = <<>> /\ heap.woken = {}
  BY SameWords DEF Init, NewHeap
<1>3. Times(heap.queue, t) = 0
  BY <1>2, TimesEmpty
<1>4. Times(heap.awaiter, t) = 0
  <2>1. t # None
    BY TasksType DEF Futures
  <2>2. Spots(heap.awaiter, t) = {}
    BY <1>2, <2>1 DEF Spots
  <2> QED  BY <2>2, FS_EmptySet DEF Times
<1>5. /\ output[t] = "none" /\ drops[t] = 0 /\ result[t] = "pending" /\ fault[t] = "none"
      /\ handle[t] = "unspawned" /\ t \notin cancelled /\ t \notin channel
      /\ phase = "idle"
  BY DEF Init
<1> DEFINE v == View(t)
<1>6. /\ P!Shaped(v) /\ v.state = P!INITIAL_STATE /\ v.awaiter = (heap.awaiter[t] # None)
      /\ v.memory = "live" /\ v.output = "none" /\ v.drops = 0 /\ v.runnables = 0
      /\ v.phase = "idle" /\ v.wakers = 0 /\ v.handle = "held" /\ v.result = "pending"
      /\ v.cancelled = (t \in cancelled) /\ v.woken = (t \in heap.woken)
      /\ v.executor = "up" /\ v.fault = "none"
  <2>1. Times(heap.awaiter, t) + (IF t \in channel THEN 1 ELSE 0) = 0
    BY <1>4, <1>5
  <2>2. (IF current = t THEN phase ELSE "idle") = "idle"
    BY <1>5
  <2>3. /\ P!Shaped(v) /\ v.state = P!INITIAL_STATE /\ v.awaiter = (heap.awaiter[t] # None)
        /\ v.memory = (IF t \in heap.freed THEN "freed" ELSE "live") /\ v.drops = 0
        /\ v.runnables = 0 /\ v.output = "none"
    BY <1>1, <1>2, <1>3, <1>5, ViewFields
  <2>4. v.phase = "idle" /\ v.wakers = 0
    BY <1>1, <2>1, <2>2, ViewFields
  <2>5. /\ v.handle = (IF handle[t] = "dropped" THEN "dropped" ELSE "held")
        /\ v.result = "pending" /\ v.cancelled = (t \in cancelled)
        /\ v.woken = (t \in heap.woken) /\ v.executor = "up" /\ v.fault = "none"
    BY <1>1, <1>5, ViewFields
  <2> HIDE DEF v
  <2> QED  BY <1>2, <1>5, <2>3, <2>4, <2>5
<1>7. (heap.awaiter[t] # None) = FALSE /\ (t \in cancelled) = FALSE /\ (t \in heap.woken) = FALSE
  BY <1>2, <1>5
<1> HIDE DEF v
<1>8. v = P!NewTask
  BY <1>6, <1>7 DEF P!Shaped, P!NewTask
<1> QED  BY <1>8 DEF v

LEMMA InvInit == Init => Inv
<1> SUFFICES ASSUME Init PROVE Inv
  OBVIOUS
<1>1. \A t \in Tasks : View(t) = P!NewTask
  BY InitView
<1>2. heap \in Heaps
  BY InitHeap
<1>3. Typed
  BY <1>2, YieldsType DEF Typed, Init, Places
<1>4. Loop
  BY TasksType DEF Loop, Init, Futures
<1>5. \A t \in Tasks : heap.awaiter[t] = None /\ handle[t] = "unspawned" /\ drops[t] = 0
                       /\ fault[t] = "none"
  BY DEF Init, NewHeap
<1>6. Family
  BY <1>1, <1>5 DEF Family
<1>7. EachTask
  <2>1. P!NewTask \in P!TaskRecord /\ P!AInv(P!NewTask)
    BY P!InitIInv, P!InitAInv, Constants
  <2>2. P!Explained(P!NewTask)
    <3>1. ~P!is_closed(P!INITIAL_STATE)
      BY Constants, P!InitialWord DEF P!Flags
    <3> QED  BY <3>1 DEF P!Explained, P!NewTask
  <2> QED  BY <1>1, <2>1, <2>2 DEF EachTask
<1>8. Bereft /\ Panicked
  BY <1>5 DEF Bereft, Panicked, Init
<1>9. Sleepers
  <2>1. heap.should_poll
    BY DEF Init, NewHeap
  <2>2. ~P!Asleep(P!NewTask)
    BY Constants, P!InitialWord DEF P!Asleep, P!NewTask, P!Flags
  <2> QED  BY <1>1, <2>1, <2>2 DEF Sleepers
<1>10. OnlyAwaits
  BY <1>5 DEF OnlyAwaits, Init
<1> QED  BY <1>3, <1>4, <1>6, <1>7, <1>8, <1>9, <1>10 DEF Inv

LEMMA InvStep ==
  ASSUME Inv, [Next]_vars
  PROVE  Inv'
<1>1. CASE Next
  BY <1>1, TypedKept, LoopKept, FamilyKept, EachTaskKept, BereftKept, PanickedKept,
     SleepersKept, OnlyAwaitsKept DEF Inv
<1>2. CASE UNCHANGED vars
  <2>1. \A t \in Tasks : View(t)' = View(t)
    BY <1>2 DEF vars, View, Queued, Wakers
  <2>2. /\ Typed' = Typed /\ Loop' = Loop /\ Family' = Family /\ EachTask' = EachTask
        /\ Bereft' = Bereft /\ Panicked' = Panicked
    BY <1>2, <2>1 DEF vars, Typed, Loop, Family, EachTask, Bereft, Panicked
  <2>3. Sleepers' = Sleepers /\ OnlyAwaits' = OnlyAwaits
    BY <1>2, <2>1 DEF vars, Sleepers, Waits, Awaited, OnlyAwaits
  <2> QED  BY <2>2, <2>3 DEF Inv
<1> QED  BY <1>1, <1>2

(* The invariant of the executor *)
THEOREM Invariance == Spec => []Inv
<1>1. Inv /\ [Next]_vars => Inv'
  BY InvStep
<1> QED  BY InvInit, <1>1, PTL DEF Spec

-----------------------------------------------------------------------------
(* What the invariant gives *)

(* Type correctness: TypeOK, for every set of tasks and every family tree *)
THEOREM TypeCorrect == Spec => []TypeOK
<1>1. ASSUME Inv PROVE TypeOK
  <2>1. Typed /\ heap \in Heaps
    BY <1>1 DEF Inv, Typed
  <2>2. \A t \in Tasks : heap.state[t] \in Snapshot
    <3> TAKE t \in Tasks
    <3>1. View(t).state \in P!Snapshot
      BY <1>1 DEF Inv, EachTask, P!TaskRecord
    <3> QED  BY <2>1, <3>1, ViewFields, SameWords
  <2>3. heap.state \in [Tasks -> Snapshot]
    BY <2>1, <2>2, HeapFields
  <2> QED  BY <2>1, <2>3, HeapFields DEF Typed, TypeOK
<1> QED  BY Invariance, <1>1, PTL

(***************************************************************************)
(* OnlyCancelledFail: JoinHandle::poll answers "task has failed" only for  *)
(* a task that was cancelled, however its run, its awaiter and its handle  *)
(* interleave.                                                             *)
(***************************************************************************)
THEOREM CancelFails == Spec => []OnlyCancelledFail
<1>1. ASSUME Inv PROVE OnlyCancelledFail
  <2> SUFFICES ASSUME NEW t \in Tasks, result[t] = "none" PROVE t \in cancelled
    BY DEF OnlyCancelledFail
  <2>1. View(t).result = "none" => View(t).cancelled
    BY <1>1 DEF Inv, EachTask, P!Explained
  <2>2. heap \in Heaps
    BY <1>1 DEF Inv, Typed
  <2> QED  BY <2>1, <2>2, ViewFields
<1> QED  BY Invariance, <1>1, PTL

(* Who is awaited while nobody runs, is asleep and waits itself. *)
LEMMA AwaitedWaits ==
  ASSUME Inv, pc = "driver", heap.queue = <<>>, NEW t \in Tasks, Awaited(t)
  PROVE  Waits(t)
<1> DEFINE v == View(t)
<1>1. /\ heap \in Heaps /\ current = None /\ fault[t] = "none" /\ P!IInv(v)
      /\ heap.awaiter[t] # None /\ handle[t] = "held" /\ t # None
  <2>1. Typed /\ Loop /\ Panicked /\ P!IInv(v)
    BY DEF Inv, EachTask, P!AInv
  <2>2. current = None
    BY <2>1 DEF Typed, Loop, Futures
  <2>3. fault[t] = "none"
    BY <2>1 DEF Panicked
  <2>4. Owner[t] # None /\ t # None
    BY OwnerType, TasksType DEF Futures
  <2> QED  BY <2>1, <2>2, <2>3, <2>4 DEF Typed, Awaited
<1>2. Times(heap.queue, t) = 0
  BY TimesEmpty
<1>3. v.awaiter /\ v.runnables = 0 /\ v.phase = "idle" /\ v.handle = "held" /\ v.fault = "none"
  BY <1>1, <1>2, ViewFields
<1>4. Sleepers
  BY DEF Inv
<1> HIDE DEF v
<1>5. P!Asleep(v)
  BY <1>1, <1>3 DEF P!IInv, P!Fresh, P!Serves, P!Asleep
<1> QED  BY <1>4, <1>5 DEF Sleepers, v

(* A finite family in which each member has a child in it does not exist. *)
LEMMA Childless ==
  ASSUME NEW W \in SUBSET Tasks, \A f \in W \union {Root} : \E t \in W : Owner[t] = f
  PROVE  FALSE
<1> DEFINE T == W \union {Root}
           g == [t \in W |-> IF Owner[t] \in T THEN Owner[t] ELSE Root]
<1>1. IsFiniteSet(W) /\ Root \notin W
  BY TasksType, FS_Subset
<1>2. Cardinality(T) = Cardinality(W) + 1 /\ Cardinality(W) \in Nat
  BY <1>1, FS_AddElement, FS_CardinalityType
<1>3. g \in Surjection(W, T)
  <2>1. g \in [W -> T]
    OBVIOUS
  <2>2. \A f \in T : \E t \in W : g[t] = f
    OBVIOUS
  <2> QED  BY <2>1, <2>2 DEF Surjection
<1> HIDE DEF T, g
<1>4. Cardinality(T) <= Cardinality(W)
  BY <1>1, <1>3, FS_Surjection
<1> QED  BY <1>2, <1>4

(***************************************************************************)
(* NoDeadlock: run parks with an empty queue only when the root future was *)
(* woken or a waker was given away; otherwise the tasks that are awaited   *)
(* and the root would each wait for another one of them.                   *)
(***************************************************************************)
THEOREM NeverStuck == Spec => []NoDeadlock
<1>1. ASSUME Inv PROVE NoDeadlock
  <2> SUFFICES ASSUME pc = "driver", heap.queue = <<>>, ~heap.should_poll, channel = {}
               PROVE  FALSE
    BY DEF NoDeadlock
  <2> DEFINE W == {t \in Tasks : Awaited(t)}
  <2>1. current # Root
    BY <1>1 DEF Inv, Loop
  <2>2. Waits(Root)
    BY <1>1, <2>1 DEF Inv, Sleepers
  <2>3. \A t \in W : Waits(t)
    BY <1>1, AwaitedWaits
  <2>4. \A f \in W \union {Root} : \E t \in W : Owner[t] = f
    BY <2>2, <2>3 DEF Waits, Children
  <2> HIDE DEF W
  <2>5. W \in SUBSET Tasks
    BY DEF W
  <2> QED  BY <2>4, <2>5, Childless
<1> QED  BY Invariance, <1>1, PTL

(***************************************************************************)
(* NothingLeft: when the futures only await, run returns with an empty     *)
(* queue and every task that was spawned freed.  The tasks whose handle is *)
(* still held would include one whose owner was dropped and kept it.       *)
(***************************************************************************)
THEOREM AllFreed ==
  ASSUME Client \subseteq {"yield_forever"}
  PROVE  Spec => []NothingLeft
<1>1. ASSUME Inv PROVE NothingLeft
  <2> SUFFICES ASSUME pc = "returned"
               PROVE  /\ heap.queue = <<>>
                      /\ \A t \in Tasks : handle[t] = "unspawned" \/ t \in heap.freed
    BY DEF NothingLeft
  <2>1. /\ Typed /\ Loop /\ Family /\ EachTask /\ Bereft /\ OnlyAwaits /\ heap \in Heaps
        /\ current = None /\ \A t \in Tasks : fault[t] = "none"
    BY <1>1, TasksType DEF Inv, Typed, Loop, Panicked, Futures
  <2>2. ASSUME NEW t \in Tasks
        PROVE  P!Tended(View(t))
    BY <2>1, TendedTask DEF Ready
  <2>3. ASSUME NEW t \in Tasks, handle[t] = "dropped"
        PROVE  t \in heap.freed /\ drops[t] > 0 /\ Times(heap.queue, t) = 0
    <3> DEFINE v == View(t)
    <3>1. /\ P!Tended(v) /\ v.handle = "dropped" /\ v.drops = drops[t]
          /\ v.memory = (IF t \in heap.freed THEN "freed" ELSE "live")
          /\ v.runnables = Times(heap.queue, t)
      BY <2>1, <2>2, <2>3, ViewFields
    <3> HIDE DEF v
    <3>2. v.memory = "freed" /\ v.drops = 1 /\ v.runnables = 0
      BY <3>1 DEF P!Tended, P!HandleLast, P!DropsOnce, P!ClosedRests
    <3> QED  BY <3>1, <3>2
  <2>4. ASSUME NEW t \in Tasks, handle[t] = "unspawned"
        PROVE  Times(heap.queue, t) = 0
    BY <2>1, <2>4, ViewFields DEF Family, P!NewTask
  <2>5. \A t \in Tasks : handle[t] # "held"
    <3> DEFINE S == {t \in Tasks : handle[t] = "held"}
    <3>1. SUFFICES ASSUME S # {} PROVE FALSE
      OBVIOUS
    <3>2. PICK t \in S : Owner[t] \notin S
      BY <2>1, <3>1 DEF Family
    <3>3. Owner[t] # Root
      BY <2>1, <3>2 DEF Bereft, Children
    <3>4. Owner[t] \in Tasks /\ handle[Owner[t]] = "dropped"
      BY <2>1, <3>2, <3>3, OwnerType DEF Futures, Family, Typed
    <3>5. drops[Owner[t]] > 0 /\ current # Owner[t]
      BY <2>1, <2>3, <3>4, TasksType DEF Futures
    <3> QED  BY <2>1, <3>2, <3>4, <3>5 DEF Bereft, Children
  <2>6. \A t \in Tasks : handle[t] \in {"unspawned", "dropped"}
    BY <2>1, <2>5 DEF Typed
  <2>7. heap.queue = <<>>
    <3>1. heap.queue \in Seq(Tasks) /\ \A t \in Tasks : Times(heap.queue, t) = 0
      BY <2>1, <2>3, <2>4, <2>6, HeapFields
    <3> QED  BY <3>1, NobodyQueued
  <2> QED  BY <2>3, <2>6, <2>7
<1> QED  BY Invariance, <1>1, PTL

-----------------------------------------------------------------------------
(* The tasks of the executor are tasks of Task. *)

(* The steps of a task are the same in the two instances. *)
LEMMA SameSteps == \A v, w : P!Step(v, w) <=> Steps!Step(v, w)
<1> USE DEF P!RUNNING, P!COMPLETED, P!CLOSED, P!SCHEDULED, P!NEED_START, Steps!RUNNING,
        Steps!COMPLETED, Steps!CLOSED, Steps!SCHEDULED, Steps!NEED_START, P!is_running,
        Steps!is_running, P!is_completed, Steps!is_completed, P!is_closed, Steps!is_closed,
        P!is_scheduled, Steps!is_scheduled, P!need_start, Steps!need_start, P!incr_ref,
        Steps!incr_ref, P!decr_ref, Steps!decr_ref, P!Set, Steps!Set, P!Unset, Steps!Unset,
        P!set_state, Steps!set_state, P!Then, Steps!Then, P!Assert, Steps!Assert,
        P!Panics, Steps!Panics, P!schedule, Steps!schedule, P!Push, Steps!Push,
        P!drop_task_ref, Steps!drop_task_ref, P!PanicOr, Steps!PanicOr,
        P!WakerInReach, Steps!WakerInReach, P!do_wake, Steps!do_wake,
        P!INITIAL_STATE, Steps!INITIAL_STATE
<1> SUFFICES ASSUME NEW v, NEW w PROVE P!Step(v, w) <=> Steps!Step(v, w)
  OBVIOUS
<1>1. P!PollHandle(v, w) <=> Steps!PollHandle(v, w)
  BY DEF P!PollHandle, Steps!PollHandle, P!poll_join_handle, Steps!poll_join_handle
<1>2. P!Cancel(v, w) <=> Steps!Cancel(v, w)
  BY DEF P!Cancel, Steps!Cancel, P!transition_to_closed, Steps!transition_to_closed
<1>3. P!DropHandle(v, w) <=> Steps!DropHandle(v, w)
  BY ZenonT(60) DEF P!DropHandle, Steps!DropHandle, P!drop_join_handle, Steps!drop_join_handle
<1>4. P!CloneWaker(v, w) <=> Steps!CloneWaker(v, w)
  BY DEF P!CloneWaker, Steps!CloneWaker
<1>5. P!WakeByRef(v, w) <=> Steps!WakeByRef(v, w)
  BY DEF P!WakeByRef, Steps!WakeByRef, P!transition_to_scheduled, Steps!transition_to_scheduled
<1>6. P!WakeByVal(v, w) <=> Steps!WakeByVal(v, w)
  BY DEF P!WakeByVal, Steps!WakeByVal, P!transition_to_scheduled, Steps!transition_to_scheduled,
     P!drop_waker, Steps!drop_waker
<1>7. P!DropWaker(v, w) <=> Steps!DropWaker(v, w)
  BY DEF P!DropWaker, Steps!DropWaker, P!drop_waker, Steps!drop_waker
<1>8. P!Run(v, w) <=> Steps!Run(v, w)
  BY DEF P!Run, Steps!Run, P!transition_to_running, Steps!transition_to_running
<1>9. P!PollReady(v, w) <=> Steps!PollReady(v, w)
  BY DEF P!PollReady, Steps!PollReady
<1>10. P!FinishReady(v, w) <=> Steps!FinishReady(v, w)
  BY DEF P!FinishReady, Steps!FinishReady, P!transition_to_completed,
     Steps!transition_to_completed
<1>11. P!PollPending(v, w) <=> Steps!PollPending(v, w)
  BY DEF P!PollPending, Steps!PollPending, P!transition_to_idle, Steps!transition_to_idle
<1>12. P!PollPanic(v, w) <=> Steps!PollPanic(v, w)
  BY DEF P!PollPanic, Steps!PollPanic, P!set_closed, Steps!set_closed
<1>13. P!FinishDrop(v, w) <=> Steps!FinishDrop(v, w)
  BY DEF P!FinishDrop, Steps!FinishDrop
<1>14. P!Shutdown(v, w) <=> Steps!Shutdown(v, w)
  BY DEF P!Shutdown, Steps!Shutdown
<1>15. P!DiscardTask(v, w) <=> Steps!DiscardTask(v, w)
  BY DEF P!DiscardTask, Steps!DiscardTask, P!drop_task, Steps!drop_task
<1>16. P!FinishDiscard(v, w) <=> Steps!FinishDiscard(v, w)
  BY DEF P!FinishDiscard, Steps!FinishDiscard, P!drop_task, Steps!drop_task
<1> QED
  BY <1>1, <1>2, <1>3, <1>4, <1>5, <1>6, <1>7, <1>8, <1>9, <1>10, <1>11, <1>12, <1>13, <1>14,
     <1>15, <1>16 DEF P!Step, Steps!Step

(***************************************************************************)
(* TasksAreTasks: each step of the executor is, for each task, a step that *)
(* Task allows or none at all.  So the queue, the awaiters that are tasks  *)
(* themselves and the futures that drop handles in F::drop are among the   *)
(* clients for which Task was checked and proved.                          *)
(***************************************************************************)
THEOREM Implements == Spec => TasksAreTasks
<1>1. Init => \A t \in Tasks : View(t) = Steps!NewTask
  <2>1. P!NewTask = Steps!NewTask
    BY DEF P!NewTask, Steps!NewTask, P!INITIAL_STATE, Steps!INITIAL_STATE, P!NEED_START,
       Steps!NEED_START
  <2> QED  BY <2>1, InitView
<1>2. Inv /\ [Next]_vars => [\A t \in Tasks : TaskStep(t)]_vars
  <2> SUFFICES ASSUME Inv, Next, NEW t \in Tasks PROVE TaskStep(t)
    OBVIOUS
  <2>1. View(t)' = View(t) \/ P!Step(View(t), View(t)')
    BY NextMoves DEF Moved
  <2> DEFINE v == View(t)
             w == View(t)'
  <2>2. w = v \/ Steps!Step(v, w)
    <3> HIDE DEF v, w
    <3>1. w = v \/ P!Step(v, w)
      BY <2>1 DEF v, w
    <3> QED  BY <3>1, SameSteps
  <2> QED  BY <2>2 DEF TaskStep
<1> QED  BY Invariance, <1>1, <1>2, PTL DEF Spec, TasksAreTasks

-----------------------------------------------------------------------------
(* What was proved of one task holds of all tasks of the executor. *)

(***************************************************************************)
(* A task is freed when it is in nobody's hands: not in the queue, not an  *)
(* awaiter of another task, not running, its handle dropped.  No poll of a *)
(* future that was dropped, no output read twice or freed unread, and no   *)
(* task that was not cancelled queued twice or while it runs.              *)
(***************************************************************************)
TasksSafe ==
  \A t \in Tasks :
    /\ t \in heap.freed =>
         Queued(t) = 0 /\ Wakers(t) = 0 /\ current # t /\ handle[t] = "dropped"
    /\ current = t /\ phase = "polling" => drops[t] = 0
    /\ output[t] = "stored" <=> is_completed(heap.state[t]) /\ ~is_closed(heap.state[t])
    /\ output[t] = "stored" => t \notin heap.freed
    /\ t \notin cancelled => Queued(t) + (IF current = t THEN 1 ELSE 0) <= 1

THEOREM AllTasksSafe == Spec => []TasksSafe
<1>1. ASSUME Inv, NEW t \in Tasks
      PROVE  /\ t \in heap.freed =>
                  Queued(t) = 0 /\ Wakers(t) = 0 /\ current # t /\ handle[t] = "dropped"
             /\ current = t /\ phase = "polling" => drops[t] = 0
             /\ output[t] = "stored" <=> is_completed(heap.state[t]) /\ ~is_closed(heap.state[t])
             /\ output[t] = "stored" => t \notin heap.freed
             /\ t \notin cancelled => Queued(t) + (IF current = t THEN 1 ELSE 0) <= 1
  <2> DEFINE v == View(t)
  <2>1. /\ heap \in Heaps /\ Loop /\ v \in P!TaskRecord /\ P!AInv(v) /\ t # None
        /\ handle \in [Tasks -> {"unspawned", "held", "dropped"}]
    BY <1>1, TasksType DEF Inv, Typed, EachTask, Futures
  <2>2. /\ v.memory = (IF t \in heap.freed THEN "freed" ELSE "live")
        /\ v.runnables = Times(heap.queue, t) /\ v.drops = drops[t] /\ v.output = output[t]
        /\ v.phase = (IF current = t THEN phase ELSE "idle") /\ v.state = heap.state[t]
        /\ v.wakers = Times(heap.awaiter, t) + (IF t \in channel THEN 1 ELSE 0)
        /\ v.handle = (IF handle[t] = "dropped" THEN "dropped" ELSE "held")
        /\ v.cancelled = (t \in cancelled)
    BY <2>1, ViewFields
  <2>3. Queued(t) = v.runnables /\ Wakers(t) = v.wakers
    BY <2>1, <2>2, HeapFields, CountsAreTimes
  <2> HIDE DEF v
  <2>4. current = t => phase # "idle"
    BY <2>1 DEF Loop
  <2>5. v.wakers \in Nat /\ v.runnables \in Nat /\ P!IInv(v)
    BY <2>1, Constants, P!Counted DEF P!Counts, P!AInv
  <2>6. /\ v.memory = "freed" => P!Holders(v) = 0
        /\ v.phase = "polling" => v.drops = 0
        /\ v.output = "stored" <=> P!is_completed(v.state) /\ ~P!is_closed(v.state)
        /\ v.memory = "freed" => v.output # "stored"
        /\ ~v.cancelled => v.runnables + (IF v.phase = "idle" THEN 0 ELSE 1) <= 1
    BY <2>1, <2>5 DEF P!IInv, P!Refs, P!Future, P!Owns, P!AInv, P!Once, P!Alone
  <2>7. P!Holders(v) = 0 =>
          v.wakers = 0 /\ v.runnables = 0 /\ v.handle # "held" /\ v.phase = "idle"
    BY <2>5 DEF P!Holders
  <2>8. /\ t \in heap.freed => v.memory = "freed"
        /\ v.phase = "idle" <=> current # t
        /\ v.handle # "held" => handle[t] = "dropped"
    BY <2>2, <2>4
  <2>9. t \notin cancelled => Queued(t) + (IF current = t THEN 1 ELSE 0) <= 1
    BY <2>2, <2>3, <2>6, <2>8
  <2>10. current = t /\ phase = "polling" => drops[t] = 0
    BY <2>2, <2>6
  <2>11. /\ output[t] = "stored" <=> is_completed(heap.state[t]) /\ ~is_closed(heap.state[t])
         /\ output[t] = "stored" => t \notin heap.freed
    BY <2>2, <2>6, <2>8, SameWords
  <2> QED  BY <2>3, <2>6, <2>7, <2>8, <2>9, <2>10, <2>11
<1>2. Inv => TasksSafe
  BY <1>1 DEF TasksSafe
<1> QED  BY Invariance, <1>2, PTL

(***************************************************************************)
(* When futures only await, and may yield, no call on any of their tasks   *)
(* panics, in either build: the last waker of a task goes before its       *)
(* handle, because the futures it awaits were dropped with its own.        *)
(***************************************************************************)
THEOREM AwaitersNeverPanic ==
  ASSUME Client \subseteq {"yield_forever"}
  PROVE  Spec => [](\A t \in Tasks : fault[t] = "none")
<1>1. ASSUME Inv, NEW t \in Tasks
      PROVE  fault[t] = "none"
  <2> SUFFICES ASSUME fault[t] # "none" PROVE FALSE
    OBVIOUS
  <2> DEFINE v == View(t)
  <2>1. /\ heap \in Heaps /\ Loop /\ Bereft /\ Family /\ OnlyAwaits /\ v \in P!TaskRecord
        /\ P!AInv(v) /\ t # None /\ phase \in {"idle", "polling", "completing", "dropping"}
    BY <1>1, TasksType DEF Inv, Typed, EachTask, Futures
  <2>2. /\ v.fault # "none" /\ ~v.cancelled /\ v.executor = "up" /\ v.drops = drops[t]
        /\ v.handle = "dropped" => v.result # "pending"
        /\ v.wakers = Times(heap.awaiter, t) /\ v.phase = (IF current = t THEN phase ELSE "idle")
    <3>1. /\ v.fault = fault[t] /\ v.cancelled = (t \in cancelled) /\ v.result = result[t]
          /\ v.handle = (IF handle[t] = "dropped" THEN "dropped" ELSE "held")
          /\ v.wakers = Times(heap.awaiter, t) + (IF t \in channel THEN 1 ELSE 0)
          /\ v.executor = "up" /\ v.drops = drops[t]
          /\ v.phase = (IF current = t THEN phase ELSE "idle")
      BY <2>1, ViewFields
    <3>2. /\ cancelled = {} /\ channel = {}
          /\ handle[t] = "dropped" => result[t] # "pending"
      BY <2>1 DEF OnlyAwaits
    <3>3. Times(heap.awaiter, t) \in Nat
      BY <2>1, HeapFields, TimesHeld
    <3> HIDE DEF v
    <3>4. (t \in cancelled) = FALSE /\ t \notin channel
      BY <3>2
    <3>5. ~v.cancelled
      BY <3>1, <3>4
    <3>6. v.wakers = Times(heap.awaiter, t)
      BY <3>1, <3>3, <3>4
    <3>7. v.handle = "dropped" => v.result # "pending"
      BY <3>1, <3>2
    <3>8. v.fault # "none"
      BY <3>1
    <3> QED  BY <3>1, <3>5, <3>6, <3>7, <3>8
  <2> HIDE DEF v
  <2>3. v.handle = "dropped" /\ v.wakers > 0
    <3>1. "panic" \notin TaskClient
      BY Constants
    <3> QED  BY <2>1, <2>2, <3>1 DEF P!AInv, P!Awaits, P!Awaited, P!Harmless
  <2>4. drops[t] > 0
    <3>1. v.drops # 0 /\ v.drops \in Nat
      BY <2>1, <2>2, <2>3 DEF P!AInv, P!Answered, P!TaskRecord
    <3> QED  BY <2>2, <3>1
  <2>5. PICK u \in Tasks : heap.awaiter[u] = t
    BY <2>1, <2>2, <2>3, HeapFields, TimesHeld
  <2>6. Awaited(u) /\ u \in Children(t)
    BY <2>1, <2>5 DEF OnlyAwaits, Family, Children
  <2>7. current = t
    BY <2>1, <2>4, <2>6 DEF Bereft, Awaited
  <2>8. phase # "polling"
    <3>1. v.phase = "polling" => v.drops = 0
      BY <2>1 DEF P!AInv, P!IInv, P!Future
    <3> QED  BY <2>2, <2>4, <2>7, <3>1
  <2>9. phase = "completing"
    BY <2>1, <2>7, <2>8 DEF OnlyAwaits, Loop
  <2> QED  BY <2>1, <2>6, <2>7, <2>9 DEF OnlyAwaits, Awaited
<1>2. Inv => \A t \in Tasks : fault[t] = "none"
  BY <1>1
<1> QED  BY Invariance, <1>2, PTL

=============================================================================
