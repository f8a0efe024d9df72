-------------------------- MODULE UringDriverProofs --------------------------
(***************************************************************************)
(* Proofs about UringDriver, for any number of operations, wakers and      *)
(* timeouts, any capacity of the submission queue and both tests of tick.  *)
(***************************************************************************)
EXTENDS UringDriver, FiniteSetTheorems, SequenceTheorems, WellFoundedInduction, TLAPS

-----------------------------------------------------------------------------
(* Counting in queues *)

Places(q, u) == {i \in DOMAIN q : q[i] = u}

LEMMA OccursPlaces ==
  \A q, u : Occurs(q, u) = Cardinality(Places(q, u))
BY DEF Occurs, Places

(* The places of a queue are finitely many. *)
LEMMA PlacesFinite ==
  ASSUME NEW S, NEW q \in Seq(S), NEW T \in SUBSET (1..Len(q))
  PROVE  IsFiniteSet(T) /\ Cardinality(T) \in Nat
<1>1. Len(q) \in Nat  BY LenProperties
<1>2. IsFiniteSet(1..Len(q))  BY <1>1, FS_Interval
<1>3. IsFiniteSet(T)  BY <1>2, FS_Subset
<1> QED  BY <1>3, FS_CardinalityType

LEMMA OccursType ==
  ASSUME NEW S, NEW q \in Seq(S), NEW u
  PROVE  Occurs(q, u) \in Nat
<1>1. Places(q, u) \in SUBSET (1..Len(q))  BY LenProperties DEF Places
<1> QED  BY <1>1, PlacesFinite, OccursPlaces

LEMMA OccursEmpty ==
  ASSUME NEW u
  PROVE  Occurs(<<>>, u) = 0
<1>1. {i \in DOMAIN <<>> : <<>>[i] = u} = {}  OBVIOUS
<1> QED  BY <1>1, FS_EmptySet DEF Occurs

LEMMA OccursSingle ==
  ASSUME NEW v, NEW u
  PROVE  Occurs(<<v>>, u) = IF v = u THEN 1 ELSE 0
<1>1. CASE v = u
  <2>1. Places(<<v>>, u) = {1}  BY <1>1 DEF Places
  <2> QED  BY <1>1, <2>1, FS_Singleton, OccursPlaces
<1>2. CASE v # u
  <2>1. Places(<<v>>, u) = {}  BY <1>2 DEF Places
  <2> QED  BY <1>2, <2>1, FS_EmptySet, OccursPlaces
<1> QED  BY <1>1, <1>2

LEMMA OccursSomewhere ==
  ASSUME NEW S, NEW q \in Seq(S), NEW i \in 1..Len(q)
  PROVE  Occurs(q, q[i]) > 0
<1>1. /\ Places(q, q[i]) \in SUBSET (1..Len(q))
      /\ i \in Places(q, q[i])
  BY LenProperties DEF Places
<1>2. IsFiniteSet(Places(q, q[i])) /\ Cardinality(Places(q, q[i])) \in Nat
  BY <1>1, PlacesFinite
<1>3. Cardinality(Places(q, q[i])) # 0  BY <1>1, <1>2, FS_EmptySet
<1> QED  BY <1>2, <1>3, OccursPlaces

LEMMA OccursAppend ==
  ASSUME NEW S, NEW q \in Seq(S), NEW v \in S, NEW u
  PROVE  Occurs(Append(q, v), u) = Occurs(q, u) + (IF v = u THEN 1 ELSE 0)
<1> DEFINE r == Append(q, v)
           n == Len(q) + 1
<1>1. /\ r \in Seq(S) /\ Len(r) = n /\ Len(q) \in Nat
      /\ \A i \in 1..Len(q) : r[i] = q[i]
      /\ r[n] = v
      /\ DOMAIN q = 1..Len(q) /\ DOMAIN r = 1..n
  BY AppendProperties, LenProperties
<1> HIDE DEF r
<1>2. Places(q, u) \in SUBSET (1..Len(q)) /\ n \notin Places(q, u)
  BY <1>1 DEF Places
<1>3. IsFiniteSet(Places(q, u)) /\ Cardinality(Places(q, u)) \in Nat
  BY <1>2, PlacesFinite
<1>4. CASE v = u
  <2>1. Places(r, u) = Places(q, u) \union {n}  BY <1>1, <1>4 DEF Places
  <2> QED  BY <1>2, <1>3, <1>4, <2>1, FS_AddElement, OccursPlaces DEF r
<1>5. CASE v # u
  <2>1. Places(r, u) = Places(q, u)  BY <1>1, <1>5 DEF Places
  <2> QED  BY <1>3, <1>5, <2>1, OccursPlaces DEF r
<1> QED  BY <1>4, <1>5

(* A queue that is cut in two has lost nothing. *)
LEMMA OccursSplit ==
  ASSUME NEW S, NEW q \in Seq(S), NEW n \in 0..Len(q), NEW u
  PROVE  /\ SubSeq(q, 1, n) \in Seq(S) /\ SubSeq(q, n + 1, Len(q)) \in Seq(S)
         /\ Len(SubSeq(q, n + 1, Len(q))) = Len(q) - n
         /\ Occurs(SubSeq(q, 1, n), u) + Occurs(SubSeq(q, n + 1, Len(q)), u) = Occurs(q, u)
<1> DEFINE a == SubSeq(q, 1, n)
           b == SubSeq(q, n + 1, Len(q))
           A == Places(a, u)
           B == Places(b, u)
           C == {i \in 1..Len(q) : i > n /\ q[i] = u}
<1>1. Len(q) \in Nat /\ n \in Nat /\ n <= Len(q) /\ DOMAIN q = 1..Len(q)
      /\ \A i \in 1..Len(q) : q[i] \in S
  BY LenProperties, ElementOfSeq
<1>2. /\ a \in Seq(S) /\ Len(a) = n /\ DOMAIN a = 1..n
      /\ \A i \in 1..n : a[i] = q[i]
  <2>1. \A i \in 1..n : q[i] \in S  BY <1>1
  <2> QED  BY <1>1, <2>1, SubSeqProperties, LenProperties
<1>3. /\ b \in Seq(S) /\ Len(b) = Len(q) - n /\ DOMAIN b = 1..(Len(q) - n)
      /\ \A i \in 1..(Len(q) - n) : b[i] = q[n + i]
  <2>1. \A i \in (n + 1)..Len(q) : q[i] \in S  BY <1>1
  <2>2. /\ b \in Seq(S)
        /\ Len(b) = IF n + 1 <= Len(q) THEN Len(q) - (n + 1) + 1 ELSE 0
        /\ \A i \in 1..(Len(q) - (n + 1) + 1) : b[i] = q[(n + 1) + i - 1]
    BY <1>1, <2>1, SubSeqProperties
  <2> HIDE DEF b
  <2>3. Len(b) = Len(q) - n
    <3>1. Len(b) = IF n + 1 <= Len(q) THEN Len(q) - (n + 1) + 1 ELSE 0  BY <2>2
    <3>2. Len(q) \in Nat /\ n \in Nat /\ n <= Len(q)  BY <1>1
    <3> QED  BY <3>1, <3>2
  <2>4. DOMAIN b = 1..(Len(q) - n)  BY <2>2, <2>3, LenProperties
  <2>5. ASSUME NEW i \in 1..(Len(q) - n) PROVE b[i] = q[n + i]
    <3>1. i \in 1..(Len(q) - (n + 1) + 1) /\ (n + 1) + i - 1 = n + i  BY <1>1
    <3> QED  BY <2>2, <3>1
  <2> QED  BY <2>2, <2>3, <2>4, <2>5
<1> HIDE DEF a, b
<1>4. Places(q, u) = A \union C /\ A \intersect C = {}
  BY <1>1, <1>2 DEF Places
<1>5. IsFiniteSet(A) /\ IsFiniteSet(B) /\ IsFiniteSet(C)
  <2>1. A \in SUBSET (1..Len(a)) /\ B \in SUBSET (1..Len(b)) /\ C \in SUBSET (1..Len(q))
    BY <1>2, <1>3 DEF Places
  <2> QED  BY <1>2, <1>3, <2>1, PlacesFinite
<1>6. Cardinality(C) = Cardinality(B)
  <2> DEFINE f == [i \in B |-> n + i]
  <2>1. f \in [B -> C]
    BY <1>1, <1>3 DEF Places
  <2>2. \A i, j \in B : f[i] = f[j] => i = j
    BY <1>1, <1>3 DEF Places
  <2>3. \A c \in C : \E i \in B : f[i] = c
    <3> SUFFICES ASSUME NEW c \in C PROVE c - n \in B /\ n + (c - n) = c
      OBVIOUS
    <3>1. c - n \in 1..(Len(q) - n) /\ n + (c - n) = c  BY <1>1
    <3> QED  BY <1>3, <3>1 DEF Places
  <2>4. f \in Bijection(B, C)
    BY <2>1, <2>2, <2>3 DEF Bijection, Injection, Surjection, IsInjective
  <2> QED  BY <1>5, <2>4, FS_Bijection DEF ExistsBijection
<1>7. Cardinality(Places(q, u)) = Cardinality(A) + Cardinality(C)
  <2>1. Cardinality(A) \in Nat /\ Cardinality(C) \in Nat  BY <1>5, FS_CardinalityType
  <2>2. Cardinality(A \intersect C) = 0  BY <1>4, FS_EmptySet
  <2>3. Cardinality(A \union C) = Cardinality(A) + Cardinality(C) - Cardinality(A \intersect C)
    BY <1>5, FS_Union
  <2> HIDE DEF A, C
  <2> QED  BY <1>4, <2>1, <2>2, <2>3
<1> QED  BY <1>2, <1>3, <1>6, <1>7, OccursPlaces DEF a, b

LEMMA OccursTail ==
  ASSUME NEW S, NEW q \in Seq(S), q # <<>>, NEW u
  PROVE  /\ Head(q) \in S /\ Tail(q) \in Seq(S) /\ Len(Tail(q)) = Len(q) - 1
         /\ Occurs(Tail(q), u) = Occurs(q, u) - (IF Head(q) = u THEN 1 ELSE 0)
<1>1. Head(q) \in S /\ Tail(q) \in Seq(S) /\ Len(Tail(q)) = Len(q) - 1
      /\ Tail(q) = SubSeq(q, 2, Len(q)) /\ Len(q) \in Nat /\ Len(q) # 0
  BY HeadTailProperties, TailIsSubSeq, EmptySeq, LenProperties
<1>2. 1 \in 0..Len(q) /\ 1 + 1 = 2  BY <1>1
<1>3. /\ SubSeq(q, 1, 1) \in Seq(S)
      /\ Occurs(SubSeq(q, 1, 1), u) + Occurs(SubSeq(q, 1 + 1, Len(q)), u) = Occurs(q, u)
  BY <1>2, OccursSplit
<1>4. SubSeq(q, 1, 1) = <<Head(q)>>
  <2>1. q[1] \in S /\ Head(q) = q[1]  BY <1>1, LenProperties, ElementOfSeq
  <2>2. /\ Len(SubSeq(q, 1, 1)) = 1
        /\ \A i \in 1..1 : SubSeq(q, 1, 1)[i] = q[i]
    <3>1. \A i \in 1..1 : q[i] \in S  BY <2>1
    <3>2. /\ Len(SubSeq(q, 1, 1)) = 1 - 1 + 1
          /\ \A i \in 1..(1 - 1 + 1) : SubSeq(q, 1, 1)[i] = q[1 + i - 1]
      BY <3>1, SubSeqProperties
    <3> QED  BY <3>2
  <2>3. SubSeq(q, 1, 1) \in Seq(S) /\ <<Head(q)>> \in Seq(S)  BY <1>1, <1>3
  <2> DEFINE a == SubSeq(q, 1, 1)
             b == <<Head(q)>>
  <2>4. a \in Seq(S) /\ b \in Seq(S) /\ Len(a) = 1 /\ Len(b) = 1 /\ b[1] = Head(q)
        /\ a[1] = Head(q)
    BY <2>1, <2>2, <2>3
  <2> HIDE DEF a, b
  <2>5. \A i \in 1..Len(a) : a[i] = b[i]  BY <2>4
  <2>6. a = b  BY <2>4, <2>5, SeqEqual
  <2> QED  BY <2>6 DEF a, b
<1>5. Occurs(SubSeq(q, 1, 1), u) = IF Head(q) = u THEN 1 ELSE 0
  <2>1. Occurs(<<Head(q)>>, u) = IF Head(q) = u THEN 1 ELSE 0  BY OccursSingle
  <2> QED  BY <1>4, <2>1
<1>6. Occurs(Tail(q), u) \in Nat /\ Occurs(q, u) \in Nat  BY <1>1, OccursType
<1>7. Occurs(Tail(q), u) = Occurs(q, u) - (IF Head(q) = u THEN 1 ELSE 0)
  <2>1. Tail(q) = SubSeq(q, 1 + 1, Len(q))  BY <1>1, <1>2
  <2>2. (IF Head(q) = u THEN 1 ELSE 0) + Occurs(Tail(q), u) = Occurs(q, u)
    BY <1>3, <1>5, <2>1
  <2> QED  BY <1>6, <2>2
<1> QED  BY <1>1, <1>7

-----------------------------------------------------------------------------
(* The inductive invariant *)

(* A future that can still be polled has a slot, one that cannot has none. *)
Slots ==
  \A k \in OpsKey :
    /\ op[k] = "held" => slot[k].tag # "Vacant"
    /\ op[k] \in {"new", "resolved"} => slot[k].tag = "Vacant"

(* The waker of the last poll is in the slot until it is woken. *)
LastWaker ==
  \A k \in OpsKey :
    /\ op[k] = "new" \/ slot[k].tag = "Submitted" => polled[k] = NoWaker /\ notified[k] = NoWaker
    /\ slot[k].tag = "Waiting" => slot[k].waker = polled[k]
    /\ slot[k].tag = "Completed" => notified[k] = polled[k]

(* What the steps of a call have made sure of when the next one is due *)
Calls ==
  /\ pc = "submit" => caller \in {"op", "timeout", "driver"}
  /\ pc \in {"push_op", "push_timeout"} => Len(sq) < SqCapacity
  /\ pc = "push_op" \/ caller = "op" => \E k \in OpsKey : op[k] = "new"
  /\ pc = "enter" => Occurs(sq, TIMEOUT_USERDATA) > 0

(* With the test of tick as it is written a timeout is taken for a key. *)
Faults ==
  \/ fault = "none"
  \/ fault = "ops_left" /\ \E k \in OpsKey : op[k] = "dropped"
  \/ fault = "invalid_key" /\ ReversedTest

IInv ==
  /\ TypeOK /\ OneCompletion /\ WaitIsTimed
  /\ Slots /\ LastWaker /\ Calls /\ Faults

-----------------------------------------------------------------------------
(* What the steps have in common *)

LEMMA Keys ==
  /\ OpsKey \subseteq UserData /\ TIMEOUT_USERDATA \in UserData
  /\ TIMEOUT_USERDATA \notin OpsKey
  /\ \A u \in UserData : u \notin OpsKey => u = TIMEOUT_USERDATA
  /\ \A u \in UserData : ~ReversedTest /\ ~passed_over(u) => u \in OpsKey
BY NumOpsType DEF OpsKey, UserData, TIMEOUT_USERDATA, MIN_REVERSED_USERDATA, passed_over

LEMMA Tags ==
  /\ \A s \in Lifecycle :
       /\ s.tag \in {"Vacant", "Submitted", "Completed", "Waiting"}
       /\ s = Vacant <=> s.tag = "Vacant"
       /\ s = Submitted <=> s.tag = "Submitted"
       /\ s = Completed <=> s.tag = "Completed"
  /\ Vacant \in Lifecycle /\ Submitted \in Lifecycle /\ Completed \in Lifecycle
  /\ Vacant.tag = "Vacant" /\ Submitted.tag = "Submitted" /\ Completed.tag = "Completed"
  /\ \A w \in Wakers : /\ Waiting(w) \in Lifecycle
                       /\ Waiting(w).tag = "Waiting" /\ Waiting(w).waker = w
BY DEF Lifecycle, Vacant, Submitted, Completed, Waiting

(* The way of an operation: how many places hold it, and whether it counts. *)
Way(k) == Occurs(sq, k) + kernel[k] + Occurs(cq, k) + (IF k \in skipped THEN 1 ELSE 0)

Awaited(k) == IF slot[k].tag \in {"Submitted", "Waiting"} THEN 1 ELSE 0

LEMMA OneCompletionWay == OneCompletion <=> \A k \in OpsKey : Way(k) = Awaited(k)
BY DEF OneCompletion, Way, Awaited

LEMMA Counts ==
  ASSUME TypeOK, NEW u \in UserData
  PROVE  Occurs(sq, u) \in Nat /\ kernel[u] \in Nat /\ Occurs(cq, u) \in Nat
BY OccursType DEF TypeOK

(* A step that moves nothing and touches no operation keeps their invariants. *)
LEMMA Frame ==
  ASSUME OneCompletion, Slots, LastWaker, UNCHANGED <<opVars, sq, kernel, cq, skipped>>
  PROVE  OneCompletion' /\ Slots' /\ LastWaker'
<1>1. OneCompletion'  BY DEF OneCompletion, opVars
<1>2. Slots'  BY DEF Slots, opVars
<1>3. LastWaker'  BY DEF LastWaker, opVars
<1> QED  BY <1>1, <1>2, <1>3

-----------------------------------------------------------------------------
(* The steps *)

(* Calls that begin, end or go on without touching rings and operations *)
LEMMA ControlSteps ==
  ASSUME IInv,
         TickSync \/ TickEnds \/ SubmitBusy \/ SubmitErr \/ SubmitWith \/ DriverSubmit
           \/ Park \/ ParkTimeout \/ WaitEnds \/ WaitErr
  PROVE  IInv'
<1>1. UNCHANGED <<opVars, sq, kernel, cq, skipped, fault>>
  BY DEF TickSync, TickEnds, SubmitBusy, SubmitErr, SubmitWith, DriverSubmit, Park, ParkTimeout,
     WaitEnds, WaitErr, opVars, ringVars
<1>2. TypeOK'
  <2>1. visible' \in 0..Len(cq)
    <3>1. cq \in Seq(UserData) /\ visible \in 0..Len(cq) /\ Len(cq) \in 0..Len(cq)
      BY LenProperties DEF IInv, TypeOK
    <3> QED
      BY <3>1 DEF TickSync, TickEnds, SubmitBusy, SubmitErr, SubmitWith, DriverSubmit, Park,
         ParkTimeout, WaitEnds, WaitErr, ringVars
  <2>2. timeouts' \in 0..MaxTimeouts
    BY MaxTimeoutsType DEF IInv, TypeOK, TickSync, TickEnds, SubmitBusy, SubmitErr, SubmitWith,
       DriverSubmit, Park, ParkTimeout, WaitEnds, WaitErr, ringVars, Idle
  <2>3. /\ pc' \in {"idle", "submit", "push_op", "push_timeout", "tick", "reap"}
        /\ caller' \in {"none", "op", "driver", "timeout", "park"}
    BY DEF IInv, TypeOK, TickSync, TickEnds, SubmitBusy, SubmitErr, SubmitWith, DriverSubmit,
       Park, ParkTimeout, WaitEnds, WaitErr, Goto, Resume
  <2> QED  BY <1>1, <2>1, <2>2, <2>3 DEF IInv, TypeOK, opVars
<1>3. OneCompletion' /\ Slots' /\ LastWaker'
  BY <1>1, Frame DEF IInv
<1>4. WaitIsTimed'
  BY <1>1 DEF IInv, WaitIsTimed, TickSync, TickEnds, SubmitBusy, SubmitErr, SubmitWith,
     DriverSubmit, Park, ParkTimeout, WaitEnds, WaitErr, Goto, Resume
<1>5. Calls'
  BY <1>1, SqCapacityType, LenProperties DEF IInv, TypeOK, Calls, TickSync, TickEnds, SubmitBusy,
     SubmitErr, SubmitWith, DriverSubmit, Park, ParkTimeout, WaitEnds, WaitErr, Goto, Resume,
     Idle, sq_full, opVars, ringVars
<1>6. Faults'  BY <1>1 DEF IInv, Faults, opVars
<1> QED  BY <1>2, <1>3, <1>4, <1>5, <1>6 DEF IInv

(* The kernel takes entries: the way of every operation goes on. *)
LEMMA TakenKeeps ==
  ASSUME TypeOK, NEW n \in Partly, Taken(n)
  PROVE  /\ sq' \in Seq(UserData) /\ Len(sq') = Len(sq) - n
         /\ Len(sq') < SqCapacity
         /\ kernel' \in [UserData -> Nat]
         /\ \A u \in UserData : Occurs(sq', u) + kernel'[u] = Occurs(sq, u) + kernel[u]
         /\ n = Len(sq) => \A u \in UserData : kernel'[u] = Occurs(sq, u) + kernel[u]
<1>1. sq \in Seq(UserData) /\ Len(sq) \in Nat /\ Len(sq) <= SqCapacity /\ n \in 0..Len(sq)
      /\ (sq # <<>> => n > 0) /\ kernel \in [UserData -> Nat]
  BY LenProperties DEF TypeOK, Partly
<1>2. sq' \in Seq(UserData) /\ Len(sq') = Len(sq) - n  BY <1>1, OccursSplit DEF Taken
<1>3. Len(sq') < SqCapacity
  <2>1. sq = <<>> => Len(sq) = 0  BY <1>1
  <2> QED  BY <1>1, <1>2, <2>1, SqCapacityType
<1>4. ASSUME NEW u \in UserData
      PROVE  /\ kernel'[u] \in Nat
             /\ Occurs(sq', u) + kernel'[u] = Occurs(sq, u) + kernel[u]
             /\ n = Len(sq) => kernel'[u] = Occurs(sq, u) + kernel[u]
  <2> DEFINE a == SubSeq(sq, 1, n)
  <2>1. a \in Seq(UserData) /\ Occurs(a, u) + Occurs(sq', u) = Occurs(sq, u)
    BY <1>1, OccursSplit DEF Taken
  <2>2. Occurs(a, u) \in Nat /\ Occurs(sq', u) \in Nat /\ Occurs(sq, u) \in Nat
        /\ kernel[u] \in Nat
    BY <1>1, <1>2, <2>1, OccursType
  <2>3. kernel'[u] = kernel[u] + Occurs(a, u)  BY DEF Taken
  <2>4. n = Len(sq) => Occurs(sq', u) = 0
    <3> SUFFICES ASSUME n = Len(sq) PROVE Occurs(sq', u) = 0  OBVIOUS
    <3>1. sq' = <<>>  BY <1>1, <1>2, EmptySeq
    <3> QED  BY <3>1, OccursEmpty
  <2> HIDE DEF a
  <2> QED  BY <2>1, <2>2, <2>3, <2>4
<1>5. kernel' \in [UserData -> Nat]  BY <1>4 DEF Taken
<1> QED  BY <1>2, <1>3, <1>4, <1>5

LEMMA TakeSteps ==
  ASSUME IInv, SubmitOk \/ EnterKernel
  PROVE  IInv'
<1>1. UNCHANGED <<opVars, cq, visible, timeouts, skipped, fault>>
  BY DEF SubmitOk, EnterKernel
<1>2. PICK n \in Partly : Taken(n) /\ (EnterKernel /\ pc' = "wait" => n = Len(sq))
  <2>1. CASE SubmitOk
    <3>1. pc # "enter"  BY <2>1 DEF SubmitOk
    <3> QED  BY <2>1, <3>1 DEF SubmitOk, EnterKernel
  <2>2. CASE EnterKernel
    BY <2>2 DEF EnterKernel, Goto
  <2> QED  BY <2>1, <2>2
<1>3. /\ sq' \in Seq(UserData) /\ Len(sq') < SqCapacity
      /\ kernel' \in [UserData -> Nat]
      /\ \A u \in UserData : Occurs(sq', u) + kernel'[u] = Occurs(sq, u) + kernel[u]
      /\ n = Len(sq) => \A u \in UserData : kernel'[u] = Occurs(sq, u) + kernel[u]
  BY <1>2, TakenKeeps DEF IInv
<1>4. TypeOK'
  <2>1. Len(sq') <= SqCapacity  BY <1>3, LenProperties, SqCapacityType
  <2>2. /\ pc' \in {"wait", "push_op", "push_timeout", "tick"}
        /\ caller' \in {"none", "timeout"}
    BY DEF IInv, Calls, SubmitOk, EnterKernel, Resume, Goto
  <2> QED  BY <1>1, <1>3, <2>1, <2>2 DEF IInv, TypeOK, opVars
<1>5. OneCompletion'
  <2> SUFFICES ASSUME NEW k \in OpsKey PROVE Way(k)' = Awaited(k)'
    BY DEF OneCompletion, Way, Awaited
  <2>1. Awaited(k)' = Awaited(k)  BY <1>1 DEF Awaited, opVars
  <2>2. Way(k)' = Occurs(sq', k) + kernel'[k] + Occurs(cq, k) + (IF k \in skipped THEN 1 ELSE 0)
    BY <1>1 DEF Way
  <2>3. Occurs(sq', k) + kernel'[k] = Occurs(sq, k) + kernel[k]  BY <1>3, Keys
  <2> QED  BY <2>1, <2>2, <2>3, OneCompletionWay DEF IInv, Way
<1>6. Slots' /\ LastWaker'  BY <1>1 DEF IInv, Slots, LastWaker, opVars
<1>7. WaitIsTimed'
  <2> SUFFICES ASSUME pc' = "wait"
               PROVE  kernel'[TIMEOUT_USERDATA] + Occurs(cq', TIMEOUT_USERDATA) > 0
    BY DEF WaitIsTimed
  <2>1. EnterKernel  BY DEF IInv, Calls, SubmitOk, Resume, Goto
  <2>2. Occurs(sq, TIMEOUT_USERDATA) > 0  BY <2>1 DEF EnterKernel, IInv, Calls
  <2>3. /\ Occurs(sq, TIMEOUT_USERDATA) \in Nat /\ kernel[TIMEOUT_USERDATA] \in Nat
        /\ Occurs(cq, TIMEOUT_USERDATA) \in Nat
    BY Counts, Keys DEF IInv
  <2>4. kernel'[TIMEOUT_USERDATA] = Occurs(sq, TIMEOUT_USERDATA) + kernel[TIMEOUT_USERDATA]
    BY <1>2, <1>3, <2>1, Keys
  <2>5. cq' = cq  BY <1>1
  <2> QED  BY <2>2, <2>3, <2>4, <2>5
<1>8. Calls'
  BY <1>1, <1>3 DEF IInv, Calls, SubmitOk, EnterKernel, Resume, Goto, opVars
<1>9. Faults'  BY <1>1 DEF IInv, Faults, opVars
<1> QED  BY <1>4, <1>5, <1>6, <1>7, <1>8, <1>9 DEF IInv

(* The kernel completes: what it worked on lies in the completion queue. *)
LEMMA KernelCompleteStep ==
  ASSUME IInv, NEW v \in UserData, KernelComplete(v)
  PROVE  IInv'
<1>1. UNCHANGED <<opVars, sq, visible, timeouts, pc, caller, skipped, fault>>
  BY DEF KernelComplete
<1>2. /\ kernel \in [UserData -> Nat] /\ cq \in Seq(UserData)
      /\ cq' = Append(cq, v) /\ kernel' = [kernel EXCEPT ![v] = @ - 1] /\ kernel[v] > 0
  BY DEF KernelComplete, IInv, TypeOK
<1>3. cq' \in Seq(UserData) /\ Len(cq') = Len(cq) + 1 /\ Len(cq) \in Nat
  BY <1>2, AppendProperties, LenProperties
<1>4. kernel' \in [UserData -> Nat]  BY <1>2
<1>5. ASSUME NEW u \in UserData
      PROVE  kernel'[u] + Occurs(cq', u) = kernel[u] + Occurs(cq, u)
  <2>1. Occurs(cq', u) = Occurs(cq, u) + (IF v = u THEN 1 ELSE 0)  BY <1>2, OccursAppend
  <2>2. kernel'[u] = kernel[u] - (IF v = u THEN 1 ELSE 0)  BY <1>2
  <2>3. Occurs(cq, u) \in Nat /\ kernel[u] \in Nat  BY Counts DEF IInv
  <2> QED  BY <2>1, <2>2, <2>3
<1>6. TypeOK'
  <2>1. visible' \in 0..Len(cq')  BY <1>1, <1>3 DEF IInv, TypeOK
  <2> QED  BY <1>1, <1>3, <1>4, <2>1 DEF IInv, TypeOK, opVars
<1>7. OneCompletion'
  <2> SUFFICES ASSUME NEW k \in OpsKey PROVE Way(k)' = Awaited(k)'
    BY DEF OneCompletion, Way, Awaited
  <2>1. Awaited(k)' = Awaited(k)  BY <1>1 DEF Awaited, opVars
  <2>2. Way(k)' = Occurs(sq, k) + kernel'[k] + Occurs(cq', k) + (IF k \in skipped THEN 1 ELSE 0)
    BY <1>1 DEF Way
  <2>3. kernel'[k] + Occurs(cq', k) = kernel[k] + Occurs(cq, k)  BY <1>5, Keys
  <2>4. /\ Occurs(sq, k) \in Nat /\ kernel[k] \in Nat /\ Occurs(cq, k) \in Nat
        /\ kernel'[k] \in Nat /\ Occurs(cq', k) \in Nat
    BY <1>3, <1>4, Counts, Keys, OccursType DEF IInv
  <2>5. Way(k) = Awaited(k)  BY OneCompletionWay DEF IInv
  <2> QED  BY <2>1, <2>2, <2>3, <2>4, <2>5 DEF Way
<1>8. Slots' /\ LastWaker'  BY <1>1 DEF IInv, Slots, LastWaker, opVars
<1>9. WaitIsTimed'
  <2>1. kernel'[TIMEOUT_USERDATA] + Occurs(cq', TIMEOUT_USERDATA)
          = kernel[TIMEOUT_USERDATA] + Occurs(cq, TIMEOUT_USERDATA)
    BY <1>5, Keys
  <2> QED  BY <1>1, <2>1 DEF IInv, WaitIsTimed
<1>10. Calls'  BY <1>1 DEF IInv, Calls, opVars
<1>11. Faults'  BY <1>1 DEF IInv, Faults, opVars
<1> QED  BY <1>6, <1>7, <1>8, <1>9, <1>10, <1>11 DEF IInv

(* There is space for the timeout, and so the kernel is entered with one. *)
LEMMA InstallTimeoutStep ==
  ASSUME IInv, InstallTimeout
  PROVE  IInv'
<1>1. UNCHANGED <<opVars, kernel, cq, visible, timeouts, skipped, fault>>
  BY DEF InstallTimeout
<1>2. /\ sq \in Seq(UserData) /\ Len(sq) \in Nat /\ Len(sq) < SqCapacity
      /\ sq' = Append(sq, TIMEOUT_USERDATA)
  BY LenProperties, SqCapacityType DEF IInv, TypeOK, Calls, InstallTimeout, sq_full
<1>3. sq' \in Seq(UserData) /\ Len(sq') = Len(sq) + 1  BY <1>2, Keys, AppendProperties
<1>4. /\ \A k \in OpsKey : Occurs(sq', k) = Occurs(sq, k)
      /\ Occurs(sq', TIMEOUT_USERDATA) > 0
  <2>1. \A u \in UserData :
          Occurs(sq', u) = Occurs(sq, u) + (IF TIMEOUT_USERDATA = u THEN 1 ELSE 0)
    BY <1>2, Keys, OccursAppend
  <2>2. \A u \in UserData : Occurs(sq, u) \in Nat  BY Counts DEF IInv
  <2> QED  BY <2>1, <2>2, Keys
<1>5. pc' = "enter" /\ caller' = "timeout"  BY DEF InstallTimeout, Goto
<1>6. TypeOK'
  <2>1. Len(sq') <= SqCapacity  BY <1>2, <1>3, SqCapacityType
  <2> QED  BY <1>1, <1>3, <1>5, <2>1 DEF IInv, TypeOK, opVars
<1>7. OneCompletion'
  BY <1>1, <1>4 DEF IInv, OneCompletion, opVars
<1>8. Slots' /\ LastWaker'  BY <1>1 DEF IInv, Slots, LastWaker, opVars
<1>9. WaitIsTimed'  BY <1>5 DEF WaitIsTimed
<1>10. Calls'  BY <1>4, <1>5 DEF Calls
<1>11. Faults'  BY <1>1 DEF IInv, Faults, opVars
<1> QED  BY <1>6, <1>7, <1>8, <1>9, <1>10, <1>11 DEF IInv

(* Futures that are dropped, and the driver *)
LEMMA DropSteps ==
  ASSUME IInv, DriverDrop \/ \E k \in OpsKey : DropOp(k)
  PROVE  IInv'
<1>1. CASE \E k \in OpsKey : DropOp(k)
  <2>1. PICK k \in OpsKey : DropOp(k)  BY <1>1
  <2>2. /\ UNCHANGED <<slot, polled, notified, ringVars, pc, caller, skipped, fault>>
        /\ op' = [op EXCEPT ![k] = "dropped"] /\ op[k] = "held" /\ fault = "none"
        /\ pc = "idle"
        /\ op \in [OpsKey -> {"new", "held", "resolved", "dropped"}]
    BY <2>1 DEF DropOp, Idle, IInv, TypeOK
  <2>3. TypeOK'  BY <2>2 DEF IInv, TypeOK, ringVars
  <2>4. OneCompletion'  BY <2>2 DEF IInv, OneCompletion, ringVars
  <2>5. Slots'  BY <2>2 DEF IInv, Slots
  <2>6. LastWaker'  BY <2>2 DEF IInv, LastWaker
  <2>7. WaitIsTimed'  BY <2>2 DEF WaitIsTimed
  <2>8. Calls'  BY <2>2 DEF IInv, Calls, ringVars
  <2>9. Faults'  BY <2>2 DEF Faults
  <2> QED  BY <2>3, <2>4, <2>5, <2>6, <2>7, <2>8, <2>9 DEF IInv
<1>2. CASE DriverDrop
  <2>1. /\ UNCHANGED <<opVars, ringVars, caller, skipped>> /\ pc' = "dropped"
        /\ pc = "idle" /\ fault = "none"
    BY <1>2 DEF DriverDrop, Idle
  <2>2. fault' \in {"none", "ops_left"}  BY <1>2, <2>1 DEF DriverDrop
  <2>3. fault' = "ops_left" => \E k \in OpsKey : op[k] = "dropped"
    <3> SUFFICES ASSUME fault' = "ops_left" PROVE \E k \in OpsKey : op[k] = "dropped"
      OBVIOUS
    <3>1. PICK k \in OpsKey : slot[k] # Vacant  BY <1>2, <2>1 DEF DriverDrop
    <3>2. slot[k].tag # "Vacant"  BY <3>1, Tags DEF IInv, TypeOK
    <3>3. op[k] \in {"new", "held", "resolved", "dropped"} /\ op[k] # "held"
      BY <1>2 DEF IInv, TypeOK, DriverDrop
    <3> QED  BY <3>2, <3>3 DEF IInv, Slots
  <2>4. TypeOK'  BY <2>1, <2>2 DEF IInv, TypeOK, opVars, ringVars, Panics
  <2>5. OneCompletion' /\ Slots' /\ LastWaker'
    BY <2>1, Frame DEF IInv, ringVars
  <2>6. WaitIsTimed'  BY <2>1 DEF WaitIsTimed
  <2>7. Calls'  BY <2>1 DEF IInv, Calls, opVars
  <2>8. Faults'  BY <2>1, <2>2, <2>3 DEF Faults, opVars
  <2> QED  BY <2>4, <2>5, <2>6, <2>7, <2>8 DEF IInv
<1> QED  BY <1>1, <1>2

(* A poll exchanges the waker, or takes the result and gives the slot back. *)
LEMMA PollStep ==
  ASSUME IInv, NEW k \in OpsKey, NEW w \in Wakers, Poll(k, w)
  PROVE  IInv'
<1>1. /\ UNCHANGED <<ringVars, pc, caller, skipped>>
      /\ op[k] = "held" /\ fault = "none" /\ pc = "idle"
      /\ polled' = [polled EXCEPT ![k] = w] /\ notified' = [notified EXCEPT ![k] = NoWaker]
      /\ slot \in [OpsKey -> Lifecycle]
      /\ op \in [OpsKey -> {"new", "held", "resolved", "dropped"}]
      /\ polled \in [OpsKey -> Wakers \union {NoWaker}]
      /\ notified \in [OpsKey -> Wakers \union {NoWaker}]
  BY DEF Poll, Idle, IInv, TypeOK
<1>2. slot[k].tag # "Vacant"  BY <1>1 DEF IInv, Slots
<1>3. \/ /\ slot[k].tag \in {"Submitted", "Waiting"}
         /\ slot' = [slot EXCEPT ![k] = Waiting(w)] /\ UNCHANGED <<op, fault>>
      \/ /\ slot[k].tag = "Completed"
         /\ slot' = [slot EXCEPT ![k] = Vacant]
         /\ op' = [op EXCEPT ![k] = "resolved"] /\ UNCHANGED fault
  BY <1>1, <1>2, Tags DEF Poll
<1>4. fault' = "none"  BY <1>1, <1>3
<1>5. slot' \in [OpsKey -> Lifecycle]  BY <1>1, <1>3, Tags
<1>6. \A i \in OpsKey : i # k =>
        slot'[i] = slot[i] /\ op'[i] = op[i] /\ polled'[i] = polled[i]
        /\ notified'[i] = notified[i]
  BY <1>1, <1>3
<1>7. TypeOK'
  <2>1. op' \in [OpsKey -> {"new", "held", "resolved", "dropped"}]  BY <1>1, <1>3
  <2> QED  BY <1>1, <1>4, <1>5, <2>1 DEF IInv, TypeOK, ringVars
<1>8. OneCompletion'
  <2> SUFFICES ASSUME NEW i \in OpsKey PROVE Way(i)' = Awaited(i)'
    BY DEF OneCompletion, Way, Awaited
  <2>1. Way(i)' = Way(i)  BY <1>1 DEF Way, ringVars
  <2>2. Awaited(i)' = Awaited(i)
    <3>1. CASE i # k  BY <1>6, <3>1 DEF Awaited
    <3>2. CASE i = k  BY <1>1, <1>3, <3>2, Tags DEF Awaited
    <3> QED  BY <3>1, <3>2
  <2> QED  BY <2>1, <2>2, OneCompletionWay DEF IInv
<1>9. Slots'
  <2> SUFFICES ASSUME NEW i \in OpsKey
               PROVE  /\ op'[i] = "held" => slot'[i].tag # "Vacant"
                      /\ op'[i] \in {"new", "resolved"} => slot'[i].tag = "Vacant"
    BY DEF Slots
  <2>1. CASE i # k  BY <1>6, <2>1 DEF IInv, Slots
  <2>2. CASE i = k  BY <1>1, <1>3, <2>2, Tags
  <2> QED  BY <2>1, <2>2
<1>10. LastWaker'
  <2> SUFFICES ASSUME NEW i \in OpsKey
        PROVE  /\ op'[i] = "new" \/ slot'[i].tag = "Submitted" =>
                    polled'[i] = NoWaker /\ notified'[i] = NoWaker
               /\ slot'[i].tag = "Waiting" => slot'[i].waker = polled'[i]
               /\ slot'[i].tag = "Completed" => notified'[i] = polled'[i]
    BY DEF LastWaker
  <2>1. CASE i # k  BY <1>6, <2>1 DEF IInv, LastWaker
  <2>2. CASE i = k
    <3>1. polled'[k] = w /\ op'[k] # "new"  BY <1>1, <1>3
    <3>2. slot'[k] = Waiting(w) \/ slot'[k] = Vacant  BY <1>1, <1>3
    <3> QED  BY <2>2, <3>1, <3>2, Tags
  <2> QED  BY <2>1, <2>2
<1>11. WaitIsTimed' /\ Calls'
  <2>1. \A i \in OpsKey : op[i] = "new" => op'[i] = "new"
    <3> SUFFICES ASSUME NEW i \in OpsKey, op[i] = "new" PROVE op'[i] = "new"  OBVIOUS
    <3>1. i # k  BY <1>1
    <3> QED  BY <1>6, <3>1
  <2> QED  BY <1>1, <2>1 DEF IInv, WaitIsTimed, Calls, ringVars
<1>12. Faults'  BY <1>4 DEF Faults
<1> QED  BY <1>7, <1>8, <1>9, <1>10, <1>11, <1>12 DEF IInv

(* A key is given once. *)
LEMMA NewOpIsNew ==
  ASSUME \E k \in OpsKey : op[k] = "new"
  PROVE  NewOp \in OpsKey /\ op[NewOp] = "new"
<1> DEFINE K == {k \in OpsKey : op[k] = "new"}
<1>1. K \subseteq Nat /\ K # {}  BY NumOpsType DEF OpsKey
<1>2. PICK k \in K : \A i \in K : ~(i < k)
  <2>1. PICK k \in K : \A i \in K : <<i, k>> \notin OpToRel(<, Nat)
    BY <1>1, NatLessThanWellFounded, WFMin
  <2>2. \A i \in K : ~(i < k)
    <3> SUFFICES ASSUME NEW i \in K, i < k PROVE FALSE  OBVIOUS
    <3>1. i \in Nat /\ k \in Nat  BY <1>1
    <3>2. <<i, k>> \in OpToRel(<, Nat)  BY Zenon, <3>1 DEF OpToRel
    <3> QED  BY <2>1, <3>2
  <2> QED  BY <2>2
<1>3. k \in OpsKey /\ op[k] = "new" /\ \A i \in OpsKey : i < k => op[i] # "new"
  BY <1>2
<1> QED  BY <1>3 DEF NewOp

(* There is space for the entry, and the operation is one that is new. *)
LEMMA PushOpStep ==
  ASSUME IInv, PushOp
  PROVE  IInv'
<1> DEFINE n == NewOp
<1>1. n \in OpsKey /\ op[n] = "new"
  BY NewOpIsNew DEF IInv, Calls, PushOp
<1>2. /\ sq \in Seq(UserData) /\ Len(sq) \in Nat /\ Len(sq) < SqCapacity
      /\ sq' = Append(sq, n) /\ fault' = fault /\ fault = "none"
  BY LenProperties, SqCapacityType DEF IInv, TypeOK, Calls, PushOp, sq_full
<1>3. /\ UNCHANGED <<polled, notified, kernel, cq, visible, timeouts, skipped>>
      /\ pc' = "idle" /\ caller' = "none"
      /\ slot' = [slot EXCEPT ![n] = Submitted] /\ op' = [op EXCEPT ![n] = "held"]
      /\ slot \in [OpsKey -> Lifecycle]
      /\ op \in [OpsKey -> {"new", "held", "resolved", "dropped"}]
  BY DEF PushOp, Goto, IInv, TypeOK
<1> HIDE DEF n
<1>4. sq' \in Seq(UserData) /\ Len(sq') = Len(sq) + 1
  BY <1>1, <1>2, Keys, AppendProperties
<1>5. \A u \in UserData : Occurs(sq', u) = Occurs(sq, u) + (IF n = u THEN 1 ELSE 0)
  BY <1>1, <1>2, Keys, OccursAppend
<1>6. \A i \in OpsKey : i # n => slot'[i] = slot[i] /\ op'[i] = op[i]
  BY <1>3
<1>7. slot'[n] = Submitted /\ op'[n] = "held"  BY <1>1, <1>3
<1>8. slot[n].tag = "Vacant" /\ polled[n] = NoWaker /\ notified[n] = NoWaker
  BY <1>1 DEF IInv, Slots, LastWaker
<1>9. TypeOK'
  <2>1. Len(sq') <= SqCapacity  BY <1>2, <1>4, SqCapacityType
  <2>2. slot' \in [OpsKey -> Lifecycle]  BY <1>3, Tags
  <2> QED  BY <1>2, <1>3, <1>4, <2>1, <2>2 DEF IInv, TypeOK
<1>10. OneCompletion'
  <2> SUFFICES ASSUME NEW i \in OpsKey PROVE Way(i)' = Awaited(i)'
    BY DEF OneCompletion, Way, Awaited
  <2>1. Way(i)' = Occurs(sq', i) + kernel[i] + Occurs(cq, i) + (IF i \in skipped THEN 1 ELSE 0)
    BY <1>3 DEF Way
  <2>2. Occurs(sq', i) = Occurs(sq, i) + (IF n = i THEN 1 ELSE 0)  BY <1>5, Keys
  <2>3. Occurs(sq, i) \in Nat /\ kernel[i] \in Nat /\ Occurs(cq, i) \in Nat
    BY Counts, Keys DEF IInv
  <2>4. Way(i)' = Way(i) + (IF n = i THEN 1 ELSE 0)  BY <2>1, <2>2, <2>3 DEF Way
  <2>5. Awaited(i)' = Awaited(i) + (IF n = i THEN 1 ELSE 0)
    <3>1. CASE i # n  BY <1>6, <3>1 DEF Awaited
    <3>2. CASE i = n  BY <1>7, <1>8, <3>2, Tags DEF Awaited
    <3> QED  BY <3>1, <3>2
  <2> QED  BY <2>4, <2>5, OneCompletionWay DEF IInv
<1>11. Slots'
  <2> SUFFICES ASSUME NEW i \in OpsKey
               PROVE  /\ op'[i] = "held" => slot'[i].tag # "Vacant"
                      /\ op'[i] \in {"new", "resolved"} => slot'[i].tag = "Vacant"
    BY DEF Slots
  <2>1. CASE i # n  BY <1>6, <2>1 DEF IInv, Slots
  <2>2. CASE i = n  BY <1>7, <2>2, Tags
  <2> QED  BY <2>1, <2>2
<1>12. LastWaker'
  <2> SUFFICES ASSUME NEW i \in OpsKey
        PROVE  /\ op'[i] = "new" \/ slot'[i].tag = "Submitted" =>
                    polled'[i] = NoWaker /\ notified'[i] = NoWaker
               /\ slot'[i].tag = "Waiting" => slot'[i].waker = polled'[i]
               /\ slot'[i].tag = "Completed" => notified'[i] = polled'[i]
    BY DEF LastWaker
  <2>1. CASE i # n  BY <1>3, <1>6, <2>1 DEF IInv, LastWaker
  <2>2. CASE i = n  BY <1>3, <1>7, <1>8, <2>2, Tags
  <2> QED  BY <2>1, <2>2
<1>13. WaitIsTimed' /\ Calls'  BY <1>3 DEF WaitIsTimed, Calls
<1>14. Faults'  BY <1>2 DEF Faults
<1> QED  BY <1>9, <1>10, <1>11, <1>12, <1>13, <1>14 DEF IInv

(* A completion is the only one of its operation, and finds its slot waiting. *)
LEMMA ReapStep ==
  ASSUME IInv, Reap
  PROVE  IInv'
<1> DEFINE v == Head(cq)
<1>1. cq \in Seq(UserData) /\ cq # <<>> /\ Len(cq) \in Nat
      /\ visible \in 0..Len(cq) /\ visible > 0 /\ visible' = visible - 1
  <2>1. cq \in Seq(UserData) /\ Len(cq) \in Nat /\ visible \in 0..Len(cq) /\ visible > 0
    BY LenProperties DEF IInv, TypeOK, Reap
  <2>2. cq # <<>>
    <3>1. Len(<<>>) = 0  OBVIOUS
    <3> QED  BY <2>1, <3>1
  <2> QED  BY <2>1, <2>2 DEF Reap
<1>2. /\ UNCHANGED <<op, polled, sq, kernel, timeouts, pc, caller>>
      /\ pc = "reap" /\ fault = "none" /\ cq' = Tail(cq)
      /\ slot \in [OpsKey -> Lifecycle]
      /\ notified \in [OpsKey -> Wakers \union {NoWaker}]
      /\ polled \in [OpsKey -> Wakers \union {NoWaker}]
  BY DEF Reap, IInv, TypeOK
<1>3. /\ v \in UserData /\ cq' \in Seq(UserData) /\ Len(cq') = Len(cq) - 1
      /\ \A u \in UserData : Occurs(cq', u) = Occurs(cq, u) - (IF v = u THEN 1 ELSE 0)
  BY <1>1, <1>2, OccursTail
<1>4. Occurs(cq, v) > 0
  <2>1. 1 \in 1..Len(cq) /\ v = cq[1]  BY <1>1, EmptySeq, HeadTailProperties
  <2> QED  BY <1>1, <2>1, OccursSomewhere
<1>5. \/ /\ skipped' = skipped \union {v} /\ UNCHANGED <<slot, notified, fault>>
      \/ /\ v \in OpsKey /\ complete(v) /\ UNCHANGED skipped
      \/ /\ v \notin OpsKey /\ ReversedTest /\ fault' = "invalid_key"
         /\ UNCHANGED <<slot, notified, skipped>>
  BY <1>3, Keys, ReversedType DEF Reap
<1> HIDE DEF v
<1>6. v \in OpsKey => v \notin skipped /\ slot[v].tag \in {"Submitted", "Waiting"}
  <2> SUFFICES ASSUME v \in OpsKey
               PROVE  v \notin skipped /\ slot[v].tag \in {"Submitted", "Waiting"}
    OBVIOUS
  <2>1. Way(v) = Awaited(v)  BY OneCompletionWay DEF IInv
  <2>2. Occurs(sq, v) \in Nat /\ kernel[v] \in Nat /\ Occurs(cq, v) \in Nat
    BY Counts, Keys DEF IInv
  <2> QED  BY <1>4, <2>1, <2>2 DEF Way, Awaited
<1>7. /\ v \notin OpsKey => UNCHANGED <<slot, notified>>
      /\ v \in OpsKey =>
           \/ skipped' = skipped \union {v} /\ UNCHANGED <<slot, notified, fault>>
           \/ /\ UNCHANGED <<skipped, fault>>
              /\ slot' = [slot EXCEPT ![v] = Completed]
              /\ \/ slot[v].tag = "Submitted" /\ UNCHANGED notified
                 \/ /\ slot[v].tag = "Waiting"
                    /\ notified' = [notified EXCEPT ![v] = slot[v].waker]
  BY <1>5, <1>6 DEF complete
<1>8. fault' = "none" \/ (fault' = "invalid_key" /\ ReversedTest)
  BY <1>2, <1>5, <1>7
<1>9. \A k \in OpsKey : k # v => slot'[k] = slot[k] /\ notified'[k] = notified[k]
  BY <1>2, <1>7
<1>10. TypeOK'
  <2>1. slot' \in [OpsKey -> Lifecycle]  BY <1>2, <1>7, Tags
  <2>2. notified' \in [OpsKey -> Wakers \union {NoWaker}]
    <3>1. slot[v].tag = "Waiting" /\ v \in OpsKey => slot[v].waker \in Wakers \union {NoWaker}
      BY <1>2 DEF IInv, LastWaker
    <3> QED  BY <1>2, <1>7, <3>1
  <2>3. skipped' \subseteq UserData  BY <1>3, <1>5 DEF IInv, TypeOK
  <2>4. visible' \in 0..Len(cq')  BY <1>1, <1>3
  <2>5. fault' \in Panics \union {"none"}  BY <1>8 DEF Panics
  <2> QED  BY <1>2, <1>3, <2>1, <2>2, <2>3, <2>4, <2>5 DEF IInv, TypeOK
<1>11. OneCompletion'
  <2> SUFFICES ASSUME NEW k \in OpsKey PROVE Way(k)' = Awaited(k)'
    BY DEF OneCompletion, Way, Awaited
  <2>1. Way(k)' = Occurs(sq, k) + kernel[k] + Occurs(cq', k) + (IF k \in skipped' THEN 1 ELSE 0)
    BY <1>2 DEF Way
  <2>2. Occurs(sq, k) \in Nat /\ kernel[k] \in Nat /\ Occurs(cq, k) \in Nat
    BY Counts, Keys DEF IInv
  <2>3. Occurs(cq', k) = Occurs(cq, k) - (IF v = k THEN 1 ELSE 0)  BY <1>3, Keys
  <2>4. Way(k) = Awaited(k)  BY OneCompletionWay DEF IInv
  <2>5. CASE k # v
    <3>1. k \in skipped' <=> k \in skipped  BY <1>5, <2>5
    <3>2. Awaited(k)' = Awaited(k)  BY <1>9, <2>5 DEF Awaited
    <3> QED  BY <2>1, <2>2, <2>3, <2>4, <2>5, <3>1, <3>2 DEF Way
  <2>6. CASE k = v
    <3>1. Awaited(k) = 1 /\ k \notin skipped  BY <1>6, <2>6 DEF Awaited
    <3>2. \/ k \in skipped' /\ Awaited(k)' = 1
          \/ k \notin skipped' /\ Awaited(k)' = 0
      <4>1. slot' = slot => Awaited(k)' = 1  BY <3>1 DEF Awaited
      <4>2. slot' = [slot EXCEPT ![v] = Completed] => Awaited(k)' = 0
        BY <1>2, <2>6, Tags DEF Awaited
      <4> QED  BY <1>7, <2>6, <3>1, <4>1, <4>2
    <3> QED  BY <2>1, <2>2, <2>3, <2>4, <2>6, <3>1, <3>2 DEF Way
  <2> QED  BY <2>5, <2>6
<1>12. Slots'
  <2> SUFFICES ASSUME NEW k \in OpsKey
               PROVE  /\ op[k] = "held" => slot'[k].tag # "Vacant"
                      /\ op[k] \in {"new", "resolved"} => slot'[k].tag = "Vacant"
    BY <1>2 DEF Slots
  <2>1. CASE slot'[k] = slot[k]  BY <2>1 DEF IInv, Slots
  <2>2. CASE slot'[k] # slot[k]
    <3>1. k = v /\ slot'[k] = Completed  BY <1>2, <1>7, <1>9, <2>2
    <3> QED  BY <1>6, <3>1, Tags DEF IInv, Slots
  <2> QED  BY <2>1, <2>2
<1>13. LastWaker'
  <2> SUFFICES ASSUME NEW k \in OpsKey
        PROVE  /\ op[k] = "new" \/ slot'[k].tag = "Submitted" =>
                    polled[k] = NoWaker /\ notified'[k] = NoWaker
               /\ slot'[k].tag = "Waiting" => slot'[k].waker = polled[k]
               /\ slot'[k].tag = "Completed" => notified'[k] = polled[k]
    BY <1>2 DEF LastWaker
  <2>1. CASE slot'[k] = slot[k] /\ notified'[k] = notified[k]  BY <2>1 DEF IInv, LastWaker
  <2>2. CASE ~(slot'[k] = slot[k] /\ notified'[k] = notified[k])
    <3>1. /\ k = v /\ slot'[k] = Completed
          /\ \/ slot[k].tag = "Submitted" /\ notified'[k] = notified[k]
             \/ slot[k].tag = "Waiting" /\ notified'[k] = slot[k].waker
      BY <1>2, <1>7, <1>9, <2>2
    <3>2. op[k] # "new"  BY <1>6, <3>1 DEF IInv, Slots
    <3> QED  BY <3>1, <3>2, Tags DEF IInv, LastWaker
  <2> QED  BY <2>1, <2>2
<1>14. WaitIsTimed'  BY <1>2 DEF WaitIsTimed
<1>15. Calls'  BY <1>2 DEF IInv, Calls
<1>16. Faults'  BY <1>8 DEF Faults
<1> QED  BY <1>10, <1>11, <1>12, <1>13, <1>14, <1>15, <1>16 DEF IInv

-----------------------------------------------------------------------------
(* The theorems *)

LEMMA InitHolds == Init => IInv
<1> SUFFICES ASSUME Init PROVE IInv  OBVIOUS
<1>1. \A u : Occurs(<<>>, u) = 0  BY OccursEmpty
<1>2. Len(<<>>) = 0 /\ <<>> \in Seq(UserData)  OBVIOUS
<1>3. TypeOK
  BY <1>2, Tags, SqCapacityType, MaxTimeoutsType DEF Init, TypeOK, Panics
<1>4. OneCompletion  BY <1>1, Keys, Tags DEF Init, OneCompletion
<1>5. WaitIsTimed /\ Calls  BY DEF Init, WaitIsTimed, Calls
<1>6. Slots /\ LastWaker  BY Tags DEF Init, Slots, LastWaker
<1>7. Faults  BY DEF Init, Faults
<1> QED  BY <1>3, <1>4, <1>5, <1>6, <1>7 DEF IInv

LEMMA NextKeeps == IInv /\ [Next]_vars => IInv'
<1> SUFFICES ASSUME IInv, [Next]_vars PROVE IInv'  OBVIOUS
<1>1. CASE TickSync \/ TickEnds \/ SubmitBusy \/ SubmitErr \/ SubmitWith \/ DriverSubmit
             \/ Park \/ ParkTimeout \/ WaitEnds \/ WaitErr
  BY <1>1, ControlSteps
<1>2. CASE SubmitOk \/ EnterKernel  BY <1>2, TakeSteps
<1>3. CASE Reap  BY <1>3, ReapStep
<1>4. CASE PushOp  BY <1>4, PushOpStep
<1>5. CASE InstallTimeout  BY <1>5, InstallTimeoutStep
<1>6. CASE DriverDrop \/ \E k \in OpsKey : DropOp(k)  BY <1>6, DropSteps
<1>7. CASE \E k \in OpsKey, w \in Wakers : Poll(k, w)  BY <1>7, PollStep
<1>8. CASE \E u \in UserData : KernelComplete(u)  BY <1>8, KernelCompleteStep
<1>9. CASE UNCHANGED vars
  <2>1. UNCHANGED <<opVars, ringVars, pc, caller, skipped, fault>>
    BY <1>9 DEF vars, opVars, ringVars
  <2>2. TypeOK'  BY <2>1 DEF IInv, TypeOK, opVars, ringVars
  <2>3. OneCompletion' /\ Slots' /\ LastWaker'  BY <2>1, Frame DEF IInv, ringVars
  <2>4. WaitIsTimed' /\ Calls' /\ Faults'
    BY <2>1 DEF IInv, WaitIsTimed, Calls, Faults, opVars, ringVars
  <2> QED  BY <2>2, <2>3, <2>4 DEF IInv
<1> QED  BY <1>1, <1>2, <1>3, <1>4, <1>5, <1>6, <1>7, <1>8, <1>9 DEF Next

(* The invariant holds in every reachable state of the driver. *)
THEOREM Invariance == Spec => []IInv
BY InitHolds, NextKeeps, PTL DEF Spec

(* The rings, the table of lifecycles and the place of the thread in the     *)
(* driver stay in their types, and the queue in its capacity.                *)
THEOREM TypeCorrect == Spec => []TypeOK
<1>1. IInv => TypeOK  BY DEF IInv
<1> QED  BY <1>1, Invariance, PTL

(* With the test of tick as its comment has it, no call of the driver and    *)
(* none of an Op panics; only operations dropped in flight make the drop of  *)
(* the table do so.                                                          *)
THEOREM NeverPanics == ASSUME ~ReversedTest PROVE Spec => []NoPanic
<1>1. IInv => NoPanic  BY DEF IInv, Faults, NoPanic
<1> QED  BY <1>1, Invariance, PTL

(* A completion wakes whichever task polled its operation last. *)
THEOREM LatestIsWoken == Spec => []CompletionWakes
<1>1. IInv => CompletionWakes
  <2> SUFFICES ASSUME IInv, NEW k \in OpsKey, slot[k] = Completed
               PROVE  notified[k] = polled[k]
    BY DEF CompletionWakes
  <2> QED  BY Tags DEF IInv, LastWaker
<1> QED  BY <1>1, Invariance, PTL

(* An operation is completed at most once, and is not lost before: its slot  *)
(* waits while a queue or the kernel holds it.                               *)
THEOREM CompletedOnce == Spec => []OneCompletion
<1>1. IInv => OneCompletion  BY DEF IInv
<1> QED  BY <1>1, Invariance, PTL

(* park_timeout never blocks the thread without its timeout on the way. *)
THEOREM ParksTimed == Spec => []WaitIsTimed
<1>1. IInv => WaitIsTimed  BY DEF IInv
<1> QED  BY <1>1, Invariance, PTL
=============================================================================
