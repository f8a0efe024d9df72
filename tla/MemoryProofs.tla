---------------------------- MODULE MemoryProofs ----------------------------
(***************************************************************************)
(* Proofs about TaskLayout and Buffers, for words of any width, types and  *)
(* buffers of any size and slices nested to any depth.                     *)
(***************************************************************************)
EXTENDS TaskLayout, Buffers, SequenceTheorems, WellFoundedInduction, TLAPS

-----------------------------------------------------------------------------
(* Rounding *)

LEMMA Quotient ==
  ASSUME NEW n \in Nat, NEW a \in Nat \ {0}
  PROVE  \E q \in Nat, s \in 0..(a - 1) : n = a * q + s /\ n % a = s
<1>1. n \div a \in Nat /\ n % a \in 0..(a - 1) /\ n = a * (n \div a) + (n % a)
  OBVIOUS
<1> QED  BY <1>1

LEMMA RemainderUnique ==
  ASSUME NEW a \in Nat \ {0}, NEW q \in Int, NEW s \in 0..(a - 1)
  PROVE  (a * q + s) % a = s
OBVIOUS

(* Two multiples are equal or a whole alignment apart. *)
LEMMA MultiplesApart ==
  ASSUME NEW a \in Nat \ {0}, NEW x \in Nat, NEW y \in Nat, x % a = 0, y % a = 0, x < y
  PROVE  x + a <= y
<1>1. PICK q \in Nat, s \in 0..(a - 1) : x = a * q + s /\ x % a = s  BY Quotient
<1>2. PICK p \in Nat, t \in 0..(a - 1) : y = a * p + t /\ y % a = t  BY Quotient
<1>3. x = a * q /\ y = a * p  BY <1>1, <1>2
<1>4. q < p
  <2>1. p <= q => a * p <= a * q  OBVIOUS
  <2> QED  BY <1>3, <2>1
<1>5. a * (q + 1) <= a * p  BY <1>4
<1>6. a * (q + 1) = a * q + a  OBVIOUS
<1> QED  BY <1>3, <1>5, <1>6

(* There is one multiple in a window as wide as the alignment. *)
LEMMA AlignUpIs ==
  ASSUME NEW a \in Nat \ {0}, NEW n \in Nat, NEW m \in n..(n + a - 1), m % a = 0
  PROVE  AlignUp(n, a) = m
<1>1. \A k \in n..(n + a - 1) : k % a = 0 => k = m
  <2> SUFFICES ASSUME NEW k \in n..(n + a - 1), k % a = 0, k # m PROVE FALSE  OBVIOUS
  <2>1. k \in Nat /\ m \in Nat  OBVIOUS
  <2>2. ASSUME k < m PROVE k + a <= m  BY <2>1, <2>2, MultiplesApart
  <2>3. ASSUME m < k PROVE m + a <= k  BY <2>1, <2>3, MultiplesApart
  <2> QED  BY <2>1, <2>2, <2>3
<1> QED  BY <1>1 DEF AlignUp

LEMMA AlignUpType ==
  ASSUME NEW a \in Nat \ {0}, NEW n \in Nat
  PROVE  AlignUp(n, a) \in n..(n + a - 1) /\ AlignUp(n, a) % a = 0
<1>1. PICK q \in Nat, s \in 0..(a - 1) : n = a * q + s /\ n % a = s  BY Quotient
<1>2. \E m \in n..(n + a - 1) : m % a = 0
  <2>1. CASE s = 0  BY <1>1, <2>1
  <2>2. CASE s # 0
    <3> DEFINE m == a * (q + 1)
    <3>1. a * (q + 1) = a * q + a  OBVIOUS
    <3>2. m \in n..(n + a - 1)  BY <1>1, <2>2, <3>1
    <3>3. (a * (q + 1) + 0) % a = 0  BY RemainderUnique
    <3> QED  BY <3>2, <3>3
  <2> QED  BY <2>1, <2>2
<1>3. PICK m \in n..(n + a - 1) : m % a = 0  BY <1>2
<1> QED  BY <1>3, AlignUpIs

(* Taking the remainder away rounds down. *)
LEMMA RoundDown ==
  ASSUME NEW a \in Nat \ {0}, NEW n \in Nat
  PROVE  AlignUp(n, a) = (n + a - 1) - ((n + a - 1) % a)
<1> DEFINE x == n + a - 1
<1>1. x \in Nat  OBVIOUS
<1>2. PICK q \in Nat, s \in 0..(a - 1) : x = a * q + s /\ x % a = s  BY <1>1, Quotient
<1>3. (a * q + 0) % a = 0  BY RemainderUnique
<1>4. x - (x % a) = a * q /\ a * q \in n..(n + a - 1)  BY <1>2
<1>5. (a * q) % a = 0  BY <1>3
<1> QED  BY <1>4, <1>5, AlignUpIs

-----------------------------------------------------------------------------
(* The word *)

LEMMA Aligns ==
  ASSUME NEW a \in Powers
  PROVE  a \in Nat \ {0} /\ a < Modulus /\ Modulus % a = 0
BY ModulusType, PowersType, PowersChain

LEMMA Wrapped ==
  ASSUME NEW x \in Int, 0 - Modulus <= x, x < 2 * Modulus
  PROVE  x % Modulus = IF x < 0 THEN x + Modulus ELSE IF x < Modulus THEN x ELSE x - Modulus
<1>1. Modulus \in Nat \ {0}  BY ModulusType
<1>2. CASE x < 0
  <2>1. (Modulus * (-1) + (x + Modulus)) % Modulus = x + Modulus  BY <1>1, <1>2, RemainderUnique
  <2> QED  BY <1>1, <1>2, <2>1
<1>3. CASE x >= 0 /\ x < Modulus
  <2>1. (Modulus * 0 + x) % Modulus = x  BY <1>1, <1>3, RemainderUnique
  <2> QED  BY <1>1, <1>3, <2>1
<1>4. CASE x >= Modulus
  <2>1. (Modulus * 1 + (x - Modulus)) % Modulus = x - Modulus  BY <1>1, <1>4, RemainderUnique
  <2> QED  BY <1>1, <1>4, <2>1
<1> QED  BY <1>1, <1>2, <1>3, <1>4

(* The sum of a length and its padding is the first aligned place, also when *)
(* the rounding wraps: then it is Modulus, which checked_add refuses.        *)
LEMMA PaddingExact ==
  ASSUME NEW a \in Powers, NEW len \in Usize
  PROVE  len + padding_needed_for(len, a) = AlignUp(len, a)
<1> DEFINE up == wrapping_sub(wrapping_add(len, a), 1)
           x  == len + a - 1
<1>1. a \in Nat \ {0} /\ a < Modulus /\ Modulus % a = 0 /\ Modulus \in Nat \ {0}
  BY Aligns, ModulusType
<1>2. len \in Nat /\ len < Modulus  BY <1>1 DEF Usize, MAX
<1>3. up = IF x < Modulus THEN x ELSE x - Modulus
  <2>1. (len + a) % Modulus = IF len + a < Modulus THEN len + a ELSE len + a - Modulus
    BY <1>1, <1>2, Wrapped
  <2> DEFINE y == ((len + a) % Modulus) - 1
  <2>2. y \in Int /\ 0 - Modulus <= y /\ y < 2 * Modulus  BY <1>1, <1>2, <2>1
  <2>3. y % Modulus = IF y < 0 THEN y + Modulus ELSE IF y < Modulus THEN y ELSE y - Modulus
    BY <2>2, Wrapped
  <2>4. up = y % Modulus  BY DEF wrapping_sub, wrapping_add
  <2> HIDE DEF up
  <2> QED  BY <1>1, <1>2, <2>1, <2>3, <2>4
<1>4. padding_needed_for(len, a) = (up - (up % a) - len) % Modulus
  BY DEF padding_needed_for, wrapping_sub
<1> HIDE DEF up
<1>5. CASE x < Modulus
  <2>1. up - (up % a) = AlignUp(len, a)  BY <1>1, <1>2, <1>3, <1>5, RoundDown
  <2>2. AlignUp(len, a) \in len..(len + a - 1)  BY <1>1, <1>2, AlignUpType
  <2> DEFINE d == AlignUp(len, a) - len
  <2>3. d \in Int /\ 0 <= d /\ d < Modulus  BY <1>1, <1>2, <2>2
  <2>4. d % Modulus = d
    <3> HIDE DEF d
    <3> QED  BY <1>1, <2>3, Wrapped
  <2> QED  BY <1>2, <1>4, <2>1, <2>2, <2>4
<1>6. CASE x >= Modulus
  <2>1. up \in 0..(a - 1)  BY <1>1, <1>2, <1>3, <1>6
  <2>2. up % a = up
    <3>1. (a * 0 + up) % a = up  BY <1>1, <2>1, RemainderUnique
    <3>2. a * 0 + up = up  BY <1>1, <2>1
    <3> QED  BY <3>1, <3>2
  <2>3. padding_needed_for(len, a) = (0 - len) % Modulus  BY <1>4, <2>1, <2>2
  <2>4. len > 0  BY <1>1, <1>2, <1>6
  <2>5. (0 - len) % Modulus = Modulus - len  BY <1>1, <1>2, <2>4, Wrapped
  <2>6. Modulus \in len..(len + a - 1)  BY <1>1, <1>2, <1>6
  <2>7. AlignUp(len, a) = Modulus  BY <1>1, <1>2, <2>6, AlignUpIs
  <2> QED  BY <1>1, <1>2, <2>3, <2>5, <2>7
<1> QED  BY <1>1, <1>2, <1>5, <1>6

-----------------------------------------------------------------------------
(* extend *)

Layouts == [size : Usize, align : Powers]

LEMMA GreaterAlign ==
  ASSUME NEW a \in Powers, NEW b \in Powers
  PROVE  Greater(a, b) \in Powers /\ Greater(a, b) >= a /\ Greater(a, b) >= b
BY Aligns DEF Greater

LEMMA ExtendExact ==
  ASSUME NEW size \in Usize, NEW align \in Powers, NEW l, l.size = size, l.align = align,
         NEW o \in Layouts
  PROVE  LET offset    == AlignUp(size, o.align)
             new_align == Greater(align, o.align)
         IN  /\ offset \in Nat
             /\ extend(l, o) =
                  IF offset + o.size + new_align - 1 > MAX THEN {}
                  ELSE {[size |-> offset + o.size, align |-> new_align, offset |-> offset]}
<1> DEFINE offset    == AlignUp(size, o.align)
           new_align == Greater(align, o.align)
<1>1. o.size \in Usize /\ o.align \in Powers  BY DEF Layouts
<1>2. Modulus \in Nat /\ size \in Nat /\ o.size \in Nat  BY <1>1, ModulusType DEF Usize, MAX
<1>3. new_align \in Nat \ {0}  BY <1>1, GreaterAlign, Aligns
<1>4. offset \in Nat
  <2>1. o.align \in Nat \ {0}  BY <1>1, Aligns
  <2>2. AlignUp(size, o.align) \in size..(size + o.align - 1)  BY <1>2, <2>1, AlignUpType
  <2> QED  BY <1>2, <2>1, <2>2
<1>5. size + padding_needed_for(size, o.align) = offset  BY <1>1, PaddingExact
<1>6. extend(l, o) =
        IF offset > MAX \/ offset + o.size > MAX \/ offset + o.size > MAX - (new_align - 1)
          THEN {} ELSE {[size |-> offset + o.size, align |-> new_align, offset |-> offset]}
  <2> HIDE DEF offset
  <2>1. ~Fits(offset) <=> offset > MAX  BY <1>2, <1>4 DEF Fits, MAX
  <2>2. ~Fits(offset + o.size) <=> offset + o.size > MAX  BY <1>2, <1>4 DEF Fits, MAX
  <2> QED  BY <1>5, <2>1, <2>2 DEF extend
<1>7. offset > MAX \/ offset + o.size > MAX \/ offset + o.size > MAX - (new_align - 1)
        <=> offset + o.size + new_align - 1 > MAX
  <2> HIDE DEF offset, new_align
  <2> QED  BY <1>2, <1>3, <1>4 DEF MAX
<1> QED  BY <1>4, <1>6, <1>7

-----------------------------------------------------------------------------
(* The layout of a task *)

LEMMA TypesFit ==
  ASSUME NEW l \in TypeLayouts
  PROVE  l.size \in Usize /\ l.align \in Powers /\ l = Layout(l.size, l.align)
<1>1. IsizeMax <= MAX
  <2>1. Modulus \in Nat \ {0} /\ Modulus \div 2 <= Modulus  BY ModulusType
  <2> QED  BY <2>1 DEF IsizeMax, MAX
<1> QED  BY <1>1, ModulusType DEF TypeLayouts, Usize, Layout, IsizeMax, MAX

LEMMA UnionFits ==
  ASSUME NEW f \in TypeLayouts, NEW r \in TypeLayouts
  PROVE  UnionOf(f, r) \in Layouts
BY TypesFit, GreaterAlign DEF UnionOf, Layout, Layouts, Greater

(* What the two calls of extend make of header, scheduler and union *)
LEMMA LayoutExact ==
  ASSUME NEW h \in TypeLayouts, NEW s \in TypeLayouts,
         NEW f \in TypeLayouts, NEW r \in TypeLayouts
  PROVE  LET e == ExactLayout(h, s, UnionOf(f, r))
         IN  eval_task_layout(h, s, f, r) = IF e.size + e.align - 1 > MAX THEN {} ELSE {e}
<1> DEFINE u    == UnionOf(f, r)
           at_s == AlignUp(h.size, s.align)
           at_u == AlignUp(at_s + s.size, u.align)
           hs   == Greater(h.align, s.align)
           al   == Greater(hs, u.align)
           mid  == [size |-> at_s + s.size, align |-> hs, offset |-> at_s]
           e    == [size |-> at_u + u.size, align |-> al,
                    offset_scheduler |-> at_s, offset_union |-> at_u]
<1>1. /\ h.size \in Usize /\ h.align \in Powers
      /\ s \in Layouts /\ s.size \in Usize /\ s.align \in Powers
  BY TypesFit DEF Layouts, Layout
<1>2. u \in Layouts /\ u.size \in Usize /\ u.align \in Powers
  BY UnionFits DEF Layouts
<1>3. ExactLayout(h, s, u) = e  BY DEF ExactLayout
<1>4. at_s \in Nat
      /\ extend(h, s) = IF at_s + s.size + hs - 1 > MAX THEN {} ELSE {mid}
  <2> HIDE DEF at_s, hs
  <2> QED  BY <1>1, ExtendExact DEF at_s, hs
<1>5. hs \in Powers /\ hs \in Nat \ {0} /\ al \in Powers /\ al \in Nat \ {0} /\ hs <= al
      /\ u.align \in Nat \ {0}
  <2>1. hs \in Powers  BY <1>1, GreaterAlign
  <2>2. al \in Powers /\ hs <= al
    <3> HIDE DEF hs
    <3> QED  BY <1>2, <2>1, GreaterAlign
  <2> HIDE DEF hs, al, u
  <2> QED  BY <1>2, <2>1, <2>2, Aligns
<1>6. s.size \in Nat /\ u.size \in Nat /\ MAX \in Nat
  BY <1>1, <1>2, ModulusType DEF Usize, MAX
<1>7. at_u \in Nat /\ at_u >= at_s + s.size
  <2> HIDE DEF at_s, u
  <2>1. at_s + s.size \in Nat  BY <1>4, <1>6
  <2>2. at_u \in (at_s + s.size)..(at_s + s.size + u.align - 1)  BY <1>5, <2>1, AlignUpType
  <2> QED  BY <1>5, <2>1, <2>2
<1>8. eval_task_layout(h, s, f, r)
        = UNION {{[size |-> y.size, align |-> y.align,
                   offset_scheduler |-> x.offset, offset_union |-> y.offset] :
                     y \in extend(x, u)} : x \in extend(h, s)}
  BY DEF eval_task_layout
<1>9. CASE at_s + s.size + hs - 1 > MAX
  <2>1. eval_task_layout(h, s, f, r) = {}
    <3>1. extend(h, s) = {}  BY <1>4, <1>9
    <3> HIDE DEF u
    <3> QED  BY <1>8, <3>1
  <2>2. e.size + e.align - 1 > MAX
    <3>1. e.size = at_u + u.size /\ e.align = al  OBVIOUS
    <3> HIDE DEF e, at_s, at_u, hs, al, u
    <3> QED  BY <1>4, <1>5, <1>6, <1>7, <1>9, <3>1
  <2> QED  BY <1>3, <2>1, <2>2
<1>10. CASE ~(at_s + s.size + hs - 1 > MAX)
  <2>1. extend(h, s) = {mid}  BY <1>4, <1>10
  <2>2. at_s + s.size \in Usize
    <3> HIDE DEF at_s, hs
    <3> QED  BY <1>4, <1>5, <1>6, <1>10 DEF Usize
  <2>3. extend(mid, u) =
          IF at_u + u.size + al - 1 > MAX THEN {}
          ELSE {[size |-> at_u + u.size, align |-> al, offset |-> at_u]}
    <3>1. mid.size = at_s + s.size /\ mid.align = hs  OBVIOUS
    <3> HIDE DEF mid, at_s, hs, u
    <3> QED  BY <1>2, <1>5, <2>2, <3>1, ExtendExact
  <2>4. eval_task_layout(h, s, f, r)
          = {[size |-> y.size, align |-> y.align,
              offset_scheduler |-> at_s, offset_union |-> y.offset] : y \in extend(mid, u)}
    <3>1. mid.offset = at_s  OBVIOUS
    <3> HIDE DEF mid, at_s, u
    <3> QED  BY <1>8, <2>1, <3>1
  <2>5. e.size = at_u + u.size /\ e.align = al  OBVIOUS
  <2>6. CASE at_u + u.size + al - 1 > MAX
    <3>1. extend(mid, u) = {}  BY <2>3, <2>6
    <3>2. eval_task_layout(h, s, f, r) = {}
      <4> HIDE DEF mid, at_s, u
      <4> QED  BY <2>4, <3>1
    <3> QED  BY <1>3, <2>5, <2>6, <3>2
  <2>7. CASE ~(at_u + u.size + al - 1 > MAX)
    <3> DEFINE y == [size |-> at_u + u.size, align |-> al, offset |-> at_u]
    <3>1. extend(mid, u) = {y}  BY <2>3, <2>7
    <3>2. eval_task_layout(h, s, f, r)
            = {[size |-> y.size, align |-> y.align,
                offset_scheduler |-> at_s, offset_union |-> y.offset]}
      <4> HIDE DEF mid, at_s, u, y
      <4> QED  BY <2>4, <3>1
    <3>3. eval_task_layout(h, s, f, r) = {e}  BY <3>2
    <3> QED  BY <1>3, <2>5, <2>7, <3>3
  <2> QED  BY <2>6, <2>7
<1> QED  BY <1>9, <1>10

(* RawTask::allocate gets the exact layout of the task, or none: wrapping    *)
(* never makes a part overlap another one or a layout too small.             *)
THEOREM LayoutsFit == LayoutSpec => []LayoutFits
<1> DEFINE Allocated ==
      \/ task = NoTask
      \/ \E h, s, f, r \in TypeLayouts :
           task = [parts |-> <<h, s, f, r>>, layout |-> eval_task_layout(h, s, f, r)]
<1>1. Unallocated => Allocated  BY DEF Unallocated
<1>2. Allocated /\ [AllocateAny]_task => Allocated'
  BY DEF AllocateAny, Allocate
<1>3. Allocated => LayoutFits
  <2> SUFFICES ASSUME NEW h \in TypeLayouts, NEW s \in TypeLayouts,
                      NEW f \in TypeLayouts, NEW r \in TypeLayouts,
                      task = [parts |-> <<h, s, f, r>>, layout |-> eval_task_layout(h, s, f, r)]
               PROVE  LayoutFits
    BY DEF LayoutFits
  <2>1. /\ task.parts[1] = h /\ task.parts[2] = s /\ task.parts[3] = f /\ task.parts[4] = r
        /\ task.layout = eval_task_layout(h, s, f, r)
    OBVIOUS
  <2> QED  BY <2>1, LayoutExact DEF LayoutFits
<1> QED  BY <1>1, <1>2, <1>3, PTL DEF LayoutSpec

(* The parts follow each other without overlapping, each at a multiple of    *)
(* its alignment, which divides the alignment of the whole: in memory that   *)
(* is aligned for the task, header, scheduler, future and output are too.    *)
THEOREM PartsApart ==
  ASSUME NEW h \in TypeLayouts, NEW s \in TypeLayouts,
         NEW f \in TypeLayouts, NEW r \in TypeLayouts,
         NEW l \in eval_task_layout(h, s, f, r)
  PROVE  /\ h.size <= l.offset_scheduler
         /\ l.offset_scheduler + s.size <= l.offset_union
         /\ l.offset_union + f.size <= l.size /\ l.offset_union + r.size <= l.size
         /\ l.offset_scheduler % s.align = 0
         /\ l.offset_union % UnionOf(f, r).align = 0
         /\ \A t \in {h, s, f, r} : l.align % t.align = 0
         /\ UnionOf(f, r).align % f.align = 0 /\ UnionOf(f, r).align % r.align = 0
<1> DEFINE u    == UnionOf(f, r)
           at_s == AlignUp(h.size, s.align)
           at_u == AlignUp(at_s + s.size, u.align)
           hs   == Greater(h.align, s.align)
<1>1. /\ l.offset_scheduler = at_s /\ l.offset_union = at_u
      /\ l.size = at_u + u.size /\ l.align = Greater(hs, u.align)
  <2> DEFINE e == ExactLayout(h, s, u)
  <2>1. l = e
    <3>1. eval_task_layout(h, s, f, r) = IF e.size + e.align - 1 > MAX THEN {} ELSE {e}
      BY LayoutExact
    <3> HIDE DEF e
    <3> QED  BY <3>1
  <2> QED  BY <2>1 DEF ExactLayout
<1>2. \A t \in TypeLayouts : t.size \in Nat /\ t.align \in Powers /\ t.align \in Nat \ {0}
  BY TypesFit, Aligns, ModulusType DEF Usize, MAX
<1>3. /\ u.size \in Nat /\ u.align \in Powers /\ u.align \in Nat \ {0}
      /\ u.size >= f.size /\ u.size >= r.size /\ u.align >= f.align /\ u.align >= r.align
  BY <1>2 DEF UnionOf, Layout, Greater
<1>4. at_s \in h.size..(h.size + s.align - 1) /\ at_s % s.align = 0
  BY <1>2, AlignUpType
<1>5. at_s + s.size \in Nat  BY <1>2, <1>4
<1>6. at_u \in (at_s + s.size)..(at_s + s.size + u.align - 1) /\ at_u % u.align = 0
  <2> HIDE DEF at_s, u
  <2> QED  BY <1>3, <1>5, AlignUpType
<1>7. hs \in Powers /\ hs >= h.align /\ hs >= s.align  BY <1>2, GreaterAlign
<1>8. Greater(hs, u.align) \in Powers /\ Greater(hs, u.align) >= hs
      /\ Greater(hs, u.align) >= u.align
  <2> HIDE DEF hs, u
  <2> QED  BY <1>3, <1>7, GreaterAlign
<1>9. \A t \in {h, s, f, r} : l.align % t.align = 0
  <2>1. l.align \in Powers /\ l.align \in Nat  BY <1>1, <1>8, Aligns
  <2>2. hs \in Nat  BY <1>7, Aligns
  <2>3. \A t \in {h, s, f, r} : t.align \in Powers /\ t.align <= l.align
    <3> HIDE DEF hs, u
    <3> QED  BY <1>1, <1>2, <1>3, <1>7, <1>8, <2>1, <2>2
  <2> QED  BY <2>1, <2>3, PowersChain
<1>10. u.align % f.align = 0 /\ u.align % r.align = 0  BY <1>2, <1>3, PowersChain
<1> HIDE DEF u, at_s, at_u, hs
<1> QED  BY <1>1, <1>2, <1>3, <1>4, <1>5, <1>6, <1>9, <1>10 DEF u
-----------------------------------------------------------------------------
(* The least of a set of numbers, and with it induction over the levels *)

LEMMA Upward ==
  ASSUME NEW S, 0 \in S, \A n \in Nat : n \in S => n + 1 \in S
  PROVE  \A n \in Nat : n \in S
<1> DEFINE T == {n \in Nat : n \notin S}
<1> SUFFICES ASSUME T # {} PROVE FALSE  OBVIOUS
<1>1. PICK m \in T : \A i \in T : <<i, m>> \notin OpToRel(<, Nat)
  BY NatLessThanWellFounded, WFMin
<1>2. m \in Nat /\ m \notin S /\ m - 1 \in Nat  OBVIOUS
<1>3. <<m - 1, m>> \in OpToRel(<, Nat)
  <2>1. m - 1 < m  BY <1>2
  <2> QED  BY Zenon, <1>2, <2>1 DEF OpToRel
<1>4. m - 1 \in T
  <2>1. m - 1 \in S => (m - 1) + 1 \in S  BY <1>2
  <2> QED  BY <1>2, <2>1
<1> QED  BY <1>1, <1>3, <1>4

(***************************************************************************)
(* The equation that defines Level, for the Vec v, the slices s of it and  *)
(* the levels L below a depth n; it has one solution.                      *)
(***************************************************************************)
Below(L, n, v, s) ==
  L = [k \in 0..n |-> IF k = 0 THEN IoBuf(0, v.len, v.cap)
                               ELSE View(L[k - 1], s[k].begin, s[k].end)]

Levels(L, v, s) ==
  L = [k \in Nat |-> IF k = 0 THEN IoBuf(0, v.len, v.cap)
                              ELSE View(L[k - 1], s[k].begin, s[k].end)]

LEMMA BelowUnique ==
  ASSUME NEW v, NEW s, NEW L, NEW M, NEW n \in Nat, NEW m \in n..(n + 1),
         Below(L, n, v, s), Below(M, m, v, s)
  PROVE  \A k \in 0..n : L[k] = M[k]
<1> DEFINE S == {k \in Nat : k <= n => L[k] = M[k]}
<1>1. 0 \in S  BY DEF Below
<1>2. ASSUME NEW k \in Nat, k \in S PROVE k + 1 \in S
  <2> SUFFICES ASSUME k + 1 <= n PROVE L[k + 1] = M[k + 1]  OBVIOUS
  <2>1. L[k] = M[k]  BY <1>2
  <2>2. k + 1 \in 0..n /\ k + 1 \in 0..m /\ k + 1 # 0 /\ (k + 1) - 1 = k  OBVIOUS
  <2>3. L[k + 1] = View(L[k], s[k + 1].begin, s[k + 1].end)  BY <2>2 DEF Below
  <2>4. M[k + 1] = View(M[k], s[k + 1].begin, s[k + 1].end)  BY <2>2 DEF Below
  <2> QED  BY <2>1, <2>3, <2>4
<1> HIDE DEF S
<1>3. \A k \in Nat : k \in S  BY <1>1, <1>2, Upward
<1> QED  BY <1>3 DEF S

LEMMA BelowExists ==
  ASSUME NEW v, NEW s
  PROVE  \A n \in Nat : \E L : Below(L, n, v, s)
<1> DEFINE S == {n \in Nat : \E L : Below(L, n, v, s)}
<1>1. 0 \in S
  <2> DEFINE L == [k \in 0..0 |-> IoBuf(0, v.len, v.cap)]
  <2>1. Below(L, 0, v, s)  BY DEF Below
  <2> QED  BY <2>1
<1>2. ASSUME NEW n \in Nat, n \in S PROVE n + 1 \in S
  <2>1. PICK L : Below(L, n, v, s)  BY <1>2
  <2> DEFINE M == [k \in 0..(n + 1) |->
                     IF k = n + 1 THEN View(L[n], s[n + 1].begin, s[n + 1].end) ELSE L[k]]
  <2>2. \A k \in 0..(n + 1) :
          M[k] = IF k = 0 THEN IoBuf(0, v.len, v.cap)
                          ELSE View(M[k - 1], s[k].begin, s[k].end)
    <3> SUFFICES ASSUME NEW k \in 0..(n + 1)
                 PROVE  M[k] = IF k = 0 THEN IoBuf(0, v.len, v.cap)
                                        ELSE View(M[k - 1], s[k].begin, s[k].end)
      OBVIOUS
    <3>1. CASE k = n + 1
      <4>1. M[k - 1] = L[n] /\ k # 0  BY <3>1
      <4> QED  BY <3>1, <4>1
    <3>2. CASE k # n + 1
      <4>1. k \in 0..n /\ M[k] = L[k] /\ (k # 0 => M[k - 1] = L[k - 1])  BY <3>2
      <4>2. L[k] = IF k = 0 THEN IoBuf(0, v.len, v.cap)
                            ELSE View(L[k - 1], s[k].begin, s[k].end)
        BY <2>1, <4>1 DEF Below
      <4> QED  BY <4>1, <4>2
    <3> QED  BY <3>1, <3>2
  <2>3. M = [k \in 0..(n + 1) |-> M[k]]  OBVIOUS
  <2> HIDE DEF M
  <2>4. Below(M, n + 1, v, s)  BY <2>2, <2>3 DEF Below
  <2> QED  BY <2>4
<1> HIDE DEF S
<1>3. \A n \in Nat : n \in S  BY <1>1, <1>2, Upward
<1> QED  BY <1>3 DEF S

LEMMA LevelsExist ==
  ASSUME NEW v, NEW s
  PROVE  \E L : Levels(L, v, s)
<1> DEFINE B(n) == CHOOSE L : Below(L, n, v, s)
           F == [n \in Nat |-> B(n)[n]]
<1>1. \A n \in Nat : Below(B(n), n, v, s)  BY BelowExists
<1> HIDE DEF B
<1>2. ASSUME NEW n \in Nat
      PROVE  F[n] = IF n = 0 THEN IoBuf(0, v.len, v.cap)
                             ELSE View(F[n - 1], s[n].begin, s[n].end)
  <2>1. B(n)[n] = IF n = 0 THEN IoBuf(0, v.len, v.cap)
                           ELSE View(B(n)[n - 1], s[n].begin, s[n].end)
    <3>1. Below(B(n), n, v, s) /\ n \in 0..n  BY <1>1
    <3> QED  BY <3>1 DEF Below
  <2>2. CASE n = 0  BY <2>1, <2>2
  <2>3. CASE n # 0
    <3>1. n - 1 \in Nat /\ n \in (n - 1)..((n - 1) + 1) /\ n - 1 \in 0..(n - 1)  BY <2>3
    <3>2. Below(B(n - 1), n - 1, v, s) /\ Below(B(n), n, v, s)  BY <1>1, <3>1
    <3>3. B(n - 1)[n - 1] = B(n)[n - 1]  BY <3>1, <3>2, BelowUnique
    <3>4. F[n - 1] = B(n - 1)[n - 1]  BY <3>1
    <3> QED  BY <2>1, <2>3, <3>3, <3>4
  <2> QED  BY <2>2, <2>3
<1>3. F = [n \in Nat |-> F[n]]  OBVIOUS
<1> HIDE DEF F
<1>4. Levels(F, v, s)  BY <1>2, <1>3 DEF Levels
<1> QED  BY <1>4

(* The slices, one in the other, give the levels that View says. *)
LEMMA LevelIs == Levels(Level, vec, views)
<1>1. Level = CHOOSE L : Levels(L, vec, views)  BY DEF Level, Levels
<1> QED  BY <1>1, LevelsExist

LEMMA NextLevelIs == Levels(Level', vec', views')
<1>1. Level' = CHOOSE L : Levels(L, vec', views')  BY DEF Level, Levels
<1> QED  BY <1>1, LevelsExist
-----------------------------------------------------------------------------
(***************************************************************************)
(* The inductive invariant of Buffers.  A slice of a slice lies within it; *)
(* that the outermost lies within the Vec is lost with its capacity, and   *)
(* that it begins among its initialized bytes with those bytes.            *)
(***************************************************************************)
Slices == [begin : Nat, end : Nat]

Nested(s) ==
  /\ s \in Seq(Slices)
  /\ \A n \in 1..Len(s) :
       /\ s[n].begin <= s[n].end
       /\ n = 1 => s[n].end <= MaxCapacity
       /\ n > 1 => s[n].end <= s[n - 1].end - s[n - 1].begin

BInv ==
  /\ vec \in Vecs /\ Nested(views)
  /\ "capacity" \notin lost /\ views # <<>> => views[1].end <= vec.cap
  /\ "bytes" \notin lost => Usable

(* Where a level lies does not depend on the length of the Vec. *)
Placed(L, v, s, n) ==
  /\ L[n].at \in Nat /\ L[n].bytes_init \in Int /\ L[n].bytes_total \in Nat
  /\ L[n].bytes_total = IF n = 0 THEN v.cap ELSE s[n].end - s[n].begin
  /\ n > 0 => L[n].at + L[n].bytes_total <= s[1].end /\ L[n].bytes_total <= MaxCapacity
  /\ L[n].at + L[n].bytes_init = Lesser(v.len, L[n].at + L[n].bytes_total)

LEMMA LevelZero ==
  ASSUME NEW v \in Vecs, NEW s, NEW L, Levels(L, v, s)
  PROVE  L[0].at = 0 /\ L[0].bytes_init = v.len /\ L[0].bytes_total = v.cap
BY DEF Levels, IoBuf

LEMMA LevelNext ==
  ASSUME NEW v \in Vecs, NEW s, NEW L, Levels(L, v, s), NEW n \in Nat
  PROVE  /\ L[n + 1].at = L[n].at + s[n + 1].begin
         /\ L[n + 1].bytes_init = Lesser(s[n + 1].end, L[n].bytes_init) - s[n + 1].begin
         /\ L[n + 1].bytes_total = s[n + 1].end - s[n + 1].begin
<1>1. n + 1 \in Nat /\ n + 1 # 0 /\ (n + 1) - 1 = n  OBVIOUS
<1>2. L[n + 1] = View(L[n], s[n + 1].begin, s[n + 1].end)  BY <1>1 DEF Levels
<1> QED  BY <1>2 DEF View, IoBuf

LEMMA NextAt ==
  ASSUME NEW v \in Vecs, NEW s, NEW L, Levels(L, v, s)
  PROVE  \A n \in Nat : L[n + 1].at = L[n].at + s[n + 1].begin
<1> SUFFICES ASSUME NEW n \in Nat PROVE L[n + 1].at = L[n].at + s[n + 1].begin
  OBVIOUS
<1> QED  BY LevelNext

LEMMA LevelsPlaced ==
  ASSUME NEW v \in Vecs, NEW s, NEW L, Levels(L, v, s), Nested(s)
  PROVE  \A n \in 0..Len(s) : Placed(L, v, s, n)
<1> DEFINE S == {n \in Nat : n <= Len(s) => Placed(L, v, s, n)}
<1>c. Len(s) \in Nat /\ MaxCapacity \in Nat /\ v.len \in Nat /\ v.cap \in Nat /\ v.len <= v.cap
  BY MaxCapacityType DEF Nested, Vecs
<1>1. 0 \in S
  BY <1>c, LevelZero DEF Placed, Lesser
<1>2. ASSUME NEW n \in Nat, n \in S PROVE n + 1 \in S
  <2> SUFFICES ASSUME n + 1 <= Len(s) PROVE Placed(L, v, s, n + 1)  OBVIOUS
  <2> DEFINE m == n + 1
             b == s[m].begin
             e == s[m].end
  <2>1. Placed(L, v, s, n) /\ m \in 1..Len(s) /\ m \in Nat  BY <1>2, <1>c
  <2>2. s[m] \in Slices  BY <2>1 DEF Nested
  <2>3. b \in Nat /\ e \in Nat /\ b <= e  BY <2>1, <2>2 DEF Nested, Slices
  <2>4. L[m].at = L[n].at + b /\ L[m].bytes_init = Lesser(e, L[n].bytes_init) - b
        /\ L[m].bytes_total = e - b
    BY ZenonT(30), LevelNext
  <2>5. L[n].at \in Nat /\ L[n].bytes_init \in Int /\ L[n].bytes_total \in Nat
        /\ L[n].at + L[n].bytes_init = Lesser(v.len, L[n].at + L[n].bytes_total)
    BY <2>1 DEF Placed
  <2>6. CASE n = 0
    <3>1. e <= MaxCapacity /\ m = 1  BY <2>1, <2>6 DEF Nested
    <3>2. L[n].at = 0 /\ L[n].bytes_init = v.len  BY <2>6, LevelZero
    <3> HIDE DEF b, e, m
    <3>3. /\ L[m].at = b /\ L[m].bytes_total = e - b
          /\ L[m].bytes_init = Lesser(e, v.len) - b
      BY <2>3, <2>4, <3>2
    <3>4. L[m].at + L[m].bytes_total = e /\ L[m].at + L[m].bytes_init = Lesser(v.len, e)
      BY <2>3, <3>3, <1>c DEF Lesser
    <3>5. L[m].at \in Nat /\ L[m].bytes_init \in Int /\ L[m].bytes_total \in Nat
      BY <2>3, <3>3, <1>c DEF Lesser
    <3>6. Placed(L, v, s, m)
      BY <2>3, <3>1, <3>3, <3>4, <3>5, <1>c DEF Placed, b, e
    <3> QED  BY <3>6 DEF m
  <2>7. CASE n # 0
    <3> DEFINE at == L[n].at
               init == L[n].bytes_init
               total == L[n].bytes_total
               top == s[1].end
    <3>1. e <= total
      <4>1. m > 1 /\ m - 1 = n  BY <2>7
      <4>2. e <= s[n].end - s[n].begin  BY <2>1, <4>1 DEF Nested
      <4>3. total = s[n].end - s[n].begin  BY <2>1, <2>7 DEF Placed
      <4> QED  BY <4>2, <4>3
    <3>2. at + total <= top /\ total <= MaxCapacity
      BY <2>1, <2>7 DEF Placed
    <3>3. top \in Nat
      <4>1. 1 \in 1..Len(s)  BY <1>c, <2>1
      <4>2. s[1] \in Slices  BY <4>1 DEF Nested
      <4> QED  BY <4>2 DEF Slices
    <3>4. m # 0  BY <2>1
    <3>5. at \in Nat /\ init \in Int /\ total \in Nat /\ at + init = Lesser(v.len, at + total)
      BY <2>5
    <3>6. L[m].at = at + b /\ L[m].bytes_init = Lesser(e, init) - b /\ L[m].bytes_total = e - b
      BY <2>4
    <3> HIDE DEF b, e, m, at, init, total, top
    <3>7. /\ (at + b) + (Lesser(e, init) - b) = Lesser(v.len, (at + b) + (e - b))
          /\ at + b \in Nat /\ Lesser(e, init) - b \in Int /\ e - b \in Nat
          /\ (at + b) + (e - b) <= top /\ e - b <= MaxCapacity
      BY <2>3, <3>1, <3>2, <3>3, <3>5, <1>c DEF Lesser
    <3>8. Placed(L, v, s, m)
      BY <3>4, <3>6, <3>7 DEF Placed, top, b, e
    <3> QED  BY <3>8 DEF m
  <2> QED  BY <2>6, <2>7
<1> HIDE DEF S
<1>3. \A n \in Nat : n \in S  BY <1>1, <1>2, Upward
<1> QED  BY <1>c, <1>3 DEF S

(* Each level begins in the one below. *)
LEMMA LevelsRise ==
  ASSUME NEW v \in Vecs, NEW s, NEW L, Levels(L, v, s), Nested(s)
  PROVE  \A n \in 0..Len(s) : L[n].at <= L[Len(s)].at
<1> DEFINE S == {i \in Nat : \A n \in 0..Len(s) : n + i = Len(s) => L[n].at <= L[Len(s)].at}
<1>c. Len(s) \in Nat /\ \A n \in 0..Len(s) : L[n].at \in Nat
  <2>1. Len(s) \in Nat  BY DEF Nested
  <2>2. \A n \in 0..Len(s) : Placed(L, v, s, n)  BY ZenonT(30), LevelsPlaced
  <2>3. \A n \in 0..Len(s) : L[n].at \in Nat  BY <2>2 DEF Placed
  <2> QED  BY <2>1, <2>3
<1>1. 0 \in S  BY <1>c
<1>2. ASSUME NEW i \in Nat, i \in S PROVE i + 1 \in S
  <2> SUFFICES ASSUME NEW n \in 0..Len(s), n + (i + 1) = Len(s)
               PROVE  L[n].at <= L[Len(s)].at
    OBVIOUS
  <2>1. n + 1 \in 1..Len(s) /\ (n + 1) + i = Len(s)  BY <1>c
  <2>2. L[n + 1].at <= L[Len(s)].at  BY <1>2, <1>c, <2>1
  <2>3. s[n + 1] \in Slices  BY <2>1 DEF Nested
  <2>4. n \in Nat  BY <1>c
  <2>5. L[n + 1].at = L[n].at + s[n + 1].begin  BY <2>4, LevelNext
  <2>6. L[n].at \in Nat /\ L[n + 1].at \in Nat /\ L[Len(s)].at \in Nat  BY <1>c, <2>1
  <2> QED  BY <2>2, <2>3, <2>5, <2>6 DEF Slices
<1> HIDE DEF S
<1>3. \A i \in Nat : i \in S  BY <1>1, <1>2, Upward
<1>4. ASSUME NEW n \in 0..Len(s) PROVE L[n].at <= L[Len(s)].at
  <2>1. Len(s) - n \in Nat /\ n + (Len(s) - n) = Len(s)  BY <1>c
  <2> QED  BY <1>3, <2>1 DEF S
<1> QED  BY <1>4

(* All slices are usable if the Vec reaches to where the last one begins. *)
LEMMA UsableIs ==
  ASSUME NEW v \in Vecs, NEW s, NEW L, Levels(L, v, s), Nested(s)
  PROVE  (\A n \in 0..Len(s) : L[n].bytes_init >= 0) <=> L[Len(s)].at <= v.len
<1>c. v.len \in Nat /\ Len(s) \in 0..Len(s) /\ Len(s) \in Nat  BY DEF Vecs, Nested
<1>1. ASSUME NEW n \in 0..Len(s)
      PROVE  L[n].at \in Nat /\ L[n].at <= L[Len(s)].at
             /\ (L[n].bytes_init >= 0 <=> L[n].at <= v.len)
  <2>1. Placed(L, v, s, n) /\ L[n].at <= L[Len(s)].at  BY LevelsPlaced, LevelsRise
  <2> QED  BY <1>c, <2>1 DEF Placed, Lesser
<1> QED  BY <1>1, <1>c

(* The places of slices stay when the Vec below them changes. *)
LEMMA PlacesStay ==
  ASSUME NEW v \in Vecs, NEW w \in Vecs, NEW s, NEW L, NEW M,
         Levels(L, v, s), Levels(M, w, s), Nested(s)
  PROVE  \A n \in 0..Len(s) : M[n].at = L[n].at
<1> DEFINE S == {n \in Nat : M[n].at = L[n].at}
<1>1. 0 \in S  BY LevelZero
<1>l. \A n \in Nat : L[n + 1].at = L[n].at + s[n + 1].begin  BY NextAt
<1>m. \A n \in Nat : M[n + 1].at = M[n].at + s[n + 1].begin  BY NextAt
<1>2. ASSUME NEW n \in Nat, n \in S PROVE n + 1 \in S
  <2>1. M[n].at = L[n].at  BY <1>2
  <2>2. L[n + 1].at = L[n].at + s[n + 1].begin  BY <1>l
  <2>3. M[n + 1].at = M[n].at + s[n + 1].begin  BY <1>m
  <2> QED  BY <2>1, <2>2, <2>3
<1> HIDE DEF S
<1>3. \A n \in Nat : n \in S  BY <1>1, <1>2, Upward
<1>4. Len(s) \in Nat  BY DEF Nested
<1> QED  BY <1>3, <1>4 DEF S

(* Levels depend on the slices below them only. *)
LEMMA LevelsBelow ==
  ASSUME NEW v \in Vecs, NEW s, NEW t, NEW L, NEW M, Levels(L, v, s), Levels(M, v, t),
         NEW m \in Nat, \A n \in 1..m : s[n] = t[n]
  PROVE  \A n \in 0..m : L[n] = M[n]
<1> DEFINE S == {n \in Nat : n <= m => L[n] = M[n]}
<1>1. 0 \in S  BY DEF Levels
<1>2. ASSUME NEW n \in Nat, n \in S PROVE n + 1 \in S
  <2> SUFFICES ASSUME n + 1 <= m PROVE L[n + 1] = M[n + 1]  OBVIOUS
  <2>1. L[n] = M[n] /\ s[n + 1] = t[n + 1] /\ n + 1 # 0 /\ (n + 1) - 1 = n /\ n + 1 \in Nat
    BY <1>2
  <2>2. L[n + 1] = View(L[n], s[n + 1].begin, s[n + 1].end)  BY <2>1 DEF Levels
  <2>3. M[n + 1] = View(M[n], t[n + 1].begin, t[n + 1].end)  BY <2>1 DEF Levels
  <2> QED  BY <2>1, <2>2, <2>3
<1> HIDE DEF S
<1>3. \A n \in Nat : n \in S  BY <1>1, <1>2, Upward
<1> QED  BY <1>3 DEF S
LEMMA LenViews ==
  ASSUME BInv
  PROVE  Len(views) \in Nat /\ views \in Seq(Slices)
BY DEF BInv, Nested

(* What the invariant says of the buffer that the owner has. *)
LEMMA BufferIs ==
  ASSUME BInv
  PROVE  /\ Buffer.at \in Nat /\ Buffer.bytes_init \in Int /\ Buffer.bytes_total \in 0..MaxCapacity
         /\ Buffer.at + Buffer.bytes_init = Lesser(vec.len, Buffer.at + Buffer.bytes_total)
         /\ Usable <=> Buffer.at <= vec.len
         /\ "capacity" \notin lost => Buffer.at + Buffer.bytes_total <= vec.cap
         /\ views = <<>> => Buffer = IoBuf(0, vec.len, vec.cap)
         /\ views # <<>> => Buffer.bytes_total
                              = views[Len(views)].end - views[Len(views)].begin
         /\ vec.len \in Nat /\ vec.cap \in 0..MaxCapacity /\ vec.len <= vec.cap
<1> DEFINE n == Len(views)
<1>c. /\ n \in Nat /\ vec.len \in Nat /\ vec.cap \in 0..MaxCapacity /\ vec.len <= vec.cap
      /\ vec \in Vecs /\ Nested(views) /\ (views = <<>> <=> n = 0) /\ MaxCapacity \in Nat
  <2>1. views \in Seq(Slices)  BY DEF BInv, Nested
  <2> QED  BY <2>1, EmptySeq, LenProperties, MaxCapacityType DEF BInv, Vecs
<1>1. Placed(Level, vec, views, n)
  BY <1>c, LevelIs, LevelsPlaced
<1>2. Usable <=> Level[n].at <= vec.len
  BY <1>c, LevelIs, UsableIs DEF Usable
<1>3. n = 0 => Level[n] = IoBuf(0, vec.len, vec.cap)
  BY LevelIs DEF Levels
<1>4. n > 0 => views[1].end \in Nat
  <2> SUFFICES ASSUME n > 0 PROVE views[1] \in Slices  BY DEF Slices
  <2>1. 1 \in 1..n  BY <1>c
  <2> QED  BY <1>c, <2>1 DEF Nested
<1>5. "capacity" \notin lost /\ n > 0 => views[1].end <= vec.cap
  BY <1>c DEF BInv
<1>6. n = 0 => Level[n].at = 0 /\ Level[n].bytes_total = vec.cap
  BY <1>3 DEF IoBuf
<1>7. Buffer = Level[n]  BY DEF Buffer
<1> HIDE DEF n
<1>8. "capacity" \notin lost => Buffer.at + Buffer.bytes_total <= vec.cap
  BY <1>c, <1>1, <1>4, <1>5, <1>6, <1>7 DEF Placed
<1> QED  BY <1>c, <1>1, <1>2, <1>3, <1>7, <1>8 DEF Placed, n

LEMMA NextBufferIs ==
  BInv' =>
    (/\ Buffer.at + Buffer.bytes_init = Lesser(vec.len, Buffer.at + Buffer.bytes_total)
     /\ Buffer.bytes_init \in Int /\ Buffer.bytes_total \in 0..MaxCapacity
     /\ Usable <=> Buffer.at <= vec.len
     /\ views = <<>> => Buffer = IoBuf(0, vec.len, vec.cap))'
<1>1. BInv =>
        /\ Buffer.at + Buffer.bytes_init = Lesser(vec.len, Buffer.at + Buffer.bytes_total)
        /\ Buffer.bytes_init \in Int /\ Buffer.bytes_total \in 0..MaxCapacity
        /\ Usable <=> Buffer.at <= vec.len
        /\ views = <<>> => Buffer = IoBuf(0, vec.len, vec.cap)
  BY BufferIs
<1> QED  BY <1>1, PTL

LEMMA InitBInv == Init => BInv
<1> SUFFICES ASSUME Init PROVE BInv  OBVIOUS
<1>1. vec \in Vecs /\ views = <<>>  BY DEF Init
<1>2. Nested(views)
  BY <1>1, EmptySeq DEF Nested
<1>3. Usable
  <2>1. Level[0].bytes_init = vec.len /\ vec.len \in Nat
    BY <1>1, LevelIs, LevelZero DEF Vecs
  <2>2. Len(views) = 0  BY <1>1
  <2> QED  BY <2>1, <2>2 DEF Usable
<1> QED  BY <1>1, <1>2, <1>3 DEF BInv

(* A slice that the assertions let through lies in the one below, and among  *)
(* its initialized bytes.                                                    *)
LEMMA PushKeepsBInv ==
  ASSUME BInv, NEW begin \in Nat, NEW end \in Nat, Usable, accepts(Buffer, begin, end),
         Push(begin, end), UNCHANGED <<vec, lost>>
  PROVE  BInv'
<1> DEFINE n == Len(views)
           b == [begin |-> begin, end |-> end]
<1>1. n \in Nat /\ views \in Seq(Slices) /\ b \in Slices  BY LenViews DEF Slices
<1>2. /\ views' \in Seq(Slices) /\ Len(views') = n + 1 /\ views'[n + 1] = b
      /\ \A i \in 1..n : views'[i] = views[i]
  BY <1>1, AppendProperties DEF Push
<1>3. /\ Buffer.at \in Nat /\ Buffer.bytes_init \in Int /\ Buffer.bytes_total \in 0..MaxCapacity
      /\ begin <= Buffer.bytes_init /\ end <= Buffer.bytes_total /\ begin <= end
      /\ Buffer.bytes_total
           = IF views = <<>> THEN vec.cap ELSE views[n].end - views[n].begin
      /\ MaxCapacity \in Nat
  BY BufferIs, MaxCapacityType DEF accepts, IoBuf
<1>4. Nested(views')
  <2>1. ASSUME NEW i \in 1..Len(views')
        PROVE  /\ views'[i].begin <= views'[i].end
               /\ i = 1 => views'[i].end <= MaxCapacity
               /\ i > 1 => views'[i].end <= views'[i - 1].end - views'[i - 1].begin
    <3>1. CASE i = n + 1
      <4>1. views'[i].begin = begin /\ views'[i].end = end  BY <1>2, <3>1
      <4>2. CASE n = 0  BY <1>3, <3>1, <4>1, <4>2
      <4>3. CASE n # 0
        <5>1. views # <<>> /\ views'[i - 1] = views[n]  BY <1>1, <1>2, <3>1, <4>3
        <5>2. end <= views[n].end - views[n].begin  BY <1>3, <5>1
        <5> QED  BY <1>1, <1>3, <3>1, <4>1, <4>3, <5>1, <5>2
      <4> QED  BY <4>2, <4>3
    <3>2. CASE i # n + 1
      <4>1. i \in 1..n /\ views'[i] = views[i] /\ (i > 1 => views'[i - 1] = views[i - 1])
        BY <1>1, <1>2, <3>2
      <4> QED  BY <4>1 DEF BInv, Nested
    <3> QED  BY <3>1, <3>2
  <2> QED  BY <1>2, <2>1 DEF Nested
<1>5. \A k \in 0..n : Level'[k] = Level[k]
  <2>1. Levels(Level, vec, views) /\ Levels(Level', vec, views')
    BY LevelIs, NextLevelIs
  <2>2. vec \in Vecs  BY DEF BInv
  <2>3. \A i \in 1..n : views[i] = views'[i]  BY <1>2
  <2>4. \A k \in 0..n : Level[k] = Level'[k]
    <3> DEFINE K == Level
               M == Level'
               t == views'
    <3>1. Levels(K, vec, views) /\ Levels(M, vec, t)  BY <2>1
    <3>2. \A i \in 1..n : views[i] = t[i]  BY <2>3
    <3> HIDE DEF K, M, t
    <3>3. n \in Nat  BY <1>1
    <3> HIDE DEF n
    <3>4. \A k \in 0..n : K[k] = M[k]  BY <2>2, <3>1, <3>2, <3>3, LevelsBelow
    <3> QED  BY <3>4 DEF K, M
  <2> QED  BY <2>4
<1>6. Usable'
  <2>1. Level'[n + 1].bytes_init = Lesser(end, Buffer.bytes_init) - begin
    <3>1. Levels(Level', vec', views') /\ vec' \in Vecs  BY NextLevelIs DEF BInv
    <3>2. Level'[n + 1].bytes_init
            = Lesser(views'[n + 1].end, Level'[n].bytes_init) - views'[n + 1].begin
      BY <1>1, <3>1, LevelNext
    <3>3. Level'[n] = Buffer  BY <1>1, <1>5 DEF Buffer
    <3> QED  BY <1>2, <3>2, <3>3
  <2>2. Level'[n + 1].bytes_init >= 0
    BY <1>3, <2>1 DEF Lesser
  <2>3. \A k \in 0..n : Level'[k].bytes_init >= 0
    BY <1>5 DEF Usable
  <2> QED  BY <1>1, <1>2, <2>2, <2>3 DEF Usable
<1>7. "capacity" \notin lost' => views'[1].end <= vec'.cap
  <2>1. CASE n = 0
    <3>1. views = <<>>  BY <1>1, <2>1, EmptySeq
    <3> QED  BY <1>2, <1>3, <2>1, <3>1
  <2>2. CASE n # 0
    <3>1. views # <<>> /\ views'[1] = views[1]  BY <1>1, <1>2, <2>2
    <3> QED  BY <3>1 DEF BInv
  <2> QED  BY <2>1, <2>2
<1> QED  BY <1>4, <1>6, <1>7 DEF BInv

(* The numbers in the bounds of a range *)
LEMMA BoundsIn ==
  ASSUME NEW range \in Ranges
  PROVE  /\ range.start.kind \in {"Included", "Excluded", "Unbounded"}
         /\ range.to.kind \in {"Included", "Excluded", "Unbounded"}
         /\ range.start.kind # "Unbounded" => range.start.n \in 0..MAX
         /\ range.to.kind # "Unbounded" => range.to.n \in 0..MAX
<1>1. ASSUME NEW b \in Bounds
      PROVE  /\ b.kind \in {"Included", "Excluded", "Unbounded"}
             /\ b.kind # "Unbounded" => b.n \in 0..MAX
  <2>1. CASE b \in [kind : {"Included", "Excluded"}, n : Indices]
    BY <2>1, IndicesType DEF Usize
  <2>2. CASE b = [kind |-> "Unbounded", n |-> 0]
    BY <2>2
  <2> QED  BY <2>1, <2>2 DEF Bounds
<1>2. range.start \in Bounds /\ range.to \in Bounds
  BY DEF Ranges
<1> QED  BY <1>1, <1>2

(* They give numbers to slice with. *)
LEMMA BoundsAre ==
  ASSUME BInv, Usable, NEW range \in Ranges
  PROVE  /\ begin_of(range.start) \in Nat
         /\ end_of(range.to, Buffer.bytes_init) \in Nat
<1>1. /\ range.start.kind \in {"Included", "Excluded", "Unbounded"}
      /\ range.to.kind \in {"Included", "Excluded", "Unbounded"}
      /\ range.start.kind # "Unbounded" => range.start.n \in Nat
      /\ range.to.kind # "Unbounded" => range.to.n \in Nat
  BY BoundsIn, ModulusType DEF MAX
<1>2. Buffer.bytes_init \in Nat
  BY BufferIs DEF Lesser
<1>3. range.start.kind = "Excluded" => wrapping_add(range.start.n, 1) \in Nat
  BY <1>1, ModulusType DEF wrapping_add
<1>4. begin_of(range.start) \in Nat
  BY <1>1, <1>3 DEF begin_of
<1>5. end_of(range.to, Buffer.bytes_init) \in Nat
  BY <1>1, <1>2 DEF end_of
<1> QED  BY <1>4, <1>5

(* A step of the Vec below the slices: the bytes they begin with are left. *)
LEMMA VecKeepsBInv ==
  ASSUME BInv, vec' \in Vecs, UNCHANGED views,
         "capacity" \notin lost' /\ views # <<>> =>
           "capacity" \notin lost /\ vec'.cap >= vec.cap,
         "bytes" \notin lost' => Buffer.at <= vec'.len
  PROVE  /\ BInv'
         /\ Buffer'.at = Buffer.at
         /\ views # <<>> => Buffer'.bytes_total = Buffer.bytes_total
<1>1. /\ Levels(Level, vec, views) /\ Levels(Level', vec', views)
      /\ vec \in Vecs /\ vec' \in Vecs /\ Nested(views) /\ Len(views) \in Nat
  BY LevelIs, NextLevelIs DEF BInv, Nested
<1>2. Level'[Len(views)].at = Level[Len(views)].at
  <2>1. \A n \in 0..Len(views) : Level'[n].at = Level[n].at
    BY <1>1, PlacesStay
  <2> QED  BY <1>1, <2>1
<1>3. Buffer'.at = Buffer.at
  BY <1>2 DEF Buffer
<1>4. Usable' <=> Buffer'.at <= vec'.len
  <2>1. (\A n \in 0..Len(views) : Level'[n].bytes_init >= 0) <=> Level'[Len(views)].at <= vec'.len
    BY <1>1, UsableIs
  <2> QED  BY <2>1 DEF Usable, Buffer
<1>5. "capacity" \notin lost' /\ views # <<>> => views[1].end <= vec'.cap
  <2>1. vec.cap \in Int /\ vec'.cap \in Int  BY <1>1 DEF Vecs
  <2>2. views # <<>> => views[1].end \in Int
    <3> SUFFICES ASSUME views # <<>> PROVE views[1].end \in Int  OBVIOUS
    <3>1. Len(views) # 0  BY <1>1, EmptySeq DEF Nested
    <3>2. 1 \in 1..Len(views)  BY <1>1, <3>1
    <3>3. views[1] \in Slices  BY <1>1, <3>2 DEF Nested
    <3> QED  BY <3>3 DEF Slices
  <2> QED  BY <2>1, <2>2 DEF BInv
<1>6. BInv'
  BY <1>1, <1>3, <1>4, <1>5 DEF BInv
<1>7. views # <<>> => Buffer'.bytes_total = Buffer.bytes_total
  BY <1>6, <1>1, BufferIs, LevelsPlaced, EmptySeq DEF Buffer, Placed
<1> QED  BY <1>3, <1>6, <1>7
-----------------------------------------------------------------------------
(* Each action preserves the invariant *)

LEMMA SliceKeepsBInv ==
  ASSUME BInv, NEW range \in Ranges, Slice(range) \/ SliceUnchecked(range)
  PROVE  BInv'
<1> DEFINE begin == begin_of(range.start)
           end   == end_of(range.to, Buffer.bytes_init)
<1>1. CASE UNCHANGED <<vec, views, lost>>
  BY <1>1 DEF BInv, Nested, Usable, Level
<1>2. CASE ~UNCHANGED <<vec, views, lost>>
  <2>1. Usable /\ ~OutOfRange(range) /\ accepts(Buffer, begin, end) /\ Push(begin, end)
        /\ UNCHANGED <<vec, lost>>
    BY <1>2 DEF Slice, SliceUnchecked
  <2>2. begin \in Nat /\ end \in Nat
    BY <2>1, BoundsAre
  <2> QED  BY <2>1, <2>2, PushKeepsBInv
<1> QED  BY <1>1, <1>2

LEMMA IntoInnerKeepsBInv ==
  ASSUME BInv, IntoInner
  PROVE  BInv'
<1> DEFINE n == Len(views)
<1>1. n \in Nat /\ n # 0 /\ views \in Seq(Slices)
  BY LenViews, EmptySeq DEF IntoInner
<1>2. /\ views' \in Seq(Slices) /\ Len(views') = n - 1
      /\ \A i \in 1..(n - 1) : views'[i] = views[i]
      /\ vec' = vec /\ lost' = IF n = 1 THEN {} ELSE lost
  <2> DEFINE m == n - 1
             t == SubSeq(views, 1, m)
  <2>1. m \in Int /\ 1 \in Int /\ 1 <= m + 1 /\ m - 1 + 1 = m
    BY <1>1
  <2>2. \A i \in 1..m : views[i] \in Slices /\ 1 + i - 1 = i
    BY <1>1, LenProperties, ElementOfSeq
  <2>3. /\ t \in Seq(Slices) /\ Len(t) = IF 1 <= m THEN m - 1 + 1 ELSE 0
        /\ \A i \in 1..(m - 1 + 1) : t[i] = views[1 + i - 1]
    BY <2>1, <2>2, SubSeqProperties
  <2>4. Len(t) = m  BY <1>1, <2>1, <2>3
  <2>5. \A i \in 1..m : t[i] = views[i]  BY <2>1, <2>2, <2>3
  <2> QED  BY <2>3, <2>4, <2>5 DEF IntoInner
<1>3. Nested(views')
  <2>1. ASSUME NEW i \in 1..Len(views')
        PROVE  i \in 1..n /\ views'[i] = views[i] /\ (i > 1 => views'[i - 1] = views[i - 1])
    BY <1>1, <1>2
  <2> QED  BY <1>2, <2>1 DEF BInv, Nested
<1>4. Usable /\ vec.len >= 0 => Usable'
  <2>1. Levels(Level, vec, views) /\ Levels(Level', vec, views') /\ vec \in Vecs
    BY <1>2, LevelIs, NextLevelIs DEF BInv
  <2>2. \A k \in 0..(n - 1) : Level[k] = Level'[k]
    <3> DEFINE m == n - 1
    <3>1. m \in Nat /\ \A i \in 1..m : views[i] = views'[i]  BY <1>1, <1>2
    <3> HIDE DEF m
    <3>2. \A k \in 0..m : Level[k] = Level'[k]  BY <2>1, <3>1, LevelsBelow
    <3> QED  BY <3>2 DEF m
  <2> QED  BY <1>1, <1>2, <2>2 DEF Usable
<1>5. n = 1 => Usable'
  <2>1. Level'[0].bytes_init = vec.len /\ vec.len \in Nat
    <3>1. Levels(Level', vec', views') /\ vec' \in Vecs  BY <1>2, NextLevelIs DEF BInv
    <3> QED  BY <1>2, <3>1, LevelZero DEF Vecs
  <2> QED  BY <1>2, <2>1 DEF Usable
<1>6. vec.len \in Nat  BY DEF BInv, Vecs
<1>7. "bytes" \notin lost' => Usable'
  BY <1>2, <1>4, <1>5, <1>6 DEF BInv
<1>8. "capacity" \notin lost' /\ views' # <<>> => views'[1].end <= vec'.cap
  <2> SUFFICES ASSUME "capacity" \notin lost', views' # <<>>
               PROVE  views'[1].end <= vec'.cap
    OBVIOUS
  <2>1. Len(views') # 0  BY <1>2, EmptySeq
  <2>2. n # 1 /\ 1 \in 1..(n - 1)  BY <1>1, <1>2, <2>1
  <2>3. views'[1] = views[1] /\ lost' = lost  BY <1>2, <2>2
  <2>4. views # <<>>  BY DEF IntoInner
  <2> QED  BY <1>2, <2>3, <2>4 DEF BInv
<1> QED  BY <1>2, <1>3, <1>7, <1>8 DEF BInv

(* set_init does not move the end of the Vec out of any slice. *)
LEMMA ReadKeepsBInv ==
  ASSUME BInv, NEW pos \in 0..MaxCapacity, ReadCompletes(pos)
  PROVE  BInv' /\ Usable' /\ Buffer'.bytes_init = pos
<1>1. /\ Buffer.at \in Nat /\ pos \in Nat /\ pos <= Buffer.bytes_total
      /\ Buffer.at + pos <= vec.cap /\ vec.cap \in 0..MaxCapacity
      /\ Buffer.bytes_total \in 0..MaxCapacity
      /\ views = <<>> => Buffer = IoBuf(0, vec.len, vec.cap)
      /\ MaxCapacity \in Nat
  BY BufferIs, MaxCapacityType DEF ReadCompletes
<1>2. /\ vec'.len = Buffer.at + pos /\ vec'.cap = vec.cap /\ vec' \in Vecs
      /\ views' = views /\ lost' = lost
  BY <1>1 DEF ReadCompletes, BInv, Vecs
<1>3. /\ BInv' /\ Buffer'.at = Buffer.at
      /\ views # <<>> => Buffer'.bytes_total = Buffer.bytes_total
  <2>1. "capacity" \notin lost' /\ views # <<>> => "capacity" \notin lost /\ vec'.cap >= vec.cap
    BY <1>1, <1>2
  <2>2. "bytes" \notin lost' => Buffer.at <= vec'.len
    BY <1>1, <1>2
  <2> QED  BY <1>2, <2>1, <2>2, VecKeepsBInv
<1>4. /\ Buffer'.at + Buffer'.bytes_init = Lesser(vec'.len, Buffer'.at + Buffer'.bytes_total)
      /\ Buffer'.bytes_init \in Int /\ Buffer'.bytes_total \in 0..MaxCapacity
      /\ Usable' <=> Buffer'.at <= vec'.len
      /\ views' = <<>> => Buffer' = IoBuf(0, vec'.len, vec'.cap)
  <2>1. BInv'  BY <1>3
  <2> QED  BY <2>1, NextBufferIs
<1>5. pos <= Buffer'.bytes_total
  <2>1. views = <<>> => Buffer'.bytes_total = Buffer.bytes_total
    BY <1>1, <1>2, <1>4 DEF IoBuf
  <2> QED  BY <1>1, <1>3, <2>1
<1>6. Usable' /\ Buffer'.bytes_init = pos
  BY <1>1, <1>2, <1>3, <1>4, <1>5 DEF Lesser
<1> QED  BY <1>3, <1>6

LEMMA GetMutKeepsBInv ==
  ASSUME BInv, GetMut
  PROVE  BInv'
<1>1. /\ vec' \in Vecs /\ vec \in Vecs /\ views' = views
      /\ lost' = IF views = <<>> THEN {}
                 ELSE lost \union (IF vec'.len < vec.len THEN {"bytes"} ELSE {})
                           \union (IF vec'.cap < vec.cap THEN {"capacity"} ELSE {})
  BY DEF GetMut, BInv
<1>2. vec.len \in Nat /\ vec'.len \in Nat /\ vec.cap \in Nat /\ vec'.cap \in Nat
  BY <1>1, MaxCapacityType DEF Vecs
<1>3. "capacity" \notin lost' /\ views # <<>> => "capacity" \notin lost /\ vec'.cap >= vec.cap
  BY <1>1, <1>2
<1>4. "bytes" \notin lost' => Buffer.at <= vec'.len
  <2>1. views = <<>> => Buffer.at = 0  BY BufferIs DEF IoBuf
  <2>2. "bytes" \notin lost => Buffer.at <= vec.len /\ Buffer.at \in Nat
    BY BufferIs DEF BInv
  <2> QED  BY <1>1, <1>2, <2>1, <2>2
<1> QED  BY <1>1, <1>3, <1>4, VecKeepsBInv

LEMMA NextKeepsBInv == BInv /\ [Next]_vars => BInv'
<1> SUFFICES ASSUME BInv, [Next]_vars PROVE BInv'  OBVIOUS
<1>1. CASE IntoInner  BY <1>1, IntoInnerKeepsBInv
<1>2. CASE GetMut     BY <1>2, GetMutKeepsBInv
<1>3. ASSUME NEW range \in Ranges, Slice(range) \/ SliceUnchecked(range)
      PROVE  BInv'
  BY <1>3, SliceKeepsBInv
<1>4. ASSUME NEW pos \in 0..MaxCapacity, ReadCompletes(pos)
      PROVE  BInv'
  BY <1>4, ReadKeepsBInv
<1>5. CASE UNCHANGED vars
  BY <1>5 DEF vars, BInv, Nested, Usable, Level
<1> QED  BY <1>1, <1>2, <1>3, <1>4, <1>5 DEF Next

LEMMA BuffersInvariance == Spec => []BInv
<1>1. Init => BInv  BY InitBInv
<1>2. BInv /\ [Next]_vars => BInv'  BY NextKeepsBInv
<1> QED  BY <1>1, <1>2, PTL DEF Spec

-----------------------------------------------------------------------------
(* The memory that a slice hands out lies in the Vec, however deep it is     *)
(* nested and whatever its owner does to the Vec under it.                   *)
THEOREM SlicesInVec == Spec => []ViewsInBounds
<1>1. BInv => ViewsInBounds
  <2> SUFFICES ASSUME BInv PROVE ViewsInBounds  OBVIOUS
  <2>1. "bytes" \notin lost => Usable  BY DEF BInv
  <2> QED  BY <2>1, BufferIs DEF ViewsInBounds, Lesser
<1> QED  BY <1>1, BuffersInvariance, PTL

(* A read through any slice makes the position it is told the new number of  *)
(* initialized bytes.                                                        *)
THEOREM SetInitKept == Spec => InitKept
<1>1. BInv => \A pos \in 0..MaxCapacity :
                ReadCompletes(pos) => Usable' /\ Buffer'.bytes_init = pos
  BY ReadKeepsBInv
<1> QED  BY <1>1, BuffersInvariance, PTL DEF InitKept
(***************************************************************************)
(* slice takes the bytes that its range means or panics, in numbers that   *)
(* do not wrap, for every range of words and every build.  The one bound   *)
(* that the arithmetic of the word loses is an excluded start of MAX where *)
(* overflow is not checked: such a slice begins with its buffer.           *)
(***************************************************************************)
THEOREM SliceKeepsRange == Spec => RangesKept
<1>1. ASSUME BInv, NEW range \in Ranges, Slice(range)
      PROVE  IF /\ Usable /\ StartOf(range) <= Buffer.bytes_init
                /\ StartOf(range) <= LimitOf(range) /\ LimitOf(range) <= Buffer.bytes_total
               THEN ~panicked' /\ Push(StartOf(range), LimitOf(range))
               ELSE panicked'
  <2> DEFINE begin == begin_of(range.start)
             end   == end_of(range.to, Buffer.bytes_init)
             start == StartOf(range)
             limit == LimitOf(range)
             meant == Usable /\ start <= Buffer.bytes_init /\ start <= limit
                        /\ limit <= Buffer.bytes_total
  <2>1. Usable => /\ Buffer.bytes_init \in 0..MaxCapacity /\ Buffer.bytes_total \in 0..MaxCapacity
                  /\ MaxCapacity < MAX /\ MAX \in Nat /\ MaxCapacity \in Nat
    <3>1. MaxCapacity \in Nat /\ Modulus \in Nat /\ MaxCapacity <= Modulus \div 2 - 1
      BY MaxCapacityType, ModulusType DEF IsizeMax
    <3>2. MaxCapacity < Modulus - 1  BY <3>1
    <3> QED  BY <1>1, <3>1, <3>2, BufferIs DEF MAX, Lesser
  <2>2. /\ range.start.kind \in {"Included", "Excluded", "Unbounded"}
        /\ range.to.kind \in {"Included", "Excluded", "Unbounded"}
        /\ range.start.kind # "Unbounded" => range.start.n \in 0..MAX
        /\ range.to.kind # "Unbounded" => range.to.n \in 0..MAX
    BY <1>1, BoundsIn
  <2>3. limit = end
    BY <2>2 DEF LimitOf, end_of
  <2>4. ~OutOfRange(range) => begin = start
    <3>1. CASE range.start.kind = "Excluded" /\ range.start.n = MAX
      <4>1. FirstOf(range) = Modulus /\ ~Fits(FirstOf(range)) /\ begin = 0
        BY <3>1, ModulusType DEF FirstOf, Fits, MAX, begin_of, wrapping_add
      <4>2. ~OutOfRange(range) => ~checks
        BY <3>1 DEF OutOfRange
      <4> QED  BY <4>1, <4>2 DEF StartOf
    <3>2. CASE ~(range.start.kind = "Excluded" /\ range.start.n = MAX)
      <4>1. FirstOf(range) = begin
        BY <2>2, <3>2, ModulusType DEF FirstOf, begin_of, wrapping_add, MAX
      <4>2. Fits(FirstOf(range))
        BY <2>2, <3>2, ModulusType DEF FirstOf, Fits, MAX
      <4> QED  BY <4>1, <4>2 DEF StartOf
    <3> QED  BY <3>1, <3>2
  <2>5. OutOfRange(range) => ~meant
    <3>1. CASE checks /\ range.start.kind = "Excluded" /\ range.start.n = MAX
      <4>1. start = Modulus /\ Modulus \in Nat
        BY <3>1, ModulusType DEF StartOf, FirstOf, MAX
      <4> QED  BY <2>1, <4>1 DEF MAX
    <3>2. CASE ~Fits(end_of(range.to, 0))
      BY <2>1, <2>2, <3>2 DEF LimitOf, end_of, Fits
    <3> QED  BY <3>1, <3>2 DEF OutOfRange
  <2>6. ~OutOfRange(range) => (Usable /\ accepts(Buffer, begin, end) <=> meant)
    BY <2>3, <2>4 DEF accepts
  <2>7. ~panicked
    BY <1>1 DEF Slice
  <2> HIDE DEF meant
  <2>8. CASE meant
    <3>1. Usable /\ ~OutOfRange(range) /\ accepts(Buffer, begin, end)  BY <2>5, <2>6, <2>8
    <3>2. Push(begin, end) /\ UNCHANGED panicked  BY <1>1, <3>1 DEF Slice
    <3>3. ~panicked' /\ Push(start, limit)  BY <2>3, <2>4, <2>7, <3>1, <3>2
    <3> QED  BY <2>8, <3>3 DEF meant
  <2>9. CASE ~meant
    <3>1. panicked'  BY <1>1, <2>6, <2>9 DEF Slice
    <3> QED  BY <2>9, <3>1 DEF meant
  <2> QED  BY <2>8, <2>9
<1>2. BInv =>
        \A range \in Ranges :
          Slice(range) =>
            IF /\ Usable /\ StartOf(range) <= Buffer.bytes_init
               /\ StartOf(range) <= LimitOf(range) /\ LimitOf(range) <= Buffer.bytes_total
              THEN ~panicked' /\ Push(StartOf(range), LimitOf(range))
              ELSE panicked'
  BY <1>1
<1> QED  BY <1>2, BuffersInvariance, PTL DEF RangesKept
=============================================================================
