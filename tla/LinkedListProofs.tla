--------------------------- MODULE LinkedListProofs ---------------------------
(***************************************************************************)
(* Proofs about LinkedList: every call keeps the pointers of all nodes and *)
(* lists consistent, for any number of them.                               *)
(***************************************************************************)
EXTENDS LinkedList, SequenceTheorems, TLAPS

Contents == [Lists -> Seq(Nodes)]

-----------------------------------------------------------------------------
(* Sequences *)

(* What <<n>> \o c is, element by element. *)
LEMMA PrependElements ==
  ASSUME NEW c \in Seq(Nodes), NEW n \in Nodes
  PROVE  LET d == <<n>> \o c IN
         /\ d \in Seq(Nodes) /\ Len(d) = Len(c) + 1
         /\ \A j \in 1..(Len(c) + 1) : d[j] = IF j = 1 THEN n ELSE c[j - 1]
<1>1. <<n>> \in Seq(Nodes) /\ Len(<<n>>) = 1 /\ <<n>>[1] = n
  OBVIOUS
<1>2. Len(c) \in Nat
  OBVIOUS
<1> QED  BY <1>1, <1>2, ConcatProperties, Z3

(* What RemoveFirst does to a sequence whose elements are distinct. *)
LEMMA RemoveElements ==
  ASSUME NEW c \in Seq(Nodes), NEW i \in 1..Len(c),
         \A j, k \in 1..Len(c) : c[j] = c[k] => j = k
  PROVE  LET d == RemoveFirst(c, c[i]) IN
         /\ d \in Seq(Nodes) /\ Len(d) = Len(c) - 1
         /\ \A j \in 1..(Len(c) - 1) : d[j] = IF j < i THEN c[j] ELSE c[j + 1]
<1> DEFINE a == SubSeq(c, 1, i - 1)
           b == SubSeq(c, i + 1, Len(c))
<1>1. SelectInSeq(c, LAMBDA v : v = c[i]) = i
  <2> DEFINE I == {j \in 1..Len(c) : c[j] = c[i]}
  <2>1. I = {i}
    OBVIOUS
  <2>2. Min(I) = i
    BY <2>1 DEF Min
  <2> QED  BY <2>1, <2>2 DEF SelectInSeq
<1>2. RemoveFirst(c, c[i]) = a \o b
  BY <1>1 DEF RemoveFirst, RemoveAt
<1>3. Len(c) \in Nat /\ i \in Nat /\ 1 <= i /\ i <= Len(c)
  OBVIOUS
<1>4. /\ a \in Seq(Nodes) /\ Len(a) = i - 1
      /\ \A j \in 1..(i - 1) : a[j] = c[j]
  <2>1. \A j \in 1..(i - 1) : c[j] \in Nodes
    BY <1>3
  <2> QED  BY <1>3, <2>1, SubSeqProperties
<1>5. /\ b \in Seq(Nodes) /\ Len(b) = Len(c) - i
      /\ \A j \in 1..(Len(c) - i) : b[j] = c[i + j]
  <2>1. \A j \in (i + 1)..Len(c) : c[j] \in Nodes
    BY <1>3
  <2>2. /\ b \in Seq(Nodes)
        /\ Len(b) = IF i + 1 <= Len(c) THEN Len(c) - (i + 1) + 1 ELSE 0
        /\ \A j \in 1..(Len(c) - (i + 1) + 1) : b[j] = c[(i + 1) + j - 1]
    BY <1>3, <2>1, SubSeqProperties
  <2> QED  BY <1>3, <2>2
<1> HIDE DEF a, b
<1>6. /\ a \o b \in Seq(Nodes) /\ Len(a \o b) = Len(c) - 1
      /\ \A j \in 1..(Len(c) - 1) : (a \o b)[j] = IF j <= i - 1 THEN a[j] ELSE b[j - (i - 1)]
  <2>1. Len(a) + Len(b) = Len(c) - 1
    BY <1>3, <1>4, <1>5
  <2>2. /\ a \o b \in Seq(Nodes) /\ Len(a \o b) = Len(a) + Len(b)
        /\ \A j \in 1..(Len(a) + Len(b)) :
             (a \o b)[j] = IF j <= Len(a) THEN a[j] ELSE b[j - Len(a)]
    <3>1. a \in Seq(Nodes) /\ b \in Seq(Nodes)
      BY <1>4, <1>5
    <3> QED  BY ONLY <3>1, ConcatProperties, Zenon
  <2> QED  BY <1>4, <2>1, <2>2
<1>7. ASSUME NEW j \in 1..(Len(c) - 1)
      PROVE  (a \o b)[j] = IF j < i THEN c[j] ELSE c[j + 1]
  <2>1. CASE j < i
    BY <1>3, <1>4, <1>6, <2>1
  <2>2. CASE ~(j < i)
    <3>1. j - (i - 1) \in 1..(Len(c) - i) /\ i + (j - (i - 1)) = j + 1
      BY <1>3, <2>2
    <3> QED  BY <1>3, <1>5, <1>6, <2>2, <3>1
  <2> QED  BY <2>1, <2>2
<1> QED  BY <1>2, <1>6, <1>7

-----------------------------------------------------------------------------
(* Calls that keep a consistent store consistent *)

(* The store and the pointers of a call that gives a list a new head. *)
LEMMA PushFrontPointers ==
  ASSUME NEW s \in Store, NEW l \in Lists, NEW n \in Nodes, s.head[l] # n
  PROVE  LET t == push_front(s, l, n)
             h == s.head[l]
         IN
         /\ t \in Store
         /\ \A m \in Lists : /\ t.head[m] = IF m = l THEN n ELSE s.head[m]
                            /\ t.tail[m] = IF m = l /\ s.tail[l] = Nil THEN n ELSE s.tail[m]
         /\ \A x \in Nodes : /\ t.next[x] = IF x = n THEN h ELSE s.next[x]
                            /\ t.prev[x] = IF x = n THEN Nil ELSE IF x = h THEN n ELSE s.prev[x]
<1> DEFINE h == s.head[l]
           a == [s EXCEPT !.next[n] = h, !.prev[n] = Nil]
           b == IF h = Nil THEN a ELSE [a EXCEPT !.prev[h] = n]
           t == [b EXCEPT !.head[l] = n, !.tail[l] = IF @ = Nil THEN n ELSE @]
<1>1. push_front(s, l, n) = t
  BY DEF push_front, Store
<1>2. /\ h \in Pointer
      /\ a \in Store /\ a.head = s.head /\ a.tail = s.tail
      /\ a.next = [s.next EXCEPT ![n] = h] /\ a.prev = [s.prev EXCEPT ![n] = Nil]
  BY DEF Store, Pointer
<1> HIDE DEF a
<1>3. /\ b \in Store /\ b.head = s.head /\ b.tail = s.tail
      /\ b.next = [s.next EXCEPT ![n] = h]
      /\ \A x \in Nodes : b.prev[x] = IF x = n THEN Nil ELSE IF x = h THEN n ELSE s.prev[x]
  <2>1. CASE h = Nil
    BY <1>2, <2>1, NilType DEF Store, Pointer
  <2>2. CASE h # Nil
    BY <1>2, <2>2, NilType DEF Store, Pointer
  <2> QED  BY <2>1, <2>2
<1> HIDE DEF b
<1>4. /\ t \in Store /\ t.next = b.next /\ t.prev = b.prev
      /\ t.head = [b.head EXCEPT ![l] = n]
      /\ t.tail = [b.tail EXCEPT ![l] = IF @ = Nil THEN n ELSE @]
  BY <1>3 DEF Store, Pointer
<1> HIDE DEF t
<1> QED
  BY <1>1, <1>2, <1>3, <1>4 DEF Store

(* The store and the pointers of a call that unlinks a node of a list. *)
LEMMA RemovePointers ==
  ASSUME NEW s \in Store, NEW l \in Lists, NEW n \in Nodes,
         s.prev[n] = Nil => s.head[l] = n, s.next[n] = Nil => s.tail[l] = n,
         s.prev[n] # n, s.next[n] # n,
         s.prev[n] = s.next[n] => s.prev[n] = Nil
  PROVE  LET r == remove(s, l, n)
             t == r.store
             p == s.prev[n]
             q == s.next[n]
         IN
         /\ r.item = n /\ t \in Store
         /\ \A m \in Lists : /\ t.head[m] = IF m = l /\ p = Nil THEN q ELSE s.head[m]
                            /\ t.tail[m] = IF m = l /\ q = Nil THEN p ELSE s.tail[m]
         /\ \A x \in Nodes : /\ t.next[x] = IF x = n THEN Nil ELSE IF x = p THEN q ELSE s.next[x]
                            /\ t.prev[x] = IF x = n THEN Nil ELSE IF x = q THEN p ELSE s.prev[x]
<1> DEFINE p == s.prev[n]
           q == s.next[n]
           a == IF p = Nil THEN [s EXCEPT !.head[l] = q] ELSE [s EXCEPT !.next[p] = q]
           b == IF q = Nil THEN [a EXCEPT !.tail[l] = p] ELSE [a EXCEPT !.prev[q] = p]
           t == [b EXCEPT !.prev[n] = Nil, !.next[n] = Nil]
<1>1. p \in Pointer /\ q \in Pointer
  BY DEF Store
<1>2. /\ a \in Store /\ a.tail = s.tail /\ a.prev = s.prev
      /\ a.next[n] = q
      /\ \A m \in Lists : a.head[m] = IF m = l /\ p = Nil THEN q ELSE s.head[m]
      /\ \A x \in Nodes : a.next[x] = IF x = p THEN q ELSE s.next[x]
  <2>1. CASE p = Nil
    BY <1>1, <2>1, NilType DEF Store, Pointer
  <2>2. CASE p # Nil
    BY <1>1, <2>2 DEF Store, Pointer
  <2> QED  BY <2>1, <2>2
<1>3. remove(s, l, n) = Result(t, n)
  <2> DEFINE c == IF a.next[n] = Nil THEN [a EXCEPT !.tail[l] = a.prev[n]]
                                     ELSE [a EXCEPT !.prev[a.next[n]] = a.prev[n]]
  <2>1. remove(s, l, n) =
          IF s.prev[n] = Nil /\ s.head[l] # n THEN Result(s, Nil)
          ELSE IF a.next[n] = Nil /\ a.tail[l] # n THEN Result(a, Nil)
          ELSE Result(Unlinked(c, n), n)
    BY Zenon DEF remove
  <2>2. a.next[n] = q /\ a.prev[n] = p /\ a.tail[l] = s.tail[l]
    BY <1>2
  <2> HIDE DEF a
  <2>3. c = b
    BY <2>2
  <2>4. Unlinked(c, n) = t
    BY <2>3 DEF Unlinked
  <2> HIDE DEF c, t
  <2> QED  BY <2>1, <2>2, <2>4
<1> HIDE DEF a
<1>4. /\ b \in Store /\ b.head = a.head /\ b.next = a.next
      /\ \A m \in Lists : b.tail[m] = IF m = l /\ q = Nil THEN p ELSE s.tail[m]
      /\ \A x \in Nodes : b.prev[x] = IF x = q THEN p ELSE s.prev[x]
  <2>1. CASE q = Nil
    BY <1>1, <1>2, <2>1, NilType DEF Store, Pointer
  <2>2. CASE q # Nil
    BY <1>1, <1>2, <2>2 DEF Store, Pointer
  <2> QED  BY <2>1, <2>2
<1> HIDE DEF b
<1>5. /\ t \in Store /\ t.head = b.head /\ t.tail = b.tail
      /\ t.next = [b.next EXCEPT ![n] = Nil] /\ t.prev = [b.prev EXCEPT ![n] = Nil]
  BY <1>4 DEF Store, Pointer
<1> HIDE DEF t
<1> QED
  BY <1>2, <1>3, <1>4, <1>5 DEF Store, Result

(* A node is at one place of one list, and its pointers are its neighbours there. *)
LEMMA Position ==
  ASSUME NEW s \in Store, NEW c \in Contents, Linked(s, c),
         NEW l \in Lists, NEW i \in 1..Len(c[l])
  PROVE  /\ c[l] \in Seq(Nodes) /\ Len(c[l]) \in Nat /\ c[l][i] \in Nodes
         /\ s.prev[c[l][i]] = IF i = 1 THEN Nil ELSE c[l][i - 1]
         /\ s.next[c[l][i]] = IF i = Len(c[l]) THEN Nil ELSE c[l][i + 1]
         /\ s.head[l] = c[l][1] /\ s.tail[l] = c[l][Len(c[l])]
         /\ \A m \in Lists : \A j \in 1..Len(c[m]) : c[m][j] = c[l][i] => m = l /\ j = i
<1>1. c[l] \in Seq(Nodes) /\ Len(c[l]) \in Nat /\ c[l][i] \in Nodes /\ c[l] # <<>>
  BY DEF Contents
<1>2. Represents(s, l, c[l])
  BY DEF Linked
<1>3. \A m \in Lists : \A j \in 1..Len(c[m]) : c[m][j] = c[l][i] => m = l /\ j = i
  <2> SUFFICES ASSUME NEW m \in Lists, NEW j \in 1..Len(c[m]), c[m][j] = c[l][i]
               PROVE  m = l /\ j = i
    OBVIOUS
  <2>1. In(c[m], c[l][i]) /\ In(c[l], c[l][i])
    BY DEF In
  <2>2. m = l
    BY <1>1, <2>1 DEF Linked
  <2> QED  BY <1>2, <2>2 DEF Represents
<1> QED  BY <1>1, <1>2, <1>3 DEF Represents

(* push_front of a node that is in no list puts it before all others. *)
LEMMA PushFrontLinked ==
  ASSUME NEW s \in Store, NEW c \in Contents, Linked(s, c),
         NEW l \in Lists, NEW n \in Nodes, \A m \in Lists : ~In(c[m], n)
  PROVE  LET t == push_front(s, l, n)
             d == [c EXCEPT ![l] = <<n>> \o @]
         IN  ~push_front_panics(s, l, n) /\ t \in Store /\ d \in Contents /\ Linked(t, d)
<1> DEFINE t == push_front(s, l, n)
           d == [c EXCEPT ![l] = <<n>> \o @]
           h == s.head[l]
<1>1. /\ c[l] \in Seq(Nodes) /\ Len(c[l]) \in Nat /\ Represents(s, l, c[l])
      /\ h = IF c[l] = <<>> THEN Nil ELSE c[l][1]
      /\ s.tail[l] = IF c[l] = <<>> THEN Nil ELSE c[l][Len(c[l])]
  BY DEF Contents, Linked, Represents
<1>2. h # n
  BY <1>1, NilType DEF In
<1>3. /\ t \in Store
      /\ \A m \in Lists : /\ t.head[m] = IF m = l THEN n ELSE s.head[m]
                         /\ t.tail[m] = IF m = l /\ s.tail[l] = Nil THEN n ELSE s.tail[m]
      /\ \A x \in Nodes : /\ t.next[x] = IF x = n THEN h ELSE s.next[x]
                         /\ t.prev[x] = IF x = n THEN Nil ELSE IF x = h THEN n ELSE s.prev[x]
  BY <1>2, PushFrontPointers
<1>4. /\ d \in Contents /\ Len(d[l]) = Len(c[l]) + 1
      /\ \A i \in 1..(Len(c[l]) + 1) : d[l][i] = IF i = 1 THEN n ELSE c[l][i - 1]
      /\ \A m \in Lists \ {l} : d[m] = c[m]
  <2>1. d[l] = <<n>> \o c[l] /\ \A m \in Lists \ {l} : d[m] = c[m]
    BY DEF Contents
  <2>2. /\ d[l] \in Seq(Nodes) /\ Len(d[l]) = Len(c[l]) + 1
        /\ \A i \in 1..(Len(c[l]) + 1) : d[l][i] = IF i = 1 THEN n ELSE c[l][i - 1]
    BY <1>1, <2>1, PrependElements
  <2>3. d \in Contents
    BY <2>1, <2>2 DEF Contents
  <2> QED  BY <2>1, <2>2, <2>3
<1> HIDE DEF t, d
<1>5. \A x \in Nodes : In(d[l], x) <=> x = n \/ In(c[l], x)
  <2> TAKE x \in Nodes
  <2>1. ASSUME In(d[l], x), x # n  PROVE In(c[l], x)
    <3>1. PICK i \in 1..(Len(c[l]) + 1) : d[l][i] = x
      BY <1>4, <2>1 DEF In
    <3>2. i - 1 \in 1..Len(c[l]) /\ c[l][i - 1] = x
      BY <1>1, <1>4, <2>1, <3>1
    <3> QED  BY <3>2 DEF In
  <2>2. ASSUME In(c[l], x)  PROVE In(d[l], x)
    <3>1. PICK i \in 1..Len(c[l]) : c[l][i] = x
      BY <2>2 DEF In
    <3>2. i + 1 \in 1..(Len(c[l]) + 1) /\ i + 1 # 1 /\ (i + 1) - 1 = i
      BY <1>1, <3>1
    <3>3. d[l][i + 1] = x
      BY <1>4, <3>1, <3>2
    <3> QED  BY <1>4, <3>2, <3>3 DEF In
  <2>3. In(d[l], n)
    <3>1. 1 \in 1..(Len(c[l]) + 1)
      BY <1>1
    <3> QED  BY <1>4, <3>1 DEF In
  <2> QED  BY <2>1, <2>2, <2>3
<1>6. Represents(t, l, d[l])
  <2>1. \A i \in 1..Len(c[l]) :
          /\ c[l][i] \in Nodes /\ c[l][i] # n
          /\ s.prev[c[l][i]] = IF i = 1 THEN Nil ELSE c[l][i - 1]
          /\ s.next[c[l][i]] = IF i = Len(c[l]) THEN Nil ELSE c[l][i + 1]
          /\ c[l][i] = h => i = 1
          /\ \A j \in 1..Len(c[l]) : c[l][i] = c[l][j] => i = j
          /\ h = c[l][1] /\ s.tail[l] = c[l][Len(c[l])]
    BY <1>1, Position DEF In
  <2>2. \A i \in 1..Len(d[l]) : i # 1 => i - 1 \in 1..Len(c[l]) /\ d[l][i] = c[l][i - 1]
    <3> TAKE i \in 1..Len(d[l])
    <3> QED  BY <1>1, <1>4
  <2>3. ASSUME NEW i \in 1..Len(d[l]), NEW j \in 1..Len(d[l]), d[l][i] = d[l][j]
        PROVE  i = j
    <3>1. /\ i = 1 => d[l][i] = n
          /\ j = 1 => d[l][j] = n
      BY <1>1, <1>4
    <3>2. CASE i = 1 \/ j = 1
      <4>1. CASE i = 1 /\ j = 1
        BY <4>1
      <4>2. CASE i = 1 /\ j # 1
        BY <2>1, <2>2, <2>3, <3>1, <4>2
      <4>3. CASE i # 1 /\ j = 1
        BY <2>1, <2>2, <2>3, <3>1, <4>3
      <4> QED  BY <3>2, <4>1, <4>2, <4>3
    <3>3. CASE i # 1 /\ j # 1
      <4>1. i - 1 = j - 1
        BY <2>1, <2>2, <2>3, <3>3
      <4> QED  BY <1>1, <1>4, <4>1
    <3> QED  BY <3>2, <3>3
  <2>4. d[l] # <<>> /\ t.head[l] = d[l][1]
    BY <1>1, <1>3, <1>4
  <2>5. t.tail[l] = d[l][Len(d[l])]
    BY <1>1, <1>3, <1>4, <2>1, NilType
  <2>6. ASSUME NEW i \in 1..Len(d[l])
        PROVE  /\ t.prev[d[l][i]] = IF i = 1 THEN Nil ELSE d[l][i - 1]
               /\ t.next[d[l][i]] = IF i = Len(d[l]) THEN Nil ELSE d[l][i + 1]
    <3>1. CASE i = 1
      <4>1. d[l][i] = n /\ t.prev[n] = Nil /\ t.next[n] = h
        BY <1>1, <1>3, <1>4, <3>1
      <4>2. CASE Len(c[l]) = 0
        BY <1>1, <1>4, <3>1, <4>1, <4>2
      <4>3. CASE Len(c[l]) # 0
        <5>1. 2 \in 1..(Len(c[l]) + 1) /\ 2 - 1 = 1 /\ c[l] # <<>>
          BY <1>1, <4>3
        <5>2. d[l][2] = h /\ Len(d[l]) # 1
          BY <1>1, <1>4, <4>3, <5>1
        <5> QED  BY <3>1, <4>1, <5>2
      <4> QED  BY <4>2, <4>3
    <3>2. CASE i # 1
      <4>1. PICK k \in 1..Len(c[l]) : i = k + 1
        BY <1>1, <1>4, <3>2
      <4>2. d[l][i] = c[l][k] /\ k \in Nat /\ k >= 1 /\ k <= Len(c[l])
        BY <1>1, <1>4, <4>1
      <4>3. t.prev[c[l][k]] = IF k = 1 THEN n ELSE c[l][k - 1]
        <5>1. CASE k = 1
          BY <1>3, <2>1, <4>1, <5>1
        <5>2. CASE k # 1
          BY ZenonT(60), <1>3, <2>1, <4>1, <5>2
        <5> QED  BY <5>1, <5>2
      <4>4. t.next[c[l][k]] = IF k = Len(c[l]) THEN Nil ELSE c[l][k + 1]
        <5>1. c[l][k] \in Nodes /\ c[l][k] # n
          BY <2>1, <4>1
        <5>2. t.next[c[l][k]] = s.next[c[l][k]]
          BY <1>3, <5>1
        <5> QED  BY <2>1, <4>1, <5>2
      <4>5. d[l][i - 1] = IF k = 1 THEN n ELSE c[l][k - 1]
        <5>1. i - 1 = k /\ k \in 1..(Len(c[l]) + 1)
          BY <1>1, <4>1, <4>2
        <5> QED  BY <1>4, <5>1
      <4>6. k # Len(c[l]) => d[l][i + 1] = c[l][k + 1]
        <5>1. k # Len(c[l]) => i + 1 \in 1..(Len(c[l]) + 1) /\ (i + 1) - 1 = k + 1 /\ i + 1 # 1
          BY <1>1, <4>1, <4>2
        <5> QED  BY <1>4, <5>1
      <4>7. i = Len(d[l]) <=> k = Len(c[l])
        BY <1>1, <1>4, <4>1, <4>2
      <4> QED  BY <3>2, <4>2, <4>3, <4>4, <4>5, <4>6, <4>7
    <3> QED  BY <3>1, <3>2
  <2> QED  BY <2>3, <2>4, <2>5, <2>6 DEF Represents
<1>7. ASSUME NEW m \in Lists, m # l
      PROVE  Represents(t, m, d[m])
  <2>1. d[m] = c[m] /\ Represents(s, m, c[m]) /\ c[m] \in Seq(Nodes)
    BY <1>4, <1>7 DEF Linked, Contents
  <2>2. \A i \in 1..Len(c[m]) : c[m][i] \in Nodes /\ c[m][i] # n /\ c[m][i] # h
    <3> TAKE i \in 1..Len(c[m])
    <3>1. c[m][i] # n /\ c[m][i] \in Nodes
      BY <2>1 DEF In
    <3>2. c[l] # <<>> => 1 \in 1..Len(c[l])
      BY <1>1
    <3>3. c[m][i] # h
      BY <1>1, <1>7, <3>1, <3>2, Position, NilType
    <3> QED  BY <3>1, <3>3
  <2> QED  BY <1>3, <1>7, <2>1, <2>2 DEF Represents
<1>8. \A k, m \in Lists : \A x \in Nodes : In(d[k], x) /\ In(d[m], x) => k = m
  BY <1>4, <1>5 DEF Linked
<1>9. ASSUME NEW x \in Nodes, \A m \in Lists : ~In(d[m], x)
      PROVE  Free(t, x)
  <2>1. x # n /\ \A m \in Lists : ~In(c[m], x)
    BY <1>4, <1>5, <1>9
  <2>2. x # h
    BY <1>1, <2>1, NilType DEF In
  <2> QED  BY <1>3, <2>1, <2>2 DEF Linked, Free
<1>10. Linked(t, d)
  BY <1>6, <1>7, <1>8, <1>9 DEF Linked
<1> QED  BY <1>2, <1>3, <1>4, <1>10 DEF push_front_panics, t, d

(* remove of a node of the list unlinks it and leaves all others in their order. *)
LEMMA RemoveLinked ==
  ASSUME NEW s \in Store, NEW c \in Contents, Linked(s, c),
         NEW l \in Lists, NEW i \in 1..Len(c[l])
  PROVE  LET n == c[l][i]
             r == remove(s, l, n)
             d == [c EXCEPT ![l] = RemoveFirst(@, n)]
         IN  /\ ~remove_panics(s, l, n) /\ r.item = n
             /\ r.store \in Store /\ d \in Contents /\ Linked(r.store, d)
<1> DEFINE n == c[l][i]
           e == Len(c[l])
           t == remove(s, l, n).store
           d == [c EXCEPT ![l] = RemoveFirst(@, n)]
           p == s.prev[n]
           q == s.next[n]
<1>1. /\ c[l] \in Seq(Nodes) /\ e \in Nat /\ i \in Nat /\ 1 <= i /\ i <= e /\ n \in Nodes
      /\ p = IF i = 1 THEN Nil ELSE c[l][i - 1]
      /\ q = IF i = e THEN Nil ELSE c[l][i + 1]
      /\ s.head[l] = c[l][1] /\ s.tail[l] = c[l][e]
  BY SMTT(30), Position
<1>0. e \in Nat /\ i \in Nat /\ 1 <= i /\ i <= e
  BY <1>1
<1>2. \A j \in 1..e :
        /\ c[l][j] \in Nodes
        /\ s.prev[c[l][j]] = IF j = 1 THEN Nil ELSE c[l][j - 1]
        /\ s.next[c[l][j]] = IF j = e THEN Nil ELSE c[l][j + 1]
        /\ \A k \in 1..e : c[l][j] = c[l][k] => j = k
        /\ \A m \in Lists \ {l} : ~In(c[m], c[l][j])
  BY Position DEF In
<1>3. /\ i # 1 => i - 1 \in 1..e /\ p = c[l][i - 1] /\ p \in Nodes /\ p # n
      /\ i # e => i + 1 \in 1..e /\ q = c[l][i + 1] /\ q \in Nodes /\ q # n
      /\ i = 1 => p = Nil
      /\ i = e => q = Nil
      /\ i # 1 /\ i # e => p # q
  <2>1. i # 1 => i - 1 \in 1..e
    BY <1>1
  <2>2. i # e => i + 1 \in 1..e
    BY <1>1
  <2> QED  BY <1>1, <1>2, <2>1, <2>2
<1>4. /\ p = Nil <=> i = 1
      /\ q = Nil <=> i = e
  BY <1>3, NilType
<1>5. /\ remove(s, l, n).item = n /\ t \in Store
      /\ \A m \in Lists : /\ t.head[m] = IF m = l /\ p = Nil THEN q ELSE s.head[m]
                         /\ t.tail[m] = IF m = l /\ q = Nil THEN p ELSE s.tail[m]
      /\ \A x \in Nodes : /\ t.next[x] = IF x = n THEN Nil ELSE IF x = p THEN q ELSE s.next[x]
                         /\ t.prev[x] = IF x = n THEN Nil ELSE IF x = q THEN p ELSE s.prev[x]
  <2>1. p # n /\ q # n /\ (p = q => p = Nil)
    BY <1>1, <1>3, <1>4, NilType
  <2>2. (p = Nil => s.head[l] = n) /\ (q = Nil => s.tail[l] = n)
    BY <1>1, <1>4
  <2> HIDE DEF n
  <2> QED  BY SMTT(30), <1>1, <2>1, <2>2, RemovePointers
<1>6. ~remove_panics(s, l, n)
  <2>1. i # 1 => s.next[p] = n
    BY <1>1, <1>2, <1>3
  <2>2. i # e => s.prev[q] = n
    BY <1>1, <1>2, <1>3
  <2> QED  BY <1>4, <2>1, <2>2 DEF remove_panics
<1>7. /\ d \in Contents /\ Len(d[l]) = e - 1
      /\ \A j \in 1..(e - 1) : d[l][j] = IF j < i THEN c[l][j] ELSE c[l][j + 1]
      /\ \A m \in Lists \ {l} : d[m] = c[m]
  <2>1. d[l] = RemoveFirst(c[l], n) /\ \A m \in Lists \ {l} : d[m] = c[m]
    BY DEF Contents
  <2>2. /\ d[l] \in Seq(Nodes) /\ Len(d[l]) = e - 1
        /\ \A j \in 1..(e - 1) : d[l][j] = IF j < i THEN c[l][j] ELSE c[l][j + 1]
    <3>1. \A j, k \in 1..Len(c[l]) : c[l][j] = c[l][k] => j = k
      BY <1>2
    <3>2. c[l] \in Seq(Nodes)
      BY <1>1
    <3>3. LET r == RemoveFirst(c[l], c[l][i]) IN
          /\ r \in Seq(Nodes) /\ Len(r) = Len(c[l]) - 1
          /\ \A j \in 1..(Len(c[l]) - 1) : r[j] = IF j < i THEN c[l][j] ELSE c[l][j + 1]
      BY <3>1, <3>2, RemoveElements, Zenon
    <3> HIDE DEF d
    <3>4. d[l] = RemoveFirst(c[l], c[l][i])
      BY <2>1
    <3> QED  BY <3>3, <3>4
  <2>3. d \in Contents
    BY <2>1, <2>2 DEF Contents
  <2> QED  BY <2>1, <2>2, <2>3
<1> HIDE DEF n, t, d, p, q, e
<1>8. \A x \in Nodes : In(d[l], x) <=> x # n /\ In(c[l], x)
  <2> TAKE x \in Nodes
  <2>1. ASSUME In(d[l], x)  PROVE x # n /\ In(c[l], x)
    <3>1. PICK j \in 1..(e - 1) : d[l][j] = x
      BY <1>7, <2>1 DEF In
    <3>2. PICK k \in 1..e : k # i /\ c[l][k] = x
      <4>1. CASE j < i
        BY <1>1, <1>7, <3>1, <4>1
      <4>2. CASE ~(j < i)
        BY SMTT(30), <1>1, <1>7, <3>1, <4>2
      <4> QED  BY <4>1, <4>2
    <3> QED  BY <1>1, <1>2, <3>2 DEF In, n, e
  <2>2. ASSUME In(c[l], x), x # n  PROVE In(d[l], x)
    <3>1. PICK k \in 1..e : c[l][k] = x
      BY <2>2 DEF In, e
    <3>2. k # i
      BY <2>2, <3>1 DEF n
    <3>3. PICK j \in 1..(e - 1) : d[l][j] = x
      <4>1. CASE k < i
        BY <1>1, <1>7, <3>1, <4>1
      <4>2. CASE ~(k < i)
        <5>1. k - 1 \in 1..(e - 1) /\ ~(k - 1 < i) /\ (k - 1) + 1 = k
          BY <1>1, <3>1, <3>2, <4>2
        <5> QED  BY <1>7, <3>1, <5>1
      <4> QED  BY <4>1, <4>2
    <3> QED  BY <1>7, <3>3 DEF In
  <2> QED  BY <2>1, <2>2
<1>9. Represents(t, l, d[l])
  <2>1. \A j \in 1..(e - 1) :
          /\ j < i => j \in 1..e /\ d[l][j] = c[l][j]
          /\ ~(j < i) => j + 1 \in 1..e /\ d[l][j] = c[l][j + 1]
    BY <1>1, <1>7
  <2>2. ASSUME NEW j \in 1..(e - 1), NEW k \in 1..(e - 1), d[l][j] = d[l][k]
        PROVE  j = k
    <3>1. CASE j < i /\ k < i
      BY <1>2, <2>1, <2>2, <3>1
    <3>2. CASE j < i /\ ~(k < i)
      <4>1. j = k + 1
        BY <1>2, <2>1, <2>2, <3>2
      <4> QED  BY <1>1, <3>2, <4>1
    <3>3. CASE ~(j < i) /\ k < i
      <4>1. j + 1 = k
        BY <1>2, <2>1, <2>2, <3>3
      <4> QED  BY <1>1, <3>3, <4>1
    <3>4. CASE ~(j < i) /\ ~(k < i)
      <4>1. j + 1 = k + 1
        BY <1>2, <2>1, <2>2, <3>4
      <4> QED  BY <1>1, <4>1
    <3> QED  BY <3>1, <3>2, <3>3, <3>4
  <2>3. t.head[l] = IF d[l] = <<>> THEN Nil ELSE d[l][1]
    <3>1. d[l] = <<>> <=> e = 1
      BY <1>1, <1>7
    <3>2. CASE i = 1 /\ e = 1
      BY <1>4, <1>5, <3>1, <3>2
    <3>3. CASE i = 1 /\ e # 1
      <4>1. 1 \in 1..(e - 1) /\ q = c[l][2]
        BY <1>1, <3>3
      <4> QED  BY <1>4, <1>5, <1>7, <3>1, <3>3, <4>1
    <3>4. CASE i # 1
      <4>1. 1 \in 1..(e - 1) /\ 1 < i /\ e # 1
        BY <1>1, <3>4
      <4> QED  BY <1>1, <1>4, <1>5, <1>7, <3>1, <3>4, <4>1
    <3> QED  BY <1>1, <3>2, <3>3, <3>4
  <2>4. t.tail[l] = IF d[l] = <<>> THEN Nil ELSE d[l][e - 1]
    <3>1. d[l] = <<>> <=> e = 1
      BY <1>1, <1>7
    <3>2. CASE i = e /\ e = 1
      BY <1>4, <1>5, <3>1, <3>2
    <3>3. CASE i = e /\ e # 1
      <4>1. e - 1 \in 1..(e - 1) /\ e - 1 < i /\ p = c[l][e - 1]
        BY <1>1, <3>3
      <4> QED  BY <1>4, <1>5, <1>7, <3>1, <3>3, <4>1
    <3>4. CASE i # e
      <4>1. e - 1 \in 1..(e - 1) /\ ~(e - 1 < i) /\ (e - 1) + 1 = e /\ e # 1
        BY SMTT(30), <1>1, <3>4
      <4> QED  BY <1>1, <1>4, <1>5, <1>7, <3>1, <3>4, <4>1
    <3> QED  BY <3>2, <3>3, <3>4
  <2>5. ASSUME NEW j \in 1..(e - 1)
        PROVE  /\ t.prev[d[l][j]] = IF j = 1 THEN Nil ELSE d[l][j - 1]
               /\ t.next[d[l][j]] = IF j = e - 1 THEN Nil ELSE d[l][j + 1]
    <3>1. CASE j < i
      <4>1. j \in 1..e /\ d[l][j] = c[l][j] /\ c[l][j] \in Nodes /\ c[l][j] # n
        BY <1>1, <1>2, <2>1, <3>1 DEF n
      <4>2. t.prev[c[l][j]] = s.prev[c[l][j]]
        <5>1. c[l][j] # q
          BY <1>1, <1>2, <1>3, <3>1, <4>1, NilType
        <5> QED  BY <1>5, <4>1, <5>1
      <4>3. j # 1 => d[l][j - 1] = c[l][j - 1]
        BY SMTT(30), <1>1, <1>7, <3>1
      <4>4. t.prev[d[l][j]] = IF j = 1 THEN Nil ELSE d[l][j - 1]
        BY <1>2, <4>1, <4>2, <4>3
      <4>5. CASE j = i - 1
        <5>1. c[l][j] = p /\ i # 1
          BY <1>1, <1>3, <4>5
        <5>2. t.next[d[l][j]] = q
          BY <1>5, <4>1, <5>1
        <5>3. i # e => i \in 1..(e - 1) /\ ~(i < i)
          BY <1>1
        <5>4. i # e => d[l][j + 1] = c[l][i + 1]
          BY <1>1, <1>7, <4>5, <5>3
        <5>5. i = e <=> j = e - 1
          BY <1>1, <4>5
        <5> QED  BY <1>3, <4>4, <5>2, <5>4, <5>5
      <4>6. CASE j # i - 1
        <5>1. c[l][j] # p
          BY <1>1, <1>2, <1>3, <4>1, <4>6, NilType
        <5>2. t.next[d[l][j]] = s.next[c[l][j]] /\ j # e
          BY <1>0, <1>5, <3>1, <4>1, <5>1
        <5>3. j + 1 \in 1..(e - 1) /\ j + 1 < i /\ j # e - 1
          BY <1>0, <3>1, <4>6
        <5>4. d[l][j + 1] = c[l][j + 1] /\ s.next[c[l][j]] = c[l][j + 1]
          BY <1>2, <1>7, <4>1, <5>2, <5>3
        <5> QED  BY <4>4, <5>2, <5>3, <5>4
      <4> QED  BY <4>5, <4>6
    <3>2. CASE ~(j < i)
      <4> DEFINE k == j + 1
      <4>1. k \in 1..e /\ k \in Nat /\ k > i /\ j = k - 1
        BY <1>1, <3>2
      <4> HIDE DEF k
      <4>2. d[l][j] = c[l][k] /\ c[l][k] \in Nodes /\ c[l][k] # n
        <5>1. d[l][j] = c[l][k]
          BY <2>1, <3>2 DEF k
        <5>2. i \in 1..e /\ i # k
          BY <1>0, <4>1
        <5>3. c[l][k] # c[l][i] /\ c[l][k] \in Nodes
          BY <1>2, <4>1, <5>2
        <5> QED  BY <5>1, <5>3 DEF n
      <4>3. t.next[d[l][j]] = s.next[c[l][k]]
        <5>1. i # 1 => i - 1 # k /\ i - 1 \in 1..e /\ p = c[l][i - 1]
          BY <1>0, <1>3, <4>1
        <5>2. c[l][k] # p
          BY <1>2, <1>3, <4>1, <4>2, <5>1, NilType
        <5> QED  BY <1>5, <4>2, <5>2
      <4>4. j # e - 1 => d[l][j + 1] = c[l][k + 1]
        <5>1. j # e - 1 => j + 1 \in 1..(e - 1) /\ ~(j + 1 < i) /\ (j + 1) + 1 = k + 1
          BY <1>1, <3>2, <4>1
        <5> QED  BY <1>7, <5>1
      <4>5. j = e - 1 <=> k = e
        BY <1>1, <4>1
      <4>6. t.next[d[l][j]] = IF j = e - 1 THEN Nil ELSE d[l][j + 1]
        BY <1>2, <4>1, <4>3, <4>4, <4>5
      <4>7. CASE k = i + 1
        <5>1. c[l][k] = q /\ i # e /\ j = i
          BY <1>1, <1>3, <4>1, <4>7
        <5>2. t.prev[d[l][j]] = p
          BY <1>5, <4>2, <5>1
        <5>3. j # 1 => j - 1 \in 1..(e - 1) /\ j - 1 < i
          BY <1>1, <5>1
        <5> QED  BY <1>1, <1>7, <4>6, <5>1, <5>2, <5>3
      <4>8. CASE k # i + 1
        <5>1. c[l][k] # q
          BY <1>1, <1>2, <1>3, <4>1, <4>8, NilType
        <5>2. t.prev[d[l][j]] = s.prev[c[l][k]] /\ k # 1
          BY <1>0, <1>5, <4>1, <4>2, <5>1
        <5>3. j # 1 /\ j - 1 \in 1..(e - 1) /\ ~(j - 1 < i) /\ (j - 1) + 1 = k - 1
          BY <1>0, <4>1, <4>8
        <5>4. d[l][j - 1] = c[l][k - 1] /\ s.prev[c[l][k]] = c[l][k - 1]
          BY <1>2, <1>7, <4>1, <5>2, <5>3
        <5> QED  BY <4>6, <5>2, <5>3, <5>4
      <4> QED  BY <4>7, <4>8
    <3> QED  BY <3>1, <3>2
  <2> QED  BY <1>7, <2>2, <2>3, <2>4, <2>5 DEF Represents
<1>10. ASSUME NEW m \in Lists, m # l
       PROVE  Represents(t, m, d[m])
  <2>1. d[m] = c[m] /\ Represents(s, m, c[m]) /\ c[m] \in Seq(Nodes)
    BY <1>7, <1>10 DEF Linked, Contents
  <2>2. ASSUME NEW j \in 1..Len(c[m])
        PROVE  c[m][j] \in Nodes /\ c[m][j] # n /\ c[m][j] # p /\ c[m][j] # q
    <3>1. \A k \in 1..e : c[m][j] # c[l][k]
      BY <1>2, <1>10 DEF In
    <3>2. c[m][j] \in Nodes
      BY <2>1
    <3> QED  BY <1>1, <1>3, <3>1, <3>2, NilType DEF n
  <2>3. t.head[m] = s.head[m] /\ t.tail[m] = s.tail[m]
    BY <1>5, <1>10
  <2>4. \A j \in 1..Len(c[m]) : /\ t.prev[c[m][j]] = s.prev[c[m][j]]
                               /\ t.next[c[m][j]] = s.next[c[m][j]]
    BY <1>5, <2>2
  <2> DEFINE y == c[m]
  <2>5. /\ Represents(s, m, y) /\ t.head[m] = s.head[m] /\ t.tail[m] = s.tail[m]
        /\ \A j \in 1..Len(y) : t.prev[y[j]] = s.prev[y[j]] /\ t.next[y[j]] = s.next[y[j]]
    BY <2>1, <2>3, <2>4
  <2> HIDE DEF y
  <2>6. Represents(t, m, y)
    BY <2>5 DEF Represents
  <2> QED  BY <2>1, <2>6 DEF y
<1>11. \A k, m \in Lists : \A x \in Nodes : In(d[k], x) /\ In(d[m], x) => k = m
  BY <1>7, <1>8 DEF Linked
<1>12. ASSUME NEW x \in Nodes, \A m \in Lists : ~In(d[m], x)
       PROVE  Free(t, x)
  <2>1. CASE x = n
    BY <1>5, <2>1 DEF Free
  <2>2. CASE x # n
    <3>1. \A m \in Lists : ~In(c[m], x)
      BY <1>7, <1>8, <1>12, <2>2
    <3>2. x # p /\ x # q
      BY <1>3, <3>1, NilType DEF In, e
    <3> QED  BY <1>5, <2>2, <3>1, <3>2 DEF Linked, Free
  <2> QED  BY <2>1, <2>2
<1>13. Linked(t, d)
  BY <1>9, <1>10, <1>11, <1>12 DEF Linked
<1> QED  BY <1>5, <1>6, <1>7, <1>13 DEF t, d, n

(* pop_back takes the last node of the list. *)
LEMMA PopBackLinked ==
  ASSUME NEW s \in Store, NEW c \in Contents, Linked(s, c),
         NEW l \in Lists, c[l] # <<>>
  PROVE  LET n == c[l][Len(c[l])]
             r == pop_back(s, l)
             d == [c EXCEPT ![l] = RemoveFirst(@, n)]
         IN  /\ last(s, l) = n /\ r.item = n
             /\ r.store \in Store /\ d \in Contents /\ Linked(r.store, d)
<1> DEFINE n == c[l][Len(c[l])]
           p == s.prev[n]
           a == [s EXCEPT !.tail[l] = p]
           b == IF p = Nil THEN [a EXCEPT !.head[l] = Nil] ELSE [a EXCEPT !.next[p] = Nil]
           t == [b EXCEPT !.prev[n] = Nil, !.next[n] = Nil]
<1>1. Len(c[l]) \in 1..Len(c[l])
  BY DEF Contents
<1>2. /\ n \in Nodes /\ n # Nil /\ s.tail[l] = n /\ s.next[n] = Nil
      /\ p \in Pointer
  BY <1>1, Position, NilType DEF Store
<1>3. pop_back(s, l) = Result(t, n)
  BY <1>2 DEF pop_back, Unlinked
<1>4. remove(s, l, n).item = n
      /\ remove(s, l, n).store \in Store /\ [c EXCEPT ![l] = RemoveFirst(@, n)] \in Contents
      /\ Linked(remove(s, l, n).store, [c EXCEPT ![l] = RemoveFirst(@, n)])
  BY <1>1, RemoveLinked
<1>5. remove(s, l, n).store = t
  <2>1. /\ s.prev[n] = IF Len(c[l]) = 1 THEN Nil ELSE c[l][Len(c[l]) - 1]
        /\ s.head[l] = c[l][1]
    BY <1>1, Position
  <2>2. Len(c[l]) # 1 => c[l][Len(c[l]) - 1] \in Nodes /\ p # n
    <3>1. Len(c[l]) # 1 => Len(c[l]) - 1 \in 1..Len(c[l]) /\ Len(c[l]) - 1 # Len(c[l])
      <4> DEFINE e == Len(c[l])
      <4>1. e \in Nat /\ e >= 1
        BY <1>1, Position
      <4> HIDE DEF e
      <4>2. e # 1 => e - 1 \in 1..e /\ e - 1 # e
        BY <4>1
      <4> QED  BY <4>2 DEF e
    <3> QED  BY <1>1, <2>1, <3>1, Position
  <2>3. (p = Nil => s.head[l] = n) /\ p # n
    BY <1>2, <2>1, <2>2, NilType
  <2> HIDE DEF n
  <2>4. CASE p = Nil
    BY <1>2, <2>3, <2>4, NilType DEF remove, Result, Unlinked, Store
  <2>5. CASE p # Nil
    BY <1>2, <2>3, <2>5, NilType DEF remove, Result, Unlinked, Store
  <2> QED  BY <2>4, <2>5
<1> QED  BY <1>2, <1>3, <1>4, <1>5 DEF Result, last

(* mem::take leaves an empty list and gives all nodes to an empty one. *)
LEMMA TakeLinked ==
  ASSUME NEW s \in Store, NEW c \in Contents, Linked(s, c),
         NEW l \in Lists, NEW m \in Lists, l # m, c[m] = <<>>
  PROVE  LET t == take(s, l, m)
             d == [c EXCEPT ![m] = c[l], ![l] = <<>>]
         IN  t \in Store /\ d \in Contents /\ Linked(t, d)
<1> DEFINE t == take(s, l, m)
           d == [c EXCEPT ![m] = c[l], ![l] = <<>>]
<1>1. /\ t \in Store /\ t.prev = s.prev /\ t.next = s.next
      /\ \A k \in Lists : /\ t.head[k] = IF k = l THEN Nil ELSE s.head[IF k = m THEN l ELSE k]
                         /\ t.tail[k] = IF k = l THEN Nil ELSE s.tail[IF k = m THEN l ELSE k]
  BY DEF take, Store, Pointer
<1>2. /\ d \in Contents
      /\ \A k \in Lists : d[k] = IF k = l THEN <<>> ELSE c[IF k = m THEN l ELSE k]
  BY DEF Contents
<1> HIDE DEF t, d
<1>3. ASSUME NEW k \in Lists
      PROVE  Represents(t, k, d[k])
  <2>1. CASE k = l
    BY <1>1, <1>2, <2>1 DEF Represents
  <2>2. CASE k # l
    <3> DEFINE o == IF k = m THEN l ELSE k
    <3>1. o \in Lists /\ Represents(s, o, c[o]) /\ d[k] = c[o]
          /\ t.head[k] = s.head[o] /\ t.tail[k] = s.tail[o]
      BY <1>1, <1>2, <2>2 DEF Linked
    <3> HIDE DEF o
    <3> QED  BY <1>1, <3>1 DEF Represents
  <2> QED  BY <2>1, <2>2
<1>4. \A x : \A k \in Lists :
        In(d[k], x) => k # l /\ In(c[IF k = m THEN l ELSE k], x)
  BY <1>2 DEF In
<1>5. \A x : \A k \in Lists : In(c[k], x) => k # m /\ In(d[IF k = l THEN m ELSE k], x)
  BY <1>2 DEF In
<1>6. \A j, k \in Lists : \A x \in Nodes : In(d[j], x) /\ In(d[k], x) => j = k
  BY <1>4, <1>5 DEF Linked
<1>7. \A x \in Nodes : (\A k \in Lists : ~In(d[k], x)) => Free(t, x)
  BY <1>1, <1>5 DEF Linked, Free
<1>8. Linked(t, d)
  BY <1>3, <1>6, <1>7 DEF Linked
<1> QED  BY <1>1, <1>2, <1>8 DEF t, d

(* What is in a list after a push. *)
LEMMA PushIn ==
  ASSUME NEW c \in Seq(Nodes), NEW n \in Nodes, NEW x \in Nodes
  PROVE  In(<<n>> \o c, x) <=> x = n \/ In(c, x)
<1> DEFINE d == <<n>> \o c
<1>1. /\ Len(c) \in Nat /\ Len(d) = Len(c) + 1
      /\ \A j \in 1..(Len(c) + 1) : d[j] = IF j = 1 THEN n ELSE c[j - 1]
  BY PrependElements
<1>2. ASSUME In(d, x) PROVE x = n \/ In(c, x)
  <2>1. PICK j \in 1..(Len(c) + 1) : d[j] = x
    BY <1>1, <1>2 DEF In
  <2>2. CASE j = 1
    BY <1>1, <2>1, <2>2
  <2>3. CASE j # 1
    <3>1. j - 1 \in 1..Len(c) /\ c[j - 1] = x
      BY <1>1, <2>1, <2>3
    <3> QED  BY <3>1 DEF In
  <2> QED  BY <2>2, <2>3
<1>3. In(d, n)
  <2>1. 1 \in 1..Len(d) /\ d[1] = n
    BY <1>1
  <2> QED  BY <2>1 DEF In
<1>4. ASSUME In(c, x) PROVE In(d, x)
  <2>1. PICK j \in 1..Len(c) : c[j] = x
    BY <1>4 DEF In
  <2>2. j + 1 \in 1..Len(d) /\ d[j + 1] = x
    BY <1>1, <2>1
  <2> QED  BY <2>2 DEF In
<1> QED  BY <1>2, <1>3, <1>4

(* What is in a list after a removal. *)
LEMMA RemoveIn ==
  ASSUME NEW c \in Seq(Nodes), NEW i \in 1..Len(c), NEW x \in Nodes,
         \A j, k \in 1..Len(c) : c[j] = c[k] => j = k
  PROVE  In(RemoveFirst(c, c[i]), x) <=> In(c, x) /\ x # c[i]
<1> DEFINE d == RemoveFirst(c, c[i])
<1>1. /\ Len(c) \in Nat /\ Len(d) = Len(c) - 1
      /\ \A j \in 1..(Len(c) - 1) : d[j] = IF j < i THEN c[j] ELSE c[j + 1]
  BY RemoveElements
<1>2. ASSUME In(d, x) PROVE In(c, x) /\ x # c[i]
  <2>1. PICK j \in 1..(Len(c) - 1) : d[j] = x
    BY <1>1, <1>2 DEF In
  <2>2. PICK k \in 1..Len(c) : k # i /\ c[k] = x
    <3>1. CASE j < i
      BY SMTT(30), <1>1, <2>1, <3>1
    <3>2. CASE ~(j < i)
      <4>1. j + 1 \in 1..Len(c) /\ j + 1 # i /\ c[j + 1] = x
        BY <1>1, <2>1, <3>2
      <4> QED  BY <4>1
    <3> QED  BY <3>1, <3>2
  <2> QED  BY <2>2 DEF In
<1>3. ASSUME In(c, x), x # c[i] PROVE In(d, x)
  <2>1. PICK k \in 1..Len(c) : k # i /\ c[k] = x
    BY <1>3 DEF In
  <2>2. CASE k < i
    <3>1. k \in 1..Len(d) /\ d[k] = x
      BY <1>1, <2>1, <2>2
    <3> QED  BY <3>1 DEF In
  <2>3. CASE ~(k < i)
    <3>1. k - 1 \in 1..Len(d) /\ d[k - 1] = x
      BY <1>1, <2>1, <2>3
    <3> QED  BY <3>1 DEF In
  <2> QED  BY <2>2, <2>3
<1> QED  BY <1>2, <1>3

(* The same of the contents of all lists. *)
LEMMA PushedIn ==
  ASSUME NEW c \in Contents, NEW l \in Lists, NEW n \in Nodes
  PROVE  \A m \in Lists : \A x \in Nodes :
           In([c EXCEPT ![l] = <<n>> \o @][m], x) <=> In(c[m], x) \/ (m = l /\ x = n)
<1>1. SUFFICES ASSUME NEW m \in Lists, NEW x \in Nodes
      PROVE  In([c EXCEPT ![l] = <<n>> \o @][m], x) <=> In(c[m], x) \/ (m = l /\ x = n)
  OBVIOUS
<1>2. CASE m = l
  <2>1. [c EXCEPT ![l] = <<n>> \o @][m] = <<n>> \o c[l] /\ c[l] \in Seq(Nodes)
    BY <1>2 DEF Contents
  <2> QED  BY <1>2, <2>1, PushIn
<1>3. CASE m # l
  <2>1. [c EXCEPT ![l] = <<n>> \o @][m] = c[m]
    BY <1>3 DEF Contents
  <2> QED  BY <1>3, <2>1
<1> QED  BY <1>2, <1>3

(* The node was in no other list, so it is in none now. *)
LEMMA RemovedIn ==
  ASSUME NEW s \in Store, NEW c \in Contents, Linked(s, c),
         NEW l \in Lists, NEW n \in Nodes, In(c[l], n)
  PROVE  \A m \in Lists : \A x \in Nodes :
           In([c EXCEPT ![l] = RemoveFirst(@, n)][m], x) <=> In(c[m], x) /\ x # n
<1>1. SUFFICES ASSUME NEW m \in Lists, NEW x \in Nodes
      PROVE  In([c EXCEPT ![l] = RemoveFirst(@, n)][m], x) <=> In(c[m], x) /\ x # n
  OBVIOUS
<1>2. PICK i \in 1..Len(c[l]) : c[l][i] = n
  BY DEF In
<1>3. CASE m = l
  <2>1. [c EXCEPT ![l] = RemoveFirst(@, n)][m] = RemoveFirst(c[l], c[l][i])
    BY <1>2, <1>3 DEF Contents
  <2>2. c[l] \in Seq(Nodes) /\ \A j, k \in 1..Len(c[l]) : c[l][j] = c[l][k] => j = k
    BY DEF Contents, Linked, Represents
  <2>3. In(RemoveFirst(c[l], c[l][i]), x) <=> In(c[l], x) /\ x # c[l][i]
    BY <2>2, RemoveIn
  <2> QED  BY <1>2, <1>3, <2>1, <2>3
<1>4. CASE m # l
  <2>1. [c EXCEPT ![l] = RemoveFirst(@, n)][m] = c[m]
    BY <1>4 DEF Contents
  <2>2. In(c[m], x) => x # n
    BY <1>4 DEF Linked
  <2> QED  BY <2>1, <2>2
<1> QED  BY <1>3, <1>4

(* is_empty tells whether the list has nodes, and does not panic. *)
LEMMA EmptyLinked ==
  ASSUME NEW s \in Store, NEW c \in Contents, Linked(s, c), NEW l \in Lists
  PROVE  (is_empty(s, l) <=> c[l] = <<>>) /\ ~is_empty_panics(s, l)
<1>1. CASE c[l] = <<>>
  <2>1. s.head[l] = Nil /\ s.tail[l] = Nil
    BY <1>1 DEF Linked, Represents
  <2> QED  BY <1>1, <2>1 DEF is_empty, is_empty_panics
<1>2. CASE c[l] # <<>>
  <2>1. c[l] \in Seq(Nodes) /\ s.head[l] = c[l][1]
    BY <1>2 DEF Contents, Linked, Represents
  <2>2. c[l][1] \in Nodes
    BY <1>2, <2>1
  <2> QED  BY NilType, <1>2, <2>1, <2>2 DEF is_empty, is_empty_panics
<1> QED  BY <1>1, <1>2

(* The lists of a new store are empty. *)
LEMMA NewStoreLinked ==
  LET c == [l \in Lists |-> <<>>]
  IN  NewStore \in Store /\ c \in Contents /\ Linked(NewStore, c)
BY DEF NewStore, Store, Pointer, Contents, Linked, Represents, In, Free
=============================================================================
