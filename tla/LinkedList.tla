----------------------------- MODULE LinkedList -----------------------------
(***************************************************************************)
(* The intrusive doubly linked list (src/src/utils/linked_list.rs).        *)
(*                                                                         *)
(* A store holds the pointers of all nodes and the ends of all lists: the  *)
(* nodes carry their own prev and next, and a call on one list follows the *)
(* pointers wherever they lead.  An operator takes the store before a call *)
(* to the store after it, or to a record of the store and what it returns. *)
(***************************************************************************)
EXTENDS SequencesExt

CONSTANTS
  Nodes,   \* what can be in a list
  Lists,   \* the lists
  Nil      \* the null pointer

ASSUME NilType == Nil \notin Nodes

Pointer == Nodes \union {Nil}

Store == [head : [Lists -> Pointer], tail : [Lists -> Pointer],
          prev : [Nodes -> Pointer], next : [Nodes -> Pointer]]

NewStore == [head |-> [l \in Lists |-> Nil], tail |-> [l \in Lists |-> Nil],
             prev |-> [n \in Nodes |-> Nil], next |-> [n \in Nodes |-> Nil]]

-----------------------------------------------------------------------------
(* Mutant: the old head does not learn of the new one. *)
push_front_one_way(s, l, n) ==
  [s EXCEPT !.next[n] = s.head[l], !.prev[n] = Nil, !.head[l] = n,
            !.tail[l] = IF @ = Nil THEN n ELSE @]

(* assert_ne!(self.head, Some(ptr)) is push_front_panics. *)
push_front_panics(s, l, n) == s.head[l] = n

push_front(s, l, n) ==
  LET t == [s EXCEPT !.next[n] = s.head[l], !.prev[n] = Nil]
      u == IF t.head[l] = Nil THEN t ELSE [t EXCEPT !.prev[t.head[l]] = n]
  IN  [u EXCEPT !.head[l] = n, !.tail[l] = IF @ = Nil THEN n ELSE @]

Result(s, n) == [store |-> s, item |-> n]

Unlinked(s, n) == [s EXCEPT !.prev[n] = Nil, !.next[n] = Nil]

(* Mutant: the head of a list of one node survives its node. *)
pop_back_keeps_head(s, l) ==
  LET last == s.tail[l]
  IN  IF last = Nil THEN Result(s, Nil)
      ELSE LET t == [s EXCEPT !.tail[l] = s.prev[last]]
               u == IF s.prev[last] = Nil THEN t
                                          ELSE [t EXCEPT !.next[s.prev[last]] = Nil]
           IN  Result(Unlinked(u, last), last)

pop_back(s, l) ==
  LET last == s.tail[l]
      t == [s EXCEPT !.tail[l] = s.prev[last]]
      u == IF s.prev[last] = Nil THEN [t EXCEPT !.head[l] = Nil]
                                 ELSE [t EXCEPT !.next[s.prev[last]] = Nil]
  IN  IF last = Nil THEN Result(s, Nil) ELSE Result(Unlinked(u, last), last)

is_empty(s, l) == s.head[l] = Nil

(* assert!(self.tail.is_none()) of is_empty *)
is_empty_panics(s, l) == s.head[l] = Nil /\ s.tail[l] # Nil

(***************************************************************************)
(* A node that has no predecessor and is not the head, or no successor and *)
(* is not the tail, is not in the list: the call returns None, in the      *)
(* second case after it already bypassed the node on the other side.       *)
(***************************************************************************)
remove(s, l, n) ==
  LET bypass_prev == IF s.prev[n] = Nil THEN [s EXCEPT !.head[l] = s.next[n]]
                                        ELSE [s EXCEPT !.next[s.prev[n]] = s.next[n]]
      bypass(t)   == IF t.next[n] = Nil THEN [t EXCEPT !.tail[l] = t.prev[n]]
                                        ELSE [t EXCEPT !.prev[t.next[n]] = t.prev[n]]
      no_head == s.prev[n] = Nil /\ s.head[l] # n
      no_tail == bypass_prev.next[n] = Nil /\ bypass_prev.tail[l] # n
  IN  IF no_head THEN Result(s, Nil)
      ELSE IF no_tail THEN Result(bypass_prev, Nil)
      ELSE Result(Unlinked(bypass(bypass_prev), n), n)

(* The debug assertions of remove *)
remove_panics(s, l, n) ==
  \/ s.prev[n] # Nil /\ s.next[s.prev[n]] # n
  \/ s.next[n] # Nil /\ s.prev[s.next[n]] # n

last(s, l) == s.tail[l]

(* mem::take: the list goes to list m, whose ends are written over. *)
take(s, l, m) ==
  [s EXCEPT !.head = [@ EXCEPT ![m] = s.head[l], ![l] = Nil],
            !.tail = [@ EXCEPT ![m] = s.tail[l], ![l] = Nil]]

-----------------------------------------------------------------------------
(***************************************************************************)
(* Link by link, list l of the store holds the nodes of the sequence c.    *)
(***************************************************************************)
Represents(s, l, c) ==
  /\ \A i, j \in 1..Len(c) : c[i] = c[j] => i = j
  /\ s.head[l] = IF c = <<>> THEN Nil ELSE c[1]
  /\ s.tail[l] = IF c = <<>> THEN Nil ELSE c[Len(c)]
  /\ \A i \in 1..Len(c) :
       /\ s.prev[c[i]] = IF i = 1 THEN Nil ELSE c[i - 1]
       /\ s.next[c[i]] = IF i = Len(c) THEN Nil ELSE c[i + 1]

In(c, n) == \E i \in 1..Len(c) : c[i] = n

(* A node that is in no list *)
Free(s, n) == s.prev[n] = Nil /\ s.next[n] = Nil

(***************************************************************************)
(* Each list l of the store holds c[l], no node is in two lists, and the   *)
(* pointers of a node that is in none are empty.                           *)
(***************************************************************************)
Linked(s, c) ==
  /\ \A l \in Lists : Represents(s, l, c[l])
  /\ \A l, m \in Lists : \A n \in Nodes : In(c[l], n) /\ In(c[m], n) => l = m
  /\ \A n \in Nodes : (\A l \in Lists : ~In(c[l], n)) => Free(s, n)
=============================================================================
