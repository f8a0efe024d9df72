----------------------------- MODULE TimerLevel -----------------------------
(***************************************************************************)
(* One level of the hierarchical timer wheel (src/src/time/driver/wheel/   *)
(* level.rs) over the intrusive lists of its slots (LinkedList).           *)
(*                                                                         *)
(* The wheel around the level is not part of the crate.  What the comments *)
(* of level.rs say of it is modelled here as the environment: which timers *)
(* it puts on the level, and that it lets the time pass from expiration to *)
(* expiration, emptying the slot that expires.                             *)
(***************************************************************************)
EXTENDS LinkedList   \* whose Nodes are the timers and Lists the slots

CONSTANTS
  LEVEL_MULT,   \* slots of a level, 64 in the code
  NUM_LEVELS,   \* levels of the wheel
  MaxTime,      \* bound: the last instant at which a timer is added
  FullRotation  \* TRUE: timers may be all of one rotation of the top level away

ASSUME LevelMultType == LEVEL_MULT \in Nat \ {0}
ASSUME NumLevelsType == NUM_LEVELS \in Nat \ {0}
ASSUME MaxTimeType   == MaxTime \in Nat
ASSUME SlotRangeType == \A k \in 0..(NUM_LEVELS - 1) : LEVEL_MULT ^ k \in Nat \ {0}
ASSUME RotationType  == FullRotation \in BOOLEAN

Slots == 0..(LEVEL_MULT - 1)

(* The list that take_slot returned *)
Taken == LEVEL_MULT

ASSUME ListsType == Lists = Slots \union {Taken}

VARIABLES
  level,        \* the level this is
  now,          \* the elapsed time of the wheel
  cached_when,  \* cached_when[n]: when timer n expires
  occupied,     \* the bits of the field: the slots whose bit is set
  store,        \* the pointers of the timers and the ends of the lists
  content,      \* history: content[l] is what was put into list l and not taken out
  curr,         \* where a DrainFilter over the taken list is, or Nil
  panicked      \* a call failed an assertion

vars == <<level, now, cached_when, occupied, store, content, curr, panicked>>

Init ==
  /\ level \in 0..(NUM_LEVELS - 1)
  /\ now = 0
  /\ cached_when = [n \in Nodes |-> 0]
  /\ occupied = {}
  /\ store = NewStore
  /\ content = [l \in Lists |-> <<>>]
  /\ curr = Nil
  /\ panicked = FALSE

-----------------------------------------------------------------------------
slot_range  == LEVEL_MULT ^ level
level_range == LEVEL_MULT * slot_range

(* Mutant: the slot of a timer is not taken modulo the slots. *)
slot_for_unwrapped(duration) == duration \div slot_range

slot_for(duration) == (duration \div slot_range) % LEVEL_MULT

(* Mutant: the lowest bit, without the rotation to the slot of now. *)
next_occupied_slot_lowest == CHOOSE s \in occupied : \A t \in occupied : s <= t

(* rotate_right(now_slot) and trailing_zeros: the first bit from now_slot on *)
next_occupied_slot ==
  LET now_slot == now \div slot_range
      zeros == CHOOSE z \in Slots :
                 /\ (z + now_slot) % LEVEL_MULT \in occupied
                 /\ \A y \in 0..(z - 1) : (y + now_slot) % LEVEL_MULT \notin occupied
  IN  (zeros + now_slot) % LEVEL_MULT

(* The deadline of next_expiration, where occupied is not zero *)
start_of(slot) == (now - (now % level_range)) + slot * slot_range

(* Mutant: a slot before now is not moved to the next rotation. *)
next_deadline_unwrapped == start_of(next_occupied_slot)

next_deadline ==
  LET deadline == start_of(next_occupied_slot)
  IN  IF deadline <= now THEN deadline + level_range ELSE deadline

(* debug_assert_eq!(self.level, NUM_LEVELS - 1) where a rotation is added,   *)
(* and debug_assert!(deadline >= now) of the sum                             *)
next_expiration_panics ==
  \/ start_of(next_occupied_slot) <= now /\ level # NUM_LEVELS - 1
  \/ next_deadline < now

-----------------------------------------------------------------------------
OnLevel(n) == \E s \in Slots : In(content[s], n)

Idle(n) == ~OnLevel(n) /\ ~In(content[Taken], n)

(***************************************************************************)
(* The wheel puts a timer on the first level on which its slot differs     *)
(* from that of now, within the rotation at hand.  On the top level a slot *)
(* before now belongs to the next rotation, as may the slot of now itself: *)
(* "at most one rotation of the top level away".                           *)
(***************************************************************************)
Belongs(w) ==
  /\ w \div slot_range > now \div slot_range
  /\ IF level # NUM_LEVELS - 1 THEN w \div level_range = now \div level_range
     ELSE IF FullRotation THEN w < now + level_range
     ELSE w < (now - (now % slot_range)) + level_range

add_entry(n, w) ==
  LET slot == slot_for(w) IN
  /\ cached_when' = [cached_when EXCEPT ![n] = w]
  /\ store' = push_front(store, slot, n)
  /\ content' = [content EXCEPT ![slot] = <<n>> \o @]
  /\ occupied' = occupied \union {slot}
  /\ panicked' = push_front_panics(store, slot, n)
  /\ UNCHANGED <<level, now, curr>>

AddEntry(n) ==
  /\ ~panicked /\ curr = Nil
  /\ Idle(n) /\ now <= MaxTime
  /\ \E w \in (now + 1)..(now + level_range) : Belongs(w) /\ add_entry(n, w)

(* Mutant: the bit is only cleared by take_slot. *)
RemoveEntryKeepsBit(n) ==
  LET slot == slot_for(cached_when[n])
      r == remove(store, slot, n)
  IN
  /\ ~panicked /\ curr = Nil
  /\ OnLevel(n)
  /\ store' = r.store
  /\ content' = [content EXCEPT ![slot] = RemoveFirst(@, n)]
  /\ panicked' = (remove_panics(store, slot, n) \/ is_empty_panics(r.store, slot))
  /\ UNCHANGED <<level, now, cached_when, occupied, curr>>

(* remove_entry: xor toggles the bit of a slot that became empty. *)
RemoveEntry(n) ==
  LET slot == slot_for(cached_when[n])
      r == remove(store, slot, n)
      empty == is_empty(r.store, slot)
  IN
  /\ ~panicked /\ curr = Nil
  /\ OnLevel(n)
  /\ store' = r.store
  /\ content' = [content EXCEPT ![slot] = RemoveFirst(@, n)]
  /\ occupied' = IF empty THEN (occupied \ {slot}) \union ({slot} \ occupied) ELSE occupied
  /\ panicked' = (\/ remove_panics(store, slot, n)
                   \/ is_empty_panics(r.store, slot)
                   \/ (empty /\ slot \notin occupied))
  /\ UNCHANGED <<level, now, cached_when, curr>>

-----------------------------------------------------------------------------
(* The wheel: the time passes up to the next expiration, but not beyond it. *)
Advance ==
  /\ ~panicked /\ curr = Nil /\ content[Taken] = <<>>
  /\ now <= MaxTime
  /\ occupied # {} => now + 1 < next_deadline
  /\ now' = now + 1
  /\ UNCHANGED <<level, cached_when, occupied, store, content, curr, panicked>>

(* next_expiration, then take_slot of what it returned *)
Expire ==
  LET slot == next_occupied_slot IN
  /\ ~panicked /\ curr = Nil /\ content[Taken] = <<>>
  /\ occupied # {}
  /\ now' = next_deadline
  /\ panicked' = next_expiration_panics
  /\ occupied' = occupied \ {slot}
  /\ store' = take(store, slot, Taken)
  /\ content' = [content EXCEPT ![Taken] = content[slot], ![slot] = <<>>]
  /\ UNCHANGED <<level, cached_when, curr>>

(* The wheel empties the list it took from the back. *)
PopTaken ==
  LET r == pop_back(store, Taken) IN
  /\ ~panicked /\ curr = Nil /\ content[Taken] # <<>>
  /\ store' = r.store
  /\ content' = [content EXCEPT ![Taken] = RemoveFirst(@, last(store, Taken))]
  /\ UNCHANGED <<level, now, cached_when, occupied, curr, panicked>>

-----------------------------------------------------------------------------
(* Or with drain_filter, whose filter may take or leave any timer. *)
DrainFilter ==
  /\ ~panicked /\ curr = Nil /\ content[Taken] # <<>>
  /\ curr' = store.head[Taken]
  /\ UNCHANGED <<level, now, cached_when, occupied, store, content, panicked>>

DrainSkips ==
  /\ ~panicked /\ curr # Nil
  /\ curr' = store.next[curr]
  /\ UNCHANGED <<level, now, cached_when, occupied, store, content, panicked>>

DrainTakes ==
  LET r == remove(store, Taken, curr) IN
  /\ ~panicked /\ curr # Nil
  /\ curr' = store.next[curr]
  /\ store' = r.store
  /\ content' = [content EXCEPT ![Taken] = RemoveFirst(@, curr)]
  /\ panicked' = remove_panics(store, Taken, curr)
  /\ UNCHANGED <<level, now, cached_when, occupied>>

Next ==
  \/ \E n \in Nodes : AddEntry(n) \/ RemoveEntry(n)
  \/ Advance \/ Expire \/ PopTaken
  \/ DrainFilter \/ DrainSkips \/ DrainTakes

Spec == Init /\ [][Next]_vars

-----------------------------------------------------------------------------
TypeOK ==
  /\ level \in 0..(NUM_LEVELS - 1)
  /\ now \in Nat /\ cached_when \in [Nodes -> Nat]
  /\ occupied \subseteq Slots
  /\ store \in Store
  /\ content \in [Lists -> Seq(Nodes)]
  /\ curr \in Nodes \union {Nil}
  /\ panicked \in BOOLEAN

(* Through all pushes, pops and removals, the pointers are those of the      *)
(* timers that were put into each list, in their order, and of no others;    *)
(* no timer is in two lists.                                                 *)
ListsLinked == Linked(store, content)

(* A bit is set exactly while its slot has timers. *)
OccupiedExact == \A s \in Slots : s \in occupied <=> content[s] # <<>>

(* No assertion of the level or of the lists of its slots fails, through     *)
(* any mix of calls: a list never has a tail without a head, a bit is only   *)
(* toggled while it is set, and a deadline is never before now.              *)
NoPanic == ~panicked

(* The slot that next_expiration finds is the earliest of all timers, and it *)
(* begins after now and not after any timer on the level.                    *)
NextIsEarliest ==
  occupied # {} =>
    /\ next_deadline > now
    /\ \A n \in Nodes : OnLevel(n) => next_deadline <= cached_when[n]
    /\ \E n \in Nodes : OnLevel(n) /\ cached_when[n] - (cached_when[n] % slot_range) = next_deadline

(* No timer is passed over: what expires is due within the slot at hand.     *)
ExpiresInSlot ==
  \A n \in Nodes :
    /\ OnLevel(n) => cached_when[n] > now
    /\ In(content[Taken], n) => now <= cached_when[n] /\ cached_when[n] < now + slot_range
=============================================================================
