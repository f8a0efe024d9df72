-------------------------- MODULE TimerLevelProofs --------------------------
(***************************************************************************)
(* Proofs about TimerLevel, for any number of slots, levels and timers.    *)
(***************************************************************************)
EXTENDS TimerLevel, LinkedListProofs, WellFoundedInduction

-----------------------------------------------------------------------------
(* Division *)

(* What the quotient and the remainder are. *)
LEMMA Division ==
  ASSUME NEW a \in Nat, NEW b \in Nat \ {0}
  PROVE  /\ a \div b \in Nat /\ a % b \in 0..(b - 1)
         /\ a = b * (a \div b) + (a % b)
OBVIOUS

(* They are the only numbers with this property. *)
LEMMA DivisionUnique ==
  ASSUME NEW b \in Nat \ {0}, NEW q \in Int, NEW s \in 0..(b - 1)
  PROVE  (b * q + s) \div b = q /\ (b * q + s) % b = s
OBVIOUS

(* Which multiples lie between two instants. *)
LEMMA Ordering ==
  ASSUME NEW a \in Nat, NEW b \in Nat, NEW r \in Nat \ {0}
  PROVE  /\ a <= b => a \div r <= b \div r
         /\ a < b * r <=> a \div r < b
         /\ b * r <= a <=> b <= a \div r
<1> DEFINE A == a \div r
           B == b \div r
           x == a % r
           y == b % r
<1>1. A \in Nat /\ x \in 0..(r - 1) /\ a = r * A + x
  BY Division
<1>2. B \in Nat /\ y \in 0..(r - 1) /\ b = r * B + y
  BY Division
<1>3. ASSUME NEW i \in Nat, NEW j \in Nat, i < j PROVE r * i + r <= r * j
  <2>1. r * i + r = r * (i + 1)
    OBVIOUS
  <2>2. r * (i + 1) <= r * j
    BY <1>3
  <2> QED  BY <2>1, <2>2
<1>4. ASSUME a <= b PROVE A <= B
  <2>1. SUFFICES ASSUME B < A PROVE FALSE
    BY <1>1, <1>2
  <2>2. r * B + r <= r * A
    BY <1>1, <1>2, <1>3, <2>1
  <2>3. r * A \in Nat /\ r * B \in Nat
    BY <1>1, <1>2
  <2> HIDE DEF A, B, x, y
  <2> QED  BY <1>1, <1>2, <1>4, <2>2, <2>3
<1>5. A < b => a < b * r
  <2>1. HAVE A < b
  <2>2. r * A + r <= r * b
    BY <1>1, <1>3, <2>1
  <2>3. r * A \in Nat /\ r * b \in Nat /\ b * r = r * b
    BY <1>1
  <2> HIDE DEF A, x
  <2> QED  BY <1>1, <2>2, <2>3
<1>6. b <= A => b * r <= a
  <2>1. HAVE b <= A
  <2>2. r * b <= r * A
    BY <1>1, <2>1
  <2>3. r * A \in Nat /\ r * b \in Nat /\ b * r = r * b
    BY <1>1
  <2> HIDE DEF A, x
  <2> QED  BY <1>1, <2>2, <2>3
<1>7. b * r \in Nat
  OBVIOUS
<1> HIDE DEF A, B, x, y
<1> QED  BY <1>1, <1>4, <1>5, <1>6, <1>7 DEF A, B

(* A range of a level is that many whole slots. *)
LEMMA Nested ==
  ASSUME NEW a \in Nat, NEW m \in Nat \ {0}, NEW r \in Nat \ {0}
  PROVE  /\ a \div (m * r) = (a \div r) \div m
         /\ a - (a % (m * r)) = (((a \div r) \div m) * m) * r
<1> DEFINE A == a \div r
           x == a % r
           Q == A \div m
           y == A % m
<1>1. A \in Nat /\ x \in 0..(r - 1) /\ a = r * A + x
  BY Division
<1>2. Q \in Nat /\ y \in 0..(m - 1) /\ A = m * Q + y
  BY <1>1, Division
<1> HIDE DEF A, x, Q, y
<1>3. m * r \in Nat \ {0}
  OBVIOUS
<1>4. r * y + x \in 0..(m * r - 1)
  <2>1. r * y \in Nat /\ r * y <= r * (m - 1)
    BY <1>2
  <2>2. r * (m - 1) = m * r - r
    OBVIOUS
  <2>3. m * r \in Nat
    OBVIOUS
  <2> QED  BY <1>1, <2>1, <2>2, <2>3
<1>5. a = (m * r) * Q + (r * y + x)
  <2>1. r * A = r * (m * Q) + r * y
    BY <1>2
  <2>2. r * (m * Q) = (m * r) * Q
    BY <1>2
  <2>3. r * A = (m * r) * Q + r * y
    BY <2>1, <2>2
  <2>4. r * A \in Nat /\ (m * r) * Q \in Nat /\ r * y \in Nat
    BY <1>1, <1>2
  <2> QED  BY <1>1, <2>3, <2>4
<1>6. a \div (m * r) = Q /\ a % (m * r) = r * y + x
  BY <1>2, <1>3, <1>4, <1>5, DivisionUnique
<1>7. (m * r) * Q = (Q * m) * r /\ (m * r) * Q \in Nat
  BY <1>2
<1>8. a - (r * y + x) = (Q * m) * r
  BY <1>1, <1>2, <1>4, <1>5, <1>7
<1> QED  BY <1>6, <1>8 DEF Q, A

(* Every slot is met once in a turn of the level. *)
LEMMA Turn ==
  ASSUME NEW q \in Nat, NEW m \in Nat \ {0}, NEW s \in 0..(m - 1)
  PROVE  \E z \in 0..(m - 1) : (z + q) % m = s
<1> DEFINE z == (s - q) % m
           k == (s - q) \div m
<1>1. s - q \in Int
  OBVIOUS
<1>2. z \in 0..(m - 1) /\ k \in Int /\ s - q = m * k + z
  BY <1>1
<1> HIDE DEF z, k
<1>3. z + q = m * (0 - k) + s
  BY <1>2
<1>4. (m * (0 - k) + s) % m = s
  <2>1. 0 - k \in Int
    BY <1>2
  <2> QED  BY <2>1, DivisionUnique
<1> QED  BY <1>2, <1>3, <1>4

(* ... and only once. *)
LEMMA TurnOnce ==
  ASSUME NEW q \in Nat, NEW m \in Nat \ {0}, NEW y \in 0..(m - 1), NEW z \in 0..(m - 1),
         (y + q) % m = (z + q) % m
  PROVE  y = z
<1> DEFINE j == (y + q) \div m
           k == (z + q) \div m
           s == (y + q) % m
<1>0. y + q \in Nat /\ z + q \in Nat
  OBVIOUS
<1>1. j \in Nat /\ s \in 0..(m - 1) /\ y + q = m * j + s
  BY <1>0, Division
<1>2. k \in Nat /\ z + q = m * k + s
  BY <1>0, Division
<1> HIDE DEF j, k, s
<1>3. y - z = m * (j - k)
  BY <1>1, <1>2
<1>4. CASE j = k
  BY <1>1, <1>3, <1>4
<1>5. CASE j < k
  <2>1. m * (j - k) <= m * (0 - 1)
    BY <1>1, <1>2, <1>5
  <2> QED  BY <1>3, <2>1
<1>6. CASE k < j
  <2>1. m * (j - k) >= m
    BY <1>1, <1>2, <1>6
  <2> QED  BY <1>3, <2>1
<1> QED  BY <1>1, <1>2, <1>4, <1>5, <1>6

(* A set of numbers has a least one. *)
LEMMA Least ==
  ASSUME NEW T \in SUBSET Nat, T # {}
  PROVE  \E x \in T : \A y \in T : x <= y
<1>1. PICK x \in T : \A y \in T : ~(<<y, x>> \in OpToRel(<, Nat))
  BY WFMin, NatLessThanWellFounded
<1>2. OpToRel(<, Nat) = {ss \in Nat \X Nat : ss[1] < ss[2]}
  BY Zenon DEF OpToRel
<1>3. ASSUME NEW y \in T PROVE x <= y
  <2>1. x \in Nat /\ y \in Nat /\ <<y, x>> \notin {ss \in Nat \X Nat : ss[1] < ss[2]}
    BY <1>1, <1>2
  <2>2. ~(y < x)
    BY <2>1
  <2> QED  BY <2>1, <2>2
<1> QED  BY <1>1, <1>3

-----------------------------------------------------------------------------
(***************************************************************************)
(* The inductive invariant.  Index(t) is the slot of instant t counted     *)
(* without end.  What is said of it holds where the timers of the level    *)
(* are less than a rotation away: not on a top level of FullRotation.      *)
(***************************************************************************)
Index(t) == t \div slot_range

(* The slot a timer is in is that of its expiration. *)
Placed == \A s \in Slots, n \in Nodes : In(content[s], n) => slot_for(cached_when[n]) = s

(* A filter in progress stands on a timer of the list it drains. *)
Cursor == curr # Nil => In(content[Taken], curr)

Bounded == level # NUM_LEVELS - 1 \/ ~FullRotation

(* A timer of the level is in a later slot than now, less than a turn ahead. *)
Ahead(n) ==
  LET k == Index(cached_when[n]) IN
  /\ Index(now) < k /\ k < Index(now) + LEVEL_MULT
  /\ level # NUM_LEVELS - 1 => k \div LEVEL_MULT = Index(now) \div LEVEL_MULT

Due(n) == now <= cached_when[n] /\ cached_when[n] < now + slot_range

Timely == \A n \in Nodes : /\ OnLevel(n) => Ahead(n)
                           /\ In(content[Taken], n) => Due(n)

IInv == TypeOK /\ ListsLinked /\ OccupiedExact /\ Placed /\ Cursor /\ NoPanic
        /\ (Bounded => Timely)

(* What the lists are, and the types of what is computed from the level. *)
LEMMA Ranges ==
  ASSUME TypeOK
  PROVE  /\ slot_range \in Nat \ {0} /\ level_range = LEVEL_MULT * slot_range
         /\ level_range \in Nat \ {0}
         /\ \A t \in Nat : Index(t) \in Nat /\ slot_for(t) = Index(t) % LEVEL_MULT
                           /\ slot_for(t) \in Slots
<1>1. slot_range \in Nat \ {0}
  BY SlotRangeType DEF TypeOK, slot_range
<1>2. level_range = LEVEL_MULT * slot_range
  BY DEF level_range
<1>3. ASSUME NEW m \in Nat \ {0}, NEW r \in Nat \ {0}
      PROVE  m * r \in Nat \ {0}
  BY <1>3
<1>4. level_range \in Nat \ {0}
  BY <1>1, <1>2, <1>3, LevelMultType
<1>5. ASSUME NEW t \in Nat
      PROVE  Index(t) \in Nat /\ slot_for(t) = Index(t) % LEVEL_MULT /\ slot_for(t) \in Slots
  <2>1. Index(t) \in Nat
    BY <1>1, Division DEF Index
  <2>2. slot_for(t) = Index(t) % LEVEL_MULT
    BY DEF slot_for, Index
  <2>3. Index(t) % LEVEL_MULT \in Slots
    BY <2>1, LevelMultType, Division DEF Slots
  <2> QED  BY <2>1, <2>2, <2>3
<1> QED  BY <1>1, <1>2, <1>4, <1>5

(* The taken list is none of the slots. *)
LEMMA ListsOf == Slots \subseteq Lists /\ Taken \in Lists /\ Taken \notin Slots
BY ListsType, LevelMultType DEF Slots, Taken

(* The slot found is an occupied one, and the first in a turn from now on. *)
LEMMA NextSlot ==
  ASSUME TypeOK, occupied # {}
  PROVE  \E z \in Slots :
           /\ next_occupied_slot = (z + Index(now)) % LEVEL_MULT
           /\ next_occupied_slot \in occupied
           /\ \A y \in Slots : (y + Index(now)) % LEVEL_MULT \in occupied => z <= y
<1> DEFINE q == Index(now)
           T == {z \in Slots : (z + q) % LEVEL_MULT \in occupied}
           First(z) == /\ (z + q) % LEVEL_MULT \in occupied
                       /\ \A y \in 0..(z - 1) : (y + q) % LEVEL_MULT \notin occupied
           zeros == CHOOSE z \in Slots : First(z)
<1>1. q \in Nat
  BY Ranges DEF TypeOK
<1>2. T # {}
  <2>1. PICK s \in occupied : s \in 0..(LEVEL_MULT - 1)
    BY DEF TypeOK, Slots
  <2>2. \E z \in Slots : (z + q) % LEVEL_MULT = s
    BY <1>1, <2>1, LevelMultType, Turn DEF Slots
  <2> QED  BY <2>1, <2>2
<1>3. T \in SUBSET Nat
  BY LevelMultType DEF Slots
<1>4. PICK x \in T : \A y \in T : x <= y
  BY <1>2, <1>3, Least
<1>5. x \in Slots /\ First(x)
  BY <1>3, <1>4, LevelMultType DEF Slots
<1>6. zeros \in Slots /\ First(zeros)
  BY <1>5
<1>7. next_occupied_slot = (zeros + q) % LEVEL_MULT
  BY DEF next_occupied_slot, Index
<1>8. ASSUME NEW y \in Slots, (y + q) % LEVEL_MULT \in occupied
      PROVE  zeros <= y
  <2> HIDE DEF zeros
  <2> QED  BY <1>6, <1>8, LevelMultType DEF Slots
<1> QED  BY <1>6, <1>7, <1>8

(***************************************************************************)
(* Where a slot begins that is z slots of r instants after that of t, on a *)
(* level of m slots: past t, or a rotation before it is.                   *)
(***************************************************************************)
Begin(t, z, m, r) == (t - (t % (m * r))) + ((z + (t \div r)) % m) * r

(* It is past t unless the turn of the level ends in between. *)
LEMMA StartOf ==
  ASSUME NEW t \in Nat, NEW z \in Nat, NEW m \in Nat \ {0}, NEW r \in Nat \ {0},
         0 < z, z < m
  PROVE  LET a == t \div r
             d == Begin(t, z, m, r)
         IN  /\ (a % m) + z < m => d = (a + z) * r /\ t < d
             /\ (a % m) + z >= m => d + m * r = (a + z) * r /\ d <= t
<1> DEFINE a == t \div r
           x == t % r
           k == a \div m
           y == a % m
           d == Begin(t, z, m, r)
<1>1. a \in Nat /\ x \in 0..(r - 1) /\ t = r * a + x
  BY Division
<1>2. k \in Nat /\ y \in 0..(m - 1) /\ a = m * k + y
  BY <1>1, Division
<1>3. t - (t % (m * r)) = (k * m) * r
  BY Nested
<1> HIDE DEF x, k, y
<1>0. d = (t - (t % (m * r))) + ((z + a) % m) * r
  BY DEF Begin
<1> HIDE DEF a, d
<1>4. CASE y + z < m
  <2>1. (z + a) % m = y + z
    <3>1. z + a = m * k + (y + z) /\ y + z \in 0..(m - 1)
      BY <1>1, <1>2, <1>4
    <3> QED  BY <1>2, <3>1, DivisionUnique
  <2>2. d = (k * m) * r + (y + z) * r
    BY <1>0, <1>3, <2>1
  <2>3. d = (k * m + (y + z)) * r
    BY <1>2, <2>2
  <2>4. k * m + (y + z) = a + z
    BY <1>2
  <2>5. (a + z) * r = r * a + r * z /\ r * z >= r /\ r * a \in Nat
    BY <1>1
  <2>6. d = (a + z) * r /\ (a + z) * r \in Nat
    BY <1>1, <2>3, <2>4
  <2>7. t < d
    BY <1>1, <2>5, <2>6
  <2> QED  BY <1>2, <1>4, <2>6, <2>7 DEF d, a, y
<1>5. CASE y + z >= m
  <2>1. (z + a) % m = y + z - m
    <3>1. z + a = m * (k + 1) + (y + z - m) /\ y + z - m \in 0..(m - 1) /\ k + 1 \in Int
      BY <1>1, <1>2, <1>5
    <3> QED  BY <3>1, DivisionUnique
  <2>2. d = (k * m) * r + (y + z - m) * r
    BY <1>0, <1>3, <2>1
  <2>3. d = (k * m + (y + z - m)) * r
    BY <1>2, <2>2
  <2>4. k * m + (y + z - m) = a + z - m /\ a + z - m \in Int
    BY <1>1, <1>2
  <2>5. d = (a + z - m) * r
    BY <2>3, <2>4
  <2>6. (a + z - m) * r + m * r = (a + z) * r
    BY <1>1
  <2>7. (a + z - m) * r \in Int /\ (a + z - m) * r <= a * r
    BY <1>1
  <2>8. a * r = r * a /\ r * a \in Nat
    BY <1>1
  <2>9. d \in Int /\ d <= t
    BY <1>1, <2>5, <2>7, <2>8
  <2> QED  BY <1>2, <1>5, <2>5, <2>6, <2>9 DEF d, a, y
<1>6. y + z \in Nat
  BY <1>2
<1> QED  BY <1>4, <1>5, <1>6

(* A slot begins at an instant, and a rotation later the instant is after now. *)
LEMMA StartTyped ==
  ASSUME TypeOK, NEW s \in Slots
  PROVE  start_of(s) \in Nat /\ now < start_of(s) + level_range
<1>1. now - (now % (LEVEL_MULT * slot_range))
        = (((now \div slot_range) \div LEVEL_MULT) * LEVEL_MULT) * slot_range
  BY LevelMultType, Ranges, Nested DEF TypeOK
<1>2. (now \div slot_range) \div LEVEL_MULT \in Nat
  <2>1. now \div slot_range \in Nat
    BY Ranges, Division DEF TypeOK
  <2> QED  BY <2>1, LevelMultType, Division
<1>3. ASSUME NEW a \in Nat, NEW b \in Nat PROVE a * b \in Nat
  OBVIOUS
<1>4. (((now \div slot_range) \div LEVEL_MULT) * LEVEL_MULT) * slot_range \in Nat
  BY <1>2, <1>3, LevelMultType, Ranges
<1>5. s \in Nat /\ s * slot_range \in Nat
  BY <1>3, LevelMultType, Ranges DEF Slots
<1>6. start_of(s) \in Nat
  BY <1>1, <1>4, <1>5, Ranges DEF start_of
<1>7. now < start_of(s) + level_range
  <2>1. now \in Nat /\ level_range \in Nat \ {0}
    BY Ranges DEF TypeOK
  <2>2. now % level_range \in 0..(level_range - 1)
    BY <2>1, Division
  <2>3. start_of(s) = (now - (now % level_range)) + s * slot_range
    BY DEF start_of
  <2> HIDE DEF level_range, slot_range
  <2> QED  BY <1>5, <2>1, <2>2, <2>3
<1> QED  BY <1>6, <1>7

(* In a turn from now on, the slot of a timer is met where it is due. *)
LEMMA SlotAhead ==
  ASSUME IInv, Bounded, NEW n \in Nodes, NEW s \in Slots, In(content[s], n)
  PROVE  LET y == Index(cached_when[n]) - Index(now) IN
         /\ y \in Slots /\ 0 < y
         /\ (y + Index(now)) % LEVEL_MULT = s
         /\ s \in occupied
         /\ level # NUM_LEVELS - 1 =>
              Index(cached_when[n]) \div LEVEL_MULT = Index(now) \div LEVEL_MULT
<1> DEFINE k == Index(cached_when[n])
           q == Index(now)
           y == k - q
<1>1. k \in Nat /\ q \in Nat /\ k % LEVEL_MULT = s
  <2>1. cached_when[n] \in Nat /\ now \in Nat /\ slot_for(cached_when[n]) = s
    BY DEF IInv, TypeOK, Placed
  <2> QED  BY <2>1, Ranges DEF IInv
<1>2. Ahead(n)
  BY DEF IInv, Timely, OnLevel
<1>3. y \in Slots /\ 0 < y /\ y + q = k
  BY <1>1, <1>2, LevelMultType DEF Ahead, Slots
<1>4. s \in occupied
  <2>1. content[s] # <<>>
    BY DEF In
  <2> QED  BY <2>1 DEF IInv, OccupiedExact
<1> QED  BY <1>1, <1>2, <1>3, <1>4 DEF Ahead

(* The deadline is the beginning of the first slot that has timers. *)
LEMMA NextDeadline ==
  ASSUME IInv, occupied # {}
  PROVE  /\ next_occupied_slot \in occupied /\ next_deadline \in Nat
         /\ ~next_expiration_panics
         /\ Bounded => \E k \in Nat :
              /\ next_deadline = k * slot_range /\ Index(now) < k
              /\ level # NUM_LEVELS - 1 => k \div LEVEL_MULT = Index(now) \div LEVEL_MULT
              /\ \A n \in Nodes : OnLevel(n) => k <= Index(cached_when[n])
              /\ \A n \in Nodes : OnLevel(n) =>
                   (In(content[next_occupied_slot], n) <=> Index(cached_when[n]) = k)
              /\ \E n \in Nodes : In(content[next_occupied_slot], n)
<1> DEFINE q == Index(now)
           slot == next_occupied_slot
           d == start_of(slot)
<1>1. PICK z \in Slots : /\ slot = (z + q) % LEVEL_MULT /\ slot \in occupied
                         /\ \A y \in Slots : (y + q) % LEVEL_MULT \in occupied => z <= y
  BY NextSlot DEF IInv
<1>2. q \in Nat /\ now \in Nat /\ LEVEL_MULT \in Nat \ {0} /\ z \in 0..(LEVEL_MULT - 1)
  BY Ranges, LevelMultType DEF IInv, TypeOK, Slots
<1>3. slot \in Slots /\ d \in Nat /\ next_deadline \in Nat
  <2>1. slot \in Slots /\ d \in Nat
    BY <1>1, StartTyped DEF IInv, TypeOK
  <2> QED  BY <1>2, <2>1, Ranges DEF IInv, next_deadline
<1>4. ASSUME Bounded
      PROVE  LET k == z + q IN
             /\ next_deadline = k * slot_range /\ q < k
             /\ level # NUM_LEVELS - 1 => d > now /\ k \div LEVEL_MULT = q \div LEVEL_MULT
             /\ \A n \in Nodes : OnLevel(n) => k <= Index(cached_when[n])
             /\ \A n \in Nodes : OnLevel(n) =>
                  (In(content[slot], n) <=> Index(cached_when[n]) = k)
             /\ \E n \in Nodes : In(content[slot], n)
  <2>1. ASSUME NEW n \in Nodes, OnLevel(n)
        PROVE  LET y == Index(cached_when[n]) - q IN
               /\ Index(cached_when[n]) \in Nat /\ y \in 0..(LEVEL_MULT - 1) /\ 0 < y /\ z <= y
               /\ In(content[slot], n) <=> y = z
               /\ level # NUM_LEVELS - 1 =>
                    Index(cached_when[n]) \div LEVEL_MULT = q \div LEVEL_MULT
    <3> DEFINE y == Index(cached_when[n]) - q
    <3>1. PICK s \in Slots : In(content[s], n)
      BY <2>1 DEF OnLevel
    <3>2. /\ y \in Slots /\ 0 < y /\ (y + q) % LEVEL_MULT = s /\ s \in occupied
          /\ level # NUM_LEVELS - 1 => Index(cached_when[n]) \div LEVEL_MULT = q \div LEVEL_MULT
      BY <1>4, <3>1, SlotAhead
    <3>3. Index(cached_when[n]) \in Nat
      BY Ranges DEF IInv, TypeOK
    <3>4. z <= y /\ y \in 0..(LEVEL_MULT - 1)
      BY <1>1, <3>2 DEF Slots
    <3>5. In(content[slot], n) => y = z
      <4>1. HAVE In(content[slot], n)
      <4>2. (y + q) % LEVEL_MULT = slot
        BY <1>3, <1>4, <4>1, SlotAhead
      <4> QED  BY <1>1, <1>2, <3>4, <4>2, TurnOnce
    <3>6. y = z => In(content[slot], n)
      BY <1>1, <3>1, <3>2
    <3> HIDE DEF y
    <3> QED  BY <3>2, <3>3, <3>4, <3>5, <3>6 DEF y
  <2>2. PICK n \in Nodes : In(content[slot], n)
    <3>1. content[slot] # <<>> /\ content[slot] \in Seq(Nodes)
      BY <1>1, <1>3, ListsOf DEF IInv, OccupiedExact, TypeOK
    <3>2. content[slot][1] \in Nodes /\ 1 \in 1..Len(content[slot])
      BY <3>1
    <3> QED  BY <3>2 DEF In
  <2>3. /\ Index(cached_when[n]) \in Nat /\ Index(cached_when[n]) - q = z /\ 0 < z
        /\ level # NUM_LEVELS - 1 => (z + q) \div LEVEL_MULT = q \div LEVEL_MULT
    <3>1. OnLevel(n)
      BY <1>3, <2>2 DEF OnLevel
    <3>2. Index(cached_when[n]) = z + q
      BY <1>2, <2>1, <2>2, <3>1
    <3> QED  BY <1>2, <2>1, <2>2, <3>1, <3>2
  <2>4. /\ (q % LEVEL_MULT) + z < LEVEL_MULT => d = (z + q) * slot_range /\ now < d
        /\ (q % LEVEL_MULT) + z >= LEVEL_MULT =>
             d + level_range = (z + q) * slot_range /\ d <= now
    <3>1. d = (now - (now % (LEVEL_MULT * slot_range))) + ((z + q) % LEVEL_MULT) * slot_range
      BY <1>1, Ranges DEF IInv, start_of
    <3>2. q = now \div slot_range /\ z \in Nat /\ z < LEVEL_MULT /\ z + q = q + z
      BY <1>2 DEF Index
    <3>3. slot_range \in Nat \ {0} /\ level_range = LEVEL_MULT * slot_range
      BY Ranges DEF IInv
    <3>4. LET a == now \div slot_range IN
          /\ (a % LEVEL_MULT) + z < LEVEL_MULT =>
               /\ Begin(now, z, LEVEL_MULT, slot_range) = (a + z) * slot_range
               /\ now < Begin(now, z, LEVEL_MULT, slot_range)
          /\ (a % LEVEL_MULT) + z >= LEVEL_MULT =>
               /\ Begin(now, z, LEVEL_MULT, slot_range) + LEVEL_MULT * slot_range
                    = (a + z) * slot_range
               /\ Begin(now, z, LEVEL_MULT, slot_range) <= now
      <4>1. now \in Nat /\ z \in Nat /\ 0 < z /\ z < LEVEL_MULT
        BY <1>2, <2>3
      <4>2. LEVEL_MULT \in Nat \ {0} /\ slot_range \in Nat \ {0}
        BY <3>3, LevelMultType
      <4> QED  BY <4>1, <4>2, StartOf
    <3>5. d = Begin(now, z, LEVEL_MULT, slot_range)
      BY <3>1, <3>2 DEF Begin
    <3> HIDE DEF d, q
    <3> QED  BY <3>2, <3>3, <3>4, <3>5
  <2>5. next_deadline = (z + q) * slot_range
    <3>1. q % LEVEL_MULT \in Nat
      BY <1>2, Division
    <3>2. level_range \in Nat /\ LEVEL_MULT \in Nat
      BY LevelMultType, Ranges DEF IInv
    <3> QED  BY <1>2, <1>3, <2>4, <3>1, <3>2 DEF next_deadline
  <2>6. ASSUME level # NUM_LEVELS - 1 PROVE d > now
    <3>1. /\ z + q = LEVEL_MULT * (q \div LEVEL_MULT) + ((z + q) % LEVEL_MULT)
          /\ (z + q) % LEVEL_MULT \in 0..(LEVEL_MULT - 1)
      <4>1. z + q \in Nat
        BY <1>2
      <4> QED  BY <1>2, <2>3, <2>6, <4>1, Division
    <3>2. q = LEVEL_MULT * (q \div LEVEL_MULT) + (q % LEVEL_MULT) /\ q % LEVEL_MULT \in Nat
      <4>1. q \in Nat
        BY <1>2
      <4> HIDE DEF q
      <4> QED  BY <4>1, LevelMultType, Division
    <3>3. LEVEL_MULT * (q \div LEVEL_MULT) \in Nat
      BY <1>2, Division
    <3>4. (q % LEVEL_MULT) + z < LEVEL_MULT
      BY <1>2, <3>1, <3>2, <3>3
    <3> QED  BY <1>3, <2>4, <3>4
  <2>7. \A m \in Nodes : OnLevel(m) =>
          /\ z + q <= Index(cached_when[m])
          /\ In(content[slot], m) <=> Index(cached_when[m]) = z + q
    BY <1>2, <2>1
  <2> QED  BY <1>2, <2>2, <2>3, <2>5, <2>6, <2>7
<1>5. ~next_expiration_panics
  <2>1. level # NUM_LEVELS - 1 => d > now
    BY <1>4 DEF Bounded
  <2>2. now < next_deadline
    <3>1. now < d + level_range
      BY <1>3, StartTyped DEF IInv
    <3>2. next_deadline = IF d <= now THEN d + level_range ELSE d
      BY DEF next_deadline
    <3> HIDE DEF d, slot
    <3> QED  BY <1>2, <1>3, <3>1, <3>2
  <2> HIDE DEF d, slot
  <2>3. ~(d <= now /\ level # NUM_LEVELS - 1) /\ ~(next_deadline < now)
    BY <1>2, <1>3, <2>1, <2>2
  <2> QED  BY <2>3 DEF next_expiration_panics, d, slot
<1>6. z + q \in Nat
  BY <1>2
<1> QED  BY <1>1, <1>3, <1>4, <1>5, <1>6

(* The comments on how far away a timer may be make it Ahead. *)
LEMMA BelongsAhead ==
  ASSUME TypeOK, Bounded, NEW w \in Nat, Belongs(w)
  PROVE  /\ Index(now) < Index(w) /\ Index(w) < Index(now) + LEVEL_MULT
         /\ level # NUM_LEVELS - 1 => Index(w) \div LEVEL_MULT = Index(now) \div LEVEL_MULT
<1> DEFINE k == Index(w)
           q == Index(now)
<1>1. k \in Nat /\ q \in Nat /\ now \in Nat /\ LEVEL_MULT \in Nat \ {0}
  BY LevelMultType, Ranges DEF TypeOK
<1>2. slot_range \in Nat \ {0} /\ level_range = LEVEL_MULT * slot_range
  BY Ranges
<1>3. q < k
  BY <1>1 DEF Belongs, Index
<1>4. CASE level # NUM_LEVELS - 1
  <2>1. k \div LEVEL_MULT = q \div LEVEL_MULT
    <3>1. w \div level_range = now \div level_range
      BY <1>4 DEF Belongs
    <3>2. w \div level_range = (w \div slot_range) \div LEVEL_MULT
      BY <1>1, <1>2, Nested
    <3>3. now \div level_range = (now \div slot_range) \div LEVEL_MULT
      BY <1>1, <1>2, Nested
    <3> QED  BY <3>1, <3>2, <3>3 DEF Index
  <2> HIDE DEF k, q
  <2>2. /\ k \div LEVEL_MULT \in Nat /\ k % LEVEL_MULT \in 0..(LEVEL_MULT - 1)
        /\ k = LEVEL_MULT * (k \div LEVEL_MULT) + (k % LEVEL_MULT)
    BY <1>1, Division
  <2>3. /\ q % LEVEL_MULT \in 0..(LEVEL_MULT - 1)
        /\ q = LEVEL_MULT * (q \div LEVEL_MULT) + (q % LEVEL_MULT)
    BY <1>1, Division
  <2>4. LEVEL_MULT * (k \div LEVEL_MULT) = LEVEL_MULT * (q \div LEVEL_MULT)
        /\ LEVEL_MULT * (k \div LEVEL_MULT) \in Nat
    BY <1>1, <2>1, <2>2
  <2>5. k < q + LEVEL_MULT
    BY <1>1, <2>2, <2>3, <2>4
  <2> QED  BY <1>3, <2>1, <2>5 DEF k, q
<1>5. CASE level = NUM_LEVELS - 1
  <2>1. w < (now - (now % slot_range)) + level_range
    BY <1>5 DEF Belongs, Bounded
  <2>2. now - (now % slot_range) = slot_range * q /\ slot_range * q \in Nat
    <3>1. /\ now % slot_range \in 0..(slot_range - 1) /\ now \div slot_range \in Nat
          /\ now = slot_range * (now \div slot_range) + (now % slot_range)
      BY <1>1, <1>2, Division
    <3>2. q = now \div slot_range
      BY DEF Index
    <3>3. slot_range * q \in Nat
      BY <1>1, <1>2
    <3> QED  BY <1>1, <3>1, <3>2, <3>3
  <2>3. slot_range * q + LEVEL_MULT * slot_range = (q + LEVEL_MULT) * slot_range
    BY <1>1, <1>2
  <2>4. w < (q + LEVEL_MULT) * slot_range
    BY <1>2, <2>1, <2>2, <2>3
  <2>5. q + LEVEL_MULT \in Nat
    BY <1>1
  <2>6. w \div slot_range < q + LEVEL_MULT
    <3> HIDE DEF q
    <3> QED  BY <1>2, <2>4, <2>5, Ordering
  <2> QED  BY <1>3, <1>5, <2>6 DEF Index
<1> QED  BY <1>4, <1>5

-----------------------------------------------------------------------------
(* Each step keeps the invariant *)

(* What is computed from the level alone stays. *)
LEMMA LevelKept ==
  ASSUME level' = level
  PROVE  slot_range' = slot_range /\ Bounded' = Bounded
BY DEF slot_range, Bounded

(* add_entry: the timer was in no list, and its slot gets its bit. *)
LEMMA AddEntryStep ==
  ASSUME IInv, NEW n \in Nodes, AddEntry(n)
  PROVE  IInv'
<1>1. PICK w \in (now + 1)..(now + level_range) : Belongs(w) /\ add_entry(n, w)
  BY DEF AddEntry
<1> DEFINE slot == slot_for(w)
<1>2. w \in Nat /\ slot \in Slots /\ now \in Nat
  <2>1. now \in Nat /\ level_range \in Nat
    BY Ranges DEF IInv, TypeOK
  <2> QED  BY <1>1, <2>1, Ranges DEF IInv
<1>3. /\ cached_when' = [cached_when EXCEPT ![n] = w]
      /\ store' = push_front(store, slot, n)
      /\ content' = [content EXCEPT ![slot] = <<n>> \o @]
      /\ occupied' = occupied \union {slot}
      /\ panicked' = push_front_panics(store, slot, n)
      /\ level' = level /\ now' = now /\ curr' = curr /\ curr = Nil
  BY <1>1 DEF add_entry, AddEntry
<1> HIDE DEF slot
<1>4. store \in Store /\ content \in Contents /\ Linked(store, content) /\ slot \in Lists
  BY <1>2, ListsOf DEF IInv, TypeOK, Contents, ListsLinked
<1>5. \A m \in Lists : ~In(content[m], n)
  BY ListsType DEF AddEntry, Idle, OnLevel
<1>6. ~panicked' /\ store' \in Store /\ content' \in Contents /\ Linked(store', content')
  BY <1>3, <1>4, <1>5, PushFrontLinked
<1>7. \A m \in Lists : \A x \in Nodes :
        In(content'[m], x) <=> In(content[m], x) \/ (m = slot /\ x = n)
  BY <1>3, <1>4, PushedIn
<1>8. cached_when' \in [Nodes -> Nat]
      /\ \A x \in Nodes : cached_when'[x] = IF x = n THEN w ELSE cached_when[x]
  BY <1>2, <1>3 DEF IInv, TypeOK
<1>9. TypeOK'
  <2>1. panicked' \in BOOLEAN
    BY <1>3 DEF push_front_panics
  <2>2. occupied' \subseteq Slots
    BY <1>2, <1>3 DEF IInv, TypeOK
  <2> QED  BY <1>3, <1>6, <1>8, <2>1, <2>2 DEF IInv, TypeOK, Contents
<1>10. OccupiedExact'
  <2>1. SUFFICES ASSUME NEW s \in Slots PROVE s \in occupied' <=> content'[s] # <<>>
    BY DEF OccupiedExact
  <2>2. s \in Lists
    BY ListsOf
  <2>3. CASE s = slot
    <3>1. In(content'[s], n)
      BY <1>7, <2>2, <2>3
    <3>2. content'[s] # <<>>
      BY <3>1 DEF In
    <3> QED  BY <1>3, <2>3, <3>2
  <2>4. CASE s # slot
    <3>1. content'[s] = content[s]
      BY <1>3, <1>4, <2>2, <2>4 DEF Contents
    <3> QED  BY <1>3, <2>4, <3>1 DEF IInv, OccupiedExact
  <2> QED  BY <2>3, <2>4
<1>11. Placed'
  <2>1. SUFFICES ASSUME NEW s \in Slots, NEW x \in Nodes, In(content'[s], x)
                 PROVE  slot_for(cached_when[x])' = s
    BY DEF Placed
  <2>2. slot_for(cached_when[x])' = slot_for(cached_when'[x])
    BY <1>3, LevelKept DEF slot_for
  <2>3. In(content[s], x) \/ (s = slot /\ x = n)
    BY <1>7, <2>1, ListsOf
  <2>4. CASE x = n
    BY <1>5, <1>8, <2>2, <2>3, <2>4, ListsOf DEF slot
  <2>5. CASE x # n
    BY <1>8, <2>2, <2>3, <2>5 DEF IInv, Placed
  <2> QED  BY <2>4, <2>5
<1>12. ASSUME Bounded' PROVE Timely'
  <2>1. Bounded
    BY <1>3, <1>12, LevelKept
  <2>2. SUFFICES ASSUME NEW x \in Nodes
                 PROVE  (OnLevel(x)' => Ahead(x)') /\ (In(content'[Taken], x) => Due(x)')
    BY DEF Timely
  <2>3. CASE x = n
    <3>1. ~In(content'[Taken], x)
      BY <1>2, <1>5, <1>7, <2>3, ListsOf
    <3>2. Ahead(x)'
      BY <1>2, <1>3, <1>8, <1>1, <2>1, <2>3, BelongsAhead, LevelKept DEF IInv, Ahead, Index
    <3> QED  BY <3>1, <3>2
  <2>4. CASE x # n
    <3>1. (OnLevel(x)' => OnLevel(x)) /\ (In(content'[Taken], x) => In(content[Taken], x))
      BY <1>7, <2>4, ListsOf DEF OnLevel
    <3>2. (OnLevel(x) => Ahead(x)) /\ (In(content[Taken], x) => Due(x))
      BY <2>1 DEF IInv, Timely
    <3>3. Ahead(x)' = Ahead(x) /\ Due(x)' = Due(x)
      BY <1>3, <1>8, <2>4, LevelKept DEF Ahead, Due, Index
    <3> QED  BY <3>1, <3>2, <3>3
  <2> QED  BY <2>3, <2>4
<1>13. ListsLinked' /\ Cursor' /\ NoPanic'
  BY <1>3, <1>6 DEF ListsLinked, Cursor, NoPanic
<1> QED  BY <1>9, <1>10, <1>11, <1>12, <1>13 DEF IInv

(* What the steps that take a timer out of a list have in common. *)
LEMMA TakenOut ==
  ASSUME IInv, NEW l \in Lists, NEW n \in Nodes, In(content[l], n),
         content' = [content EXCEPT ![l] = RemoveFirst(@, n)],
         level' = level, now' = now, cached_when' = cached_when
  PROVE  /\ \A m \in Lists : \A x \in Nodes : In(content'[m], x) <=> In(content[m], x) /\ x # n
         /\ Placed' /\ (Bounded' => Timely')
<1>1. store \in Store /\ content \in Contents /\ Linked(store, content)
  BY DEF IInv, TypeOK, Contents, ListsLinked
<1>2. \A m \in Lists : \A x \in Nodes : In(content'[m], x) <=> In(content[m], x) /\ x # n
  BY <1>1, RemovedIn
<1>3. Placed'
  <2>1. SUFFICES ASSUME NEW s \in Slots, NEW x \in Nodes, In(content'[s], x)
                 PROVE  slot_for(cached_when[x])' = s
    BY DEF Placed
  <2>2. slot_for(cached_when[x])' = slot_for(cached_when[x])
    BY LevelKept DEF slot_for
  <2>3. In(content[s], x)
    BY <1>2, <2>1, ListsOf
  <2> QED  BY <2>2, <2>3 DEF IInv, Placed
<1>4. ASSUME Bounded' PROVE Timely'
  <2>1. SUFFICES ASSUME NEW x \in Nodes
                 PROVE  (OnLevel(x)' => Ahead(x)') /\ (In(content'[Taken], x) => Due(x)')
    BY DEF Timely
  <2>2. (OnLevel(x)' => OnLevel(x)) /\ (In(content'[Taken], x) => In(content[Taken], x))
    BY <1>2, ListsOf DEF OnLevel
  <2>3. (OnLevel(x) => Ahead(x)) /\ (In(content[Taken], x) => Due(x))
    BY <1>4, LevelKept DEF IInv, Timely
  <2>4. Ahead(x)' = Ahead(x) /\ Due(x)' = Due(x)
    BY LevelKept DEF Ahead, Due, Index
  <2> QED  BY <2>2, <2>3, <2>4
<1> QED  BY <1>2, <1>3, <1>4

(* remove_entry: the slot computed from cached_when is the one the timer is in. *)
LEMMA RemoveEntryStep ==
  ASSUME IInv, NEW n \in Nodes, RemoveEntry(n)
  PROVE  IInv'
<1> DEFINE slot == slot_for(cached_when[n])
           r == remove(store, slot, n)
           empty == is_empty(r.store, slot)
<1>1. slot \in Slots /\ In(content[slot], n)
  BY DEF RemoveEntry, OnLevel, IInv, Placed
<1>2. /\ store' = r.store
      /\ content' = [content EXCEPT ![slot] = RemoveFirst(@, n)]
      /\ occupied' = IF empty THEN (occupied \ {slot}) \union ({slot} \ occupied) ELSE occupied
      /\ panicked' = (\/ remove_panics(store, slot, n)
                      \/ is_empty_panics(r.store, slot)
                      \/ (empty /\ slot \notin occupied))
      /\ level' = level /\ now' = now /\ cached_when' = cached_when /\ curr' = curr
      /\ curr = Nil
  BY DEF RemoveEntry
<1> HIDE DEF slot
<1>3. /\ store \in Store /\ content \in Contents /\ Linked(store, content)
      /\ slot \in Lists /\ occupied \subseteq Slots
  BY <1>1, ListsOf DEF IInv, TypeOK, Contents, ListsLinked
<1>4. /\ ~remove_panics(store, slot, n) /\ store' \in Store
      /\ content' \in Contents /\ Linked(store', content')
  <2>1. PICK i \in 1..Len(content[slot]) : content[slot][i] = n
    BY <1>1 DEF In
  <2> QED  BY <1>2, <1>3, <2>1, RemoveLinked
<1>5. (empty <=> content'[slot] = <<>>) /\ ~is_empty_panics(r.store, slot)
  BY <1>2, <1>3, <1>4, EmptyLinked
<1>6. slot \in occupied
  <2>1. content[slot] # <<>>
    BY <1>1 DEF In
  <2> QED  BY <1>1, <2>1 DEF IInv, OccupiedExact
<1>7. panicked' = FALSE
  BY <1>2, <1>4, <1>5, <1>6 DEF remove_panics
<1>8. occupied' = IF empty THEN occupied \ {slot} ELSE occupied
  BY <1>2, <1>6
<1> HIDE DEF empty, r
<1>9. TypeOK'
  BY <1>2, <1>3, <1>4, <1>7, <1>8 DEF IInv, TypeOK, Contents
<1>10. OccupiedExact'
  <2>1. SUFFICES ASSUME NEW s \in Slots PROVE s \in occupied' <=> content'[s] # <<>>
    BY DEF OccupiedExact
  <2>2. CASE s = slot
    BY <1>5, <1>6, <1>8, <2>2
  <2>3. CASE s # slot
    <3>1. content'[s] = content[s]
      BY <1>2, <1>3, <2>3, ListsOf DEF Contents
    <3> QED  BY <1>8, <2>3, <3>1 DEF IInv, OccupiedExact
  <2> QED  BY <2>2, <2>3
<1>11. Placed' /\ (Bounded' => Timely')
  BY <1>1, <1>2, <1>3, TakenOut
<1>12. ListsLinked' /\ Cursor' /\ NoPanic'
  BY <1>2, <1>4, <1>7 DEF ListsLinked, Cursor, NoPanic
<1> QED  BY <1>9, <1>10, <1>11, <1>12 DEF IInv

(* The bits do not speak of the list that was taken. *)
LEMMA OccupiedKept ==
  ASSUME IInv, NEW n \in Nodes, occupied' = occupied,
         content' = [content EXCEPT ![Taken] = RemoveFirst(@, n)]
  PROVE  OccupiedExact'
<1>1. \A s \in Slots : content'[s] = content[s]
  BY ListsOf DEF IInv, TypeOK
<1> QED  BY <1>1 DEF IInv, OccupiedExact

(* pop_back on the taken list. *)
LEMMA PopTakenStep ==
  ASSUME IInv, PopTaken
  PROVE  IInv'
<1> DEFINE n == last(store, Taken)
<1>1. /\ store' = pop_back(store, Taken).store
      /\ content' = [content EXCEPT ![Taken] = RemoveFirst(@, n)]
      /\ level' = level /\ now' = now /\ cached_when' = cached_when /\ curr' = curr
      /\ occupied' = occupied /\ panicked' = panicked /\ curr = Nil /\ content[Taken] # <<>>
  BY DEF PopTaken
<1> HIDE DEF n
<1>2. store \in Store /\ content \in Contents /\ Linked(store, content) /\ Taken \in Lists
  BY ListsOf DEF IInv, TypeOK, Contents, ListsLinked
<1>3. /\ n = content[Taken][Len(content[Taken])]
      /\ store' \in Store /\ content' \in Contents /\ Linked(store', content')
  BY <1>1, <1>2, PopBackLinked DEF n
<1>4. n \in Nodes /\ In(content[Taken], n)
  <2>1. content[Taken] \in Seq(Nodes)
    BY <1>2 DEF Contents
  <2>2. Len(content[Taken]) \in 1..Len(content[Taken])
    BY <1>1, <2>1
  <2> QED  BY <1>3, <2>1, <2>2 DEF In
<1>5. TypeOK'
  BY <1>1, <1>3 DEF IInv, TypeOK, Contents
<1>6. OccupiedExact'
  BY <1>1, <1>4, OccupiedKept
<1>7. Placed' /\ (Bounded' => Timely')
  BY <1>1, <1>2, <1>4, TakenOut
<1>8. ListsLinked' /\ Cursor' /\ NoPanic'
  BY <1>1, <1>3 DEF IInv, ListsLinked, Cursor, NoPanic
<1> QED  BY <1>5, <1>6, <1>7, <1>8 DEF IInv

(* A filter's next stop is a timer of the list, or the end of it. *)
LEMMA CursorMoves ==
  ASSUME IInv, curr # Nil
  PROVE  /\ store.next[curr] \in Nodes \union {Nil} /\ store.next[curr] # curr
         /\ store.next[curr] # Nil => In(content[Taken], store.next[curr])
<1>1. PICK i \in 1..Len(content[Taken]) : content[Taken][i] = curr
  BY DEF IInv, Cursor, In
<1>2. store \in Store /\ content \in Contents /\ Linked(store, content) /\ Taken \in Lists
  BY ListsOf DEF IInv, TypeOK, Contents, ListsLinked
<1>3. /\ Len(content[Taken]) \in Nat /\ curr \in Nodes
      /\ store.next[curr] = IF i = Len(content[Taken]) THEN Nil ELSE content[Taken][i + 1]
  BY <1>1, <1>2, Position
<1>4. CASE i = Len(content[Taken])
  BY NilType, <1>3, <1>4
<1>5. CASE i # Len(content[Taken])
  <2>1. i + 1 \in 1..Len(content[Taken])
    BY <1>3, <1>5
  <2>2. content[Taken][i + 1] \in Nodes /\ content[Taken][i + 1] # content[Taken][i]
    <3>1. /\ content[Taken][i + 1] \in Nodes
          /\ \A j \in 1..Len(content[Taken]) :
               content[Taken][j] = content[Taken][i + 1] => j = i + 1
      BY <1>2, <2>1, Position
    <3> QED  BY <1>3, <3>1
  <2> QED  BY <1>1, <1>3, <1>5, <2>1, <2>2 DEF In
<1> QED  BY <1>4, <1>5

(* A step that only moves the cursor, or none at all. *)
LEMMA CursorStep ==
  ASSUME IInv, curr' \in Nodes \union {Nil}, curr' # Nil => In(content[Taken], curr'),
         UNCHANGED <<level, now, cached_when, occupied, store, content, panicked>>
  PROVE  IInv'
<1>1. TypeOK' /\ ListsLinked' /\ OccupiedExact' /\ NoPanic'
  BY DEF IInv, TypeOK, ListsLinked, OccupiedExact, NoPanic
<1>2. Placed'
  <2>1. \A n \in Nodes : slot_for(cached_when[n])' = slot_for(cached_when[n])
    BY LevelKept DEF slot_for
  <2> QED  BY <2>1 DEF IInv, Placed
<1>3. Cursor'
  BY DEF Cursor
<1>4. ASSUME Bounded' PROVE Timely'
  <2>1. \A n \in Nodes : Ahead(n)' = Ahead(n) /\ Due(n)' = Due(n) /\ OnLevel(n)' = OnLevel(n)
    BY LevelKept DEF Ahead, Due, Index, OnLevel
  <2> QED  BY <1>4, <2>1, LevelKept DEF IInv, Timely
<1> QED  BY <1>1, <1>2, <1>3, <1>4 DEF IInv

(* drain_filter begins with the head of the taken list. *)
LEMMA DrainFilterStep ==
  ASSUME IInv, DrainFilter
  PROVE  IInv'
<1>1. Linked(store, content) /\ Taken \in Lists /\ content[Taken] \in Seq(Nodes)
  BY ListsOf DEF IInv, TypeOK, ListsLinked
<1>2. curr' = content[Taken][1] /\ content[Taken] # <<>>
  BY <1>1 DEF DrainFilter, Linked, Represents
<1>3. content[Taken][1] \in Nodes /\ 1 \in 1..Len(content[Taken])
  BY <1>1, <1>2
<1>4. curr' \in Nodes \union {Nil} /\ (curr' # Nil => In(content[Taken], curr'))
  BY <1>2, <1>3 DEF In
<1>5. UNCHANGED <<level, now, cached_when, occupied, store, content, panicked>>
  BY DEF DrainFilter
<1> QED  BY <1>4, <1>5, CursorStep

(* The filter leaves a timer and goes on to the next. *)
LEMMA DrainSkipsStep ==
  ASSUME IInv, DrainSkips
  PROVE  IInv'
<1>1. curr # Nil /\ curr' = store.next[curr]
      /\ UNCHANGED <<level, now, cached_when, occupied, store, content, panicked>>
  BY DEF DrainSkips
<1>2. curr' \in Nodes \union {Nil} /\ (curr' # Nil => In(content[Taken], curr'))
  BY <1>1, CursorMoves
<1> QED  BY <1>1, <1>2, CursorStep

(* The filter takes a timer; where it goes on was read before. *)
LEMMA DrainTakesStep ==
  ASSUME IInv, DrainTakes
  PROVE  IInv'
<1>1. /\ curr # Nil /\ curr' = store.next[curr]
      /\ store' = remove(store, Taken, curr).store
      /\ content' = [content EXCEPT ![Taken] = RemoveFirst(@, curr)]
      /\ panicked' = remove_panics(store, Taken, curr)
      /\ level' = level /\ now' = now /\ cached_when' = cached_when /\ occupied' = occupied
  BY DEF DrainTakes
<1>2. /\ store \in Store /\ content \in Contents /\ Linked(store, content)
      /\ Taken \in Lists /\ curr \in Nodes /\ In(content[Taken], curr)
  BY <1>1, ListsOf DEF IInv, TypeOK, Contents, ListsLinked, Cursor
<1>3. /\ ~remove_panics(store, Taken, curr) /\ store' \in Store
      /\ content' \in Contents /\ Linked(store', content')
  <2>1. PICK i \in 1..Len(content[Taken]) : content[Taken][i] = curr
    BY <1>2 DEF In
  <2> QED  BY <1>1, <1>2, <2>1, RemoveLinked
<1>4. panicked' = FALSE
  BY <1>1, <1>3 DEF remove_panics
<1>5. curr' \in Nodes \union {Nil} /\ curr' # curr /\ (curr' # Nil => In(content[Taken], curr'))
  BY <1>1, CursorMoves
<1>6. /\ \A m \in Lists : \A x \in Nodes :
           In(content'[m], x) <=> In(content[m], x) /\ x # curr
      /\ Placed' /\ (Bounded' => Timely')
  BY <1>1, <1>2, TakenOut
<1>7. TypeOK'
  BY <1>1, <1>3, <1>4, <1>5 DEF IInv, TypeOK, Contents
<1>8. Cursor'
  BY <1>2, <1>5, <1>6 DEF Cursor
<1>9. OccupiedExact'
  BY <1>1, <1>2, OccupiedKept
<1>10. ListsLinked' /\ NoPanic'
  BY <1>3, <1>4 DEF ListsLinked, NoPanic
<1> QED  BY <1>6, <1>7, <1>8, <1>9, <1>10 DEF IInv

(* The time passes, short of the next deadline: no timer of the level falls behind. *)
LEMMA AdvanceStep ==
  ASSUME IInv, Advance
  PROVE  IInv'
<1>1. /\ now' = now + 1 /\ content[Taken] = <<>>
      /\ occupied # {} => now + 1 < next_deadline
      /\ UNCHANGED <<level, cached_when, occupied, store, content, curr, panicked>>
  BY DEF Advance
<1>2. TypeOK' /\ ListsLinked' /\ OccupiedExact' /\ NoPanic' /\ Cursor'
  BY <1>1 DEF IInv, TypeOK, ListsLinked, OccupiedExact, NoPanic, Cursor
<1>3. Placed'
  <2>1. \A n \in Nodes : slot_for(cached_when[n])' = slot_for(cached_when[n])
    BY <1>1, LevelKept DEF slot_for
  <2> QED  BY <1>1, <2>1 DEF IInv, Placed
<1>4. ASSUME Bounded' PROVE Timely'
  <2>1. Bounded
    BY <1>1, <1>4, LevelKept
  <2>2. SUFFICES ASSUME NEW n \in Nodes, OnLevel(n) PROVE Ahead(n)'
    <3>1. \A n \in Nodes : ~In(content'[Taken], n) /\ OnLevel(n)' = OnLevel(n)
      BY <1>1 DEF In, OnLevel
    <3> QED  BY <3>1 DEF Timely
  <2> DEFINE v == Index(cached_when[n])
             q == Index(now)
             p == (now + 1) \div slot_range
  <2>3. now \in Nat /\ now + 1 \in Nat /\ slot_range \in Nat \ {0} /\ LEVEL_MULT \in Nat \ {0}
    BY LevelMultType, Ranges DEF IInv, TypeOK
  <2>4. v \in Nat /\ q \in Nat /\ p \in Nat
    BY <2>3, Division, Ranges DEF IInv, TypeOK
  <2>5. Ahead(n)
    BY <2>1, <2>2 DEF IInv, Timely
  <2>6. p < v
    <3>1. occupied # {}
      <4>1. PICK s \in Slots : In(content[s], n)
        BY <2>2 DEF OnLevel
      <4>2. content[s] # <<>>
        BY <4>1 DEF In
      <4> QED  BY <4>2 DEF IInv, OccupiedExact
    <3>2. PICK k \in Nat : next_deadline = k * slot_range /\ k <= v
      BY <2>1, <2>2, <3>1, NextDeadline
    <3>3. now + 1 < k * slot_range
      BY <1>1, <3>1, <3>2
    <3>4. (now + 1) \div slot_range < k
      BY <2>3, <3>3, Ordering
    <3> QED  BY <2>4, <3>2, <3>4
  <2>7. q <= p
    <3>1. now \div slot_range <= (now + 1) \div slot_range
      BY <2>3, Ordering
    <3> QED  BY <3>1 DEF Index
  <2>8. ASSUME level # NUM_LEVELS - 1 PROVE v \div LEVEL_MULT = p \div LEVEL_MULT
    <3>1. v \div LEVEL_MULT = q \div LEVEL_MULT
      BY <2>5, <2>8 DEF Ahead
    <3> HIDE DEF v, q, p
    <3>2. q \div LEVEL_MULT <= p \div LEVEL_MULT
      BY <2>3, <2>4, <2>7, Ordering
    <3>3. p \div LEVEL_MULT <= v \div LEVEL_MULT
      <4>1. p <= v
        BY <2>4, <2>6
      <4> QED  BY <2>3, <2>4, <4>1, Ordering
    <3>4. q \div LEVEL_MULT \in Nat /\ p \div LEVEL_MULT \in Nat
      BY <2>3, <2>4, Division
    <3> QED  BY <3>1, <3>2, <3>3, <3>4
  <2>9. v < p + LEVEL_MULT
    BY <2>3, <2>4, <2>5, <2>7 DEF Ahead
  <2>10. Index(cached_when[n])' = v /\ Index(now)' = p
    BY <1>1, LevelKept DEF Index
  <2> HIDE DEF v, p
  <2> QED  BY <1>1, <2>6, <2>8, <2>9, <2>10 DEF Ahead
<1> QED  BY <1>2, <1>3, <1>4 DEF IInv

(* The slot of the deadline is taken: its timers are due, all others lie ahead of it. *)
LEMMA ExpireStep ==
  ASSUME IInv, Expire
  PROVE  IInv'
<1> DEFINE slot == next_occupied_slot
<1>1. /\ content[Taken] = <<>> /\ occupied # {} /\ curr = Nil
      /\ now' = next_deadline /\ panicked' = next_expiration_panics
      /\ occupied' = occupied \ {slot}
      /\ store' = take(store, slot, Taken)
      /\ content' = [content EXCEPT ![Taken] = content[slot], ![slot] = <<>>]
      /\ level' = level /\ cached_when' = cached_when /\ curr' = curr
  BY DEF Expire
<1>2. slot \in occupied /\ slot \in Slots /\ next_deadline \in Nat /\ ~next_expiration_panics
  BY <1>1, NextDeadline DEF IInv, TypeOK
<1> HIDE DEF slot
<1>3. /\ store \in Store /\ content \in Contents /\ Linked(store, content)
      /\ Taken \in Lists /\ slot \in Lists /\ slot # Taken
  BY <1>2, ListsOf DEF IInv, TypeOK, Contents, ListsLinked
<1>4. store' \in Store /\ content' \in Contents /\ Linked(store', content')
  BY <1>1, <1>3, TakeLinked
<1>5. /\ content'[Taken] = content[slot] /\ content'[slot] = <<>>
      /\ \A s \in Slots : s # slot => content'[s] = content[s]
  BY <1>1, <1>3, ListsOf DEF Contents
<1>6. panicked' = FALSE
  BY <1>1, <1>2 DEF next_expiration_panics
<1>7. TypeOK'
  BY <1>1, <1>2, <1>4, <1>6 DEF IInv, TypeOK, Contents
<1>8. OccupiedExact'
  BY <1>1, <1>2, <1>5 DEF IInv, OccupiedExact
<1>9. Placed'
  <2>1. SUFFICES ASSUME NEW s \in Slots, NEW n \in Nodes, In(content'[s], n)
                 PROVE  slot_for(cached_when[n])' = s
    BY DEF Placed
  <2>2. s # slot
    BY <1>5, <2>1 DEF In
  <2>3. slot_for(cached_when[n])' = slot_for(cached_when[n])
    BY <1>1, LevelKept DEF slot_for
  <2> QED  BY <1>5, <2>1, <2>2, <2>3 DEF IInv, Placed
<1>10. ASSUME Bounded' PROVE Timely'
  <2>1. PICK k \in Nat :
          /\ next_deadline = k * slot_range /\ Index(now) < k
          /\ level # NUM_LEVELS - 1 => k \div LEVEL_MULT = Index(now) \div LEVEL_MULT
          /\ \A n \in Nodes : OnLevel(n) => k <= Index(cached_when[n])
          /\ \A n \in Nodes : OnLevel(n) => (In(content[slot], n) <=> Index(cached_when[n]) = k)
    BY <1>1, <1>10, LevelKept, NextDeadline DEF slot
  <2>2. slot_range \in Nat \ {0} /\ LEVEL_MULT \in Nat /\ Index(now) \in Nat
    BY LevelMultType, Ranges DEF IInv, TypeOK
  <2>3. Index(now)' = k
    <3>1. (k * slot_range) \div slot_range = k
      <4>1. k * slot_range = slot_range * k + 0 /\ 0 \in 0..(slot_range - 1)
        BY <2>2
      <4> QED  BY <2>2, <4>1, DivisionUnique
    <3> QED  BY <1>1, <2>1, <3>1, LevelKept DEF Index
  <2>4. SUFFICES ASSUME NEW n \in Nodes
                 PROVE  (OnLevel(n)' => Ahead(n)') /\ (In(content'[Taken], n) => Due(n)')
    BY DEF Timely
  <2>5. Index(cached_when[n])' = Index(cached_when[n]) /\ Index(cached_when[n]) \in Nat
    BY <1>1, LevelKept, Ranges DEF IInv, TypeOK, Index
  <2>6. OnLevel(n) => Ahead(n)
    BY <1>1, <1>10, LevelKept DEF IInv, Timely
  <2>7. ASSUME OnLevel(n)' PROVE Ahead(n)'
    <3>1. PICK s \in Slots : In(content'[s], n)
      BY <2>7 DEF OnLevel
    <3>2. s # slot /\ In(content[s], n)
      BY <1>5, <3>1 DEF In
    <3>3. OnLevel(n) /\ ~In(content[slot], n)
      BY <1>3, <3>2, ListsOf DEF OnLevel, Linked
    <3>4. k < Index(cached_when[n])
      BY <2>1, <2>5, <3>3
    <3>5. /\ Index(cached_when[n]) < k + LEVEL_MULT
          /\ level # NUM_LEVELS - 1 => Index(cached_when[n]) \div LEVEL_MULT = k \div LEVEL_MULT
      BY <2>1, <2>2, <2>5, <2>6, <3>3 DEF Ahead
    <3> QED  BY <1>1, <2>3, <2>5, <3>4, <3>5 DEF Ahead
  <2>8. ASSUME In(content'[Taken], n) PROVE Due(n)'
    <3>1. In(content[slot], n) /\ OnLevel(n)
      BY <1>2, <1>5, <2>8 DEF OnLevel
    <3>2. Index(cached_when[n]) = k /\ cached_when[n] \in Nat
      BY <2>1, <3>1 DEF IInv, TypeOK
    <3>3. /\ cached_when[n] % slot_range \in 0..(slot_range - 1)
          /\ cached_when[n] = slot_range * (cached_when[n] \div slot_range)
                               + (cached_when[n] % slot_range)
      BY <2>2, <3>2, Division
    <3>4. cached_when[n] \div slot_range = k
      BY <3>2 DEF Index
    <3>5. slot_range * k = k * slot_range /\ k * slot_range \in Nat
      BY <2>2
    <3>6. k * slot_range <= cached_when[n] /\ cached_when[n] < k * slot_range + slot_range
      BY <2>2, <3>2, <3>3, <3>4, <3>5
    <3> QED  BY <1>1, <2>1, <3>6, LevelKept DEF Due
  <2> QED  BY <2>7, <2>8
<1>11. ListsLinked' /\ Cursor' /\ NoPanic'
  BY <1>1, <1>4, <1>6 DEF ListsLinked, Cursor, NoPanic
<1> QED  BY <1>7, <1>8, <1>9, <1>10, <1>11 DEF IInv

-----------------------------------------------------------------------------
(* Level::new satisfies the invariant. *)
LEMMA InitIInv ==
  ASSUME Init
  PROVE  IInv
<1>1. Linked(store, content) /\ store \in Store /\ content \in Contents
  BY NewStoreLinked DEF Init
<1>2. TypeOK
  BY <1>1 DEF Init, TypeOK, Contents
<1>3. \A l \in Lists : content[l] = <<>> /\ \A n \in Nodes : ~In(content[l], n)
  BY DEF Init, In
<1>4. OccupiedExact /\ Placed /\ Timely
  BY <1>3, ListsOf DEF Init, OccupiedExact, Placed, Timely, OnLevel
<1>5. ListsLinked /\ Cursor /\ NoPanic
  BY <1>1 DEF Init, ListsLinked, Cursor, NoPanic
<1> QED  BY <1>2, <1>4, <1>5 DEF IInv

(* Every step keeps it. *)
LEMMA NextIInv ==
  ASSUME IInv, [Next]_vars
  PROVE  IInv'
<1>1. ASSUME NEW n \in Nodes, AddEntry(n) PROVE IInv'
  BY <1>1, AddEntryStep
<1>2. ASSUME NEW n \in Nodes, RemoveEntry(n) PROVE IInv'
  BY <1>2, RemoveEntryStep
<1>3. CASE Advance
  BY <1>3, AdvanceStep
<1>4. CASE Expire
  BY <1>4, ExpireStep
<1>5. CASE PopTaken
  BY <1>5, PopTakenStep
<1>6. CASE DrainFilter
  BY <1>6, DrainFilterStep
<1>7. CASE DrainSkips
  BY <1>7, DrainSkipsStep
<1>8. CASE DrainTakes
  BY <1>8, DrainTakesStep
<1>9. CASE UNCHANGED vars
  <2>1. UNCHANGED <<level, now, cached_when, occupied, store, content, curr, panicked>>
    BY <1>9 DEF vars
  <2>2. curr \in Nodes \union {Nil} /\ (curr # Nil => In(content[Taken], curr))
    BY DEF IInv, TypeOK, Cursor
  <2> QED  BY <2>1, <2>2, CursorStep
<1> QED  BY <1>1, <1>2, <1>3, <1>4, <1>5, <1>6, <1>7, <1>8, <1>9 DEF Next

(* The inductive invariant holds in every reachable state. *)
THEOREM Invariance == Spec => []IInv
<1>1. Init => IInv
  BY InitIInv
<1>2. IInv /\ [Next]_vars => IInv'
  BY NextIInv
<1> QED  BY <1>1, <1>2, PTL DEF Spec

(* The fields of the level have their types, whatever was called. *)
THEOREM TypeCorrect == Spec => []TypeOK
<1>1. IInv => TypeOK
  BY DEF IInv
<1> QED  BY <1>1, Invariance, PTL

(***************************************************************************)
(* add_entry, remove_entry, take_slot and drain_filter keep the pointers   *)
(* of all timers and slots those of the lists they stand for.              *)
(***************************************************************************)
THEOREM PointersKept == Spec => []ListsLinked
<1>1. IInv => ListsLinked
  BY DEF IInv
<1> QED  BY <1>1, Invariance, PTL

(* The bit field of the level tells exactly which slots have timers. *)
THEOREM BitsExact == Spec => []OccupiedExact
<1>1. IInv => OccupiedExact
  BY DEF IInv
<1> QED  BY <1>1, Invariance, PTL

(***************************************************************************)
(* None of the assertions of push_front, remove, is_empty, remove_entry    *)
(* and next_expiration (both of them) fails, whether timers are a full     *)
(* rotation away or not.                                                   *)
(***************************************************************************)
THEOREM NeverPanics == Spec => []NoPanic
<1>1. IInv => NoPanic
  BY DEF IInv
<1> QED  BY <1>1, Invariance, PTL

(***************************************************************************)
(* With timers less than a rotation away, next_expiration finds the        *)
(* beginning of the earliest slot that has timers.                         *)
(***************************************************************************)
THEOREM FindsEarliest ==
  ASSUME ~FullRotation
  PROVE  Spec => []NextIsEarliest
<1>1. ASSUME IInv PROVE NextIsEarliest
  <2>1. SUFFICES ASSUME occupied # {}
        PROVE  /\ next_deadline > now
               /\ \A n \in Nodes : OnLevel(n) => next_deadline <= cached_when[n]
               /\ \E n \in Nodes :
                    OnLevel(n) /\ cached_when[n] - (cached_when[n] % slot_range) = next_deadline
    BY DEF NextIsEarliest
  <2>2. PICK k \in Nat :
          /\ next_deadline = k * slot_range /\ Index(now) < k
          /\ \A n \in Nodes : OnLevel(n) => k <= Index(cached_when[n])
          /\ \A n \in Nodes : OnLevel(n) =>
               (In(content[next_occupied_slot], n) <=> Index(cached_when[n]) = k)
          /\ \E n \in Nodes : In(content[next_occupied_slot], n)
    BY <1>1, <2>1, NextDeadline DEF Bounded
  <2>3. next_occupied_slot \in Slots /\ slot_range \in Nat \ {0} /\ now \in Nat
    BY <1>1, <2>1, NextDeadline, Ranges DEF IInv, TypeOK
  <2>4. now < k * slot_range
    BY <2>2, <2>3, Ordering DEF Index
  <2>5. ASSUME NEW n \in Nodes, OnLevel(n) PROVE k * slot_range <= cached_when[n]
    <3>1. cached_when[n] \in Nat /\ k <= cached_when[n] \div slot_range
      BY <1>1, <2>2, <2>5 DEF IInv, TypeOK, Index
    <3> QED  BY <2>3, <3>1, Ordering
  <2>6. PICK n \in Nodes : In(content[next_occupied_slot], n)
    BY <2>2
  <2>7. OnLevel(n) /\ cached_when[n] \div slot_range = k /\ cached_when[n] \in Nat
    BY <1>1, <2>2, <2>3, <2>6 DEF OnLevel, Index, IInv, TypeOK
  <2>8. cached_when[n] - (cached_when[n] % slot_range) = k * slot_range
    <3>1. /\ cached_when[n] % slot_range \in 0..(slot_range - 1)
          /\ cached_when[n] = slot_range * (cached_when[n] \div slot_range)
                               + (cached_when[n] % slot_range)
      BY <2>3, <2>7, Division
    <3>2. slot_range * k = k * slot_range /\ k * slot_range \in Nat
      BY <2>3
    <3> QED  BY <2>3, <2>7, <3>1, <3>2
  <2>9. k * slot_range \in Nat
    BY <2>3
  <2> QED  BY <2>2, <2>3, <2>4, <2>5, <2>7, <2>8, <2>9
<1> QED  BY <1>1, Invariance, PTL

(***************************************************************************)
(* With timers less than a rotation away, no slot is passed over: what     *)
(* take_slot hands out is due within the slot that begins now.             *)
(***************************************************************************)
THEOREM ExpiresOnTime ==
  ASSUME ~FullRotation
  PROVE  Spec => []ExpiresInSlot
<1>1. ASSUME IInv PROVE ExpiresInSlot
  <2>1. SUFFICES ASSUME NEW n \in Nodes
        PROVE  /\ OnLevel(n) => cached_when[n] > now
               /\ In(content[Taken], n) => Due(n)
    BY DEF ExpiresInSlot, Due
  <2>2. Timely
    BY <1>1 DEF IInv, Bounded
  <2>3. slot_range \in Nat \ {0} /\ now \in Nat /\ cached_when[n] \in Nat
    BY <1>1, Ranges DEF IInv, TypeOK
  <2>4. ASSUME OnLevel(n) PROVE cached_when[n] > now
    <3>1. now \div slot_range < cached_when[n] \div slot_range
      BY <2>2, <2>4 DEF Timely, Ahead, Index
    <3>2. cached_when[n] <= now => cached_when[n] \div slot_range <= now \div slot_range
      BY <2>3, Ordering
    <3>3. now \div slot_range \in Nat /\ cached_when[n] \div slot_range \in Nat
      BY <2>3, Division
    <3> QED  BY <2>3, <3>1, <3>2, <3>3
  <2> QED  BY <2>2, <2>4 DEF Timely
<1> QED  BY <1>1, Invariance, PTL
=============================================================================
