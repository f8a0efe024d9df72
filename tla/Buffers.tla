------------------------------- MODULE Buffers -------------------------------
(***************************************************************************)
(* The buffers that are handed to io_uring (src/src/buf): a Vec<u8> and    *)
(* the Slices and SliceMuts made of it, each owning the one below.  The    *)
(* two types differ in which trait they ask for and in nothing else.       *)
(***************************************************************************)
EXTENDS Usize, Sequences

CONSTANTS
  MaxCapacity,  \* bound: bytes of a Vec
  MaxViews,     \* bound: how deep slices are nested
  Indices       \* the numbers that the bounds of ranges are made of

ASSUME MaxCapacityType == MaxCapacity \in 0..IsizeMax
ASSUME MaxViewsType    == MaxViews \in Nat
ASSUME IndicesType     == Indices \subseteq Usize

VARIABLES
  vec,       \* the length and the capacity of the Vec
  views,     \* begin and end of the slices of it, the outermost last
  checks,    \* whether the build checks arithmetic for overflow
  lost,      \* history: what get_mut took away from under the slices
  panicked   \* a call panicked, which drops the buffer

vars == <<vec, views, checks, lost, panicked>>

Vecs == {v \in [len : 0..MaxCapacity, cap : 0..MaxCapacity] : v.len <= v.cap}

Bounds == [kind : {"Included", "Excluded"}, n : Indices] \union {[kind |-> "Unbounded", n |-> 0]}

Ranges == [start : Bounds, to : Bounds]

(* A static slice or str is a Vec without spare capacity. *)
Init ==
  /\ vec \in Vecs
  /\ views = <<>>
  /\ checks \in BOOLEAN
  /\ lost = {}
  /\ panicked = FALSE

-----------------------------------------------------------------------------
(* What IoBuf tells of a buffer: where its bytes begin in the Vec, how many  *)
(* are initialized and how many there are.                                   *)

IoBuf(at, bytes_init, bytes_total) ==
  [at |-> at, bytes_init |-> bytes_init, bytes_total |-> bytes_total]

(* Of a slice of buf.  With fewer than no bytes initialized, deref panics.   *)
View(buf, begin, end) ==
  IoBuf(buf.at + begin, Lesser(end, buf.bytes_init) - begin, end - begin)

Level[n \in Nat] ==
  IF n = 0 THEN IoBuf(0, vec.len, vec.cap)
           ELSE View(Level[n - 1], views[n].begin, views[n].end)

Buffer == Level[Len(views)]

(* deref, read_ptr and write_ptr do not panic, here and in every slice below. *)
Usable == \A n \in 0..Len(views) : Level[n].bytes_init >= 0

-----------------------------------------------------------------------------
(* Slicing *)

begin_of(bound) ==
  CASE bound.kind = "Included"  -> bound.n
    [] bound.kind = "Excluded"  -> wrapping_add(bound.n, 1)
    [] bound.kind = "Unbounded" -> 0

(* Mutant: the included end wraps as the excluded start does. *)
end_wraps(bound, size) ==
  CASE bound.kind = "Included"  -> wrapping_add(bound.n, 1)
    [] bound.kind = "Excluded"  -> bound.n
    [] bound.kind = "Unbounded" -> size

(* A number that does not fit is where expect panics. *)
end_of(bound, size) ==
  CASE bound.kind = "Included"  -> bound.n + 1
    [] bound.kind = "Excluded"  -> bound.n
    [] bound.kind = "Unbounded" -> size

(* parse_range panics *)
OutOfRange(range) ==
  \/ checks /\ range.start.kind = "Excluded" /\ range.start.n = MAX
  \/ ~Fits(end_of(range.to, 0))

(* Mutant: the beginning is compared with the capacity. *)
accepts_uninit(buf, begin, end) ==
  end <= buf.bytes_total /\ begin <= buf.bytes_total /\ begin <= end

(* The assertions of Slice::new *)
accepts(buf, begin, end) ==
  end <= buf.bytes_total /\ begin <= buf.bytes_init /\ begin <= end

Push(begin, end) == views' = Append(views, [begin |-> begin, end |-> end])

(* IoBuf::slice *)
Slice(range) ==
  LET begin == begin_of(range.start)
      end   == end_of(range.to, Buffer.bytes_init)
  IN
  /\ ~panicked /\ Len(views) < MaxViews
  /\ \/ /\ Usable /\ ~OutOfRange(range) /\ accepts(Buffer, begin, end)
        /\ Push(begin, end)
        /\ UNCHANGED panicked
     \/ /\ ~(Usable /\ ~OutOfRange(range) /\ accepts(Buffer, begin, end))
        /\ panicked' = TRUE
        /\ UNCHANGED views
  /\ UNCHANGED <<vec, checks, lost>>

(* IoBuf::slice_unchecked: its caller warrants what the assertions ask for,  *)
(* while the panics on the way to the bounds are as those of slice.          *)
SliceUnchecked(range) ==
  LET begin == begin_of(range.start)
      end   == end_of(range.to, Buffer.bytes_init)
  IN
  /\ ~panicked /\ Len(views) < MaxViews
  /\ \/ /\ Usable /\ ~OutOfRange(range) /\ accepts(Buffer, begin, end)
        /\ Push(begin, end)
        /\ UNCHANGED panicked
     \/ /\ ~(Usable /\ ~OutOfRange(range))
        /\ panicked' = TRUE
        /\ UNCHANGED views
  /\ UNCHANGED <<vec, checks, lost>>

(* Slice::into_inner *)
IntoInner ==
  /\ ~panicked /\ views # <<>>
  /\ views' = SubSeq(views, 1, Len(views) - 1)
  /\ lost' = IF Len(views) = 1 THEN {} ELSE lost
  /\ UNCHANGED <<vec, checks, panicked>>

-----------------------------------------------------------------------------
(* Use *)

(* Mutant: a slice passes the position on as it is. *)
ReadForgetsBegin(pos) ==
  /\ ~panicked /\ Usable /\ pos <= Buffer.bytes_total /\ pos <= vec.cap
  /\ vec' = [vec EXCEPT !.len = pos]
  /\ UNCHANGED <<views, checks, lost, panicked>>

(* set_init, after a read filled pos bytes of the buffer *)
ReadCompletes(pos) ==
  /\ ~panicked /\ Usable /\ pos <= Buffer.bytes_total /\ Buffer.at + pos <= vec.cap
  /\ vec' = [vec EXCEPT !.len = Buffer.at + pos]
  /\ UNCHANGED <<views, checks, lost, panicked>>

(* What the owner does to the Vec, through get_mut if there are slices. *)
GetMut ==
  /\ ~panicked
  /\ vec' \in Vecs
  /\ lost' = IF views = <<>> THEN {}
             ELSE lost \union (IF vec'.len < vec.len THEN {"bytes"} ELSE {})
                       \union (IF vec'.cap < vec.cap THEN {"capacity"} ELSE {})
  /\ UNCHANGED <<views, checks, panicked>>

Next ==
  \/ IntoInner \/ GetMut
  \/ \E range \in Ranges : Slice(range) \/ SliceUnchecked(range)
  \/ \E pos \in 0..MaxCapacity : ReadCompletes(pos)

Spec == Init /\ [][Next]_vars

-----------------------------------------------------------------------------
(* The memory a slice hands out lies in the Vec, however deep it is nested:  *)
(* what is initialized within its length, the rest within its capacity.  A   *)
(* slice panics instead only if get_mut took bytes from under it.  Only a    *)
(* smaller capacity is nowhere noticed.                                      *)
ViewsInBounds ==
  /\ "bytes" \notin lost => Usable
  /\ Usable => Buffer.at + Buffer.bytes_init <= vec.len
  /\ Usable /\ "capacity" \notin lost =>
       Buffer.bytes_init <= Buffer.bytes_total /\ Buffer.at + Buffer.bytes_total <= vec.cap

(* The bounds that a range means, in numbers that do not wrap *)
FirstOf(range) ==
  IF range.start.kind = "Unbounded" THEN 0
  ELSE range.start.n + (IF range.start.kind = "Excluded" THEN 1 ELSE 0)

LimitOf(range) ==
  IF range.to.kind = "Unbounded" THEN Buffer.bytes_init
  ELSE range.to.n + (IF range.to.kind = "Included" THEN 1 ELSE 0)

(* Where a slice of the range begins: a start that does not fit the word     *)
(* makes builds that check panic, as it lies past every buffer, and is taken *)
(* for the beginning of the buffer by those that do not.                     *)
StartOf(range) == IF checks \/ Fits(FirstOf(range)) THEN FirstOf(range) ELSE 0

(* slice gives the bytes that its range means, and panics exactly if it does *)
(* not mean initialized ones followed by ones there is space for.  The one   *)
(* range it takes for another is the one StartOf tells of.                   *)
RangesKept ==
  [][\A range \in Ranges :
       Slice(range) =>
         IF /\ Usable /\ StartOf(range) <= Buffer.bytes_init
            /\ StartOf(range) <= LimitOf(range) /\ LimitOf(range) <= Buffer.bytes_total
           THEN ~panicked' /\ Push(StartOf(range), LimitOf(range))
           ELSE panicked']_vars

(* "The specified pos becomes the new value returned by bytes_init." *)
InitKept ==
  [][\A pos \in 0..MaxCapacity : ReadCompletes(pos) => Usable' /\ Buffer'.bytes_init = pos]_vars
=============================================================================
