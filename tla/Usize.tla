-------------------------------- MODULE Usize --------------------------------
(***************************************************************************)
(* The machine word that sizes and offsets are kept in.                    *)
(***************************************************************************)
EXTENDS Integers

CONSTANTS
  Modulus,  \* 2^w for words of w bits
  Powers    \* 2^0 up to 2^(w-1)

(* What is used of powers of two: of any two the greater is a multiple. *)
ASSUME ModulusType == Modulus \in Nat /\ Modulus > 0
ASSUME PowersType  == Powers \subseteq 1..(Modulus - 1)
ASSUME PowersChain == \A a \in Powers : /\ Modulus % a = 0
                                        /\ \A b \in Powers : a <= b => b % a = 0

MAX == Modulus - 1

Usize == 0..MAX

wrapping_add(a, b) == (a + b) % Modulus
wrapping_sub(a, b) == (a - b) % Modulus

(* checked_add gives a number only if it fits. *)
Fits(n) == n <= MAX

(* No allocation and no type is larger: isize::MAX bytes. *)
IsizeMax == Modulus \div 2 - 1

Greater(a, b) == IF a > b THEN a ELSE b
Lesser(a, b)  == IF a < b THEN a ELSE b
=============================================================================
