------------------------------ MODULE Scenario ------------------------------
(* Parts of the library that share no state: a client, or the few parties   *)
(* of a protocol, use one of them.  part names the one this behaviour is    *)
(* about and st is the state of its objects and of the calls on them.       *)
EXTENDS Integers, FiniteSets, FiniteSetsExt

VARIABLES part, st

scenario == <<part, st>>

(* The client starts to use a part: its objects are in state s.             *)
Start(p, s) == part = p /\ st = s

(* A call on the part in use takes its state to s.                          *)
Step(p, s) == part = p /\ st' = s /\ UNCHANGED part

-----------------------------------------------------------------------------
(* Machine words.  A word is the set of the positions of its one bits, so   *)
(* that | is \cup, & is \cap and - is \; the operators below are the ones   *)
(* that need the width or have no set counterpart.                          *)

Xor(a, b) == (a \ b) \cup (b \ a)

(* All ones, complement and shifts of a word of w bits: bits shifted past   *)
(* either end are lost, as in the code's casts back to the block type.      *)
Ones(w) == 0 .. w - 1
Not(w, a) == Ones(w) \ a
Shl(w, a, k) == {i + k : i \in a} \cap Ones(w)
Shr(a, k) == {i - k : i \in {j \in a : j >= k}}

(* The unsigned number a word holds, and back.                              *)
Val(a) == MapThenSumSet(LAMBDA i : 2^i, a)
WordOf(w, n) == {i \in 0 .. w - 1 : (n \div 2^i) % 2 = 1}

(* Unsigned comparison: the highest position in which they differ decides.  *)
Less(a, b) == a # b /\ Max(Xor(a, b)) \in b

(* Helpers on sizes (math/gadget.h).                                        *)
Log2Floor(x) == CHOOSE k \in 0 .. x : 2^k <= x /\ x < 2^(k + 1)

(* One short when x is no power of two.                                     *)
Log2CeilDown(x) == Log2Floor(x)

Log2Ceil(x) == IF x = 1 THEN 0 ELSE Log2Floor(x - 1) + 1
DivCeil(x, y) == IF x = 0 THEN 0 ELSE 1 + (x - 1) \div y
RoundUpTo(x, y) == DivCeil(x, y) * y
=============================================================================
