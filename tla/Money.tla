-------------------------------- MODULE Money --------------------------------
(***************************************************************************)
(* money/money.go of the checkout service (the frontend has a copy):       *)
(* amounts of units and nanos, and how two of them are added.  All amounts *)
(* of an order are in the currency of the user, so currency codes are left *)
(* out.  The sum of two valid nanos fits an int32: 2 * 999999999 < 2^31.   *)
(***************************************************************************)
EXTENDS Integers

CONSTANT NanosMod  (* The nanos of a unit: 1000000000.                      *)

ASSUME NanosModAssumption == NanosMod \in Nat \ {0}

Money == [units : Int, nanos : Int]
Zero == [units |-> 0, nanos |-> 0]

ValidNanos(n) == -NanosMod < n /\ n < NanosMod

SignMatches(m) == m.nanos = 0 \/ m.units = 0 \/ (m.nanos < 0 <=> m.units < 0)

IsValid(m) == SignMatches(m) /\ ValidNanos(m.nanos)

(* Go's division and remainder, which truncate towards zero.                *)
Quot(n) == IF n >= 0 THEN n \div NanosMod ELSE -((-n) \div NanosMod)
Rem(n) == IF n >= 0 THEN n % NanosMod ELSE -((-n) % NanosMod)

(* Mutant: whole units stay in the nanos.                                   *)
MutCarry(m) == m

(* units and nanos have the same sign: whole units move from the nanos.     *)
Carry(m) == [units |-> m.units + Quot(m.nanos), nanos |-> Rem(m.nanos)]

(* They have not: one unit moves to the nanos.                              *)
Borrow(m) ==
  IF m.units > 0 THEN [units |-> m.units - 1, nanos |-> m.nanos + NanosMod]
                 ELSE [units |-> m.units + 1, nanos |-> m.nanos - NanosMod]

SameSign(m) ==
  \/ m.units = 0 /\ m.nanos = 0
  \/ m.units > 0 /\ m.nanos >= 0
  \/ m.units < 0 /\ m.nanos <= 0

(* The sum of two valid amounts; of others, Sum returns ErrInvalidValue.    *)
Sum(l, r) ==
  LET m == [units |-> l.units + r.units, nanos |-> l.nanos + r.nanos]
  IN  IF SameSign(m) THEN Carry(m) ELSE Borrow(m)

(* Reference: what an amount is worth, in nanos.                            *)
Value(m) == m.units * NanosMod + m.nanos
=============================================================================
