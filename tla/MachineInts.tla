---------------------------- MODULE MachineInts ----------------------------
(***************************************************************************)
(* The machine integers the readers compute with.  MaxWord is u64::MAX and *)
(* MaxSize is usize::MAX; MaxSize < MaxWord is a 32-bit target.  A checked *)
(* operation is written as the exact one guarded by Fits.                  *)
(***************************************************************************)
EXTENDS Integers

CONSTANTS MaxWord, MaxSize

ASSUME WordAssumption ==
  /\ MaxWord \in Nat \ {0}
  /\ MaxSize \in Nat \ {0}
  /\ MaxSize <= MaxWord

Word == 0..MaxWord

(* The range of i64 when Word is that of u64. *)
MinDelta == -((MaxWord + 1) \div 2)
Delta == MinDelta..(MaxWord \div 2)

(* A checked operation is Some exactly when its result fits. *)
Fits(n) == n <= MaxWord

SatAdd(a, b) == IF a + b <= MaxWord THEN a + b ELSE MaxWord
SatSub(a, b) == IF b <= a THEN a - b ELSE 0
SatMul(a, b) == IF a * b <= MaxWord THEN a * b ELSE MaxWord

(* usize::saturating_mul *)
SatMulSize(a, b) == IF a * b <= MaxSize THEN a * b ELSE MaxSize

(* `n as usize` drops the high bits on a narrower target. *)
AsSize(n) == n % (MaxSize + 1)

Lesser(a, b) == IF a <= b THEN a ELSE b
=============================================================================
