----------------------------- MODULE UnlockdMath -----------------------------
(***************************************************************************)
(* The fixed-point arithmetic of contracts/libraries/math: WadRayMath and  *)
(* PercentageMath.  A "ray" is the unit of the interest indexes, a "wad"   *)
(* the unit of ether amounts and health factors, and a percentage is a     *)
(* number of PERCENTAGE_FACTOR-ths.  Every product and quotient rounds     *)
(* half up.  The code fixes the units (1e27, 1e18, 1e4); here they are     *)
(* parameters, so that TLC can run with small ones and the lemmas of       *)
(* UnlockdMathProofs hold for all of them.  The operators are those of     *)
(* the code inside its overflow guards: the amounts of the models stay far *)
(* below 2^256.                                                            *)
(***************************************************************************)
EXTENDS Integers, FiniteSets

CONSTANTS
  RAY,                 \* 1e27: the index unit
  WAD,                 \* 1e18: the ether unit
  PERCENTAGE_FACTOR,   \* 1e4: 100%
  ONE_PERCENT          \* 1e2: the minimum step of a competing bid

ASSUME UnitsAssumption ==
  /\ RAY \in Nat \ {0}
  /\ WAD \in Nat \ {0}
  /\ PERCENTAGE_FACTOR \in Nat \ {0}
  /\ ONE_PERCENT \in 0 .. PERCENTAGE_FACTOR

\* The product of two numbers of the given unit, rounded half up.
UnitMul(a, b, unit) == (a * b + (unit \div 2)) \div unit

\* The quotient of two numbers of the given unit, rounded half up; b # 0.
UnitDiv(a, b, unit) == (a * unit + (b \div 2)) \div b

WadMul(a, b) == UnitMul(a, b, WAD)
WadDiv(a, b) == UnitDiv(a, b, WAD)
RayMul(a, b) == UnitMul(a, b, RAY)
RayDiv(a, b) == UnitDiv(a, b, RAY)
PercentMul(value, percentage) == UnitMul(value, percentage, PERCENTAGE_FACTOR)
PercentDiv(value, percentage) == UnitDiv(value, percentage, PERCENTAGE_FACTOR)

-----------------------------------------------------------------------------
(* Sums, for the properties.                                               *)

\* The units of the amounts f[x], x in S, told apart by their owner.
UnitsOf(f, S) == UNION {{x} \X (1 .. f[x]) : x \in S}

\* The sum of the amounts f[x], x in S, which are natural numbers.
SumOver(f, S) == Cardinality(UnitsOf(f, S))

=============================================================================
