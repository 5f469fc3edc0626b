----------------------------- MODULE WadRayMath -----------------------------
(***************************************************************************)
(* The fixed-point helpers of contracts/libraries/WadRayMath.sol and       *)
(* PercentageMath.sol.  Every helper fixes its rounding direction; the     *)
(* scales RAY (1e27), WAD (1e18) and PERCENTAGE_FACTOR (1e4) are           *)
(* parameters, so that a model instance can use scales small enough for    *)
(* the rounding errors to be as large as the amounts themselves.           *)
(* Arguments are natural numbers.  Solidity's 256-bit overflow checks are  *)
(* not modelled: the operands are bounded by uint128 storage.              *)
(***************************************************************************)
EXTENDS Integers

CONSTANTS RAY, WAD, PERCENTAGE_FACTOR

ASSUME ScaleAssumption ==
    /\ RAY \in Nat /\ RAY > 1
    /\ WAD \in Nat \ {0}
    /\ PERCENTAGE_FACTOR \in Nat \ {0}

\* Integer division rounding up; b is non-zero.
DivUp(a, b) == a \div b + (IF a % b = 0 THEN 0 ELSE 1)

RayMulDown(a, b) == (a * b) \div RAY

RayMulUp(a, b) == DivUp(a * b, RAY)

RayDivDown(a, b) == (a * RAY) \div b

\* Mutant: a rayDivUp that truncates.
TruncatingRayDivUp(a, b) == (a * RAY) \div b

RayDivUp(a, b) == DivUp(a * RAY, b)

WadDivDown(a, b) == (a * WAD) \div b

PercentMulDown(value, bps) == (value * bps) \div PERCENTAGE_FACTOR

PercentMulUp(value, bps) == DivUp(value * bps, PERCENTAGE_FACTOR)
=============================================================================
