---------------------------- MODULE InterestRates ----------------------------
(***************************************************************************)
(* The kinked utilization curve of contracts/interest/                     *)
(* KinkedInterestRateModel.sol and the growth factors of                   *)
(* contracts/libraries/MathUtils.sol.  Rates are annual and in ray.        *)
(* A rate model is immutable once deployed, so it is a record here.        *)
(***************************************************************************)
EXTENDS WadRayMath

CONSTANT SECONDS_PER_YEAR

ASSUME YearAssumption == SECONDS_PER_YEAR \in Nat \ {0}

\* The constructor bounds base + slope1 + slope2 by MAX_BORROW_RATE and keeps
\* the kink strictly between 0 and 100%.
MAX_BORROW_RATE == 10 * RAY

InterestRateModel ==
    {m \in [baseRate : Nat, slope1 : Nat, slope2 : Nat, optimalUtilization : 1 .. (RAY - 1)] :
        m.baseRate + m.slope1 + m.slope2 <= MAX_BORROW_RATE}

Utilization(cash, totalDebt) ==
    IF totalDebt = 0 THEN 0 ELSE RayDivDown(totalDebt, cash + totalDebt)

GetBorrowRate(m, cash, totalDebt) ==
    LET u == Utilization(cash, totalDebt)
        kink == m.optimalUtilization
    IN  IF u <= kink
        THEN m.baseRate + RayMulDown(m.slope1, RayDivDown(u, kink))
        ELSE m.baseRate + m.slope1
               + RayMulDown(m.slope2, RayDivDown(u - kink, RAY - kink))

\* Growth factor of the supply index over dt seconds, rounded down.
LinearInterest(rate, dt) == RAY + (rate * dt) \div SECONDS_PER_YEAR

\* Mutant: a compounding that lost its linear term.
QuadraticOnlyInterest(rate, dt) ==
    LET x == (rate * dt) \div SECONDS_PER_YEAR
    IN  RAY + RayMulDown(x, x) \div 2

\* Growth factor of the borrow index: the third-order expansion of e^x.
\* For dt = 0 every term vanishes, which is the early return of the code.
CompoundedInterest(rate, dt) ==
    LET x == (rate * dt) \div SECONDS_PER_YEAR
        xSquared == RayMulDown(x, x)
        xCubed == RayMulDown(xSquared, x)
    IN  RAY + x + xSquared \div 2 + xCubed \div 6
=============================================================================
