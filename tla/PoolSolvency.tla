---------------------------- MODULE PoolSolvency ----------------------------
(***************************************************************************)
(* What the holders of a reserve keep, and how far rounded interest can    *)
(* take the reserve from solvency.  A history variable adds up what the    *)
(* intervals of each reserve may have credited to suppliers and treasury   *)
(* beyond what they charged to borrowers; the pool itself is LendingPool,  *)
(* unchanged.                                                              *)
(***************************************************************************)
EXTENDS LendingPoolProperties

VARIABLE tolerance   \* per asset, in ray: at most what interest has cost so far

\* At most what accruing r up to t credits beyond its charges, in ray: the suppliers'
\* share of the rounded debt and of its growth factor, and the treasury's share of one
\* unit.  Without time or debt nothing accrues.
InterestDust(r, t) ==
    LET debtNow == RayMulUp(r.totalScaledDebt, r.borrowIndex)
        growth == (r.borrowRate * (t - r.lastUpdateTimestamp)) \div SECONDS_PER_YEAR
        factor == r.config.reserveFactor
    IN  IF t = r.lastUpdateTimestamp \/ r.totalScaledDebt = 0
        THEN 0
        ELSE DivUp((debtNow + growth) * (PERCENTAGE_FACTOR - factor) + RAY * factor,
                   PERCENTAGE_FACTOR)

\* A call that writes a reserve ends an interval of it.
LedgerInit == Init /\ tolerance = [a \in Asset |-> 0]
LedgerNext ==
    /\ Next
    /\ tolerance' = [a \in Asset |-> tolerance[a]
                       + (IF reserves'[a] # reserves[a] THEN InterestDust(reserves[a], now) ELSE 0)]

LedgerSpec == LedgerInit /\ [][LedgerNext]_<<vars, tolerance>>

\* The intervals so far, and the one that is running, cost less than a unit more than Dust.
DustCovers ==
    \A a \in Asset : tolerance[a] + InterestDust(reserves[a], now) < (Dust + 1) * RAY

\* Interest included, no step lowers the exact surplus of a listed reserve by more than
\* the dust of the interval it ends.
SurplusFallsByDust ==
    [][\A a \in Asset : IsListed(reserves[a]) =>
          SurplusRay(reserves'[a]) + InterestDust(reserves[a], now) >= SurplusRay(reserves[a])]_vars

\* What u could withdraw from a now, and what repaying its debt in a would take.
ClaimOf(u, a) == RayMulDown(supply[u][a], NormalizedIncome(reserves[a], now))
OwedBy(u, a) == RayMulUp(debt[u][a], NormalizedDebt(reserves[a], now))

Withdraws(u, a) == \E amount \in Amounts, to \in User : Withdraw(u, a, amount, to)
Borrows(u, a) == \E amount \in Amounts : Borrow(u, a, amount)
IsSeized(u, a) ==
    \E sender \in User, d \in Asset, cover \in Amounts, receiveSupply \in BOOLEAN :
        Liquidate(sender, a, d, u, cover, receiveSupply)

\* Nobody's claim falls but by a withdrawal of its own or a seizure from it, and at one
\* moment nobody owes more but by borrowing: no call of others, loss written off,
\* reconfiguration or rounding is passed on to a holder.
HoldersKeepTheirOwn ==
    [][\A u \in User, a \in Asset : IsListed(reserves[a]) =>
          /\ ClaimOf(u, a)' >= ClaimOf(u, a) \/ Withdraws(u, a) \/ IsSeized(u, a)
          /\ OwedBy(u, a)' <= OwedBy(u, a) \/ Borrows(u, a) \/ now' # now]_vars
=============================================================================
