----------------------- MODULE LendingPoolProperties -----------------------
(***************************************************************************)
(* What the pool promises, as invariants and action properties of          *)
(* LendingPool.  The runs check them on small instances; those that hold   *)
(* for every instance by proof are theorems of LendingPool_proofs and      *)
(* PoolSafety_proofs.                                                      *)
(***************************************************************************)
EXTENDS LendingPool

CONSTANT Dust    \* underlying units of rounding the solvency check tolerates

ASSUME DustAssumption == Dust \in Nat

\* The type invariant.  Balances are naturals: no checked subtraction of the
\* contracts can underflow in a reachable state.
TypeOK ==
    /\ reserves \in [Asset -> ReserveData]
    /\ supply \in [User -> [Asset -> Nat]]
    /\ debt \in [User -> [Asset -> Nat]]
    /\ collateral \in [User -> SUBSET Asset]
    /\ borrowing \in [User -> SUBSET Asset]
    /\ paused \in BOOLEAN
    /\ graceUntil \in Nat
    /\ gracePeriod \in Nat
    /\ now \in Nat \ {0}
    /\ price \in [Asset -> Nat]
    /\ wallet \in [User -> [Asset -> Nat]]
    /\ tokens \in [Asset -> Nat]

\* The bitmap the risk engine walks agrees with the balances: a reserve with debt
\* has its borrowing bit and no other has, and a collateral bit is only set over
\* a balance.  A stale bit would price a market the account left, a missing one
\* would hide its debt from the health factor.
BitmapInSync ==
    \A u \in User, a \in Asset :
        /\ a \in borrowing[u] <=> debt[u][a] # 0
        /\ a \in collateral[u] => supply[u][a] # 0

\* Every borrower has some collateral flagged: withdrawing, disabling and seizing
\* never leave a debt that nothing secures, because what they leave behind is
\* either within the borrowing capacity or written off.
NoNakedDebt == \A u \in User : borrowing[u] # {} => collateral[u] # {}

\* The totals of a reserve are the sums of its users' scaled balances.
TotalsMatch ==
    \A a \in Asset :
        /\ reserves[a].totalScaledSupply = SumOver([u \in User |-> supply[u][a]], User)
        /\ reserves[a].totalScaledDebt = SumOver([u \in User |-> debt[u][a]], User)

\* The internally tracked cash is the pool's token balance.
CashMatchesTokens == \A a \in Asset : reserves[a].cash = tokens[a]

\* The views project what the next accrue commits, at any time since the last
\* write: indexes and the treasury's claim (docs/testing.md, bug #4).
ViewsMatchAccrue ==
    \A a \in Asset :
        LET r == reserves[a]
            s == Accrue(r, now)
        IN  IsListed(r) =>
              /\ NormalizedIncome(r, now) = s.liquidityIndex
              /\ NormalizedDebt(r, now) = s.borrowIndex
              /\ TreasuryScaledNow(r, now) = s.accruedToTreasury

\* The rates a reserve stores are those of its present balances, configuration and
\* model: interest never runs at the utilization before the last call, not even in
\* a reserve that only a liquidation's write-off touched.
RatesCurrent == \A a \in Asset : IsListed(reserves[a]) => UpdateRates(reserves[a]) = reserves[a]

\* Cash, debts and the recognised deficit cover what suppliers and the treasury
\* can claim, up to Dust units of rounding.
Solvent ==
    \A a \in Asset :
        LET r == reserves[a]
        IN  IsListed(r) =>
              r.cash + TotalBorrowed(r, now) + r.deficit + Dust >= TotalSupplyLiabilities(r, now)

\* What a reserve holds beyond what it owes, exactly and in ray.
SurplusRay(r) ==
    (r.cash + r.deficit) * RAY + r.totalScaledDebt * r.borrowIndex
      - (r.totalScaledSupply + r.accruedToTreasury) * r.liquidityIndex

\* Every rounding favours the pool: interest apart, no call lowers the exact
\* surplus of a reserve, however small its amounts.
RoundingFavoursPool ==
    [][\A a \in Asset : reserves'[a] # reserves[a] =>
          SurplusRay(reserves'[a]) >= SurplusRay(Accrue(reserves[a], now))]_vars

AccountOf(u) == Account(supply[u], debt[u], collateral[u], borrowing[u])

Healthy(u) == IsHealthy(AccountOf(u), reserves, price, now)

Priced(u) == PricesUsable(AccountOf(u), price)

\* Nothing users do makes a healthy account unhealthy: only time, prices and the
\* configurator can.
HealthyStaysHealthy ==
    [][(/\ now' = now
        /\ price' = price
        /\ \A a \in Asset : reserves'[a].config = reserves[a].config)
       => \A u \in User : Priced(u) /\ Priced(u)' /\ Healthy(u) => Healthy(u)']_vars

\* A loss reaches a reserve's deficit only after its treasury is used up, and only
\* when an account that owed it is left without collateral and without debt.
LossWaterfall ==
    [][\A a \in Asset : reserves'[a].deficit > reserves[a].deficit =>
          /\ reserves'[a].accruedToTreasury = 0
          /\ \E u \in User : /\ debt[u][a] # 0
                             /\ collateral'[u] = {}
                             /\ \A b \in Asset : debt'[u][b] = 0]_vars

\* Exits that no price, pause of another market, deactivation or rounding may close:
\* whoever holds the tokens can repay any debt in full, and a lender without debt can
\* withdraw what the cash covers unless the pool or the market is paused, oracle or no
\* oracle.  A debt and a balance are of amounts that the token's uint256 can express.
ExitsStayOpen ==
    \A u \in User, a \in Asset :
        LET owed == RayMulUp(debt[u][a], NormalizedDebt(reserves[a], now))
            balance == RayMulDown(supply[u][a], NormalizedIncome(reserves[a], now))
        IN  /\ debt[u][a] # 0 /\ owed <= wallet[u][a] /\ owed <= MaxUint
               => AcceptsRepay(u, a, MaxUint, u)
            /\ /\ supply[u][a] # 0 /\ borrowing[u] = {}
               /\ ~paused /\ ~reserves[a].config.paused
               /\ balance <= reserves[a].cash
               => AcceptsWithdraw(u, a, MaxUint)

\* The emergency action matrix of ValidationLogic.sol, over whole transactions.
\* While the pool is paused no balance moves except debts that fall; in a paused
\* reserve no supply balance moves and no debt grows, though a write-off forced by
\* another market may still clear a debt; a frozen reserve takes no new exposure.
EmergencyMatrix ==
    [][\A u \in User, a \in Asset :
          /\ paused \/ reserves[a].config.paused =>
               supply'[u][a] = supply[u][a] /\ debt'[u][a] <= debt[u][a]
          /\ paused => collateral'[u] = collateral[u]
          /\ reserves[a].config.frozen =>
               /\ debt'[u][a] <= debt[u][a]
               /\ reserves'[a].totalScaledSupply <= reserves[a].totalScaledSupply]_vars

\* A configuration or rate-model change prices only the time after it: what every
\* holder can claim and owes at that moment is what it was before the change.
ConfigNotRetroactive ==
    [][\A a \in Asset :
          LET r == reserves[a]
              s == reserves'[a]
          IN  /\ IsListed(r)
              /\ s.config # r.config \/ s.interestRateModel # r.interestRateModel
              => /\ TotalSupplyLiabilities(s, now) = TotalSupplyLiabilities(r, now)
                 /\ TotalBorrowed(s, now) = TotalBorrowed(r, now)
                 /\ TreasuryScaledNow(s, now) = TreasuryScaledNow(r, now)]_vars

\* The claim of ReserveLogic.updateRates, taken exactly: over any interval suppliers
\* are credited at most what borrowers are charged.
CreditedAtMostCharged ==
    \A a \in Asset :
        LET r == reserves[a]
        IN  IsListed(r) =>
              r.totalScaledSupply * (NormalizedIncome(r, now) - r.liquidityIndex)
                <= r.totalScaledDebt * (NormalizedDebt(r, now) - r.borrowIndex)

\* The dust rule as docs/liquidations.md words it: when a partial liquidation is
\* refused, covering as much as allowed is not.
CoveringAllLeavesNoDust ==
    \A b \in User : Priced(b) /\ ~Healthy(b) =>
        \A c \in collateral[b], d \in borrowing[b] :
            LET accrued == [a \in Asset |-> Accrue(reserves[a], now)]
            IN  CalculateAmounts(LiquidationInput(accrued, c, d, b, MaxUint)).status # "LEAVES_DUST"
=============================================================================
