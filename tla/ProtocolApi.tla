----------------------------- MODULE ProtocolApi -----------------------------
(***************************************************************************)
(* What the API makes of the lens's answers: backend/src/dto.ts and the    *)
(* routes over the live pool.  Amounts keep their raw integer; the numbers *)
(* the code converts to floating point for display stay exact here, values *)
(* in wad and rates in ray.  A route is a function of the pool's state, as *)
(* if its calls were answered at one block.                                *)
(***************************************************************************)
EXTENDS PoolLens, Functions, TLC

usdValue(raw, unit, priceWad) == (raw * priceWad) \div unit

amountDto(raw, unit, priceWad) == [raw |-> raw, usd |-> usdValue(raw, unit, priceWad)]

(* MarketDto. *)
marketDto(a) ==
    LET amount(m, raw) == amountDto(raw, Unit[a], m.price)
        dto(m) ==
            [unit |-> Unit[a], price |-> [usd |-> m.price, status |-> m.priceStatus],
             totalSupplied |-> amount(m, m.totalSupplied), totalBorrowed |-> amount(m, m.totalBorrowed),
             availableLiquidity |-> amount(m, m.cash), treasury |-> amount(m, m.treasury),
             deficit |-> amount(m, m.deficit), utilization |-> m.utilization,
             supplyApr |-> m.liquidityRate, borrowApr |-> m.borrowRate,
             config |-> m.config, interestRateModel |-> m.interestRateModel]
    IN dto(getMarket(a))

(* HealthDto; a health factor that is null, for no debt or no price, is MAX_UINT256. *)
healthDto(u) ==
    LET h == accountHealth(u)
    IN [priced |-> h.ok,
        healthFactor |-> IF h.ok THEN h.healthFactor ELSE MAX_UINT256,
        riskLevel |-> classifyHealthFactor(h.healthFactor, h.ok),
        totalDebtUsd |-> h.totalDebtValue, borrowCapacityUsd |-> h.borrowCapacityValue,
        liquidationThresholdUsd |-> h.liquidationValue]

(* PositionDto, for every market of the lens. *)
positionDto(u, a, h) ==
    LET p == getUserPosition(u, a, h)
        amount(raw) == amountDto(raw, Unit[a], price[a])
    IN [supplied |-> amount(p.supplyBalance), borrowed |-> amount(p.debtBalance),
        collateralEnabled |-> p.collateralEnabled, walletBalance |-> amount(p.walletBalance),
        maxBorrow |-> amount(p.maxBorrow), maxWithdraw |-> amount(p.maxWithdraw)]

positionsDto(u) ==
    LET h == accountHealth(u) IN [a \in reservesList |-> positionDto(u, a, h)]

(* GET /accounts/:address, without the positions that are empty, and            *)
(* /accounts/:address/positions.                                                *)
accountDto(u) ==
    LET ps == positionsDto(u)
    IN [health |-> healthDto(u),
        positions |-> Restrict(ps, {a \in DOMAIN ps : ps[a].supplied.raw # 0 \/ ps[a].borrowed.raw # 0})]

accountPositions(u) == positionsDto(u)

----
(* GET /markets, /markets/:asset and /protocol.                                *)

markets == [a \in reservesList |-> marketDto(a)]

\* Mutant: beyond the kink the steep slope is charged on the whole utilization.
unkinkedBorrowRate(u, m) ==
    IF u <= m.optimalUtilization
    THEN m.baseRate + (m.slope1 * ((u * RAY) \div m.optimalUtilization)) \div RAY
    ELSE m.baseRate + m.slope1 + (m.slope2 * u) \div RAY

kinkedBorrowRate(u, m) ==
    LET excess == ((u - m.optimalUtilization) * RAY) \div (RAY - m.optimalUtilization)
    IN IF u <= m.optimalUtilization
       THEN m.baseRate + (m.slope1 * ((u * RAY) \div m.optimalUtilization)) \div RAY
       ELSE m.baseRate + m.slope1 + (m.slope2 * excess) \div RAY

impliedSupplyRate(borrowRate, u, reserveFactor) ==
    (((borrowRate * u) \div RAY) * (PERCENTAGE_FACTOR - reserveFactor)) \div PERCENTAGE_FACTOR

ratePoint(m, u) ==
    LET borrow == kinkedBorrowRate(u, m.interestRateModel)
    IN [utilization |-> u, borrowApr |-> borrow,
        supplyApr |-> impliedSupplyRate(borrow, u, m.config.reserveFactor)]

(* One point every five percent. *)
rateCurve(m) == {ratePoint(m, (5 * i * RAY) \div 100) : i \in 0..20}

totals(ms) ==
    LET sum(f(_)) == SumOver([a \in DOMAIN ms |-> f(ms[a])], DOMAIN ms)
        ratio(supplied, borrowed) == IF supplied > 0 THEN (borrowed * RAY) \div supplied ELSE 0
        sums == [totalSuppliedUsd |-> sum(LAMBDA m : m.totalSupplied.usd),
                 totalBorrowedUsd |-> sum(LAMBDA m : m.totalBorrowed.usd),
                 availableLiquidityUsd |-> sum(LAMBDA m : m.availableLiquidity.usd),
                 treasuryUsd |-> sum(LAMBDA m : m.treasury.usd),
                 deficitUsd |-> sum(LAMBDA m : m.deficit.usd)]
        whole(t) == [utilization |-> ratio(t.totalSuppliedUsd, t.totalBorrowedUsd)] @@ t
    IN whole(sums)

tvl == LET page(t) == [tvlUsd |-> t.totalSuppliedUsd, totals |-> t] IN page(totals(markets))

(* /protocol/utilization, /protocol/borrow-rate and /protocol/supply-rate.      *)
rates ==
    [a \in reservesList |->
        LET m == marketDto(a)
        IN [utilization |-> m.utilization, borrowApr |-> m.borrowApr, supplyApr |-> m.supplyApr]]

poolStatus == [paused |-> paused, graceUntil |-> graceUntil]

protocolStatus ==
    [paused |-> poolStatus.paused, liquidationsBlockedByGrace |-> poolStatus.graceUntil > now]

----
(* GET /liquidations/preview, "What a liquidation would do right now".         *)
preview(b, c, d, amount) ==
    LET p == previewLiquidation(b, c, d, amount)
    IN [liquidatable |-> p.liquidatable, status |-> p.status,
        debtRepaid |-> p.debtRepaid, collateralSeized |-> p.collateralSeized,
        profit |-> p.collateralSeizedValue - p.debtRepaidValue]

(* GET /liquidations/candidates: an account still liquidatable with its most   *)
(* profitable pair; of pairs that are equally good the first one found.        *)

profit(pr) == pr.collateralSeizedValue - pr.debtRepaidValue

\* Mutant: pairs are tried with a cover of one token unit instead of the largest.
candidatePairsOfOne(b) ==
    LET ps == positionsDto(b)
    IN {p \in {c \in DOMAIN ps : ps[c].collateralEnabled} \X {d \in DOMAIN ps : ps[d].borrowed.raw # 0} :
            previewLiquidation(b, p[1], p[2], 1).liquidatable}

candidatePairs(b) ==
    LET debts(ps) == {d \in DOMAIN ps : ps[d].borrowed.raw # 0}
        collaterals(ps) == {c \in DOMAIN ps : ps[c].collateralEnabled /\ ps[c].supplied.raw # 0}
        pairs(ps) == collaterals(ps) \X debts(ps)
    IN IF healthDto(b).riskLevel # "LIQUIDATABLE" THEN {}
       ELSE {p \in pairs(positionsDto(b)) : previewLiquidation(b, p[1], p[2], MaxUint).liquidatable}

bestLiquidation(b) ==
    LET profitOf == [p \in candidatePairs(b) |-> profit(previewLiquidation(b, p[1], p[2], MaxUint))]
        best(f) == {p \in DOMAIN f : \A q \in DOMAIN f : f[q] <= f[p]}
    IN best(profitOf)

----
(* What the markets page claims of each market and in sum.  The chart has at    *)
(* the present utilization the rate the pool charges and, in a market without  *)
(* a deficit, the rate it pays ("Mirrors KinkedInterestRateModel", "mirroring  *)
(* ReserveLogic.updateRates (no-deficit case)"), provided no time has passed   *)
(* since the rates were set.                                                   *)
BorrowCharted ==
    \A a \in reservesList : reserves[a].lastUpdateTimestamp = now =>
        ratePoint(marketDto(a), rates[a].utilization).borrowApr = rates[a].borrowApr

SupplyCharted ==
    \A a \in reservesList : reserves[a].lastUpdateTimestamp = now /\ reserves[a].deficit = 0 =>
        \E p \in rateCurve(marketDto(a)) :
            p.utilization = rates[a].utilization /\ p.supplyApr = rates[a].supplyApr

(* Supplied minus borrowed is the liquidity available, but for the deficit and  *)
(* a rounding unit per market.                                                 *)
TotalsAddUp ==
    \A page \in {tvl} :
        Apart(page.tvlUsd - page.totals.totalBorrowedUsd,
              page.totals.availableLiquidityUsd + page.totals.deficitUsd) <= Cardinality(reservesList)

(* An account page lists every debt of the account, and the debts add up to    *)
(* its total but for a rounding unit each.                                     *)
DebtsListed ==
    \A u \in User : \A page \in {accountDto(u)} :
        LET debts == {a \in DOMAIN page.positions : page.positions[a].borrowed.raw # 0}
        IN /\ debts = borrowing[u]
           /\ page.health.priced =>
                Apart(SumOver([a \in debts |-> page.positions[a].borrowed.usd], debts),
                      page.health.totalDebtUsd) <= Cardinality(debts)

(* The pages agree with the pool. *)
PagesMatchPool == BorrowCharted /\ SupplyCharted /\ TotalsAddUp /\ DebtsListed
=============================================================================
