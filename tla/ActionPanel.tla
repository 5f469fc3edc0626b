----------------------------- MODULE ActionPanel -----------------------------
(***************************************************************************)
(* What the dashboard tells a user before a transaction: the largest       *)
(* amount, the projected health factor and the reasons not to try          *)
(* (frontend/components/actions.tsx, frontend/lib/risk.ts), compared with  *)
(* what the pool does in the state the page was read in.  Amounts are in   *)
(* token units; the page's floating point is exact here, weighted values   *)
(* being kept in multiples of 1 / PERCENTAGE_FACTOR.                       *)
(***************************************************************************)
EXTENDS ProtocolApi

CONSTANT Typed          \* amounts a user may type

ASSUME PanelAssumption ==
    /\ Typed \subseteq Nat
    \* the pool books a reserve's cash in a uint128
    /\ \A a \in Asset : SumOver([u \in User |-> InitialWallet[u][a]], User) < MaxUint

Mode == {"supply", "withdraw", "borrow", "repay"}

(* What the panel reads for the asset selected; account is the health of the    *)
(* account page.                                                                *)
Panel(u, a) ==
    LET panel(ps) == [market |-> marketDto(a), account |-> healthDto(u),
                      positions |-> ps, position |-> ps[a]]
    IN panel(accountPositions(u))

(* The text of an amount is its whole units and its fraction of one; MAX writes *)
(* a text into the field, and what is submitted is read back from it.           *)
formatUnitsExact(raw, unit) == [whole |-> raw \div unit, frac |-> raw % unit]
parseAmount(text, unit) == text.whole * unit + text.frac

\* Mutant: the maximum of a repayment ignores the wallet.
maxRawDebt(mode, position) ==
    CASE mode = "supply" -> position.walletBalance.raw
      [] mode = "withdraw" -> position.maxWithdraw.raw
      [] mode = "borrow" -> position.maxBorrow.raw
      [] mode = "repay" -> position.borrowed.raw

maxRaw(mode, position) ==
    CASE mode = "supply" -> position.walletBalance.raw
      [] mode = "withdraw" -> position.maxWithdraw.raw
      [] mode = "borrow" -> position.maxBorrow.raw
      [] mode = "repay" -> Least(position.borrowed.raw, position.walletBalance.raw)

(* The MAX button. *)
isAll(mode, position) ==
    \/ mode = "withdraw" /\ maxRaw(mode, position) = position.supplied.raw
    \/ mode = "repay" /\ maxRaw(mode, position) = position.borrowed.raw

blocker(mode, panel) ==
    LET c == panel.market.config
        hasDebt == \E b \in DOMAIN panel.positions : panel.positions[b].borrowed.raw # 0
    IN \/ ~c.active
       \/ c.paused /\ mode # "repay"
       \/ c.frozen /\ mode \in {"supply", "borrow"}
       \/ mode = "borrow" /\ ~c.borrowingEnabled
       \/ /\ mode \in {"borrow", "withdraw"}
          /\ panel.market.price.status \notin {"OK", "OK_PRIMARY_ONLY", "OK_FALLBACK"}
       \/ /\ ~panel.account.priced
          /\ \/ mode = "borrow"
             \/ mode = "withdraw" /\ panel.position.collateralEnabled /\ hasDebt

exceedsMax(mode, position, amount) == mode # "repay" /\ amount > maxRaw(mode, position)
insufficientWallet(mode, position, amount) == mode = "repay" /\ amount > position.walletBalance.raw

(* The amounts the button submits: typed, or the maximum, which the pool is     *)
(* sent as MaxUint when it is the whole balance or the whole debt.              *)
submit(mode, panel) ==
    LET position == panel.position
        unit == panel.market.unit
        most == parseAmount(formatUnitsExact(maxRaw(mode, position), unit), unit)
    IN IF blocker(mode, panel) THEN {}
       ELSE {n \in Typed : /\ n # 0 /\ ~exceedsMax(mode, position, n)
                           /\ ~insufficientWallet(mode, position, n)}
            \cup (IF most = 0 THEN {} ELSE {IF isAll(mode, position) THEN MaxUint ELSE most})

\* Mutant: every supplied balance counts as collateral.
projectIgnoringFlag(h, market, mode, value, isCollateral) ==
    LET moved == CASE mode = "supply" -> value [] mode = "withdraw" -> -value [] OTHER -> 0
        liq == PERCENTAGE_FACTOR * h.liquidationThresholdUsd
                 + moved * market.config.liquidationThreshold
        cap == PERCENTAGE_FACTOR * h.borrowCapacityUsd + moved * market.config.ltv
        owed == CASE mode = "borrow" -> h.totalDebtUsd + value
                  [] mode = "repay" -> h.totalDebtUsd - Least(value, h.totalDebtUsd)
                  [] OTHER -> h.totalDebtUsd
    IN [liq |-> liq, borrowCapacity |-> IF cap < 0 THEN 0 ELSE cap, debt |-> owed,
        healthFactor |-> IF owed = 0 THEN MAX_UINT256
                         ELSE (WAD * IF liq < 0 THEN 0 ELSE liq) \div (PERCENTAGE_FACTOR * owed)]

(* project: health = liquidation value / debt; a supply counts as collateral    *)
(* even when the user switched that off for a balance already there.  Weighted  *)
(* values are in multiples of 1 / PERCENTAGE_FACTOR.                            *)
project(h, market, mode, value, isCollateral) ==
    LET moved == CASE mode = "supply" /\ (isCollateral \/ market.config.collateralEnabled) -> value
                   [] mode = "withdraw" /\ isCollateral -> -value
                   [] OTHER -> 0
        liq == PERCENTAGE_FACTOR * h.liquidationThresholdUsd
                 + moved * market.config.liquidationThreshold
        cap == PERCENTAGE_FACTOR * h.borrowCapacityUsd + moved * market.config.ltv
        owed == CASE mode = "borrow" -> h.totalDebtUsd + value
                  [] mode = "repay" -> h.totalDebtUsd - Least(value, h.totalDebtUsd)
                  [] OTHER -> h.totalDebtUsd
    IN [liq |-> liq, borrowCapacity |-> IF cap < 0 THEN 0 ELSE cap, debt |-> owed,
        healthFactor |-> IF owed = 0 THEN MAX_UINT256
                         ELSE (WAD * IF liq < 0 THEN 0 ELSE liq) \div (PERCENTAGE_FACTOR * owed)]

levelFor(hf) ==
    IF hf = MAX_UINT256 THEN "SAFE"
    ELSE IF hf < WAD THEN "LIQUIDATABLE"
    ELSE IF hf < danger THEN "DANGER"
    ELSE IF hf < warning THEN "WARNING"
    ELSE "SAFE"

----
(* The call the pool receives, and whether it accepts it.                      *)

Call(mode, u, a, amount) ==
    CASE mode = "supply" -> Supply(u, a, amount, u)
      [] mode = "withdraw" -> Withdraw(u, a, amount, u)
      [] mode = "borrow" -> Borrow(u, a, amount)
      [] mode = "repay" -> Repay(u, a, amount, u)

Accepts(mode, u, a, amount) ==
    CASE mode = "supply" -> AcceptsSupply(u, a, amount)
      [] mode = "withdraw" -> AcceptsWithdraw(u, a, amount)
      [] mode = "borrow" -> AcceptsBorrow(u, a, amount)
      [] mode = "repay" -> AcceptsRepay(u, a, amount, u)

(* A liquidation by whoever has the tokens, paid out in the collateral or, when *)
(* its cash is short, as a supply position.                                     *)
AcceptsLiquidation(b, c, d, debtToCover) ==
    LET accrued == [a \in Asset |-> Accrue(reserves[a], now)]
        executes(i, amounts) ==
            /\ amounts.status = "OK"
            /\ \/ amounts.debtRepaid = i.borrowerDebt
               \/ RayDivDown(amounts.debtRepaid, accrued[d].borrowIndex) # 0
        quote(i) == executes(i, CalculateAmounts(i))
    IN /\ ~paused /\ now >= graceUntil
       /\ \A a \in {c, d} : ValidateLiquidationReserve(reserves[a].config) /\ price[a] # 0
       /\ d \in borrowing[b] /\ c \in collateral[b]
       /\ Priced(b) /\ ~IsHealthy(AccountOf(b), accrued, price, now)
       /\ quote(LiquidationInput(accrued, c, d, b, debtToCover))

----
(* A repayment worth less than a scaled unit of the debt. *)
TooSmall(b, d, repaid) ==
    repaid # debtBalanceOf(d, b) /\ RayDivDown(repaid, NormalizedDebt(reserves[d], now)) = 0

(* What a call may cost beyond its amount, in token units: a scaled balance is *)
(* rounded to one of its units, a collateral's value to one of the price's.    *)
Rounding(index) == IF index = RAY THEN 0 ELSE DivUp(index, RAY)
ValueRounding(a) == IF price[a] % Unit[a] = 0 THEN 0 ELSE DivUp(Unit[a], price[a])

(* A maximum whose margin does not cover that: it is the haircut, and nothing  *)
(* for a withdrawal limited by the cash of the reserve.                        *)
Tight(mode, u, a, most) ==
    \/ mode = "borrow" /\ DivUp(most, MILLION) < Rounding(NormalizedDebt(reserves[a], now))
    \/ /\ mode = "withdraw" /\ most # supplyBalanceOf(a, u)
       /\ a \in collateral[u] /\ borrowing[u] # {} /\ reserves[a].config.ltv # 0
       /\ (IF most = reserves[a].cash THEN 0 ELSE DivUp(most, MILLION))
            < Rounding(NormalizedIncome(reserves[a], now)) + ValueRounding(a)

(* "the maximum the pool will accept" and "so a Max button always produces an  *)
(* executable transaction": an amount the panel lets the user submit, typed or *)
(* from MAX, is accepted by the pool in the state the page was read in.  The   *)
(* exceptions are supplies, of which the panel knows neither the pool's own    *)
(* pause nor the cap, a repayment offered to an account that owes nothing,     *)
(* amounts worth less than a scaled unit, and maximums too small or too close  *)
(* to the cash for the haircut to cover the rounding.                          *)
SubmittableAccepted ==
    \A u \in User, a \in reservesList :
        LET panel == Panel(u, a)
        IN \A mode \in Mode :
             \/ mode = "supply" /\ (paused \/ reserves[a].config.supplyCap # 0)
             \/ mode = "repay" /\ debt[u][a] = 0
             \/ Tight(mode, u, a, maxRaw(mode, panel.position))
             \/ \A n \in submit(mode, panel) :
                  \/ Accepts(mode, u, a, n)
                  \/ mode = "supply" /\ RayDivDown(n, NormalizedIncome(reserves[a], now)) = 0
                  \/ mode = "repay" /\ TooSmall(u, a, n)

(* "their health factor before -> after, computed like the RiskEngine": what   *)
(* the panel projects is what the account has after the call, the weighted     *)
(* collateral and the capacity within a rounding unit, and the badge it shows  *)
(* is the level the API reports then when nothing was rounded.  The exceptions *)
(* are a supply to a reserve whose collateral the user switched off, which the *)
(* panel counts and the pool does not, and a repayment above the debt, of      *)
(* which the panel subtracts all from the debts of the account.                *)
Miscounted(mode, u, a, amount) ==
    \/ /\ mode = "supply" /\ reserves[a].config.collateralEnabled
       /\ a \notin collateral[u] /\ supply[u][a] # 0
    \/ mode = "repay" /\ amount # MaxUint /\ amount > debtBalanceOf(a, u)

(* The balance a call of a mode moves, in the direction it moves it. *)
Moved(mode, u, a) ==
    CASE mode = "supply" -> supply'[u][a] > supply[u][a]
      [] mode = "withdraw" -> supply'[u][a] < supply[u][a]
      [] mode = "borrow" -> debt'[u][a] > debt[u][a]
      [] mode = "repay" -> debt'[u][a] < debt[u][a]

AsProjected(p, after) ==
    /\ after.totalDebtUsd = p.debt
    /\ Apart(PERCENTAGE_FACTOR * after.liquidationThresholdUsd, p.liq) < PERCENTAGE_FACTOR
    /\ Apart(PERCENTAGE_FACTOR * after.borrowCapacityUsd, p.borrowCapacity) < PERCENTAGE_FACTOR
    /\ PERCENTAGE_FACTOR * after.liquidationThresholdUsd = p.liq =>
         levelFor(p.healthFactor) = after.riskLevel

ProjectionMatches ==
    [][\A u \in {v \in User : <<supply'[v], debt'[v]>> # <<supply[v], debt[v]>>},
          a \in reservesList, mode \in Mode :
         Moved(mode, u, a) /\ Priced(u) /\ price[a] # 0 =>
           \A panel \in {Panel(u, a)} :
             \A n \in submit(mode, panel) :
               ~Miscounted(mode, u, a, n) /\ Call(mode, u, a, n) =>
                 LET shown == IF n = MaxUint THEN maxRaw(mode, panel.position) ELSE n
                     value == usdValue(shown, Unit[a], panel.market.price.usd)
                 IN \A p \in {project(panel.account, panel.market, mode, value,
                                      panel.position.collateralEnabled)} :
                      \A after \in {healthDto(u)'} : AsProjected(p, after)]_vars

(* What the Liquidate button of the liquidations page passes: the debt the     *)
(* preview said would be repaid.                                               *)
need(b, p) == previewLiquidation(b, p[1], p[2], MaxUint).debtRepaid

(* "What a liquidation would do right now" and "the most profitable single     *)
(* (collateral, debt) pair a liquidator could take right now": while           *)
(* liquidations are not halted, the pool accepts a pair and an amount exactly  *)
(* when the preview calls them liquidatable; an account that can be liquidated *)
(* by the largest amount is offered, and the pool accepts what the Liquidate   *)
(* button sends for the pair offered.  The exception is a repayment worth less *)
(* than a scaled unit of the debt, which the pool refuses and the preview      *)
(* does not notice.                                                            *)
Halted(b) == \/ protocolStatus.paused \/ protocolStatus.liquidationsBlockedByGrace
             \/ \E a \in collateral[b] \cup borrowing[b] : reserves[a].config.paused

CandidatesTakeable ==
    \A b \in User : ~Halted(b) =>
      /\ \A c, d \in Asset, n \in Typed :
           AcceptsLiquidation(b, c, d, n) <=>
             /\ preview(b, c, d, n).liquidatable
             /\ ~TooSmall(b, d, preview(b, c, d, n).debtRepaid)
      /\ \A best \in {bestLiquidation(b)} :
           /\ (\E c, d \in Asset : AcceptsLiquidation(b, c, d, MaxUint)) => best # {}
           /\ \A p \in best : \/ AcceptsLiquidation(b, p[1], p[2], need(b, p))
                              \/ TooSmall(b, p[2], need(b, p))
=============================================================================
