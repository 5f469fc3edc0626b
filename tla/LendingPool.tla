---------------------------- MODULE LendingPool ----------------------------
(***************************************************************************)
(* The pool of contracts/core/LendingPool.sol: the balances of every user  *)
(* in every reserve, the reserves themselves, and the transactions that    *)
(* change them.  A transaction is atomic, so each external function is one *)
(* action; a require that fails, a checked subtraction that underflows or  *)
(* a token transfer that reverts undoes the whole call, so each is a       *)
(* conjunct of the action.  That no subtraction of a reachable state       *)
(* underflows is part of TypeOK, not a guard.                              *)
(*                                                                         *)
(* The environment is the block clock, the oracle's prices and the         *)
(* configurator, whose validated parameters are the constants below.       *)
(***************************************************************************)
EXTENDS LiquidationLogic

CONSTANTS
    User,             \* accounts that call the pool
    Beneficiaries,    \* Beneficiaries[u]: accounts u's calls may name as to or onBehalfOf
    Amounts,          \* amounts a call passes
    MaxUint,          \* type(uint256).max
    Prices,           \* Prices[a]: the oracle's answers for a, 0 when getPrice reverts
    Configs,          \* Configs[a]: the parameters the configurator may set for a
    RateModels,       \* RateModels[a]: the rate models the configurator may set for a
    Pauses,           \* the values it may set the pause of the pool to
    GracePeriods,     \* the liquidation grace periods it may set
    InitialWallet,    \* InitialWallet[u][a]: tokens user u starts with
    Listed,           \* assets listed at the start; initReserve lists the others
    InitialConfig,    \* the parameters those are listed with
    InitialRateModel, \* the rate models those are listed with
    MaxTime           \* the clock stops here

ASSUME PoolAssumption ==
    /\ IsFiniteSet(User)
    /\ Beneficiaries \in [User -> SUBSET User]
    /\ Amounts \subseteq Nat \ {0}
    /\ MaxUint \in Nat
    /\ Prices \in [Asset -> SUBSET Nat]
    /\ Configs \in [Asset -> SUBSET ValidConfig]
    /\ RateModels \in [Asset -> SUBSET InterestRateModel]
    /\ Pauses \subseteq BOOLEAN
    /\ GracePeriods \subseteq Nat
    /\ InitialWallet \in [User -> [Asset -> Nat]]
    /\ Listed \subseteq Asset
    /\ InitialConfig \in [Asset -> ValidConfig]
    /\ InitialRateModel \in [Asset -> InterestRateModel]
    /\ MaxTime \in Nat

VARIABLES
    reserves,      \* _reserves
    supply,        \* _userReserves[u][a].scaledSupply
    debt,          \* _userReserves[u][a].scaledDebt
    collateral,    \* the odd bits of _userConfig[u]: reserves used as collateral
    borrowing,     \* the even bits of _userConfig[u]: reserves borrowed from
    paused,        \* _paused
    graceUntil,    \* _liquidationGraceUntil
    gracePeriod,   \* _liquidationGracePeriod
    now,           \* block.timestamp
    price,         \* what _oracle.getPrice(a) answers, 0 when it reverts
    wallet,        \* IERC20(a).balanceOf(u)
    tokens         \* IERC20(a).balanceOf(pool)

accountVars == <<supply, debt, collateral, borrowing>>
emergencyVars == <<paused, graceUntil, gracePeriod>>
tokenVars == <<wallet, tokens>>
vars == <<reserves, accountVars, emergencyVars, now, price, tokenVars>>

MAX_GRACE_PERIOD == 4

Genesis == 1

NoBalance == [a \in Asset |-> 0]

UnlistedReserve ==
    [config |-> [ltv |-> 0, liquidationThreshold |-> 0, liquidationBonus |-> 0,
                 reserveFactor |-> 0, active |-> FALSE, frozen |-> FALSE, paused |-> FALSE,
                 borrowingEnabled |-> FALSE, collateralEnabled |-> FALSE,
                 supplyCap |-> 0, borrowCap |-> 0],
     liquidityIndex |-> 0, borrowIndex |-> 0, liquidityRate |-> 0, borrowRate |-> 0,
     totalScaledSupply |-> 0, totalScaledDebt |-> 0, cash |-> 0,
     accruedToTreasury |-> 0, deficit |-> 0,
     interestRateModel |-> [baseRate |-> 0, slope1 |-> 0, slope2 |-> 0, optimalUtilization |-> 1],
     lastUpdateTimestamp |-> 0]

\* The reserve initReserve stores at time t.
NewReserve(config, model, t) ==
    UpdateRates([UnlistedReserve EXCEPT !.config = config,
                                        !.liquidityIndex = RAY,
                                        !.borrowIndex = RAY,
                                        !.interestRateModel = model,
                                        !.lastUpdateTimestamp = t])

Init ==
    /\ reserves = [a \in Asset |-> IF a \in Listed
                                   THEN NewReserve(InitialConfig[a], InitialRateModel[a], Genesis)
                                   ELSE UnlistedReserve]
    /\ supply = [u \in User |-> NoBalance]
    /\ debt = [u \in User |-> NoBalance]
    /\ collateral = [u \in User |-> {}]
    /\ borrowing = [u \in User |-> {}]
    /\ paused = FALSE
    /\ graceUntil = 0
    /\ gracePeriod = 0
    /\ now = Genesis
    /\ price \in [Asset -> UNION {Prices[a] : a \in Asset}]
    /\ \A a \in Asset : price[a] \in Prices[a]
    /\ wallet = InitialWallet
    /\ tokens = NoBalance

-----------------------------------------------------------------------------
(***************************************************************************)
(* Helpers of the transactions.                                            *)
(***************************************************************************)

\* The account the risk engine values, with the balances and bits given.
Account(supplyOf, debtOf, collateralOf, borrowingOf) ==
    [supply |-> supplyOf, debt |-> debtOf, collateral |-> collateralOf, borrowing |-> borrowingOf]

\* ValidationLogic._requireOperational, with the pool's pause.
Operational(config) == config.active /\ ~paused /\ ~config.paused

ValidateSupply(config) == Operational(config) /\ ~config.frozen

ValidateBorrow(config) == Operational(config) /\ ~config.frozen /\ config.borrowingEnabled

ValidateRepay(config) == config.active

ValidateSetCollateral(config, enable) ==
    /\ Operational(config)
    /\ enable => ~config.frozen /\ config.collateralEnabled /\ config.liquidationThreshold # 0

\* Mutant: a paused reserve can still be liquidated.
ValidateActiveOnly(config) == config.active

ValidateLiquidationReserve(config) == config.active /\ ~config.paused

\* A first balance in a reserve that may serve as collateral sets its bit.
AutoEnables(config, previous) ==
    previous = 0 /\ config.collateralEnabled /\ config.liquidationThreshold # 0

\* Mutant: the bit outlives the balance.
KeepBit(bits, a, burn, balance) == bits

\* A bit is cleared when the whole scaled balance is burnt.
ClearBit(bits, a, burn, balance) == IF burn = balance THEN bits \ {a} ELSE bits

\* Mutant: only a withdrawal that empties the balance is checked.
CheckOnlyWhenEmptied(wasCollateral, isCollateral, borrowed) ==
    wasCollateral /\ ~isCollateral /\ borrowed # {}

\* Withdrawing collateral of an account with debt needs the capacity check.
NeedsCapacityCheck(wasCollateral, isCollateral, borrowed) == wasCollateral /\ borrowed # {}

\* safeTransferFrom(u, pool, amount) and safeTransfer(u, amount).
PullTokens(a, u, amount) ==
    /\ amount <= wallet[u][a]
    /\ wallet' = [wallet EXCEPT ![u][a] = @ - amount]
    /\ tokens' = [tokens EXCEPT ![a] = @ + amount]

PayTokens(a, u, amount) ==
    /\ amount <= tokens[a]
    /\ wallet' = [wallet EXCEPT ![u][a] = @ + amount]
    /\ tokens' = [tokens EXCEPT ![a] = @ - amount]

-----------------------------------------------------------------------------
(***************************************************************************)
(* Acceptance: what a call requires before it changes anything, the tokens *)
(* it moves at the end included.  A call that is accepted goes through;    *)
(* the rest of its action only assigns.                                    *)
(***************************************************************************)

AcceptsSupply(payer, a, amount) ==
    LET config == reserves[a].config
        r == Accrue(reserves[a], now)
        scaled == RayDivDown(amount, r.liquidityIndex)
        newTotal == r.totalScaledSupply + scaled
    IN  /\ ValidateSupply(config)
        /\ scaled # 0
        /\ config.supplyCap # 0 =>
             RayMulDown(newTotal + r.accruedToTreasury, r.liquidityIndex) <= config.supplyCap * Unit[a]
        /\ amount <= wallet[payer][a]

AcceptsWithdraw(sender, a, amount) ==
    LET r == Accrue(reserves[a], now)
        scaledBalance == supply[sender][a]
        balance == RayMulDown(scaledBalance, r.liquidityIndex)
        all == amount = MaxUint \/ amount = balance
        paid == IF all THEN balance ELSE amount
        burn == IF all THEN scaledBalance ELSE RayDivUp(amount, r.liquidityIndex)
        newReserve == [r EXCEPT !.totalScaledSupply = @ - burn, !.cash = @ - paid]
        newSupply == [supply[sender] EXCEPT ![a] = @ - burn]
        newBits == ClearBit(collateral[sender], a, burn, scaledBalance)
    IN  /\ Operational(reserves[a].config)
        /\ paid <= balance
        /\ paid # 0
        /\ paid <= r.cash
        /\ NeedsCapacityCheck(a \in collateral[sender], a \in newBits, borrowing[sender]) =>
             WithinBorrowCapacity(Account(newSupply, debt[sender], newBits, borrowing[sender]),
                                  [reserves EXCEPT ![a] = newReserve], price, now)
        /\ paid <= tokens[a]

AcceptsBorrow(sender, a, amount) ==
    LET config == reserves[a].config
        r == Accrue(reserves[a], now)
        scaled == RayDivUp(amount, r.borrowIndex)
        newTotal == r.totalScaledDebt + scaled
        newReserve == [r EXCEPT !.totalScaledDebt = newTotal, !.cash = @ - amount]
        newDebt == [debt[sender] EXCEPT ![a] = @ + scaled]
        newBits == borrowing[sender] \cup {a}
    IN  /\ ValidateBorrow(config)
        /\ amount <= r.cash
        /\ config.borrowCap # 0 => RayMulUp(newTotal, r.borrowIndex) <= config.borrowCap * Unit[a]
        /\ WithinBorrowCapacity(Account(supply[sender], newDebt, collateral[sender], newBits),
                                [reserves EXCEPT ![a] = newReserve], price, now)
        /\ amount <= tokens[a]

AcceptsRepay(sender, a, amount, onBehalfOf) ==
    LET r == Accrue(reserves[a], now)
        scaledDebt == debt[onBehalfOf][a]
        owed == RayMulUp(scaledDebt, r.borrowIndex)
        payback == IF amount >= owed THEN owed ELSE amount
        burn == IF amount >= owed THEN scaledDebt ELSE RayDivDown(amount, r.borrowIndex)
    IN  /\ ValidateRepay(reserves[a].config)
        /\ scaledDebt # 0
        /\ burn # 0
        /\ payback <= wallet[sender][a]

-----------------------------------------------------------------------------
(***************************************************************************)
(* Supply side.                                                            *)
(***************************************************************************)

\* The tokens come out of payer's wallet: the sender's own, or that of the
\* depositor for whom LendingVault has just pulled them.
SupplyPaidBy(payer, sender, a, amount, onBehalfOf) ==
    LET config == reserves[a].config
        r == Accrue(reserves[a], now)
        scaled == RayDivDown(amount, r.liquidityIndex)
        newTotal == r.totalScaledSupply + scaled
    IN  /\ AcceptsSupply(payer, a, amount)
        /\ supply' = [supply EXCEPT ![onBehalfOf][a] = @ + scaled]
        /\ collateral' = IF onBehalfOf = sender /\ AutoEnables(config, supply[onBehalfOf][a])
                         THEN [collateral EXCEPT ![onBehalfOf] = @ \cup {a}]
                         ELSE collateral
        /\ reserves' = [reserves EXCEPT ![a] =
                           UpdateRates([r EXCEPT !.totalScaledSupply = newTotal,
                                                 !.cash = @ + amount])]
        /\ PullTokens(a, payer, amount)
        /\ UNCHANGED <<debt, borrowing, emergencyVars, now, price>>

Supply(sender, a, amount, onBehalfOf) == SupplyPaidBy(sender, sender, a, amount, onBehalfOf)

\* amount = MaxUint withdraws the full balance.
Withdraw(sender, a, amount, to) ==
    LET r == Accrue(reserves[a], now)
        scaledBalance == supply[sender][a]
        balance == RayMulDown(scaledBalance, r.liquidityIndex)
        all == amount = MaxUint \/ amount = balance
        paid == IF all THEN balance ELSE amount
        burn == IF all THEN scaledBalance ELSE RayDivUp(amount, r.liquidityIndex)
        newReserve == [r EXCEPT !.totalScaledSupply = @ - burn, !.cash = @ - paid]
        newSupply == [supply[sender] EXCEPT ![a] = @ - burn]
        newBits == ClearBit(collateral[sender], a, burn, scaledBalance)
    IN  /\ AcceptsWithdraw(sender, a, amount)
        /\ supply' = [supply EXCEPT ![sender] = newSupply]
        /\ collateral' = [collateral EXCEPT ![sender] = newBits]
        /\ reserves' = [reserves EXCEPT ![a] = UpdateRates(newReserve)]
        /\ PayTokens(a, to, paid)
        /\ UNCHANGED <<debt, borrowing, emergencyVars, now, price>>

SetUseReserveAsCollateral(sender, a, enabled) ==
    LET newBits == IF enabled THEN collateral[sender] \cup {a} ELSE collateral[sender] \ {a}
    IN  /\ ValidateSetCollateral(reserves[a].config, enabled)
        /\ supply[sender][a] # 0
        /\ newBits # collateral[sender]
        /\ ~enabled /\ borrowing[sender] # {} =>
             WithinBorrowCapacity(Account(supply[sender], debt[sender], newBits, borrowing[sender]),
                                  reserves, price, now)
        /\ collateral' = [collateral EXCEPT ![sender] = newBits]
        /\ UNCHANGED <<reserves, supply, debt, borrowing, emergencyVars, now, price, tokenVars>>

-----------------------------------------------------------------------------
(***************************************************************************)
(* Borrow side.                                                            *)
(***************************************************************************)

Borrow(sender, a, amount) ==
    LET r == Accrue(reserves[a], now)
        scaled == RayDivUp(amount, r.borrowIndex)
        newTotal == r.totalScaledDebt + scaled
        newReserve == [r EXCEPT !.totalScaledDebt = newTotal, !.cash = @ - amount]
        newDebt == [debt[sender] EXCEPT ![a] = @ + scaled]
        newBits == borrowing[sender] \cup {a}
    IN  /\ AcceptsBorrow(sender, a, amount)
        /\ debt' = [debt EXCEPT ![sender] = newDebt]
        /\ borrowing' = [borrowing EXCEPT ![sender] = newBits]
        /\ reserves' = [reserves EXCEPT ![a] = UpdateRates(newReserve)]
        /\ PayTokens(a, sender, amount)
        /\ UNCHANGED <<supply, collateral, emergencyVars, now, price>>

\* Allowed while paused.  An amount above the debt repays in full.
Repay(sender, a, amount, onBehalfOf) ==
    LET r == Accrue(reserves[a], now)
        scaledDebt == debt[onBehalfOf][a]
        owed == RayMulUp(scaledDebt, r.borrowIndex)
        payback == IF amount >= owed THEN owed ELSE amount
        burn == IF amount >= owed THEN scaledDebt ELSE RayDivDown(amount, r.borrowIndex)
    IN  /\ AcceptsRepay(sender, a, amount, onBehalfOf)
        /\ debt' = [debt EXCEPT ![onBehalfOf][a] = @ - burn]
        /\ borrowing' = [borrowing EXCEPT ![onBehalfOf] = ClearBit(@, a, burn, scaledDebt)]
        /\ reserves' = [reserves EXCEPT ![a] =
                           UpdateRates([r EXCEPT !.totalScaledDebt = @ - burn,
                                                 !.cash = @ + payback])]
        /\ PullTokens(a, sender, payback)
        /\ UNCHANGED <<supply, collateral, emergencyVars, now, price>>
-----------------------------------------------------------------------------
(***************************************************************************)
(* Liquidation and losses.                                                 *)
(***************************************************************************)

\* The inputs of calculateAmounts for borrower b, from the accrued reserves.
LiquidationInput(accrued, c, d, b, debtToCover) ==
    [healthFactor |-> HealthFactor(Account(supply[b], debt[b], collateral[b], borrowing[b]),
                                   accrued, price, now),
     borrowerDebt |-> RayMulUp(debt[b][d], accrued[d].borrowIndex),
     borrowerCollateral |-> RayMulDown(supply[b][c], accrued[c].liquidityIndex),
     debtPrice |-> price[d], collateralPrice |-> price[c],
     debtUnit |-> Unit[d], collateralUnit |-> Unit[c],
     bonus |-> accrued[c].config.liquidationBonus,
     debtToCover |-> debtToCover]

\* The debt reserve after the repayment.
Repaid(r, burn, repaid) == [r EXCEPT !.totalScaledDebt = @ - burn, !.cash = @ + repaid]

\* Mutants: one side of the payout is booked although the liquidator takes the
\* collateral as a supply position.
SeizeReducingTotal(r, burn, seized, receiveSupply) ==
    [r EXCEPT !.totalScaledSupply = @ - burn,
              !.cash = IF receiveSupply THEN @ ELSE @ - seized]

SeizeReducingCash(r, burn, seized, receiveSupply) ==
    [r EXCEPT !.totalScaledSupply = IF receiveSupply THEN @ ELSE @ - burn,
              !.cash = @ - seized]

\* The collateral reserve after the seizure: with receiveSupply the balance only
\* changes hands.
Seize(r, burn, seized, receiveSupply) ==
    IF receiveSupply
    THEN r
    ELSE [r EXCEPT !.totalScaledSupply = @ - burn, !.cash = @ - seized]

\* Mutant: the write-off forgets the debts in the reserves that were not liquidated.
WriteOffDebtLegOnly(bits, borrowed, d) == IF bits = {} THEN borrowed \cap {d} ELSE {}

\* The debts written off: all of them, once no collateral bit is left.
WrittenOff(bits, borrowed, d) == IF bits = {} THEN borrowed ELSE {}

\* Mutant: a reserve the liquidation did not touch is written off at its stored index.
WriteOffStale(r, scaled, t) == UpdateRates(WriteOffDebt(r, scaled))

\* Mutant: a reserve the liquidation did not touch keeps the rates it had.
WriteOffWithoutRates(r, scaled, t) == WriteOffDebt(Accrue(r, t), scaled)

\* A reserve with the borrower's scaled debt written off; accruing it is a no-op
\* for the reserves of the liquidation itself.
WriteOffAt(r, scaled, t) == UpdateRates(WriteOffDebt(Accrue(r, t), scaled))

\* executeLiquidation by sender of borrower b: c is the collateral asset and d the
\* debt asset, which may be the same, as may the sender and the borrower.
Liquidate(sender, c, d, b, debtToCover, receiveSupply) ==
    LET accrued == [a \in Asset |-> IF a \in {c, d} THEN Accrue(reserves[a], now) ELSE reserves[a]]
        account == Account(supply[b], debt[b], collateral[b], borrowing[b])
        i == LiquidationInput(accrued, c, d, b, debtToCover)
        amounts == CalculateAmounts(i)
        repaid == amounts.debtRepaid
        seized == amounts.collateralSeized
        \* debt leg
        debtBurn == IF repaid = i.borrowerDebt
                    THEN debt[b][d]
                    ELSE RayDivDown(repaid, accrued[d].borrowIndex)
        repaidReserves == [accrued EXCEPT ![d] = Repaid(@, debtBurn, repaid)]
        debtLeft == [debt[b] EXCEPT ![d] = @ - debtBurn]
        borrowingLeft == ClearBit(borrowing[b], d, debtBurn, debt[b][d])
        \* collateral leg
        collateralBurn == IF seized = i.borrowerCollateral
                          THEN supply[b][c]
                          ELSE RayDivUp(seized, accrued[c].liquidityIndex)
        seizedSupply == [supply EXCEPT ![b][c] = @ - collateralBurn]
        seizedBits == [collateral EXCEPT ![b] = ClearBit(@, c, collateralBurn, supply[b][c])]
        seizedReserves == [repaidReserves EXCEPT ![c] =
                             Seize(@, collateralBurn, seized, receiveSupply)]
        enables == receiveSupply /\ AutoEnables(accrued[c].config, seizedSupply[sender][c])
        newBits == IF enables
                   THEN [seizedBits EXCEPT ![sender] = @ \cup {c}]
                   ELSE seizedBits
        \* bad debt: the bits are read again, the sender may be the borrower
        written == WrittenOff(newBits[b], borrowingLeft, d)
        paidOut == IF receiveSupply THEN 0 ELSE seized
        spent(a) == IF a = d THEN repaid ELSE 0
        received(a) == IF a = c THEN paidOut ELSE 0
    IN  /\ ~paused
        /\ now >= graceUntil
        /\ ValidateLiquidationReserve(reserves[d].config)
        /\ ValidateLiquidationReserve(reserves[c].config)
        /\ d \in borrowing[b]
        /\ c \in collateral[b]
        /\ PricesUsable(account, price) /\ price[c] # 0 /\ price[d] # 0
        /\ ~IsHealthy(account, accrued, price, now)
        /\ amounts.status = "OK"
        /\ debtBurn # 0
        /\ paidOut <= repaidReserves[c].cash
        /\ repaid <= wallet[sender][d]
        /\ supply' = IF receiveSupply
                     THEN [seizedSupply EXCEPT ![sender][c] = @ + collateralBurn]
                     ELSE seizedSupply
        /\ collateral' = newBits
        /\ debt' = [debt EXCEPT ![b] = [a \in Asset |-> IF a \in written THEN 0 ELSE debtLeft[a]]]
        /\ borrowing' = [borrowing EXCEPT ![b] = borrowingLeft \ written]
        /\ reserves' = [a \in Asset |->
                          IF a \in written
                          THEN WriteOffAt(seizedReserves[a], debtLeft[a], now)
                          ELSE IF a \in {c, d} THEN UpdateRates(seizedReserves[a]) ELSE reserves[a]]
        /\ wallet' = [wallet EXCEPT ![sender] =
                        [a \in Asset |-> (@[a] - spent(a)) + received(a)]]
        /\ tokens' = [a \in Asset |-> (tokens[a] + spent(a)) - received(a)]
        /\ UNCHANGED <<emergencyVars, now, price>>

CoverDeficit(sender, a, amount) ==
    LET r == Accrue(reserves[a], now)
        covered == IF amount > r.deficit THEN r.deficit ELSE amount
    IN  /\ r.deficit # 0
        /\ reserves' = [reserves EXCEPT ![a] =
                           UpdateRates([r EXCEPT !.deficit = @ - covered, !.cash = @ + covered])]
        /\ PullTokens(a, sender, covered)
        /\ UNCHANGED <<accountVars, emergencyVars, now, price>>

-----------------------------------------------------------------------------
(***************************************************************************)
(* Configurator only.                                                      *)
(***************************************************************************)

\* The configurator lists a reserve active, neither frozen nor paused.
InitReserve(a, model, config) ==
    /\ ~IsListed(reserves[a])
    /\ config.active /\ ~config.frozen /\ ~config.paused
    /\ reserves' = [reserves EXCEPT ![a] = NewReserve(config, model, now)]
    /\ UNCHANGED <<accountVars, emergencyVars, now, price, tokenVars>>

\* Mutant: the configuration is replaced without accruing.
ConfiguredRetroactively(r, config, t) == UpdateRates([r EXCEPT !.config = config])

\* Accrues first: a new reserve factor must not apply to elapsed time.
Configured(r, config, t) == UpdateRates([Accrue(r, t) EXCEPT !.config = config])

\* Mutant: a reserve with balances is switched off.
AlwaysDeactivatable(r) == TRUE

\* PoolConfigurator.setReserveActive switches off empty reserves only.
Deactivatable(r) ==
    r.totalScaledSupply = 0 /\ r.totalScaledDebt = 0 /\ r.accruedToTreasury = 0

SetReserveConfig(a, config) ==
    /\ IsListed(reserves[a])
    /\ config.active \/ Deactivatable(reserves[a])
    /\ reserves' = [reserves EXCEPT ![a] = Configured(@, config, now)]
    /\ UNCHANGED <<accountVars, emergencyVars, now, price, tokenVars>>

SetInterestRateModel(a, model) ==
    /\ IsListed(reserves[a])
    /\ reserves' = [reserves EXCEPT ![a] =
                       UpdateRates([Accrue(@, now) EXCEPT !.interestRateModel = model])]
    /\ UNCHANGED <<accountVars, emergencyVars, now, price, tokenVars>>

\* Unpausing opens the liquidation grace window.
SetPoolPaused(newPaused) ==
    /\ paused' = newPaused
    /\ graceUntil' = IF newPaused THEN graceUntil ELSE now + gracePeriod
    /\ UNCHANGED <<reserves, accountVars, gracePeriod, now, price, tokenVars>>

SetLiquidationGracePeriod(period) ==
    /\ period <= MAX_GRACE_PERIOD
    /\ gracePeriod' = period
    /\ UNCHANGED <<reserves, accountVars, paused, graceUntil, now, price, tokenVars>>

\* Reserve-factor income, paid to the recipient governance names.
WithdrawReserves(a, amount, to) ==
    LET r == Accrue(reserves[a], now)
        available == RayMulDown(r.accruedToTreasury, r.liquidityIndex)
        paid == IF amount >= available THEN available ELSE amount
        burn == IF amount >= available
                THEN r.accruedToTreasury
                ELSE RayDivUp(amount, r.liquidityIndex)
    IN  /\ IsListed(reserves[a])
        /\ paid # 0
        /\ paid <= r.cash
        /\ reserves' = [reserves EXCEPT ![a] =
                           UpdateRates([r EXCEPT !.accruedToTreasury = @ - burn,
                                                 !.cash = @ - paid])]
        /\ PayTokens(a, to, paid)
        /\ UNCHANGED <<accountVars, emergencyVars, now, price>>

-----------------------------------------------------------------------------
(***************************************************************************)
(* Environment: the block clock and the oracle.                            *)
(***************************************************************************)

Tick ==
    /\ now < MaxTime
    /\ now' = now + 1
    /\ UNCHANGED <<reserves, accountVars, emergencyVars, price, tokenVars>>

SetPrice(a, p) ==
    /\ p # price[a]
    /\ price' = [price EXCEPT ![a] = p]
    /\ UNCHANGED <<reserves, accountVars, emergencyVars, now, tokenVars>>

UserNext ==
    \E sender \in User, a \in Asset :
        \/ \E amount \in Amounts :
             \/ \E onBehalfOf \in Beneficiaries[sender] : Supply(sender, a, amount, onBehalfOf)
             \/ \E to \in Beneficiaries[sender] : Withdraw(sender, a, amount, to)
             \/ Borrow(sender, a, amount)
             \/ \E onBehalfOf \in Beneficiaries[sender] : Repay(sender, a, amount, onBehalfOf)
             \/ \E c \in Asset, b \in User, receiveSupply \in BOOLEAN :
                    Liquidate(sender, c, a, b, amount, receiveSupply)
             \/ CoverDeficit(sender, a, amount)
        \/ \E enabled \in BOOLEAN : SetUseReserveAsCollateral(sender, a, enabled)

ConfiguratorNext ==
    \/ \E a \in Asset : \E model \in RateModels[a], config \in Configs[a] : InitReserve(a, model, config)
    \/ \E a \in Asset : \E config \in Configs[a] : SetReserveConfig(a, config)
    \/ \E a \in Asset : \E model \in RateModels[a] : SetInterestRateModel(a, model)
    \/ \E newPaused \in Pauses : SetPoolPaused(newPaused)
    \/ \E period \in GracePeriods : SetLiquidationGracePeriod(period)
    \/ \E a \in Asset, amount \in Amounts, to \in User : WithdrawReserves(a, amount, to)

EnvironmentNext ==
    \/ Tick
    \/ \E a \in Asset : \E p \in Prices[a] : SetPrice(a, p)

Next == UserNext \/ ConfiguratorNext \/ EnvironmentNext

Spec == Init /\ [][Next]_vars
=============================================================================
