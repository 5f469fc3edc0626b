------------------------- MODULE LendingPool_proofs -------------------------
(***************************************************************************)
(* Proofs about LendingPool, for every set of users and assets and every   *)
(* scale, price, configuration and rate model.                             *)
(*                                                                         *)
(* The inductive invariant is PoolInv: type correctness alone is not       *)
(* inductive, because that a subtraction of a reserve total stays natural  *)
(* needs the totals to be the sums of the users' balances, that a          *)
(* liquidation's payout is covered needs the cash to be the token balance, *)
(* and that a division is defined needs the indexes of a listed reserve to *)
(* be non-zero.                                                            *)
(***************************************************************************)
EXTENDS LendingPoolProperties, PoolLibraries_proofs

\* A listed reserve has indexes and is not ahead of the clock; nothing is booked
\* in a reserve that is not listed, and none of its operations is open.
SaneReserve(r, t) ==
    /\ r.lastUpdateTimestamp <= t
    /\ IsListed(r) => r.liquidityIndex # 0 /\ r.borrowIndex # 0
    /\ ~IsListed(r) => /\ ~r.config.active
                       /\ r.totalScaledSupply = 0
                       /\ r.totalScaledDebt = 0
                       /\ r.cash = 0
                       /\ r.accruedToTreasury = 0
                       /\ r.deficit = 0

ReservesSane == \A a \in Asset : SaneReserve(reserves[a], now)

PoolInv == TypeOK /\ ReservesSane /\ TotalsMatch /\ CashMatchesTokens /\ BitmapInSync

-----------------------------------------------------------------------------
(***************************************************************************)
(* Sums over users.                                                        *)
(***************************************************************************)

\* The total of an asset when one user's row of balances changes.
LEMMA RowChange ==
    ASSUME NEW f \in [User -> [Asset -> Nat]], NEW g \in [User -> [Asset -> Nat]],
           NEW u \in User, \A v \in User \ {u} : g[v] = f[v], NEW a \in Asset
    PROVE  SumOver([v \in User |-> g[v][a]], User)
             = SumOver([v \in User |-> f[v][a]], User) - f[u][a] + g[u][a]
<1> DEFINE ff == [v \in User |-> f[v][a]]
           gg == [v \in User |-> g[v][a]]
<1>1. \A v \in User : ff[v] \in Nat /\ gg[v] \in Nat
  OBVIOUS
<1>2. \A v \in User \ {u} : gg[v] = ff[v]
  OBVIOUS
<1>3. ff[u] = f[u][a] /\ gg[u] = g[u][a]
  OBVIOUS
<1> HIDE DEF ff, gg
<1>4. IsFiniteSet(User)
  BY PoolAssumption
<1>5. SumOver(gg, User) = SumOver(ff, User) - ff[u] + gg[u]
  BY <1>1, <1>2, <1>4, SumUpdate
<1> QED BY <1>3, <1>5 DEF ff, gg

\* A user's balance is part of the total.
LEMMA BalanceWithinTotal ==
    ASSUME NEW f \in [User -> [Asset -> Nat]], NEW u \in User, NEW a \in Asset
    PROVE  f[u][a] <= SumOver([v \in User |-> f[v][a]], User)
<1> DEFINE ff == [v \in User |-> f[v][a]]
<1>1. \A v \in User : ff[v] \in Nat
  OBVIOUS
<1>2. ff[u] = f[u][a]
  OBVIOUS
<1> HIDE DEF ff
<1>3. IsFiniteSet(User)
  BY PoolAssumption
<1>4. ff[u] <= SumOver(ff, User)
  BY <1>1, <1>3, SumBound
<1> QED BY <1>2, <1>4 DEF ff

\* No user's scaled balance exceeds the reserve's total, so that subtracting a
\* part of the balance from the total cannot underflow.
LEMMA BalancesWithinTotals ==
    ASSUME TypeOK, TotalsMatch, NEW u \in User, NEW a \in Asset
    PROVE  /\ supply[u][a] \in Nat /\ supply[u][a] <= reserves[a].totalScaledSupply
           /\ debt[u][a] \in Nat /\ debt[u][a] <= reserves[a].totalScaledDebt
<1>1. supply \in [User -> [Asset -> Nat]] /\ debt \in [User -> [Asset -> Nat]]
  BY DEF TypeOK
<1>2. /\ supply[u][a] <= SumOver([v \in User |-> supply[v][a]], User)
      /\ debt[u][a] <= SumOver([v \in User |-> debt[v][a]], User)
  BY <1>1, BalanceWithinTotal
<1> QED BY <1>1, <1>2 DEF TotalsMatch

\* The totals follow when the balances of one account change and the reserves'
\* totals change by as much.
LEMMA TotalsFollow ==
    ASSUME TypeOK, TotalsMatch, NEW u \in User,
           supply' \in [User -> [Asset -> Nat]], debt' \in [User -> [Asset -> Nat]],
           \A v \in User \ {u} : supply'[v] = supply[v] /\ debt'[v] = debt[v],
           \A a \in Asset :
             /\ reserves'[a].totalScaledSupply
                  = reserves[a].totalScaledSupply - supply[u][a] + supply'[u][a]
             /\ reserves'[a].totalScaledDebt
                  = reserves[a].totalScaledDebt - debt[u][a] + debt'[u][a]
    PROVE  TotalsMatch'
<1> SUFFICES ASSUME NEW a \in Asset
             PROVE  /\ reserves'[a].totalScaledSupply
                         = SumOver([v \in User |-> supply'[v][a]], User)
                    /\ reserves'[a].totalScaledDebt
                         = SumOver([v \in User |-> debt'[v][a]], User)
  BY DEF TotalsMatch
<1>1. supply \in [User -> [Asset -> Nat]] /\ debt \in [User -> [Asset -> Nat]]
  BY DEF TypeOK
<1>2. SumOver([v \in User |-> supply'[v][a]], User)
        = SumOver([v \in User |-> supply[v][a]], User) - supply[u][a] + supply'[u][a]
  BY <1>1, RowChange
<1>3. SumOver([v \in User |-> debt'[v][a]], User)
        = SumOver([v \in User |-> debt[v][a]], User) - debt[u][a] + debt'[u][a]
  BY <1>1, RowChange
<1> QED BY <1>2, <1>3 DEF TotalsMatch

-----------------------------------------------------------------------------
(***************************************************************************)
(* One reserve accrued, changed and re-priced.                             *)
(***************************************************************************)

\* What an operation starts from: the accrued reserve differs in its indexes, its
\* treasury claim and its timestamp only.
LEMMA AccruedReserve ==
    ASSUME NEW r \in ReserveData, NEW t \in Nat, SaneReserve(r, t), IsListed(r)
    PROVE  LET s == Accrue(r, t)
           IN  /\ s \in ReserveData
               /\ s.config = r.config
               /\ s.totalScaledSupply = r.totalScaledSupply
               /\ s.totalScaledDebt = r.totalScaledDebt
               /\ s.cash = r.cash
               /\ s.deficit = r.deficit
               /\ s.lastUpdateTimestamp = t
               /\ s.liquidityIndex \in Nat \ {0}
               /\ s.borrowIndex \in Nat \ {0}
<1>1. Grown(r, Accrue(r, t), t)
  BY AccrueGrows DEF Current, SaneReserve
<1>2. PICK li \in Nat, bi \in Nat, tr \in Nat :
        /\ r.liquidityIndex <= li
        /\ r.borrowIndex <= bi
        /\ r.accruedToTreasury <= tr
        /\ Accrue(r, t) = [r EXCEPT !.liquidityIndex = li, !.borrowIndex = bi,
                                    !.accruedToTreasury = tr, !.lastUpdateTimestamp = t]
  BY <1>1, Zenon DEF Grown
<1>3. r.liquidityIndex \in Nat \ {0} /\ r.borrowIndex \in Nat \ {0}
  BY DEF SaneReserve, ReserveData
<1>4. li \in Nat \ {0} /\ bi \in Nat \ {0}
  BY <1>2, <1>3
<1> DEFINE s == Accrue(r, t)
<1>5. s = [r EXCEPT !.liquidityIndex = li, !.borrowIndex = bi,
                    !.accruedToTreasury = tr, !.lastUpdateTimestamp = t]
  BY <1>2
<1> HIDE DEF s
<1>6. s \in ReserveData
  BY <1>4, <1>5 DEF ReserveData
<1>7. /\ s.config = r.config
      /\ s.totalScaledSupply = r.totalScaledSupply
      /\ s.totalScaledDebt = r.totalScaledDebt
      /\ s.cash = r.cash
      /\ s.deficit = r.deficit
      /\ s.lastUpdateTimestamp = t
      /\ s.liquidityIndex = li
      /\ s.borrowIndex = bi
  BY <1>5 DEF ReserveData
<1> QED BY <1>4, <1>6, <1>7 DEF s

\* Updating the rates of a reserve changes its two rates only.
LEMMA RatedReserve ==
    ASSUME NEW r \in ReserveData
    PROVE  LET s == UpdateRates(r)
           IN  /\ s \in ReserveData
               /\ s.config = r.config
               /\ s.liquidityIndex = r.liquidityIndex
               /\ s.borrowIndex = r.borrowIndex
               /\ s.totalScaledSupply = r.totalScaledSupply
               /\ s.totalScaledDebt = r.totalScaledDebt
               /\ s.cash = r.cash
               /\ s.accruedToTreasury = r.accruedToTreasury
               /\ s.deficit = r.deficit
               /\ s.lastUpdateTimestamp = r.lastUpdateTimestamp
<1>1. PICK x \in Nat, y \in Nat : UpdateRates(r) = [r EXCEPT !.liquidityRate = x, !.borrowRate = y]
  BY UpdateRatesKeeps, Zenon DEF SameButRates
<1> QED BY <1>1 DEF ReserveData

\* The reserves after an operation on reserve a that leaves it as nr, its cash
\* still the pool's token balance.
LEMMA ReserveFrame ==
    ASSUME PoolInv, NEW a \in Asset, NEW nr \in ReserveData,
           nr.lastUpdateTimestamp = now, nr.liquidityIndex # 0, nr.borrowIndex # 0,
           reserves' = [reserves EXCEPT ![a] = UpdateRates(nr)],
           now' = now,
           tokens' = [tokens EXCEPT ![a] = nr.cash]
    PROVE  /\ reserves' \in [Asset -> ReserveData]
           /\ tokens' \in [Asset -> Nat]
           /\ ReservesSane'
           /\ CashMatchesTokens'
           /\ \A b \in Asset \ {a} : reserves'[b] = reserves[b]
           /\ reserves'[a].totalScaledSupply = nr.totalScaledSupply
           /\ reserves'[a].totalScaledDebt = nr.totalScaledDebt
<1> DEFINE s == UpdateRates(nr)
<1>1. /\ s \in ReserveData
      /\ s.config = nr.config
      /\ s.liquidityIndex = nr.liquidityIndex
      /\ s.borrowIndex = nr.borrowIndex
      /\ s.totalScaledSupply = nr.totalScaledSupply
      /\ s.totalScaledDebt = nr.totalScaledDebt
      /\ s.cash = nr.cash
      /\ s.lastUpdateTimestamp = nr.lastUpdateTimestamp
  BY RatedReserve
<1> HIDE DEF s
<1>2. reserves \in [Asset -> ReserveData] /\ tokens \in [Asset -> Nat] /\ now \in Nat \ {0}
  BY DEF PoolInv, TypeOK
<1>3. reserves' = [reserves EXCEPT ![a] = s]
  BY DEF s
<1>4. reserves' \in [Asset -> ReserveData] /\ reserves'[a] = s
      /\ \A b \in Asset \ {a} : reserves'[b] = reserves[b]
  BY <1>1, <1>2, <1>3
<1>5. tokens' \in [Asset -> Nat] /\ tokens'[a] = nr.cash
      /\ \A b \in Asset \ {a} : tokens'[b] = tokens[b]
  BY <1>2 DEF ReserveData
<1>6. SaneReserve(s, now)
  BY <1>1, <1>2 DEF SaneReserve, IsListed
<1>7. ReservesSane'
  <2> SUFFICES ASSUME NEW b \in Asset PROVE SaneReserve(reserves'[b], now)
    BY DEF ReservesSane
  <2>1. CASE b = a
    BY <2>1, <1>4, <1>6
  <2>2. CASE b # a
    BY <2>2, <1>4 DEF PoolInv, ReservesSane
  <2> QED BY <2>1, <2>2
<1>8. CashMatchesTokens'
  <2> SUFFICES ASSUME NEW b \in Asset PROVE reserves'[b].cash = tokens'[b]
    BY DEF CashMatchesTokens
  <2>1. CASE b = a
    BY <2>1, <1>1, <1>4, <1>5
  <2>2. CASE b # a
    BY <2>2, <1>4, <1>5 DEF PoolInv, CashMatchesTokens
  <2> QED BY <2>1, <2>2
<1> QED BY <1>1, <1>4, <1>5, <1>7, <1>8

\* The active flag, which most calls check, implies that the reserve is listed.
LEMMA ActiveIsListed ==
    ASSUME PoolInv, NEW a \in Asset, reserves[a].config.active
    PROVE  IsListed(reserves[a])
BY DEF PoolInv, ReservesSane, SaneReserve

\* What an operation on a listed reserve of the pool starts from.
LEMMA Accrued ==
    ASSUME PoolInv, NEW a \in Asset, IsListed(reserves[a])
    PROVE  LET r == Accrue(reserves[a], now)
           IN  /\ r \in ReserveData
               /\ r.config = reserves[a].config
               /\ r.totalScaledSupply = reserves[a].totalScaledSupply
               /\ r.totalScaledDebt = reserves[a].totalScaledDebt
               /\ r.cash = tokens[a]
               /\ r.deficit = reserves[a].deficit
               /\ r.lastUpdateTimestamp = now
               /\ r.liquidityIndex \in Nat \ {0}
               /\ r.borrowIndex \in Nat \ {0}
<1>1. reserves[a] \in ReserveData /\ now \in Nat
  BY DEF PoolInv, TypeOK
<1>2. SaneReserve(reserves[a], now)
  BY DEF PoolInv, ReservesSane
<1>3. reserves[a].cash = tokens[a]
  BY DEF PoolInv, CashMatchesTokens
<1> DEFINE r == Accrue(reserves[a], now)
<1>4. /\ r \in ReserveData
      /\ r.config = reserves[a].config
      /\ r.totalScaledSupply = reserves[a].totalScaledSupply
      /\ r.totalScaledDebt = reserves[a].totalScaledDebt
      /\ r.cash = reserves[a].cash
      /\ r.deficit = reserves[a].deficit
      /\ r.lastUpdateTimestamp = now
      /\ r.liquidityIndex \in Nat \ {0}
      /\ r.borrowIndex \in Nat \ {0}
  BY <1>1, <1>2, AccruedReserve
<1> HIDE DEF r
<1> QED BY <1>3, <1>4 DEF r

\* A step that leaves reserve a as nr and user u with scaled balances s and d in
\* it and bits cb and bb, the totals moving with the balances, the cash with the
\* tokens and the bits of a with the balances.
AccountChange(u, a, nr, s, d, cb, bb) ==
    /\ u \in User /\ a \in Asset
    /\ nr \in ReserveData
    /\ nr.lastUpdateTimestamp = now
    /\ nr.liquidityIndex # 0 /\ nr.borrowIndex # 0
    /\ nr.totalScaledSupply = reserves[a].totalScaledSupply - supply[u][a] + s
    /\ nr.totalScaledDebt = reserves[a].totalScaledDebt - debt[u][a] + d
    /\ reserves' = [reserves EXCEPT ![a] = UpdateRates(nr)]
    /\ tokens' = [tokens EXCEPT ![a] = nr.cash]
    /\ s \in Nat /\ d \in Nat
    /\ supply' = [supply EXCEPT ![u] = [supply[u] EXCEPT ![a] = s]]
    /\ debt' = [debt EXCEPT ![u] = [debt[u] EXCEPT ![a] = d]]
    /\ cb \in SUBSET Asset /\ bb \in SUBSET Asset
    /\ collateral' = [collateral EXCEPT ![u] = cb]
    /\ borrowing' = [borrowing EXCEPT ![u] = bb]
    /\ cb \ {a} \subseteq collateral[u] /\ (a \in cb => s # 0)
    /\ bb \ {a} = borrowing[u] \ {a} /\ (a \in bb <=> d # 0)
    /\ wallet' \in [User -> [Asset -> Nat]]
    /\ UNCHANGED <<emergencyVars, now, price>>

\* Such a step keeps the invariant.
LEMMA AccountStep ==
    ASSUME PoolInv, NEW u, NEW a, NEW nr, NEW s, NEW d, NEW cb, NEW bb,
           AccountChange(u, a, nr, s, d, cb, bb)
    PROVE  PoolInv'
<1> USE DEF AccountChange
<1>1. now' = now
  OBVIOUS
<1>2. TypeOK
  BY DEF PoolInv
<1>3. /\ reserves' \in [Asset -> ReserveData]
      /\ tokens' \in [Asset -> Nat]
      /\ ReservesSane'
      /\ CashMatchesTokens'
      /\ \A b \in Asset \ {a} : reserves'[b] = reserves[b]
      /\ reserves'[a].totalScaledSupply = nr.totalScaledSupply
      /\ reserves'[a].totalScaledDebt = nr.totalScaledDebt
  BY <1>1, ReserveFrame
<1>4. /\ supply' \in [User -> [Asset -> Nat]] /\ debt' \in [User -> [Asset -> Nat]]
      /\ \A v \in User \ {u} : supply'[v] = supply[v] /\ debt'[v] = debt[v]
      /\ \A b \in Asset \ {a} : supply'[u][b] = supply[u][b] /\ debt'[u][b] = debt[u][b]
      /\ supply'[u][a] = s /\ debt'[u][a] = d
  BY <1>2 DEF TypeOK
<1>5. /\ collateral' \in [User -> SUBSET Asset] /\ borrowing' \in [User -> SUBSET Asset]
      /\ \A v \in User \ {u} : collateral'[v] = collateral[v] /\ borrowing'[v] = borrowing[v]
      /\ collateral'[u] = cb /\ borrowing'[u] = bb
  BY <1>2 DEF TypeOK
<1>6. TypeOK'
  BY <1>2, <1>3, <1>4, <1>5 DEF TypeOK, emergencyVars
<1>7. TotalsMatch'
  <2>1. TotalsMatch
    BY DEF PoolInv
  <2>2. \A b \in Asset :
          /\ supply[u][b] \in Nat /\ debt[u][b] \in Nat
          /\ reserves[b].totalScaledSupply \in Nat /\ reserves[b].totalScaledDebt \in Nat
    BY <1>2 DEF TypeOK, ReserveData
  <2>3. ASSUME NEW b \in Asset
        PROVE  /\ reserves'[b].totalScaledSupply
                    = reserves[b].totalScaledSupply - supply[u][b] + supply'[u][b]
               /\ reserves'[b].totalScaledDebt
                    = reserves[b].totalScaledDebt - debt[u][b] + debt'[u][b]
    <3>1. CASE b = a
      BY <3>1, <1>3, <1>4
    <3>2. CASE b # a
      <4>1. reserves'[b] = reserves[b] /\ supply'[u][b] = supply[u][b] /\ debt'[u][b] = debt[u][b]
        BY <3>2, <1>3, <1>4
      <4> QED BY <4>1, <2>2
    <3> QED BY <3>1, <3>2
  <2> QED BY <2>1, <2>3, <1>2, <1>4, TotalsFollow
<1>8. BitmapInSync'
  <2> SUFFICES ASSUME NEW v \in User, NEW b \in Asset
               PROVE  /\ b \in borrowing'[v] <=> debt'[v][b] # 0
                      /\ b \in collateral'[v] => supply'[v][b] # 0
    BY DEF BitmapInSync
  <2>1. /\ b \in borrowing[v] <=> debt[v][b] # 0
        /\ b \in collateral[v] => supply[v][b] # 0
    BY DEF PoolInv, BitmapInSync
  <2>2. CASE v # u
    BY <2>1, <2>2, <1>4, <1>5
  <2>3. CASE v = u /\ b # a
    BY <2>1, <2>3, <1>4, <1>5
  <2>4. CASE v = u /\ b = a
    BY <2>4, <1>4, <1>5
  <2> QED BY <2>2, <2>3, <2>4
<1> QED BY <1>3, <1>6, <1>7, <1>8 DEF PoolInv

-----------------------------------------------------------------------------
(***************************************************************************)
(* Every operation keeps the invariant.                                    *)
(***************************************************************************)

\* A supply keeps the invariant, whoever pays for it and whatever its amount.
LEMMA SupplyKeeps ==
    ASSUME PoolInv, NEW payer \in User, NEW sender \in User, NEW a \in Asset,
           NEW amount \in Nat, NEW onBehalfOf \in User,
           SupplyPaidBy(payer, sender, a, amount, onBehalfOf)
    PROVE  PoolInv'
<1> DEFINE r == Accrue(reserves[a], now)
           scaled == RayDivDown(amount, r.liquidityIndex)
           nr == [r EXCEPT !.totalScaledSupply = r.totalScaledSupply + scaled,
                           !.cash = @ + amount]
           cb == IF onBehalfOf = sender /\ AutoEnables(reserves[a].config, supply[onBehalfOf][a])
                 THEN collateral[onBehalfOf] \cup {a}
                 ELSE collateral[onBehalfOf]
           bb == borrowing[onBehalfOf]
           s == supply[onBehalfOf][a] + scaled
           d == debt[onBehalfOf][a]
<1>1. TypeOK
  BY DEF PoolInv
<1>2. IsListed(reserves[a])
  BY ActiveIsListed DEF SupplyPaidBy, AcceptsSupply, ValidateSupply, Operational
<1>3. /\ r \in ReserveData
      /\ r.totalScaledSupply = reserves[a].totalScaledSupply
      /\ r.totalScaledDebt = reserves[a].totalScaledDebt
      /\ r.cash = tokens[a]
      /\ r.lastUpdateTimestamp = now
      /\ r.liquidityIndex \in Nat \ {0}
      /\ r.borrowIndex \in Nat \ {0}
  BY <1>2, Accrued
<1>4. /\ scaled # 0
      /\ supply' = [supply EXCEPT ![onBehalfOf][a] = @ + scaled]
      /\ collateral' = IF onBehalfOf = sender /\ AutoEnables(reserves[a].config, supply[onBehalfOf][a])
                       THEN [collateral EXCEPT ![onBehalfOf] = @ \cup {a}]
                       ELSE collateral
      /\ reserves' = [reserves EXCEPT ![a] = UpdateRates(nr)]
      /\ PullTokens(a, payer, amount)
      /\ UNCHANGED <<debt, borrowing, emergencyVars, now, price>>
  BY Zenon DEF SupplyPaidBy, AcceptsSupply
<1> HIDE DEF r
<1>5. scaled \in Nat
  BY <1>1, <1>3, RayType
<1> HIDE DEF scaled
<1>6. /\ supply[onBehalfOf][a] \in Nat /\ debt[onBehalfOf][a] \in Nat /\ tokens[a] \in Nat
      /\ reserves[a].totalScaledSupply \in Nat /\ reserves[a].totalScaledDebt \in Nat
  BY <1>1 DEF TypeOK, ReserveData
<1>7. /\ nr \in ReserveData
      /\ nr.totalScaledSupply = r.totalScaledSupply + scaled
      /\ nr.totalScaledDebt = r.totalScaledDebt
      /\ nr.cash = tokens[a] + amount
      /\ nr.lastUpdateTimestamp = now
      /\ nr.liquidityIndex # 0 /\ nr.borrowIndex # 0
  <2>1. r.totalScaledSupply + scaled \in Nat /\ r.cash + amount \in Nat
    BY <1>1, <1>3, <1>5, <1>6
  <2> QED BY <2>1, <1>3 DEF ReserveData
<1> HIDE DEF nr
<1>8. tokens' = [tokens EXCEPT ![a] = nr.cash] /\ wallet' \in [User -> [Asset -> Nat]]
  BY <1>1, <1>4, <1>7 DEF PullTokens, TypeOK
<1>9. supply' = [supply EXCEPT ![onBehalfOf] = [supply[onBehalfOf] EXCEPT ![a] = s]]
  BY <1>1, <1>4 DEF TypeOK
<1>10. debt' = [debt EXCEPT ![onBehalfOf] = [debt[onBehalfOf] EXCEPT ![a] = d]]
  BY <1>1, <1>4 DEF TypeOK
<1>11. /\ collateral' = [collateral EXCEPT ![onBehalfOf] = cb]
       /\ borrowing' = [borrowing EXCEPT ![onBehalfOf] = bb]
       /\ cb \in SUBSET Asset /\ bb \in SUBSET Asset
       /\ cb \ {a} \subseteq collateral[onBehalfOf]
       /\ bb \ {a} = borrowing[onBehalfOf] \ {a}
  BY <1>1, <1>4 DEF TypeOK
<1> HIDE DEF cb
<1>12. s \in Nat /\ s # 0 /\ d \in Nat
  BY <1>4, <1>5, <1>6
<1>13. a \in bb <=> d # 0
  BY <1>1 DEF PoolInv, BitmapInSync
<1>14. /\ nr.totalScaledSupply = reserves[a].totalScaledSupply - supply[onBehalfOf][a] + s
       /\ nr.totalScaledDebt = reserves[a].totalScaledDebt - debt[onBehalfOf][a] + d
  BY <1>3, <1>5, <1>6, <1>7
<1> HIDE DEF s, d, bb
<1>15. AccountChange(onBehalfOf, a, nr, s, d, cb, bb)
  BY <1>1, <1>4, <1>7, <1>8, <1>9, <1>10, <1>11, <1>12, <1>13, <1>14 DEF AccountChange
<1> QED BY <1>15, AccountStep

\* A withdrawal keeps the invariant: what it burns is within the balance.
LEMMA WithdrawKeeps ==
    ASSUME PoolInv, NEW sender \in User, NEW a \in Asset, NEW amount \in Nat,
           NEW to \in User, Withdraw(sender, a, amount, to)
    PROVE  PoolInv'
<1> DEFINE r == Accrue(reserves[a], now)
           scaledBalance == supply[sender][a]
           balance == RayMulDown(scaledBalance, r.liquidityIndex)
           all == amount = MaxUint \/ amount = balance
           paid == IF all THEN balance ELSE amount
           burn == IF all THEN scaledBalance ELSE RayDivUp(amount, r.liquidityIndex)
           nr == [r EXCEPT !.totalScaledSupply = @ - burn, !.cash = @ - paid]
           cb == ClearBit(collateral[sender], a, burn, scaledBalance)
           bb == borrowing[sender]
           s == scaledBalance - burn
           d == debt[sender][a]
<1>1. TypeOK
  BY DEF PoolInv
<1>2. IsListed(reserves[a])
  BY ActiveIsListed DEF Withdraw, AcceptsWithdraw, Operational
<1>3. /\ r \in ReserveData
      /\ r.totalScaledSupply = reserves[a].totalScaledSupply
      /\ r.totalScaledDebt = reserves[a].totalScaledDebt
      /\ r.cash = tokens[a]
      /\ r.lastUpdateTimestamp = now
      /\ r.liquidityIndex \in Nat \ {0}
      /\ r.borrowIndex \in Nat \ {0}
  BY <1>2, Accrued
<1>4. /\ paid <= balance
      /\ paid <= r.cash
      /\ supply' = [supply EXCEPT ![sender] = [supply[sender] EXCEPT ![a] = @ - burn]]
      /\ collateral' = [collateral EXCEPT ![sender] = cb]
      /\ reserves' = [reserves EXCEPT ![a] = UpdateRates(nr)]
      /\ PayTokens(a, to, paid)
      /\ UNCHANGED <<debt, borrowing, emergencyVars, now, price>>
  BY Zenon DEF Withdraw, AcceptsWithdraw
<1> HIDE DEF r
<1>5. /\ scaledBalance \in Nat /\ d \in Nat /\ tokens[a] \in Nat
      /\ reserves[a].totalScaledSupply \in Nat /\ reserves[a].totalScaledDebt \in Nat
      /\ scaledBalance <= reserves[a].totalScaledSupply
  BY <1>1, BalancesWithinTotals DEF PoolInv, TypeOK, ReserveData
<1>6. balance \in Nat
  BY <1>3, <1>5, RayType
<1>7. burn \in Nat /\ burn <= scaledBalance /\ paid \in Nat
  <2>1. ~all => RayDivUp(amount, r.liquidityIndex) \in Nat
                /\ RayDivUp(amount, r.liquidityIndex) <= scaledBalance
    <3> SUFFICES ASSUME ~all PROVE RayDivUp(amount, r.liquidityIndex) \in Nat
                                   /\ RayDivUp(amount, r.liquidityIndex) <= scaledBalance
      OBVIOUS
    <3>1. amount <= balance
      BY <1>4
    <3> HIDE DEF scaledBalance
    <3> QED BY <3>1, <1>1, <1>3, <1>5, BurnUpWithinBalance
  <2> QED BY <2>1, <1>1, <1>5, <1>6
<1> HIDE DEF balance, all
<1>8. s \in Nat /\ (burn # scaledBalance => s # 0)
  BY <1>5, <1>7
<1>9. supply' = [supply EXCEPT ![sender] = [supply[sender] EXCEPT ![a] = s]]
  BY <1>1, <1>4 DEF TypeOK
<1> HIDE DEF burn, paid
<1>10. /\ nr \in ReserveData
       /\ nr.totalScaledSupply = r.totalScaledSupply - burn
       /\ nr.totalScaledDebt = r.totalScaledDebt
       /\ nr.cash = tokens[a] - paid
       /\ nr.lastUpdateTimestamp = now
       /\ nr.liquidityIndex # 0 /\ nr.borrowIndex # 0
  <2>1. r.totalScaledSupply - burn \in Nat /\ r.cash - paid \in Nat
    BY <1>3, <1>4, <1>5, <1>7
  <2> QED BY <2>1, <1>3 DEF ReserveData
<1> HIDE DEF nr
<1>11. tokens' = [tokens EXCEPT ![a] = nr.cash] /\ wallet' \in [User -> [Asset -> Nat]]
  BY <1>1, <1>4, <1>7, <1>10 DEF PayTokens, TypeOK
<1>12. debt' = [debt EXCEPT ![sender] = [debt[sender] EXCEPT ![a] = d]]
  BY <1>1, <1>4 DEF TypeOK
<1>13. /\ borrowing' = [borrowing EXCEPT ![sender] = bb]
       /\ cb \in SUBSET Asset /\ bb \in SUBSET Asset
       /\ cb \ {a} \subseteq collateral[sender]
       /\ a \in cb => burn # scaledBalance
       /\ bb \ {a} = borrowing[sender] \ {a}
  BY <1>1, <1>4 DEF TypeOK, ClearBit
<1>14. a \in bb <=> d # 0
  BY <1>1 DEF PoolInv, BitmapInSync
<1>15. /\ nr.totalScaledSupply = reserves[a].totalScaledSupply - supply[sender][a] + s
       /\ nr.totalScaledDebt = reserves[a].totalScaledDebt - debt[sender][a] + d
  BY <1>3, <1>5, <1>7, <1>10
<1> HIDE DEF s, d, cb, bb
<1>16. AccountChange(sender, a, nr, s, d, cb, bb)
  BY <1>1, <1>4, <1>5, <1>8, <1>9, <1>10, <1>11, <1>12, <1>13, <1>14, <1>15
     DEF AccountChange, d
<1> QED BY <1>16, AccountStep

\* A borrow keeps the invariant.
LEMMA BorrowKeeps ==
    ASSUME PoolInv, NEW sender \in User, NEW a \in Asset, NEW amount \in Amounts,
           Borrow(sender, a, amount)
    PROVE  PoolInv'
<1> DEFINE r == Accrue(reserves[a], now)
           scaled == RayDivUp(amount, r.borrowIndex)
           nr == [r EXCEPT !.totalScaledDebt = r.totalScaledDebt + scaled, !.cash = @ - amount]
           cb == collateral[sender]
           bb == borrowing[sender] \cup {a}
           s == supply[sender][a]
           d == debt[sender][a] + scaled
<1>1. TypeOK /\ amount \in Nat \ {0}
  BY PoolAssumption DEF PoolInv
<1>2. IsListed(reserves[a])
  BY ActiveIsListed DEF Borrow, AcceptsBorrow, ValidateBorrow, Operational
<1>3. /\ r \in ReserveData
      /\ r.totalScaledSupply = reserves[a].totalScaledSupply
      /\ r.totalScaledDebt = reserves[a].totalScaledDebt
      /\ r.cash = tokens[a]
      /\ r.lastUpdateTimestamp = now
      /\ r.liquidityIndex \in Nat \ {0}
      /\ r.borrowIndex \in Nat \ {0}
  BY <1>2, Accrued
<1>4. /\ amount <= r.cash
      /\ debt' = [debt EXCEPT ![sender] = [debt[sender] EXCEPT ![a] = @ + scaled]]
      /\ borrowing' = [borrowing EXCEPT ![sender] = bb]
      /\ reserves' = [reserves EXCEPT ![a] = UpdateRates(nr)]
      /\ PayTokens(a, sender, amount)
      /\ UNCHANGED <<supply, collateral, emergencyVars, now, price>>
  BY Zenon DEF Borrow, AcceptsBorrow
<1> HIDE DEF r
<1>5. scaled \in Nat \ {0}
  BY <1>1, <1>3, RayDivUpPositive
<1> HIDE DEF scaled
<1>6. /\ s \in Nat /\ debt[sender][a] \in Nat /\ tokens[a] \in Nat
      /\ reserves[a].totalScaledSupply \in Nat /\ reserves[a].totalScaledDebt \in Nat
  BY <1>1 DEF TypeOK, ReserveData
<1>7. d \in Nat /\ d # 0
  BY <1>5, <1>6
<1>8. debt' = [debt EXCEPT ![sender] = [debt[sender] EXCEPT ![a] = d]]
  BY <1>1, <1>4 DEF TypeOK
<1>9. supply' = [supply EXCEPT ![sender] = [supply[sender] EXCEPT ![a] = s]]
  BY <1>1, <1>4 DEF TypeOK
<1>10. /\ nr \in ReserveData
       /\ nr.totalScaledSupply = r.totalScaledSupply
       /\ nr.totalScaledDebt = r.totalScaledDebt + scaled
       /\ nr.cash = tokens[a] - amount
       /\ nr.lastUpdateTimestamp = now
       /\ nr.liquidityIndex # 0 /\ nr.borrowIndex # 0
  <2>1. r.totalScaledDebt + scaled \in Nat /\ r.cash - amount \in Nat
    BY <1>1, <1>3, <1>4, <1>5, <1>6
  <2> QED BY <2>1, <1>3 DEF ReserveData
<1> HIDE DEF nr
<1>11. tokens' = [tokens EXCEPT ![a] = nr.cash] /\ wallet' \in [User -> [Asset -> Nat]]
  BY <1>1, <1>4, <1>10 DEF PayTokens, TypeOK
<1>12. /\ collateral' = [collateral EXCEPT ![sender] = cb]
       /\ cb \in SUBSET Asset /\ bb \in SUBSET Asset
       /\ cb \ {a} \subseteq collateral[sender]
       /\ bb \ {a} = borrowing[sender] \ {a} /\ a \in bb
  BY <1>1, <1>4 DEF TypeOK
<1>13. a \in cb => s # 0
  BY <1>1 DEF PoolInv, BitmapInSync
<1>14. /\ nr.totalScaledSupply = reserves[a].totalScaledSupply - supply[sender][a] + s
       /\ nr.totalScaledDebt = reserves[a].totalScaledDebt - debt[sender][a] + d
  BY <1>3, <1>5, <1>6, <1>10
<1> HIDE DEF s, d, cb, bb
<1>15. AccountChange(sender, a, nr, s, d, cb, bb)
  BY <1>1, <1>4, <1>6, <1>7, <1>8, <1>9, <1>10, <1>11, <1>12, <1>13, <1>14 DEF AccountChange
<1> QED BY <1>15, AccountStep

\* A repayment keeps the invariant: what it burns is within the debt.
LEMMA RepayKeeps ==
    ASSUME PoolInv, NEW sender \in User, NEW a \in Asset, NEW amount \in Amounts,
           NEW onBehalfOf \in Beneficiaries[sender], Repay(sender, a, amount, onBehalfOf)
    PROVE  PoolInv'
<1> DEFINE r == Accrue(reserves[a], now)
           scaledDebt == debt[onBehalfOf][a]
           owed == RayMulUp(scaledDebt, r.borrowIndex)
           payback == IF amount >= owed THEN owed ELSE amount
           burn == IF amount >= owed THEN scaledDebt ELSE RayDivDown(amount, r.borrowIndex)
           nr == [r EXCEPT !.totalScaledDebt = @ - burn, !.cash = @ + payback]
           cb == collateral[onBehalfOf]
           bb == ClearBit(borrowing[onBehalfOf], a, burn, scaledDebt)
           s == supply[onBehalfOf][a]
           d == scaledDebt - burn
<1>1. TypeOK /\ onBehalfOf \in User /\ amount \in Nat
  BY PoolAssumption DEF PoolInv
<1>2. IsListed(reserves[a])
  BY ActiveIsListed DEF Repay, AcceptsRepay, ValidateRepay
<1>3. /\ r \in ReserveData
      /\ r.totalScaledSupply = reserves[a].totalScaledSupply
      /\ r.totalScaledDebt = reserves[a].totalScaledDebt
      /\ r.cash = tokens[a]
      /\ r.lastUpdateTimestamp = now
      /\ r.liquidityIndex \in Nat \ {0}
      /\ r.borrowIndex \in Nat \ {0}
  BY <1>2, Accrued
<1>4. /\ scaledDebt # 0
      /\ debt' = [debt EXCEPT ![onBehalfOf][a] = @ - burn]
      /\ borrowing' = [borrowing EXCEPT ![onBehalfOf] = ClearBit(@, a, burn, scaledDebt)]
      /\ reserves' = [reserves EXCEPT ![a] = UpdateRates(nr)]
      /\ PullTokens(a, sender, payback)
      /\ UNCHANGED <<supply, collateral, emergencyVars, now, price>>
  BY Zenon DEF Repay, AcceptsRepay
<1> HIDE DEF r
<1>5. /\ scaledDebt \in Nat /\ s \in Nat /\ tokens[a] \in Nat
      /\ reserves[a].totalScaledSupply \in Nat /\ reserves[a].totalScaledDebt \in Nat
      /\ scaledDebt <= reserves[a].totalScaledDebt
  BY <1>1, BalancesWithinTotals DEF PoolInv, TypeOK, ReserveData
<1>6. owed \in Nat
  BY <1>3, <1>5, RayType
<1>7. burn \in Nat /\ burn <= scaledDebt /\ payback \in Nat
  <2>1. amount < owed => /\ RayDivDown(amount, r.borrowIndex) \in Nat
                         /\ RayDivDown(amount, r.borrowIndex) < scaledDebt
    <3> HIDE DEF scaledDebt
    <3> QED BY <1>1, <1>3, <1>5, BurnDownWithinDebt
  <2> QED BY <2>1, <1>1, <1>5, <1>6
<1> HIDE DEF owed
<1>8. d \in Nat /\ (burn = scaledDebt <=> d = 0)
  BY <1>5, <1>7
<1> HIDE DEF burn, payback
<1>9. debt' = [debt EXCEPT ![onBehalfOf] = [debt[onBehalfOf] EXCEPT ![a] = d]]
  BY <1>1, <1>4 DEF TypeOK
<1>10. supply' = [supply EXCEPT ![onBehalfOf] = [supply[onBehalfOf] EXCEPT ![a] = s]]
  BY <1>1, <1>4 DEF TypeOK
<1>11. /\ nr \in ReserveData
       /\ nr.totalScaledSupply = r.totalScaledSupply
       /\ nr.totalScaledDebt = r.totalScaledDebt - burn
       /\ nr.cash = tokens[a] + payback
       /\ nr.lastUpdateTimestamp = now
       /\ nr.liquidityIndex # 0 /\ nr.borrowIndex # 0
  <2>1. r.totalScaledDebt - burn \in Nat /\ r.cash + payback \in Nat
    BY <1>3, <1>5, <1>7
  <2> QED BY <2>1, <1>3 DEF ReserveData
<1> HIDE DEF nr
<1>12. tokens' = [tokens EXCEPT ![a] = nr.cash] /\ wallet' \in [User -> [Asset -> Nat]]
  BY <1>1, <1>4, <1>7, <1>11 DEF PullTokens, TypeOK
<1>13. a \in borrowing[onBehalfOf] /\ (a \in cb => s # 0)
  BY <1>1, <1>4 DEF PoolInv, BitmapInSync
<1>14. /\ collateral' = [collateral EXCEPT ![onBehalfOf] = cb]
       /\ borrowing' = [borrowing EXCEPT ![onBehalfOf] = bb]
       /\ cb \in SUBSET Asset /\ bb \in SUBSET Asset
       /\ cb \ {a} \subseteq collateral[onBehalfOf]
       /\ bb \ {a} = borrowing[onBehalfOf] \ {a}
       /\ a \in bb <=> burn # scaledDebt
  BY <1>1, <1>4, <1>13 DEF TypeOK, ClearBit
<1>15. /\ nr.totalScaledSupply = reserves[a].totalScaledSupply - supply[onBehalfOf][a] + s
       /\ nr.totalScaledDebt = reserves[a].totalScaledDebt - debt[onBehalfOf][a] + d
  BY <1>3, <1>5, <1>7, <1>11
<1>16. a \in bb <=> d # 0
  BY <1>8, <1>14
<1> HIDE DEF s, d, cb, bb
<1>17. AccountChange(onBehalfOf, a, nr, s, d, cb, bb)
  BY <1>1, <1>4, <1>5, <1>8, <1>9, <1>10, <1>11, <1>12, <1>13, <1>14, <1>15, <1>16
     DEF AccountChange
<1> QED BY <1>17, AccountStep

\* Flagging or unflagging collateral keeps the invariant.
LEMMA SetUseReserveAsCollateralKeeps ==
    ASSUME PoolInv, NEW sender \in User, NEW a \in Asset, NEW enabled \in BOOLEAN,
           SetUseReserveAsCollateral(sender, a, enabled)
    PROVE  PoolInv'
<1> DEFINE cb == IF enabled THEN collateral[sender] \cup {a} ELSE collateral[sender] \ {a}
<1>1. /\ supply[sender][a] # 0
      /\ collateral' = [collateral EXCEPT ![sender] = cb]
      /\ UNCHANGED <<reserves, supply, debt, borrowing, emergencyVars, now, price, tokenVars>>
  BY Zenon DEF SetUseReserveAsCollateral
<1>2. TypeOK
  BY DEF PoolInv
<1>3. cb \in SUBSET Asset /\ cb \subseteq collateral[sender] \cup {a}
  BY <1>2 DEF TypeOK
<1> HIDE DEF cb
<1>4. TypeOK'
  BY <1>1, <1>2, <1>3 DEF TypeOK, emergencyVars, tokenVars
<1>5. BitmapInSync'
  BY <1>1, <1>2, <1>3 DEF PoolInv, BitmapInSync, TypeOK
<1>6. ReservesSane' /\ TotalsMatch' /\ CashMatchesTokens'
  BY <1>1 DEF PoolInv, ReservesSane, TotalsMatch, CashMatchesTokens, tokenVars
<1> QED BY <1>4, <1>5, <1>6 DEF PoolInv

\* A step that leaves reserve a as nr and every account as it was.
ReserveChange(a, nr) ==
    /\ a \in Asset
    /\ nr \in ReserveData
    /\ nr.lastUpdateTimestamp = now
    /\ nr.liquidityIndex # 0 /\ nr.borrowIndex # 0
    /\ nr.totalScaledSupply = reserves[a].totalScaledSupply
    /\ nr.totalScaledDebt = reserves[a].totalScaledDebt
    /\ reserves' = [reserves EXCEPT ![a] = UpdateRates(nr)]
    /\ tokens' = [tokens EXCEPT ![a] = nr.cash]
    /\ wallet' \in [User -> [Asset -> Nat]]
    /\ UNCHANGED <<accountVars, emergencyVars, now, price>>

\* A step that changes one reserve and its tokens, and no account, keeps the
\* invariant.
LEMMA ReserveStep ==
    ASSUME PoolInv, NEW a, NEW nr, ReserveChange(a, nr)
    PROVE  PoolInv'
<1> USE DEF ReserveChange
<1>1. TypeOK
  BY DEF PoolInv
<1>2. now' = now
  OBVIOUS
<1>3. /\ reserves' \in [Asset -> ReserveData]
      /\ tokens' \in [Asset -> Nat]
      /\ ReservesSane'
      /\ CashMatchesTokens'
      /\ \A b \in Asset \ {a} : reserves'[b] = reserves[b]
      /\ reserves'[a].totalScaledSupply = nr.totalScaledSupply
      /\ reserves'[a].totalScaledDebt = nr.totalScaledDebt
  BY <1>2, ReserveFrame
<1>4. TypeOK'
  BY <1>1, <1>3 DEF TypeOK, emergencyVars, accountVars
<1>5. BitmapInSync'
  BY DEF PoolInv, BitmapInSync, accountVars
<1>6. TotalsMatch'
  <2>1. \A b \in Asset : /\ reserves'[b].totalScaledSupply = reserves[b].totalScaledSupply
                         /\ reserves'[b].totalScaledDebt = reserves[b].totalScaledDebt
    <3> TAKE b \in Asset
    <3>1. CASE b = a
      BY <3>1, <1>3
    <3>2. CASE b # a
      BY <3>2, <1>3
    <3> QED BY <3>1, <3>2
  <2>2. supply' = supply /\ debt' = debt
    BY DEF accountVars
  <2> QED BY <2>1, <2>2 DEF PoolInv, TotalsMatch
<1> QED BY <1>3, <1>4, <1>5, <1>6 DEF PoolInv

\* Covering a deficit keeps the invariant.
LEMMA CoverDeficitKeeps ==
    ASSUME PoolInv, NEW sender \in User, NEW a \in Asset, NEW amount \in Amounts,
           CoverDeficit(sender, a, amount)
    PROVE  PoolInv'
<1> DEFINE r == Accrue(reserves[a], now)
           covered == IF amount > r.deficit THEN r.deficit ELSE amount
           nr == [r EXCEPT !.deficit = @ - covered, !.cash = @ + covered]
<1>1. TypeOK /\ amount \in Nat
  BY PoolAssumption DEF PoolInv
<1>2. /\ r.deficit # 0
      /\ reserves' = [reserves EXCEPT ![a] = UpdateRates(nr)]
      /\ PullTokens(a, sender, covered)
      /\ UNCHANGED <<accountVars, emergencyVars, now, price>>
  BY Zenon DEF CoverDeficit
<1>3. IsListed(reserves[a])
  <2> SUFFICES ASSUME ~IsListed(reserves[a]) PROVE FALSE
    OBVIOUS
  <2>1. /\ reserves[a].lastUpdateTimestamp = 0 /\ reserves[a].deficit = 0
        /\ reserves[a].totalScaledDebt = 0
        /\ reserves[a] \in ReserveData
    BY <1>1 DEF PoolInv, ReservesSane, SaneReserve, IsListed, TypeOK
  <2>2. Accrue(reserves[a], now).deficit = 0
    BY <2>1 DEF Accrue, ReserveData
  <2> QED BY <2>2, <1>2
<1>4. /\ r \in ReserveData
      /\ r.totalScaledSupply = reserves[a].totalScaledSupply
      /\ r.totalScaledDebt = reserves[a].totalScaledDebt
      /\ r.cash = tokens[a]
      /\ r.lastUpdateTimestamp = now
      /\ r.liquidityIndex \in Nat \ {0}
      /\ r.borrowIndex \in Nat \ {0}
  BY <1>3, Accrued
<1> HIDE DEF r
<1>5. r.deficit \in Nat /\ tokens[a] \in Nat /\ covered \in Nat /\ covered <= r.deficit
  BY <1>1, <1>4 DEF TypeOK, ReserveData
<1> HIDE DEF covered
<1>6. /\ nr \in ReserveData
      /\ nr.totalScaledSupply = r.totalScaledSupply
      /\ nr.totalScaledDebt = r.totalScaledDebt
      /\ nr.cash = tokens[a] + covered
      /\ nr.lastUpdateTimestamp = now
      /\ nr.liquidityIndex # 0 /\ nr.borrowIndex # 0
  <2>1. r.deficit - covered \in Nat /\ r.cash + covered \in Nat
    BY <1>4, <1>5
  <2> QED BY <2>1, <1>4 DEF ReserveData
<1> HIDE DEF nr
<1>7. tokens' = [tokens EXCEPT ![a] = nr.cash] /\ wallet' \in [User -> [Asset -> Nat]]
  BY <1>1, <1>2, <1>5, <1>6 DEF PullTokens, TypeOK
<1>8. ReserveChange(a, nr)
  BY <1>2, <1>4, <1>6, <1>7 DEF ReserveChange
<1> QED BY <1>8, ReserveStep

\* Paying out the treasury keeps the invariant: it burns at most its claim.
LEMMA WithdrawReservesKeeps ==
    ASSUME PoolInv, NEW a \in Asset, NEW amount \in Amounts, NEW to \in User,
           WithdrawReserves(a, amount, to)
    PROVE  PoolInv'
<1> DEFINE r == Accrue(reserves[a], now)
           available == RayMulDown(r.accruedToTreasury, r.liquidityIndex)
           paid == IF amount >= available THEN available ELSE amount
           burn == IF amount >= available
                   THEN r.accruedToTreasury
                   ELSE RayDivUp(amount, r.liquidityIndex)
           nr == [r EXCEPT !.accruedToTreasury = @ - burn, !.cash = @ - paid]
<1>1. TypeOK /\ amount \in Nat
  BY PoolAssumption DEF PoolInv
<1>2. /\ IsListed(reserves[a])
      /\ paid <= r.cash
      /\ reserves' = [reserves EXCEPT ![a] = UpdateRates(nr)]
      /\ PayTokens(a, to, paid)
      /\ UNCHANGED <<accountVars, emergencyVars, now, price>>
  BY Zenon DEF WithdrawReserves
<1>3. /\ r \in ReserveData
      /\ r.totalScaledSupply = reserves[a].totalScaledSupply
      /\ r.totalScaledDebt = reserves[a].totalScaledDebt
      /\ r.cash = tokens[a]
      /\ r.lastUpdateTimestamp = now
      /\ r.liquidityIndex \in Nat \ {0}
      /\ r.borrowIndex \in Nat \ {0}
  BY <1>2, Accrued
<1> HIDE DEF r
<1>4. r.accruedToTreasury \in Nat /\ tokens[a] \in Nat
  BY <1>1, <1>3 DEF TypeOK, ReserveData
<1>5. available \in Nat
  BY <1>3, <1>4, RayType
<1>6. amount < available => /\ RayDivUp(amount, r.liquidityIndex) \in Nat
                            /\ RayDivUp(amount, r.liquidityIndex) <= r.accruedToTreasury
  BY <1>1, <1>3, <1>4, <1>5, BurnUpWithinBalance
<1>7. burn \in Nat /\ burn <= r.accruedToTreasury /\ paid \in Nat
  BY <1>1, <1>4, <1>5, <1>6
<1> HIDE DEF burn, paid, available
<1>8. /\ nr \in ReserveData
      /\ nr.totalScaledSupply = r.totalScaledSupply
      /\ nr.totalScaledDebt = r.totalScaledDebt
      /\ nr.cash = tokens[a] - paid
      /\ nr.lastUpdateTimestamp = now
      /\ nr.liquidityIndex # 0 /\ nr.borrowIndex # 0
  <2>1. r.accruedToTreasury - burn \in Nat /\ r.cash - paid \in Nat
    BY <1>2, <1>3, <1>4, <1>7
  <2> QED BY <2>1, <1>3 DEF ReserveData
<1> HIDE DEF nr
<1>9. tokens' = [tokens EXCEPT ![a] = nr.cash] /\ wallet' \in [User -> [Asset -> Nat]]
  BY <1>1, <1>2, <1>7, <1>8 DEF PayTokens, TypeOK
<1>10. ReserveChange(a, nr)
  BY <1>2, <1>3, <1>8, <1>9 DEF ReserveChange
<1> QED BY <1>10, ReserveStep

\* What initReserve stores before it prices the reserve.
Fresh(config, model, t) ==
    [UnlistedReserve EXCEPT !.config = config,
                            !.liquidityIndex = RAY,
                            !.borrowIndex = RAY,
                            !.interestRateModel = model,
                            !.lastUpdateTimestamp = t]

\* Nothing is booked in a reserve that is not listed.
LEMMA UnlistedType ==
    /\ UnlistedReserve \in ReserveData
    /\ UnlistedReserve.totalScaledSupply = 0 /\ UnlistedReserve.totalScaledDebt = 0
    /\ UnlistedReserve.cash = 0 /\ UnlistedReserve.accruedToTreasury = 0
    /\ UnlistedReserve.deficit = 0 /\ UnlistedReserve.lastUpdateTimestamp = 0
    /\ ~UnlistedReserve.config.active
<1>1. 0 \in Bps /\ 1 \in 1 .. (RAY - 1) /\ 0 <= MAX_BORROW_RATE
  BY ScaleAssumption DEF Bps, MAX_BORROW_RATE
<1>2. UnlistedReserve.config \in ReserveConfig
  BY <1>1 DEF UnlistedReserve, ReserveConfig
<1>3. UnlistedReserve.interestRateModel \in InterestRateModel
  BY <1>1 DEF UnlistedReserve, InterestRateModel
<1> QED BY <1>2, <1>3 DEF UnlistedReserve, ReserveData

\* A reserve about to be listed is well formed and empty.
LEMMA FreshType ==
    ASSUME NEW config \in ReserveConfig, NEW model \in InterestRateModel, NEW t \in Nat
    PROVE  LET r == Fresh(config, model, t)
           IN  /\ r \in ReserveData
               /\ r.config = config
               /\ r.totalScaledSupply = 0 /\ r.totalScaledDebt = 0
               /\ r.cash = 0 /\ r.accruedToTreasury = 0 /\ r.deficit = 0
               /\ r.lastUpdateTimestamp = t
               /\ r.liquidityIndex # 0 /\ r.borrowIndex # 0
<1>1. RAY \in Nat \ {0}
  BY ScaleAssumption
<1> QED BY <1>1, UnlistedType DEF Fresh, ReserveData

\* Listing a reserve keeps the invariant.
LEMMA InitReserveKeeps ==
    ASSUME PoolInv, NEW a \in Asset, NEW model \in RateModels[a], NEW config \in Configs[a],
           InitReserve(a, model, config)
    PROVE  PoolInv'
<1> DEFINE nr == Fresh(config, model, now)
<1>1. TypeOK /\ model \in InterestRateModel /\ config \in ReserveConfig /\ now \in Nat
  BY PoolAssumption DEF PoolInv, TypeOK, ValidConfig
<1>2. /\ nr \in ReserveData
      /\ nr.totalScaledSupply = 0 /\ nr.totalScaledDebt = 0
      /\ nr.cash = 0
      /\ nr.lastUpdateTimestamp = now
      /\ nr.liquidityIndex # 0 /\ nr.borrowIndex # 0
  BY <1>1, FreshType
<1>3. /\ ~IsListed(reserves[a])
      /\ reserves' = [reserves EXCEPT ![a] = UpdateRates(nr)]
      /\ UNCHANGED <<accountVars, emergencyVars, now, price, tokenVars>>
  BY Zenon DEF InitReserve, NewReserve, Fresh
<1> HIDE DEF nr
<1>4. reserves[a].totalScaledSupply = 0 /\ reserves[a].totalScaledDebt = 0 /\ tokens[a] = 0
  BY <1>3 DEF PoolInv, ReservesSane, SaneReserve, CashMatchesTokens
<1>5. tokens' = [tokens EXCEPT ![a] = nr.cash] /\ wallet' \in [User -> [Asset -> Nat]]
  BY <1>1, <1>2, <1>3, <1>4 DEF TypeOK, tokenVars
<1>6. ReserveChange(a, nr)
  BY <1>2, <1>3, <1>4, <1>5 DEF ReserveChange
<1> QED BY <1>6, ReserveStep

\* A new configuration keeps the invariant.
LEMMA SetReserveConfigKeeps ==
    ASSUME PoolInv, NEW a \in Asset, NEW config \in Configs[a], SetReserveConfig(a, config)
    PROVE  PoolInv'
<1> DEFINE r == Accrue(reserves[a], now)
           nr == [r EXCEPT !.config = config]
<1>1. TypeOK /\ config \in ReserveConfig
  BY PoolAssumption DEF PoolInv, ValidConfig
<1>2. /\ IsListed(reserves[a])
      /\ reserves' = [reserves EXCEPT ![a] = UpdateRates(nr)]
      /\ UNCHANGED <<accountVars, emergencyVars, now, price, tokenVars>>
  BY Zenon DEF SetReserveConfig, Configured
<1>3. /\ r \in ReserveData
      /\ r.totalScaledSupply = reserves[a].totalScaledSupply
      /\ r.totalScaledDebt = reserves[a].totalScaledDebt
      /\ r.cash = tokens[a]
      /\ r.lastUpdateTimestamp = now
      /\ r.liquidityIndex \in Nat \ {0}
      /\ r.borrowIndex \in Nat \ {0}
  BY <1>2, Accrued
<1> HIDE DEF r
<1>4. /\ nr \in ReserveData
      /\ nr.totalScaledSupply = r.totalScaledSupply
      /\ nr.totalScaledDebt = r.totalScaledDebt
      /\ nr.cash = tokens[a]
      /\ nr.lastUpdateTimestamp = now
      /\ nr.liquidityIndex # 0 /\ nr.borrowIndex # 0
  BY <1>1, <1>3 DEF ReserveData
<1> HIDE DEF nr
<1>5. tokens' = [tokens EXCEPT ![a] = nr.cash] /\ wallet' \in [User -> [Asset -> Nat]]
  BY <1>1, <1>2, <1>4 DEF TypeOK, tokenVars
<1>6. ReserveChange(a, nr)
  BY <1>2, <1>3, <1>4, <1>5 DEF ReserveChange
<1> QED BY <1>6, ReserveStep

\* A new rate model keeps the invariant.
LEMMA SetInterestRateModelKeeps ==
    ASSUME PoolInv, NEW a \in Asset, NEW model \in RateModels[a], SetInterestRateModel(a, model)
    PROVE  PoolInv'
<1> DEFINE r == Accrue(reserves[a], now)
           nr == [r EXCEPT !.interestRateModel = model]
<1>1. TypeOK /\ model \in InterestRateModel
  BY PoolAssumption DEF PoolInv
<1>2. /\ IsListed(reserves[a])
      /\ reserves' = [reserves EXCEPT ![a] = UpdateRates(nr)]
      /\ UNCHANGED <<accountVars, emergencyVars, now, price, tokenVars>>
  BY Zenon DEF SetInterestRateModel
<1>3. /\ r \in ReserveData
      /\ r.totalScaledSupply = reserves[a].totalScaledSupply
      /\ r.totalScaledDebt = reserves[a].totalScaledDebt
      /\ r.cash = tokens[a]
      /\ r.lastUpdateTimestamp = now
      /\ r.liquidityIndex \in Nat \ {0}
      /\ r.borrowIndex \in Nat \ {0}
  BY <1>2, Accrued
<1> HIDE DEF r
<1>4. /\ nr \in ReserveData
      /\ nr.totalScaledSupply = r.totalScaledSupply
      /\ nr.totalScaledDebt = r.totalScaledDebt
      /\ nr.cash = tokens[a]
      /\ nr.lastUpdateTimestamp = now
      /\ nr.liquidityIndex # 0 /\ nr.borrowIndex # 0
  BY <1>1, <1>3 DEF ReserveData
<1> HIDE DEF nr
<1>5. tokens' = [tokens EXCEPT ![a] = nr.cash] /\ wallet' \in [User -> [Asset -> Nat]]
  BY <1>1, <1>2, <1>4 DEF TypeOK, tokenVars
<1>6. ReserveChange(a, nr)
  BY <1>2, <1>3, <1>4, <1>5 DEF ReserveChange
<1> QED BY <1>6, ReserveStep

\* Pauses, grace windows, prices and the clock touch no balance.
LEMMA SettingKeeps ==
    ASSUME PoolInv, UNCHANGED <<reserves, accountVars, tokenVars>>,
           paused' \in BOOLEAN, graceUntil' \in Nat, gracePeriod' \in Nat,
           now' \in Nat, now <= now', price' \in [Asset -> Nat]
    PROVE  PoolInv'
<1>1. TypeOK'
  BY DEF PoolInv, TypeOK, accountVars, tokenVars
<1>2. ReservesSane'
  <2> SUFFICES ASSUME NEW a \in Asset PROVE SaneReserve(reserves[a], now')
    BY DEF ReservesSane
  <2>1. SaneReserve(reserves[a], now) /\ reserves[a].lastUpdateTimestamp \in Nat /\ now \in Nat
    BY DEF PoolInv, ReservesSane, TypeOK, ReserveData
  <2> QED BY <2>1 DEF SaneReserve
<1>3. TotalsMatch' /\ CashMatchesTokens' /\ BitmapInSync'
  BY DEF PoolInv, TotalsMatch, CashMatchesTokens, BitmapInSync, accountVars, tokenVars
<1> QED BY <1>1, <1>2, <1>3 DEF PoolInv

\* The actions that change only settings, the clock or a price keep the invariant.
LEMMA SettingsKeep ==
    ASSUME PoolInv,
           \/ \E newPaused \in Pauses : SetPoolPaused(newPaused)
           \/ \E period \in GracePeriods : SetLiquidationGracePeriod(period)
           \/ Tick
           \/ \E a \in Asset : \E p \in Prices[a] : SetPrice(a, p)
    PROVE  PoolInv'
<1>1. TypeOK
  BY DEF PoolInv
<1>2. ASSUME NEW newPaused \in Pauses, SetPoolPaused(newPaused) PROVE PoolInv'
  <2>1. newPaused \in BOOLEAN
    BY PoolAssumption
  <2>2. /\ paused' = newPaused
        /\ graceUntil' = IF newPaused THEN graceUntil ELSE now + gracePeriod
        /\ UNCHANGED <<reserves, accountVars, gracePeriod, now, price, tokenVars>>
    BY <1>2 DEF SetPoolPaused
  <2>3. /\ paused' \in BOOLEAN /\ graceUntil' \in Nat /\ gracePeriod' \in Nat
        /\ now' \in Nat /\ now <= now' /\ price' \in [Asset -> Nat]
    BY <1>1, <2>1, <2>2 DEF TypeOK
  <2> QED BY <2>2, <2>3, SettingKeeps
<1>3. ASSUME NEW period \in GracePeriods, SetLiquidationGracePeriod(period) PROVE PoolInv'
  <2>1. /\ paused' \in BOOLEAN /\ graceUntil' \in Nat /\ gracePeriod' \in Nat
        /\ now' \in Nat /\ now <= now' /\ price' \in [Asset -> Nat]
    BY <1>1, <1>3, PoolAssumption DEF TypeOK, SetLiquidationGracePeriod
  <2> QED BY <2>1, <1>3, SettingKeeps DEF SetLiquidationGracePeriod
<1>4. ASSUME Tick PROVE PoolInv'
  <2>1. /\ paused' \in BOOLEAN /\ graceUntil' \in Nat /\ gracePeriod' \in Nat
        /\ now' \in Nat /\ now <= now' /\ price' \in [Asset -> Nat]
    BY <1>1, <1>4 DEF TypeOK, Tick, emergencyVars
  <2> QED BY <2>1, <1>4, SettingKeeps DEF Tick
<1>5. ASSUME NEW a \in Asset, NEW p \in Prices[a], SetPrice(a, p) PROVE PoolInv'
  <2>1. p \in Nat
    BY PoolAssumption
  <2>2. /\ paused' \in BOOLEAN /\ graceUntil' \in Nat /\ gracePeriod' \in Nat
        /\ now' \in Nat /\ now <= now' /\ price' \in [Asset -> Nat]
    BY <1>1, <1>5, <2>1 DEF TypeOK, SetPrice, emergencyVars
  <2> QED BY <2>2, <1>5, SettingKeeps DEF SetPrice
<1> QED BY <1>2, <1>3, <1>4, <1>5

\* The initial state, with its listed reserves, satisfies the invariant.
LEMMA InitEstablishes ==
    ASSUME Init
    PROVE  PoolInv
<1> DEFINE fresh(a) == Fresh(InitialConfig[a], InitialRateModel[a], Genesis)
           rated(a) == UpdateRates(fresh(a))
<1>1. reserves = [a \in Asset |-> IF a \in Listed THEN rated(a) ELSE UnlistedReserve]
  BY Zenon DEF Init, NewReserve, Fresh
<1>2. ASSUME NEW a \in Asset
      PROVE  /\ rated(a) \in ReserveData
             /\ rated(a).totalScaledSupply = 0 /\ rated(a).totalScaledDebt = 0
             /\ rated(a).cash = 0
             /\ rated(a).lastUpdateTimestamp = 1
             /\ rated(a).liquidityIndex # 0 /\ rated(a).borrowIndex # 0
  <2>1. InitialConfig[a] \in ReserveConfig /\ InitialRateModel[a] \in InterestRateModel
        /\ Genesis \in Nat /\ Genesis = 1
    BY PoolAssumption DEF Genesis, ValidConfig
  <2> DEFINE f == fresh(a)
  <2>2. /\ f \in ReserveData
        /\ f.totalScaledSupply = 0 /\ f.totalScaledDebt = 0
        /\ f.cash = 0
        /\ f.lastUpdateTimestamp = 1
        /\ f.liquidityIndex # 0 /\ f.borrowIndex # 0
    BY <2>1, FreshType
  <2> HIDE DEF f
  <2>3. /\ UpdateRates(f) \in ReserveData
        /\ UpdateRates(f).totalScaledSupply = 0 /\ UpdateRates(f).totalScaledDebt = 0
        /\ UpdateRates(f).cash = 0
        /\ UpdateRates(f).lastUpdateTimestamp = 1
        /\ UpdateRates(f).liquidityIndex # 0 /\ UpdateRates(f).borrowIndex # 0
    BY <2>2, RatedReserve
  <2> QED BY <2>3 DEF f
<1> HIDE DEF rated
<1> HIDE DEF fresh
<1>4. \A a \in Asset : /\ reserves[a] \in ReserveData
                       /\ reserves[a].totalScaledSupply = 0 /\ reserves[a].totalScaledDebt = 0
                       /\ reserves[a].cash = 0
                       /\ SaneReserve(reserves[a], 1)
  <2> TAKE a \in Asset
  <2>1. CASE a \in Listed
    <3>1. reserves[a] = rated(a)
      BY <2>1, <1>1
    <3> QED BY <3>1, <1>2 DEF SaneReserve, IsListed
  <2>2. CASE a \notin Listed
    <3>1. reserves[a] = UnlistedReserve
      BY <2>2, <1>1
    <3> QED BY <3>1, UnlistedType DEF SaneReserve, IsListed
  <2> QED BY <2>1, <2>2
<1>5. /\ supply = [u \in User |-> [a \in Asset |-> 0]] /\ debt = [u \in User |-> [a \in Asset |-> 0]]
      /\ collateral = [u \in User |-> {}] /\ borrowing = [u \in User |-> {}]
      /\ paused = FALSE /\ graceUntil = 0 /\ gracePeriod = 0 /\ now = 1
      /\ wallet \in [User -> [Asset -> Nat]] /\ tokens = [a \in Asset |-> 0]
  BY PoolAssumption DEF Init, NoBalance, Genesis
<1>6. price \in [Asset -> Nat]
  <2>1. /\ price \in [Asset -> UNION {Prices[a] : a \in Asset}]
        /\ \A a \in Asset : price[a] \in Prices[a]
    BY DEF Init
  <2> QED BY <2>1, PoolAssumption
<1>7. TypeOK
  <2>1. reserves \in [Asset -> ReserveData]
    BY <1>1, <1>4
  <2>2. /\ supply \in [User -> [Asset -> Nat]] /\ debt \in [User -> [Asset -> Nat]]
        /\ collateral \in [User -> SUBSET Asset] /\ borrowing \in [User -> SUBSET Asset]
        /\ tokens \in [Asset -> Nat]
    BY <1>5
  <2>3. paused \in BOOLEAN /\ wallet \in [User -> [Asset -> Nat]]
    BY <1>5, Zenon
  <2>4. graceUntil = 0 /\ gracePeriod = 0 /\ now = 1
    BY <1>5, Zenon
  <2>5. graceUntil \in Nat /\ gracePeriod \in Nat /\ now \in Nat \ {0}
    BY <2>4
  <2> QED BY <2>1, <2>2, <2>3, <2>5, <1>6, Zenon DEF TypeOK
<1>8. ReservesSane
  BY <1>4, <1>5 DEF ReservesSane
<1>9. CashMatchesTokens
  BY <1>4, <1>5 DEF CashMatchesTokens
<1>10. BitmapInSync
  BY <1>5 DEF BitmapInSync
<1>11. TotalsMatch
  <2>1. ASSUME NEW a \in Asset
        PROVE  SumOver([u \in User |-> supply[u][a]], User) = 0
               /\ SumOver([u \in User |-> debt[u][a]], User) = 0
    <3> DEFINE z == [u \in User |-> 0]
    <3>1. [u \in User |-> supply[u][a]] = z /\ [u \in User |-> debt[u][a]] = z
      BY <1>5
    <3>2. IsFiniteSet(User) /\ \A u \in User : z[u] = 0
      BY PoolAssumption
    <3> HIDE DEF z
    <3>3. SumOver(z, User) = 0
      BY <3>2, SumOfZeros
    <3> QED BY <3>1, <3>3
  <2> QED BY <2>1, <1>4 DEF TotalsMatch
<1> QED BY <1>7, <1>8, <1>9, <1>10, <1>11 DEF PoolInv

-----------------------------------------------------------------------------
(***************************************************************************)
(* Liquidation.                                                            *)
(***************************************************************************)

\* The reserves of the two legs accrued, the others as they are.
AccruedPair(c, d) ==
    [a \in Asset |-> IF a \in {c, d} THEN Accrue(reserves[a], now) ELSE reserves[a]]

\* Accruing the two legs changes no balance, total or token amount.
LEMMA AccruedPairKeeps ==
    ASSUME PoolInv, NEW c \in Asset, NEW d \in Asset,
           IsListed(reserves[c]), IsListed(reserves[d]), NEW x \in Asset
    PROVE  LET r == AccruedPair(c, d)[x]
           IN  /\ r \in ReserveData
               /\ r.config = reserves[x].config
               /\ r.totalScaledSupply = reserves[x].totalScaledSupply
               /\ r.totalScaledDebt = reserves[x].totalScaledDebt
               /\ r.cash = tokens[x]
               /\ SaneReserve(r, now)
               /\ IsListed(reserves[x]) => IsListed(r)
               /\ x \in {c, d} => /\ r.lastUpdateTimestamp = now
                                  /\ r.liquidityIndex \in Nat \ {0}
                                  /\ r.borrowIndex \in Nat \ {0}
<1>1. CASE x \in {c, d}
  <2> DEFINE r == Accrue(reserves[x], now)
  <2>1. AccruedPair(c, d)[x] = r
    BY <1>1 DEF AccruedPair
  <2>2. /\ r \in ReserveData
        /\ r.config = reserves[x].config
        /\ r.totalScaledSupply = reserves[x].totalScaledSupply
        /\ r.totalScaledDebt = reserves[x].totalScaledDebt
        /\ r.cash = tokens[x]
        /\ r.lastUpdateTimestamp = now
        /\ r.liquidityIndex \in Nat \ {0}
        /\ r.borrowIndex \in Nat \ {0}
    BY <1>1, Accrued
  <2> HIDE DEF r
  <2>3. now \in Nat \ {0}
    BY DEF PoolInv, TypeOK
  <2>4. SaneReserve(r, now) /\ IsListed(r)
    BY <2>2, <2>3 DEF SaneReserve, IsListed
  <2> QED BY <2>1, <2>2, <2>4
<1>2. CASE x \notin {c, d}
  <2>1. AccruedPair(c, d)[x] = reserves[x]
    BY <1>2 DEF AccruedPair
  <2>2. /\ reserves[x] \in ReserveData /\ reserves[x].cash = tokens[x]
        /\ SaneReserve(reserves[x], now)
    BY DEF PoolInv, TypeOK, CashMatchesTokens, ReservesSane
  <2> QED BY <1>2, <2>1, <2>2
<1> QED BY <1>1, <1>2

\* What executeLiquidation burns of the borrower's two balances: db of the debt in
\* d for repaid tokens, and cb of the supply in c for seized ones.
Burns(c, d, b, repaid, seized, db, cb) ==
    LET accrued == AccruedPair(c, d)
    IN  /\ db = IF repaid = RayMulUp(debt[b][d], accrued[d].borrowIndex)
                THEN debt[b][d]
                ELSE RayDivDown(repaid, accrued[d].borrowIndex)
        /\ cb = IF seized = RayMulDown(supply[b][c], accrued[c].liquidityIndex)
                THEN supply[b][c]
                ELSE RayDivUp(seized, accrued[c].liquidityIndex)

\* The amounts of a liquidation that is not refused.
LiquidationAmounts(c, d, b, cover, repaid, seized) ==
    LET amounts == CalculateAmounts(LiquidationInput(AccruedPair(c, d), c, d, b, cover))
    IN  /\ amounts.status = "OK"
        /\ repaid = amounts.debtRepaid
        /\ seized = amounts.collateralSeized

\* The burns of both legs stay within the borrower's balances.
LEMMA BurnsWithinBalances ==
    ASSUME PoolInv, NEW c \in Asset, NEW d \in Asset, NEW b \in User, NEW cover \in Nat,
           IsListed(reserves[c]), IsListed(reserves[d]),
           price[c] # 0, price[d] # 0, supply[b][c] # 0,
           NEW repaid, NEW seized, LiquidationAmounts(c, d, b, cover, repaid, seized),
           NEW db, NEW cb, Burns(c, d, b, repaid, seized, db, cb)
    PROVE  /\ repaid \in Nat /\ seized \in Nat
           /\ db \in Nat /\ db <= debt[b][d]
           /\ cb \in Nat \ {0} /\ cb <= supply[b][c]
<1> DEFINE accrued == AccruedPair(c, d)
           i == LiquidationInput(accrued, c, d, b, cover)
           bi == accrued[d].borrowIndex
           li == accrued[c].liquidityIndex
           sd == debt[b][d]
           sc == supply[b][c]
<1>1. /\ bi \in Nat \ {0} /\ li \in Nat \ {0}
      /\ accrued[c] \in ReserveData
  <2>1. bi \in Nat \ {0}
    BY AccruedPairKeeps
  <2>2. li \in Nat \ {0} /\ accrued[c] \in ReserveData
    BY AccruedPairKeeps
  <2> QED BY <2>1, <2>2
<1>2. sd \in Nat /\ sc \in Nat \ {0} /\ price[c] \in Nat \ {0} /\ price[d] \in Nat \ {0}
  BY DEF PoolInv, TypeOK
<1>3. accrued[c].config.liquidationBonus \in Nat
  BY <1>1, ScaleAssumption DEF ReserveData, ReserveConfig, Bps
<1>4. /\ db = IF repaid = RayMulUp(sd, bi) THEN sd ELSE RayDivDown(repaid, bi)
      /\ cb = IF seized = RayMulDown(sc, li) THEN sc ELSE RayDivUp(seized, li)
  BY Zenon DEF Burns
<1>5. /\ CalculateAmounts(i).status = "OK"
      /\ repaid = CalculateAmounts(i).debtRepaid
      /\ seized = CalculateAmounts(i).collateralSeized
  BY Zenon DEF LiquidationAmounts
<1>6. /\ i.borrowerDebt = RayMulUp(sd, bi)
      /\ i.borrowerCollateral = RayMulDown(sc, li)
      /\ i.debtPrice = price[d] /\ i.collateralPrice = price[c]
      /\ i.debtUnit = Unit[d] /\ i.collateralUnit = Unit[c]
      /\ i.bonus = accrued[c].config.liquidationBonus
      /\ i.debtToCover = cover
  BY DEF LiquidationInput
<1> HIDE DEF accrued, i, bi, li, sd, sc
<1>7. RayMulUp(sd, bi) \in Nat /\ RayMulDown(sc, li) \in Nat
  BY <1>1, <1>2, RayType
<1>8. AmountsInput(i)
  BY <1>2, <1>3, <1>6, <1>7, AssetAssumption DEF AmountsInput
<1>9. /\ repaid \in Nat /\ repaid <= RayMulUp(sd, bi)
      /\ seized \in Nat /\ seized <= RayMulDown(sc, li)
  BY <1>5, <1>6, <1>8, AmountsWithinBalances
<1>10. seized # 0
  BY <1>5 DEF CalculateAmounts
<1>11. repaid # RayMulUp(sd, bi) => RayDivDown(repaid, bi) \in Nat /\ RayDivDown(repaid, bi) < sd
  <2> SUFFICES ASSUME repaid # RayMulUp(sd, bi)
               PROVE  RayDivDown(repaid, bi) \in Nat /\ RayDivDown(repaid, bi) < sd
    OBVIOUS
  <2>1. repaid < RayMulUp(sd, bi)
    BY <1>7, <1>9
  <2> QED BY <2>1, <1>1, <1>2, <1>9, BurnDownWithinDebt
<1>12. RayDivUp(seized, li) \in Nat \ {0} /\ RayDivUp(seized, li) <= sc
  <2>1. RayDivUp(seized, li) \in Nat \ {0}
    BY <1>1, <1>9, <1>10, RayDivUpPositive
  <2>2. RayDivUp(seized, li) <= sc
    BY <1>1, <1>2, <1>9, BurnUpWithinBalance
  <2> QED BY <2>1, <2>2
<1>13. db \in Nat /\ db <= sd
  BY <1>2, <1>4, <1>11
<1>14. cb \in Nat \ {0} /\ cb <= sc
  BY <1>2, <1>4, <1>12
<1> QED BY <1>9, <1>13, <1>14 DEF sd, sc

\* A debt written off in a listed reserve takes its scaled amount off the total
\* and moves no token.
LEMMA WriteOffAtKeeps ==
    ASSUME NEW r \in ReserveData, NEW t \in Nat \ {0}, SaneReserve(r, t), IsListed(r),
           NEW scaled \in Nat, scaled <= r.totalScaledDebt
    PROVE  LET s == WriteOffAt(r, scaled, t)
           IN  /\ s \in ReserveData
               /\ SaneReserve(s, t)
               /\ s.totalScaledSupply = r.totalScaledSupply
               /\ s.totalScaledDebt = r.totalScaledDebt - scaled
               /\ s.cash = r.cash
<1> DEFINE p == Accrue(r, t)
           q == WriteOffDebt(p, scaled)
           s == UpdateRates(q)
<1>1. /\ p \in ReserveData
      /\ p.totalScaledSupply = r.totalScaledSupply
      /\ p.totalScaledDebt = r.totalScaledDebt
      /\ p.cash = r.cash
      /\ p.lastUpdateTimestamp = t
      /\ p.liquidityIndex \in Nat \ {0}
      /\ p.borrowIndex \in Nat \ {0}
  BY AccruedReserve
<1> HIDE DEF p
<1>2. PICK tr \in Nat, df \in Nat :
        q = [p EXCEPT !.totalScaledDebt = @ - scaled, !.accruedToTreasury = tr, !.deficit = df]
  BY <1>1, WriteOffKeeps DEF WrittenDown
<1>3. r.totalScaledDebt \in Nat /\ r.totalScaledDebt - scaled \in Nat
  BY DEF ReserveData
<1> HIDE DEF q
<1>4. /\ q \in ReserveData
      /\ q.totalScaledSupply = r.totalScaledSupply
      /\ q.totalScaledDebt = r.totalScaledDebt - scaled
      /\ q.cash = r.cash
      /\ q.lastUpdateTimestamp = t
      /\ q.liquidityIndex # 0 /\ q.borrowIndex # 0
  BY <1>1, <1>2, <1>3 DEF ReserveData
<1>5. /\ s \in ReserveData
      /\ s.totalScaledSupply = q.totalScaledSupply
      /\ s.totalScaledDebt = q.totalScaledDebt
      /\ s.cash = q.cash
      /\ s.lastUpdateTimestamp = q.lastUpdateTimestamp
      /\ s.liquidityIndex = q.liquidityIndex
      /\ s.borrowIndex = q.borrowIndex
  BY <1>4, RatedReserve
<1>6. WriteOffAt(r, scaled, t) = s
  BY DEF WriteOffAt, p, q
<1> HIDE DEF s
<1>7. SaneReserve(s, t)
  BY <1>4, <1>5 DEF SaneReserve, IsListed
<1> QED BY <1>4, <1>5, <1>6, <1>7

\* The reserves after the debt leg, and after both legs.
RepaidPair(c, d, db, repaid) ==
    [AccruedPair(c, d) EXCEPT ![d] = Repaid(@, db, repaid)]

SeizedPair(c, d, db, cb, repaid, seized, receiveSupply) ==
    [RepaidPair(c, d, db, repaid) EXCEPT ![c] = Seize(@, cb, seized, receiveSupply)]

\* After the debt leg only the debt reserve's debt and cash have moved.
LEMMA RepaidPairKeeps ==
    ASSUME PoolInv, NEW c \in Asset, NEW d \in Asset, NEW b \in User,
           IsListed(reserves[c]), IsListed(reserves[d]),
           NEW db \in Nat, db <= debt[b][d], NEW repaid \in Nat, NEW x \in Asset
    PROVE  LET r == RepaidPair(c, d, db, repaid)[x]
           IN  /\ r \in ReserveData
               /\ r.config = reserves[x].config
               /\ r.totalScaledSupply = reserves[x].totalScaledSupply
               /\ r.totalScaledDebt = reserves[x].totalScaledDebt - (IF x = d THEN db ELSE 0)
               /\ r.cash = tokens[x] + (IF x = d THEN repaid ELSE 0)
               /\ SaneReserve(r, now)
               /\ IsListed(reserves[x]) => IsListed(r)
<1> DEFINE p == AccruedPair(c, d)[x]
           r == RepaidPair(c, d, db, repaid)[x]
<1>1. /\ p \in ReserveData
      /\ p.config = reserves[x].config
      /\ p.totalScaledSupply = reserves[x].totalScaledSupply
      /\ p.totalScaledDebt = reserves[x].totalScaledDebt
      /\ p.cash = tokens[x]
      /\ SaneReserve(p, now)
      /\ IsListed(reserves[x]) => IsListed(p)
  BY AccruedPairKeeps
<1>2. x = d => /\ p.lastUpdateTimestamp = now /\ now \in Nat \ {0}
               /\ p.liquidityIndex \in Nat \ {0} /\ p.borrowIndex \in Nat \ {0}
  BY AccruedPairKeeps DEF PoolInv, TypeOK
<1>3. debt[b][d] <= reserves[d].totalScaledDebt /\ debt[b][d] \in Nat
      /\ reserves[x].totalScaledDebt \in Nat /\ tokens[x] \in Nat
  BY BalancesWithinTotals DEF PoolInv, TypeOK, ReserveData
<1>4. CASE x = d
  <2>1. r = [p EXCEPT !.totalScaledDebt = p.totalScaledDebt - db, !.cash = p.cash + repaid]
    BY <1>4 DEF RepaidPair, AccruedPair, Repaid
  <2> HIDE DEF p, r
  <2>2. p.totalScaledDebt - db \in Nat /\ p.cash + repaid \in Nat
    BY <1>1, <1>3, <1>4
  <2>3. /\ r \in ReserveData
        /\ r.config = p.config
        /\ r.totalScaledSupply = p.totalScaledSupply
        /\ r.totalScaledDebt = p.totalScaledDebt - db
        /\ r.cash = p.cash + repaid
        /\ r.lastUpdateTimestamp = now
        /\ r.liquidityIndex # 0 /\ r.borrowIndex # 0
    BY <1>1, <1>2, <1>4, <2>1, <2>2 DEF ReserveData
  <2>4. SaneReserve(r, now) /\ IsListed(r)
    BY <1>2, <1>4, <2>3 DEF SaneReserve, IsListed
  <2> QED BY <1>1, <1>4, <2>3, <2>4 DEF r
<1>5. CASE x # d
  <2>1. r = p
    BY <1>5 DEF RepaidPair, AccruedPair
  <2> HIDE DEF p, r
  <2> QED BY <1>1, <1>3, <1>5, <2>1 DEF r
<1> QED BY <1>4, <1>5

\* After both legs the totals have moved with the borrower's balances and the cash
\* with the tokens.
LEMMA SeizedPairKeeps ==
    ASSUME PoolInv, NEW c \in Asset, NEW d \in Asset, NEW b \in User,
           IsListed(reserves[c]), IsListed(reserves[d]),
           NEW db \in Nat, db <= debt[b][d], NEW cb \in Nat, cb <= supply[b][c],
           NEW repaid \in Nat, NEW seized \in Nat, NEW receiveSupply \in BOOLEAN,
           NEW paidOut, paidOut = IF receiveSupply THEN 0 ELSE seized,
           paidOut <= RepaidPair(c, d, db, repaid)[c].cash, NEW x \in Asset
    PROVE  LET r == SeizedPair(c, d, db, cb, repaid, seized, receiveSupply)[x]
           IN  /\ r \in ReserveData
               /\ r.totalScaledSupply = reserves[x].totalScaledSupply
                                          - (IF x = c /\ ~receiveSupply THEN cb ELSE 0)
               /\ r.totalScaledDebt = reserves[x].totalScaledDebt - (IF x = d THEN db ELSE 0)
               /\ r.cash = (tokens[x] + (IF x = d THEN repaid ELSE 0))
                             - (IF x = c THEN paidOut ELSE 0)
               /\ r.cash \in Nat
               /\ SaneReserve(r, now)
               /\ IsListed(reserves[x]) => IsListed(r)
<1> DEFINE p == RepaidPair(c, d, db, repaid)[x]
           r == SeizedPair(c, d, db, cb, repaid, seized, receiveSupply)[x]
<1>1. /\ p \in ReserveData
      /\ p.totalScaledSupply = reserves[x].totalScaledSupply
      /\ p.totalScaledDebt = reserves[x].totalScaledDebt - (IF x = d THEN db ELSE 0)
      /\ p.cash = tokens[x] + (IF x = d THEN repaid ELSE 0)
      /\ SaneReserve(p, now)
      /\ IsListed(reserves[x]) => IsListed(p)
  BY RepaidPairKeeps
<1>2. /\ supply[b][c] <= reserves[c].totalScaledSupply /\ supply[b][c] \in Nat
      /\ reserves[x].totalScaledSupply \in Nat /\ tokens[x] \in Nat
      /\ p.cash \in Nat
  <2>1. supply[b][c] <= reserves[c].totalScaledSupply /\ supply[b][c] \in Nat
    BY BalancesWithinTotals DEF PoolInv
  <2>2. reserves[x].totalScaledSupply \in Nat /\ tokens[x] \in Nat
    BY DEF PoolInv, TypeOK, ReserveData
  <2> HIDE DEF p
  <2>3. p.cash \in Nat
    BY <1>1 DEF ReserveData
  <2> QED BY <2>1, <2>2, <2>3
<1>3. CASE x = c /\ ~receiveSupply
  <2>1. r = [p EXCEPT !.totalScaledSupply = p.totalScaledSupply - cb, !.cash = p.cash - seized]
    BY <1>3 DEF SeizedPair, RepaidPair, AccruedPair, Seize
  <2>2. seized <= p.cash /\ paidOut = seized
    BY <1>3
  <2> HIDE DEF p, r
  <2>3. p.totalScaledSupply - cb \in Nat /\ p.cash - seized \in Nat
    BY <1>1, <1>2, <1>3, <2>2
  <2>4. /\ r \in ReserveData
        /\ r.config = p.config
        /\ r.totalScaledSupply = p.totalScaledSupply - cb
        /\ r.totalScaledDebt = p.totalScaledDebt
        /\ r.cash = p.cash - seized
        /\ r.lastUpdateTimestamp = p.lastUpdateTimestamp
        /\ r.liquidityIndex = p.liquidityIndex /\ r.borrowIndex = p.borrowIndex
    BY <1>1, <2>1, <2>3 DEF ReserveData
  <2>5. IsListed(p)
    BY <1>1, <1>3
  <2>6. SaneReserve(r, now) /\ IsListed(r)
    BY <1>1, <2>4, <2>5 DEF SaneReserve, IsListed
  <2> QED BY <1>1, <1>3, <2>2, <2>3, <2>4, <2>6 DEF r
<1>4. CASE ~(x = c /\ ~receiveSupply)
  <2>1. r = p
    <3>1. CASE x # c
      BY <3>1 DEF SeizedPair, RepaidPair, AccruedPair
    <3>2. CASE x = c /\ receiveSupply
      BY <3>2 DEF SeizedPair, RepaidPair, AccruedPair, Seize
    <3> QED BY <3>1, <3>2, <1>4
  <2>2. (IF x = c THEN paidOut ELSE 0) = 0
    BY <1>4
  <2> HIDE DEF p, r
  <2> QED BY <1>1, <1>2, <1>4, <2>1, <2>2 DEF r
<1> QED BY <1>3, <1>4

\* A liquidation keeps the invariant.
LEMMA LiquidateKeeps ==
    ASSUME PoolInv, NEW sender \in User, NEW c \in Asset, NEW d \in Asset, NEW b \in User,
           NEW cover \in Amounts, NEW receiveSupply \in BOOLEAN,
           Liquidate(sender, c, d, b, cover, receiveSupply)
    PROVE  PoolInv'
<1> DEFINE accrued == AccruedPair(c, d)
           i == LiquidationInput(accrued, c, d, b, cover)
           repaid == CalculateAmounts(i).debtRepaid
           seized == CalculateAmounts(i).collateralSeized
           db == IF repaid = i.borrowerDebt
                 THEN debt[b][d]
                 ELSE RayDivDown(repaid, accrued[d].borrowIndex)
           cb == IF seized = i.borrowerCollateral
                 THEN supply[b][c]
                 ELSE RayDivUp(seized, accrued[c].liquidityIndex)
           paidOut == IF receiveSupply THEN 0 ELSE seized
           sr == SeizedPair(c, d, db, cb, repaid, seized, receiveSupply)
           debtLeft == [debt[b] EXCEPT ![d] = @ - db]
           borrowingLeft == ClearBit(borrowing[b], d, db, debt[b][d])
           seizedSupply == [supply EXCEPT ![b][c] = @ - cb]
           seizedBits == [collateral EXCEPT ![b] = ClearBit(@, c, cb, supply[b][c])]
           enables == receiveSupply /\ AutoEnables(accrued[c].config, seizedSupply[sender][c])
           newBits == IF enables
                      THEN [seizedBits EXCEPT ![sender] = @ \cup {c}]
                      ELSE seizedBits
           written == WrittenOff(newBits[b], borrowingLeft, d)
<1>1. TypeOK /\ cover \in Nat
  BY PoolAssumption DEF PoolInv
<1>2. /\ reserves[d].config.active /\ reserves[c].config.active
      /\ d \in borrowing[b] /\ c \in collateral[b]
      /\ price[c] # 0 /\ price[d] # 0
      /\ CalculateAmounts(i).status = "OK"
      /\ paidOut <= RepaidPair(c, d, db, repaid)[c].cash
      /\ repaid <= wallet[sender][d]
  BY Zenon DEF Liquidate, AccruedPair, RepaidPair, ValidateLiquidationReserve
<1>3. /\ supply' = IF receiveSupply
                   THEN [seizedSupply EXCEPT ![sender][c] = @ + cb]
                   ELSE seizedSupply
      /\ collateral' = newBits
      /\ debt' = [debt EXCEPT ![b] = [a \in Asset |-> IF a \in written THEN 0 ELSE debtLeft[a]]]
      /\ borrowing' = [borrowing EXCEPT ![b] = borrowingLeft \ written]
  BY Zenon DEF Liquidate, AccruedPair
<1>4. reserves' = [a \in Asset |->
                     IF a \in written
                     THEN WriteOffAt(sr[a], debtLeft[a], now)
                     ELSE IF a \in {c, d} THEN UpdateRates(sr[a]) ELSE reserves[a]]
  BY Zenon DEF Liquidate, AccruedPair, RepaidPair, SeizedPair
<1>5. /\ wallet' = [wallet EXCEPT ![sender] =
                      [a \in Asset |-> (wallet[sender][a] - (IF a = d THEN repaid ELSE 0))
                                          + (IF a = c THEN paidOut ELSE 0)]]
      /\ tokens' = [a \in Asset |-> (tokens[a] + (IF a = d THEN repaid ELSE 0))
                                       - (IF a = c THEN paidOut ELSE 0)]
      /\ UNCHANGED <<emergencyVars, now, price>>
  BY Zenon DEF Liquidate, AccruedPair
<1>6. IsListed(reserves[c]) /\ IsListed(reserves[d])
  BY <1>2, ActiveIsListed
<1>7. supply[b][c] # 0 /\ debt[b][d] # 0
  BY <1>2 DEF PoolInv, BitmapInSync
<1>8. /\ repaid \in Nat /\ seized \in Nat
      /\ db \in Nat /\ db <= debt[b][d]
      /\ cb \in Nat \ {0} /\ cb <= supply[b][c]
  <2>1. LiquidationAmounts(c, d, b, cover, repaid, seized)
    BY <1>2, Zenon DEF LiquidationAmounts
  <2>2. /\ i.borrowerDebt = RayMulUp(debt[b][d], accrued[d].borrowIndex)
        /\ i.borrowerCollateral = RayMulDown(supply[b][c], accrued[c].liquidityIndex)
    BY DEF LiquidationInput
  <2> HIDE DEF i
  <2>3. Burns(c, d, b, repaid, seized, db, cb)
    BY <2>2, Zenon DEF Burns
  <2> HIDE DEF repaid, seized, db, cb
  <2> QED BY <1>1, <1>2, <1>6, <1>7, <2>1, <2>3, BurnsWithinBalances
<1> HIDE DEF repaid, seized, db, cb
<1>9. ASSUME NEW x \in Asset
      PROVE  /\ sr[x] \in ReserveData
             /\ sr[x].totalScaledSupply = reserves[x].totalScaledSupply
                                            - (IF x = c /\ ~receiveSupply THEN cb ELSE 0)
             /\ sr[x].totalScaledDebt = reserves[x].totalScaledDebt - (IF x = d THEN db ELSE 0)
             /\ sr[x].cash = (tokens[x] + (IF x = d THEN repaid ELSE 0))
                               - (IF x = c THEN paidOut ELSE 0)
             /\ sr[x].cash \in Nat
             /\ SaneReserve(sr[x], now)
             /\ IsListed(reserves[x]) => IsListed(sr[x])
  <2>1. paidOut <= RepaidPair(c, d, db, repaid)[c].cash
    BY <1>2
  <2> QED BY <1>6, <1>8, <2>1, SeizedPairKeeps
<1> HIDE DEF sr, paidOut, i, accrued
<1>10. ASSUME NEW x \in Asset
       PROVE  /\ debt[b][x] \in Nat /\ supply[b][x] \in Nat
              /\ debtLeft[x] = debt[b][x] - (IF x = d THEN db ELSE 0)
              /\ debtLeft[x] \in Nat
              /\ debtLeft[x] <= sr[x].totalScaledDebt
              /\ reserves[x].totalScaledDebt \in Nat /\ reserves[x].totalScaledSupply \in Nat
              /\ debtLeft[x] # 0 => IsListed(reserves[x])
  <2>1. /\ debt[b][x] \in Nat /\ supply[b][x] \in Nat
        /\ reserves[x].totalScaledDebt \in Nat /\ reserves[x].totalScaledSupply \in Nat
    BY <1>1 DEF TypeOK, ReserveData
  <2>2. debt[b][x] <= reserves[x].totalScaledDebt
    BY BalancesWithinTotals DEF PoolInv
  <2>3. debtLeft[x] = debt[b][x] - (IF x = d THEN db ELSE 0)
    BY <1>1 DEF TypeOK
  <2>4. ~IsListed(reserves[x]) => reserves[x].totalScaledDebt = 0
    BY DEF PoolInv, ReservesSane, SaneReserve
  <2> HIDE DEF debtLeft
  <2>5. CASE x = d
    BY <2>1, <2>2, <2>3, <2>4, <2>5, <1>8, <1>9
  <2>6. CASE x # d
    BY <2>1, <2>2, <2>3, <2>4, <2>6, <1>9
  <2> QED BY <2>5, <2>6
<1>11. /\ borrowing[b] \in SUBSET Asset
       /\ \A x \in Asset : x \in borrowingLeft <=> debtLeft[x] # 0
       /\ borrowingLeft \subseteq Asset
  <2>1. borrowing[b] \in SUBSET Asset
    BY <1>1 DEF TypeOK
  <2>2. ASSUME NEW x \in Asset PROVE x \in borrowingLeft <=> debtLeft[x] # 0
    <3>1. x \in borrowing[b] <=> debt[b][x] # 0
      BY DEF PoolInv, BitmapInSync
    <3>2. /\ debtLeft[x] = debt[b][x] - (IF x = d THEN db ELSE 0)
          /\ debt[b][x] \in Nat
      BY <1>10
    <3> HIDE DEF debtLeft
    <3>3. CASE x = d
      BY <3>1, <3>2, <3>3, <1>7, <1>8 DEF ClearBit
    <3>4. CASE x # d
      BY <3>1, <3>2, <3>4 DEF ClearBit
    <3> QED BY <3>3, <3>4
  <2>3. borrowingLeft \subseteq borrowing[b]
    BY DEF ClearBit
  <2> QED BY <2>1, <2>2, <2>3
<1>12. written \subseteq borrowingLeft
  BY DEF WrittenOff
<1>13. debt' = [debt EXCEPT ![b] = [a \in Asset |-> IF a \in written THEN 0 ELSE debtLeft[a]]]
  BY <1>3
<1> DEFINE gone(x) == IF x \in written THEN debtLeft[x] ELSE 0
<1> HIDE DEF written, borrowingLeft, debtLeft
<1>14. ASSUME NEW x \in Asset
       PROVE  /\ reserves'[x] \in ReserveData
              /\ SaneReserve(reserves'[x], now)
              /\ reserves'[x].totalScaledSupply = sr[x].totalScaledSupply
              /\ reserves'[x].totalScaledDebt = sr[x].totalScaledDebt - gone(x)
              /\ reserves'[x].cash = sr[x].cash
  <2>0. now \in Nat \ {0} /\ sr[x].totalScaledDebt \in Nat
    BY <1>1, <1>9 DEF TypeOK, ReserveData
  <2>1. CASE x \in written
    <3>1. reserves'[x] = WriteOffAt(sr[x], debtLeft[x], now)
      BY <2>1, <1>4
    <3>2. /\ sr[x] \in ReserveData /\ SaneReserve(sr[x], now) /\ IsListed(sr[x])
          /\ debtLeft[x] \in Nat /\ debtLeft[x] <= sr[x].totalScaledDebt
      BY <2>1, <1>9, <1>10, <1>11, <1>12
    <3> DEFINE w == WriteOffAt(sr[x], debtLeft[x], now)
    <3>3. /\ w \in ReserveData
          /\ SaneReserve(w, now)
          /\ w.totalScaledSupply = sr[x].totalScaledSupply
          /\ w.totalScaledDebt = sr[x].totalScaledDebt - debtLeft[x]
          /\ w.cash = sr[x].cash
      BY <3>2, <2>0, WriteOffAtKeeps
    <3> HIDE DEF w
    <3> QED BY <2>1, <3>1, <3>3 DEF w
  <2>2. CASE x \notin written /\ x \in {c, d}
    <3> DEFINE w == UpdateRates(sr[x])
    <3>1. reserves'[x] = w
      BY <2>2, <1>4
    <3>2. /\ w \in ReserveData
          /\ w.config = sr[x].config
          /\ w.liquidityIndex = sr[x].liquidityIndex
          /\ w.borrowIndex = sr[x].borrowIndex
          /\ w.totalScaledSupply = sr[x].totalScaledSupply
          /\ w.totalScaledDebt = sr[x].totalScaledDebt
          /\ w.cash = sr[x].cash
          /\ w.lastUpdateTimestamp = sr[x].lastUpdateTimestamp
      BY <1>9, RatedReserve
    <3>3. IsListed(sr[x]) /\ SaneReserve(sr[x], now)
      BY <2>2, <1>6, <1>9
    <3> HIDE DEF w
    <3>4. SaneReserve(w, now)
      BY <3>2, <3>3 DEF SaneReserve, IsListed
    <3> QED BY <2>0, <2>2, <3>1, <3>2, <3>4
  <2>3. CASE x \notin written /\ x \notin {c, d}
    <3>1. reserves'[x] = reserves[x]
      BY <2>3, <1>4
    <3>2. /\ reserves[x] \in ReserveData /\ SaneReserve(reserves[x], now)
          /\ reserves[x].cash = tokens[x] /\ tokens[x] \in Nat
      BY <1>1 DEF PoolInv, TypeOK, ReservesSane, CashMatchesTokens
    <3>3. reserves[x].totalScaledSupply \in Nat /\ reserves[x].totalScaledDebt \in Nat
      BY <1>10
    <3> QED BY <2>0, <2>3, <3>1, <3>2, <3>3, <1>9
  <2> QED BY <2>1, <2>2, <2>3
<1>15. /\ debt' \in [User -> [Asset -> Nat]]
       /\ \A v \in User \ {b} : debt'[v] = debt[v]
       /\ \A x \in Asset : debt'[b][x] = debtLeft[x] - gone(x)
  <2> DEFINE row == [a \in Asset |-> IF a \in written THEN 0 ELSE debtLeft[a]]
  <2>1. row \in [Asset -> Nat]
    BY <1>10
  <2>2. \A x \in Asset : row[x] = debtLeft[x] - gone(x)
    <3> TAKE x \in Asset
    <3>1. debtLeft[x] \in Nat
      BY <1>10
    <3> QED BY <3>1
  <2>3. debt \in [User -> [Asset -> Nat]]
    BY <1>1 DEF TypeOK
  <2>4. debt' = [debt EXCEPT ![b] = row]
    BY <1>13
  <2> HIDE DEF row, gone
  <2> QED BY <2>1, <2>2, <2>3, <2>4
<1>16. /\ supply \in [User -> [Asset -> Nat]]
       /\ seizedSupply \in [User -> [Asset -> Nat]]
       /\ \A v \in User \ {b} : seizedSupply[v] = supply[v]
       /\ \A x \in Asset : seizedSupply[b][x] = supply[b][x] - (IF x = c THEN cb ELSE 0)
  <2>1. supply \in [User -> [Asset -> Nat]]
    BY <1>1 DEF TypeOK
  <2>2. supply[b][c] - cb \in Nat /\ supply[b][c] \in Nat
    BY <1>8, <1>10
  <2>3. seizedSupply = [supply EXCEPT ![b] = [supply[b] EXCEPT ![c] = supply[b][c] - cb]]
    BY <2>1
  <2>4. \A x \in Asset : supply[b][x] \in Nat
    BY <1>10
  <2> HIDE DEF seizedSupply
  <2> QED BY <2>1, <2>2, <2>3, <2>4
<1> HIDE DEF seizedSupply
<1>17. /\ supply' \in [User -> [Asset -> Nat]]
       /\ \A v \in User \ {sender} : supply'[v] = seizedSupply[v]
       /\ \A x \in Asset : supply'[sender][x] = seizedSupply[sender][x]
                                                  + (IF x = c /\ receiveSupply THEN cb ELSE 0)
  <2>1. \A x \in Asset : seizedSupply[sender][x] \in Nat
    BY <1>16
  <2>2. CASE receiveSupply
    <3>1. supply' = [seizedSupply EXCEPT ![sender] =
                       [seizedSupply[sender] EXCEPT ![c] = seizedSupply[sender][c] + cb]]
      BY <2>2, <1>3, <1>16
    <3>2. seizedSupply[sender][c] + cb \in Nat
      BY <2>1, <1>8
    <3> QED BY <2>1, <2>2, <3>1, <3>2, <1>16
  <2>3. CASE ~receiveSupply
    BY <2>1, <2>3, <1>3, <1>16
  <2> QED BY <2>2, <2>3
<1>18. ASSUME NEW x \in Asset
       PROVE  /\ reserves'[x].totalScaledSupply = SumOver([v \in User |-> supply'[v][x]], User)
              /\ reserves'[x].totalScaledDebt = SumOver([v \in User |-> debt'[v][x]], User)
  <2> DEFINE before == SumOver([v \in User |-> supply[v][x]], User)
             between == SumOver([v \in User |-> seizedSupply[v][x]], User)
             after == SumOver([v \in User |-> supply'[v][x]], User)
             owed == SumOver([v \in User |-> debt[v][x]], User)
             owedAfter == SumOver([v \in User |-> debt'[v][x]], User)
  <2>1. before = reserves[x].totalScaledSupply /\ owed = reserves[x].totalScaledDebt
    BY DEF PoolInv, TotalsMatch
  <2>2. between = before - supply[b][x] + seizedSupply[b][x]
    BY <1>16, RowChange
  <2>3. after = between - seizedSupply[sender][x] + supply'[sender][x]
    BY <1>16, <1>17, RowChange
  <2>4. debt \in [User -> [Asset -> Nat]]
    BY <1>1 DEF TypeOK
  <2>5. owedAfter = owed - debt[b][x] + debt'[b][x]
    BY <2>4, <1>15, RowChange
  <2> HIDE DEF before, between, after, owed, owedAfter
  <2>6. /\ supply[b][x] \in Nat /\ debt[b][x] \in Nat /\ seizedSupply[sender][x] \in Nat
        /\ reserves[x].totalScaledDebt \in Nat /\ reserves[x].totalScaledSupply \in Nat
        /\ debtLeft[x] \in Nat /\ gone(x) \in Nat
    BY <1>10, <1>16
  <2>7. between = before - (IF x = c THEN cb ELSE 0)
    BY <2>1, <2>2, <2>6, <1>8, <1>16
  <2>8. after = between + (IF x = c /\ receiveSupply THEN cb ELSE 0)
    <3>1. supply'[sender][x] = seizedSupply[sender][x]
                                 + (IF x = c /\ receiveSupply THEN cb ELSE 0)
      BY <1>17
    <3>2. between \in Nat \/ between \in Int
      BY <2>1, <2>6, <2>7, <1>8
    <3> QED BY <2>3, <2>6, <3>1, <3>2, <1>8
  <2>9. reserves'[x].totalScaledSupply = after
    <3>1. reserves'[x].totalScaledSupply = reserves[x].totalScaledSupply
                                             - (IF x = c /\ ~receiveSupply THEN cb ELSE 0)
      BY <1>9, <1>14
    <3> QED BY <2>1, <2>6, <2>7, <2>8, <3>1, <1>8
  <2>10. reserves'[x].totalScaledDebt = owedAfter
    <3>1. reserves'[x].totalScaledDebt
            = reserves[x].totalScaledDebt - (IF x = d THEN db ELSE 0) - gone(x)
      BY <1>9, <1>14
    <3>2. debt'[b][x] = debt[b][x] - (IF x = d THEN db ELSE 0) - gone(x)
      BY <1>10, <1>15
    <3> HIDE DEF gone
    <3> QED BY <2>1, <2>5, <2>6, <3>1, <3>2, <1>8
  <2> QED BY <2>9, <2>10 DEF after, owedAfter
<1>19. TotalsMatch'
  BY <1>18 DEF TotalsMatch
<1>20. ReservesSane' /\ CashMatchesTokens'
  <2>1. ReservesSane'
    BY <1>5, <1>14 DEF ReservesSane
  <2>2. CashMatchesTokens'
    BY <1>5, <1>9, <1>14 DEF CashMatchesTokens
  <2> QED BY <2>1, <2>2
<1>21. /\ collateral' \in [User -> SUBSET Asset]
       /\ \A v \in User, x \in Asset : x \in collateral'[v] => supply'[v][x] # 0
  <2>1. collateral \in [User -> SUBSET Asset]
    BY <1>1 DEF TypeOK
  <2>2. /\ seizedBits \in [User -> SUBSET Asset]
        /\ \A v \in User \ {b} : seizedBits[v] = collateral[v]
        /\ seizedBits[b] \subseteq collateral[b]
        /\ c \in seizedBits[b] => cb # supply[b][c]
    BY <2>1 DEF ClearBit
  <2>3. /\ enables => receiveSupply
        /\ collateral' = IF enables
                         THEN [seizedBits EXCEPT ![sender] = @ \cup {c}]
                         ELSE seizedBits
    BY <1>3
  <2> HIDE DEF seizedBits, enables
  <2>4. /\ collateral' \in [User -> SUBSET Asset]
        /\ \A v \in User, x \in Asset :
             x \in collateral'[v] => x \in seizedBits[v]
                                     \/ (receiveSupply /\ v = sender /\ x = c)
    BY <2>2, <2>3
  <2>5. ASSUME NEW v \in User, NEW x \in Asset
        PROVE  /\ supply[v][x] \in Nat /\ seizedSupply[v][x] \in Nat /\ supply'[v][x] \in Nat
               /\ seizedSupply[v][x] <= supply'[v][x]
    <3>1. supply[v][x] \in Nat /\ seizedSupply[v][x] \in Nat /\ supply'[v][x] \in Nat
      BY <1>16, <1>17
    <3>2. CASE v = sender
      BY <3>1, <3>2, <1>8, <1>17
    <3>3. CASE v # sender
      BY <3>1, <3>3, <1>17
    <3> QED BY <3>1, <3>2, <3>3
  <2>6. ASSUME NEW v \in User, NEW x \in Asset, x \in seizedBits[v]
        PROVE  seizedSupply[v][x] # 0
    <3>1. x \in collateral[v]
      BY <2>2, <2>6
    <3>2. supply[v][x] # 0 /\ supply[v][x] \in Nat
      BY <3>1, <2>5 DEF PoolInv, BitmapInSync
    <3>3. CASE v = b /\ x = c
      <4>1. cb # supply[b][c]
        BY <2>2, <2>6, <3>3
      <4>2. seizedSupply[b][c] = supply[b][c] - cb
        BY <1>16
      <4>3. cb \in Nat /\ supply[b][c] \in Nat
        BY <1>8, <1>10
      <4> QED BY <3>3, <4>1, <4>2, <4>3
    <3>4. CASE v = b /\ x # c
      BY <3>2, <3>4, <1>16
    <3>5. CASE v # b
      BY <3>2, <3>5, <1>16
    <3> QED BY <3>3, <3>4, <3>5
  <2>7. ASSUME NEW v \in User, NEW x \in Asset, x \in collateral'[v] PROVE supply'[v][x] # 0
    <3>1. CASE x \in seizedBits[v]
      <4>1. seizedSupply[v][x] # 0
        BY <3>1, <2>6
      <4> QED BY <4>1, <2>5
    <3>2. CASE receiveSupply /\ v = sender /\ x = c
      <4>1. supply'[sender][c] = seizedSupply[sender][c] + cb /\ seizedSupply[sender][c] \in Nat
        BY <3>2, <1>17, <2>5
      <4> QED BY <3>2, <4>1, <1>8
    <3> QED BY <2>4, <2>7, <3>1, <3>2
  <2> QED BY <2>4, <2>7
<1>22. /\ borrowing' \in [User -> SUBSET Asset]
       /\ \A v \in User, x \in Asset : x \in borrowing'[v] <=> debt'[v][x] # 0
  <2>1. borrowing \in [User -> SUBSET Asset]
    BY <1>1 DEF TypeOK
  <2>2. /\ borrowing' \in [User -> SUBSET Asset]
        /\ borrowing'[b] = borrowingLeft \ written
        /\ \A v \in User \ {b} : borrowing'[v] = borrowing[v]
    BY <1>3, <1>11, <2>1
  <2>3. ASSUME NEW v \in User, NEW x \in Asset PROVE x \in borrowing'[v] <=> debt'[v][x] # 0
    <3>1. CASE v = b
      <4>1. debt'[b][x] = debtLeft[x] - gone(x) /\ debtLeft[x] \in Nat
        BY <1>10, <1>15
      <4>2. x \in borrowingLeft <=> debtLeft[x] # 0
        BY <1>11
      <4> QED BY <2>2, <3>1, <4>1, <4>2
    <3>2. CASE v # b
      <4>1. x \in borrowing[v] <=> debt[v][x] # 0
        BY DEF PoolInv, BitmapInSync
      <4> QED BY <2>2, <3>2, <4>1, <1>15
    <3> QED BY <3>1, <3>2
  <2> QED BY <2>2, <2>3
<1>23. BitmapInSync'
  BY <1>21, <1>22 DEF BitmapInSync
<1>24. wallet' \in [User -> [Asset -> Nat]]
  <2>1. wallet \in [User -> [Asset -> Nat]] /\ repaid <= wallet[sender][d]
    BY <1>1, <1>2 DEF TypeOK
  <2>2. paidOut \in Nat
    BY <1>8 DEF paidOut
  <2> DEFINE row == [a \in Asset |-> (wallet[sender][a] - (IF a = d THEN repaid ELSE 0))
                                       + (IF a = c THEN paidOut ELSE 0)]
  <2>3. ASSUME NEW x \in Asset PROVE row[x] \in Nat
    <3>1. wallet[sender][x] \in Nat /\ wallet[sender][d] \in Nat
      BY <2>1
    <3>2. wallet[sender][x] - (IF x = d THEN repaid ELSE 0) \in Nat
      BY <3>1, <2>1, <1>8
    <3> QED BY <3>2, <2>2
  <2>4. row \in [Asset -> Nat]
    BY <2>3
  <2>5. wallet' = [wallet EXCEPT ![sender] = row]
    BY <1>5
  <2> HIDE DEF row
  <2> QED BY <2>1, <2>4, <2>5
<1>25. TypeOK'
  <2>1. reserves' \in [Asset -> ReserveData]
    <3>1. reserves' = [a \in Asset |-> reserves'[a]]
      BY <1>4
    <3> QED BY <3>1, <1>14
  <2>2. tokens' \in [Asset -> Nat]
    <3>1. \A x \in Asset : tokens'[x] = sr[x].cash /\ sr[x].cash \in Nat
      BY <1>5, <1>9
    <3>2. tokens' = [a \in Asset |-> tokens'[a]]
      BY <1>5
    <3> QED BY <3>1, <3>2
  <2>3. /\ paused' \in BOOLEAN /\ graceUntil' \in Nat /\ gracePeriod' \in Nat
        /\ now' \in Nat \ {0} /\ price' \in [Asset -> Nat]
    <3>1. /\ paused' = paused /\ graceUntil' = graceUntil /\ gracePeriod' = gracePeriod
          /\ now' = now /\ price' = price
      BY <1>5 DEF emergencyVars
    <3> QED BY <3>1, <1>1, Zenon DEF TypeOK
  <2> QED BY <2>1, <2>2, <2>3, <1>15, <1>17, <1>21, <1>22, <1>24, Zenon DEF TypeOK
<1> QED BY <1>19, <1>20, <1>23, <1>25 DEF PoolInv

-----------------------------------------------------------------------------
(***************************************************************************)
(* The theorems.                                                           *)
(***************************************************************************)

\* Every step of the pool keeps the invariant.
LEMMA StepKeeps ==
    ASSUME PoolInv, [Next]_vars
    PROVE  PoolInv'
<1>1. CASE UNCHANGED vars
  <2>1. /\ UNCHANGED <<reserves, accountVars, tokenVars>>
        /\ UNCHANGED emergencyVars /\ now' = now /\ price' = price
    BY <1>1, Zenon DEF vars
  <2>2. /\ paused' = paused /\ graceUntil' = graceUntil /\ gracePeriod' = gracePeriod
    BY <2>1 DEF emergencyVars
  <2>3. /\ paused' \in BOOLEAN /\ graceUntil' \in Nat /\ gracePeriod' \in Nat
        /\ now' \in Nat /\ price' \in [Asset -> Nat]
    BY <2>1, <2>2 DEF PoolInv, TypeOK
  <2>4. now <= now'
    BY <2>1 DEF PoolInv, TypeOK
  <2> QED BY <2>1, <2>3, <2>4, SettingKeeps
<1>2. CASE UserNext
  <2>1. PICK sender \in User, a \in Asset :
          \/ \E amount \in Amounts :
               \/ \E onBehalfOf \in Beneficiaries[sender] : Supply(sender, a, amount, onBehalfOf)
               \/ \E to \in Beneficiaries[sender] : Withdraw(sender, a, amount, to)
               \/ Borrow(sender, a, amount)
               \/ \E onBehalfOf \in Beneficiaries[sender] : Repay(sender, a, amount, onBehalfOf)
               \/ \E c \in Asset, b \in User, receiveSupply \in BOOLEAN :
                      Liquidate(sender, c, a, b, amount, receiveSupply)
               \/ CoverDeficit(sender, a, amount)
          \/ \E enabled \in BOOLEAN : SetUseReserveAsCollateral(sender, a, enabled)
    BY <1>2, Zenon DEF UserNext
  <2>2. CASE \E enabled \in BOOLEAN : SetUseReserveAsCollateral(sender, a, enabled)
    BY <2>2, SetUseReserveAsCollateralKeeps, Zenon
  <2>3. ASSUME NEW amount \in Amounts,
               \E onBehalfOf \in Beneficiaries[sender] : Supply(sender, a, amount, onBehalfOf)
        PROVE  PoolInv'
    <3>1. amount \in Nat /\ Beneficiaries[sender] \subseteq User
      BY PoolAssumption
    <3>2. PICK onBehalfOf \in Beneficiaries[sender] :
              SupplyPaidBy(sender, sender, a, amount, onBehalfOf)
      BY <2>3, Zenon DEF Supply
    <3> QED BY <3>1, <3>2, SupplyKeeps, Zenon
  <2>4. ASSUME NEW amount \in Amounts,
               \E to \in Beneficiaries[sender] : Withdraw(sender, a, amount, to)
        PROVE  PoolInv'
    <3>1. amount \in Nat /\ Beneficiaries[sender] \subseteq User
      BY PoolAssumption
    <3> QED BY <3>1, <2>4, WithdrawKeeps, Zenon
  <2>5. ASSUME NEW amount \in Amounts, Borrow(sender, a, amount) PROVE PoolInv'
    BY <2>5, BorrowKeeps, Zenon
  <2>6. ASSUME NEW amount \in Amounts,
               \E onBehalfOf \in Beneficiaries[sender] : Repay(sender, a, amount, onBehalfOf)
        PROVE  PoolInv'
    BY <2>6, RepayKeeps, Zenon
  <2>7. ASSUME NEW amount \in Amounts,
               \E c \in Asset, b \in User, receiveSupply \in BOOLEAN :
                   Liquidate(sender, c, a, b, amount, receiveSupply)
        PROVE  PoolInv'
    BY <2>7, LiquidateKeeps, Zenon
  <2>8. ASSUME NEW amount \in Amounts, CoverDeficit(sender, a, amount) PROVE PoolInv'
    BY <2>8, CoverDeficitKeeps, Zenon
  <2> QED BY <2>1, <2>2, <2>3, <2>4, <2>5, <2>6, <2>7, <2>8, Zenon
<1>3. CASE ConfiguratorNext
  <2>1. ASSUME NEW a \in Asset, NEW model \in RateModels[a], NEW config \in Configs[a],
               InitReserve(a, model, config)
        PROVE  PoolInv'
    BY <2>1, InitReserveKeeps, Zenon
  <2>2. ASSUME NEW a \in Asset, NEW config \in Configs[a], SetReserveConfig(a, config)
        PROVE  PoolInv'
    BY <2>2, SetReserveConfigKeeps, Zenon
  <2>3. ASSUME NEW a \in Asset, NEW model \in RateModels[a], SetInterestRateModel(a, model)
        PROVE  PoolInv'
    BY <2>3, SetInterestRateModelKeeps, Zenon
  <2>4. ASSUME \/ \E newPaused \in Pauses : SetPoolPaused(newPaused)
               \/ \E period \in GracePeriods : SetLiquidationGracePeriod(period)
        PROVE  PoolInv'
    BY <2>4, SettingsKeep, Zenon
  <2>5. ASSUME NEW a \in Asset, NEW amount \in Amounts, NEW to \in User,
               WithdrawReserves(a, amount, to)
        PROVE  PoolInv'
    BY <2>5, WithdrawReservesKeeps, Zenon
  <2> QED BY <1>3, <2>1, <2>2, <2>3, <2>4, <2>5, Zenon DEF ConfiguratorNext
<1>4. CASE EnvironmentNext
  BY <1>4, SettingsKeep, Zenon DEF EnvironmentNext
<1> QED BY <1>1, <1>2, <1>3, <1>4, Zenon DEF Next

\* The invariant holds in every reachable state.
THEOREM PoolInvariant == Spec => []PoolInv
<1>1. Init => PoolInv
  BY InitEstablishes
<1>2. PoolInv /\ [Next]_vars => PoolInv'
  BY StepKeeps
<1> QED BY <1>1, <1>2, PTL DEF Spec

\* Type correctness: no subtraction of the contracts goes below zero.
THEOREM TypeCorrect == Spec => []TypeOK
<1>1. PoolInv => TypeOK
  BY DEF PoolInv
<1> QED BY <1>1, PoolInvariant, PTL

\* The bitmap the risk engine walks agrees with the balances.
THEOREM BitmapCorrect == Spec => []BitmapInSync
<1>1. PoolInv => BitmapInSync
  BY DEF PoolInv
<1> QED BY <1>1, PoolInvariant, PTL

\* The totals of a reserve are the sums of its users' balances.
THEOREM TotalsCorrect == Spec => []TotalsMatch
<1>1. PoolInv => TotalsMatch
  BY DEF PoolInv
<1> QED BY <1>1, PoolInvariant, PTL

\* The tracked cash of a reserve is the pool's token balance.
THEOREM CashCorrect == Spec => []CashMatchesTokens
<1>1. PoolInv => CashMatchesTokens
  BY DEF PoolInv
<1> QED BY <1>1, PoolInvariant, PTL

\* The views project what the next accrue commits: nothing a user reads between two
\* writes differs from what the next transaction would use.
THEOREM ViewsCorrect == Spec => []ViewsMatchAccrue
<1>1. PoolInv => ViewsMatchAccrue
  <2> SUFFICES ASSUME PoolInv, NEW a \in Asset
               PROVE  LET r == reserves[a]
                          s == Accrue(r, now)
                      IN  /\ NormalizedIncome(r, now) = s.liquidityIndex
                          /\ NormalizedDebt(r, now) = s.borrowIndex
                          /\ TreasuryScaledNow(r, now) = s.accruedToTreasury
    BY DEF ViewsMatchAccrue
  <2>1. reserves[a] \in ReserveData /\ now \in Nat
    BY DEF PoolInv, TypeOK
  <2>2. reserves[a].lastUpdateTimestamp <= now
    BY DEF PoolInv, ReservesSane, SaneReserve
  <2> QED BY <2>1, <2>2, ViewsAreAccrue
<1> QED BY <1>1, PoolInvariant, PTL
=============================================================================
