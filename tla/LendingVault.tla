---------------------------- MODULE LendingVault ----------------------------
(***************************************************************************)
(* contracts/periphery/LendingVault.sol composed with the pool: an         *)
(* ERC-4626 vault is one more user of the pool, which only supplies and    *)
(* withdraws, and whose position its share holders own in proportion.      *)
(* deposit, mint, withdraw and redeem and the conversions are those of     *)
(* OpenZeppelin's ERC4626, from how the vault calls and overrides them.    *)
(* Holders act for themselves: transfers and allowances of shares are left *)
(* out.                                                                    *)
(***************************************************************************)
EXTENDS LendingPoolProperties

CONSTANTS
    vault,       \* the vault's account
    underlying,  \* asset()
    Offset,      \* 10 ** _decimalsOffset()
    Parts        \* numbers of shares a call passes, besides the reported maximum

ASSUME VaultAssumption ==
    /\ vault \in User /\ underlying \in Asset
    /\ Offset \in Nat \ {0} /\ Parts \subseteq Nat
    \* totalSupply() of the underlying is a uint256
    /\ SumOver([u \in User |-> InitialWallet[u][underlying]], User) <= MaxUint

VARIABLE shares  \* balanceOf(u)

Holder == User \ {vault}

vaultVars == <<vars, shares>>

VaultInit == Init /\ shares = [u \in Holder |-> 0]

AtMost(m, n) == IF m < n THEN m ELSE n

totalAssets == RayMulDown(supply[vault][underlying], NormalizedIncome(reserves[underlying], now))

totalShares == SumOver(shares, Holder)

convertToShares(assets) == (assets * (totalShares + Offset)) \div (totalAssets + 1)

\* Mutant: the assets of a redemption are rounded in the holder's favour.
convertToAssetsUp(amount) == DivUp(amount * (totalAssets + 1), totalShares + Offset)

convertToAssets(amount) == (amount * (totalAssets + 1)) \div (totalShares + Offset)

previewMint(amount) == DivUp(amount * (totalAssets + 1), totalShares + Offset)

previewWithdraw(assets) == DivUp(assets * (totalShares + Offset), totalAssets + 1)

-----------------------------------------------------------------------------
(***************************************************************************)
(* The limits.                                                             *)
(***************************************************************************)

availableLiquidity ==
    LET r == reserves[underlying] IN IF Operational(r.config) THEN r.cash ELSE 0

maxDeposit ==
    LET r == reserves[underlying]
        cap == r.config.supplyCap * Unit[underlying]
        supplied == TotalSupplyLiabilities(r, now)
    IN  IF ~ValidateSupply(r.config) THEN 0
        ELSE IF r.config.supplyCap = 0 THEN MaxUint
        ELSE IF supplied >= cap THEN 0 ELSE cap - supplied

maxMint == IF maxDeposit = MaxUint THEN MaxUint ELSE convertToShares(maxDeposit)

\* Mutant: the limit is what the holder owns, whatever the pool's cash.
maxWithdrawOwned(owner) == convertToAssets(shares[owner])

maxWithdraw(owner) == AtMost(convertToAssets(shares[owner]), availableLiquidity)

maxRedeem(owner) == AtMost(shares[owner], convertToShares(availableLiquidity))

-----------------------------------------------------------------------------
(***************************************************************************)
(* The entry points.  _deposit pulls the assets and supplies them to the   *)
(* pool in one transaction; _withdraw has the pool pay the holder.         *)
(***************************************************************************)

enter(holder, assets, minted) ==
    /\ SupplyPaidBy(holder, vault, underlying, assets, vault)
    /\ shares' = [shares EXCEPT ![holder] = @ + minted]

leave(holder, assets, burnt) ==
    /\ burnt <= shares[holder]
    /\ Withdraw(vault, underlying, assets, holder)
    /\ shares' = [shares EXCEPT ![holder] = @ - burnt]

\* What each call requires, of the vault and of the pool.
acceptsDeposit(holder, assets) ==
    assets <= maxDeposit /\ AcceptsSupply(holder, underlying, assets)

acceptsMint(holder, amount) ==
    amount <= maxMint /\ AcceptsSupply(holder, underlying, previewMint(amount))

acceptsWithdraw(holder, assets) ==
    /\ assets <= maxWithdraw(holder) /\ previewWithdraw(assets) <= shares[holder]
    /\ AcceptsWithdraw(vault, underlying, assets)

acceptsRedeem(holder, amount) ==
    /\ amount <= maxRedeem(holder) /\ amount <= shares[holder]
    /\ AcceptsWithdraw(vault, underlying, convertToAssets(amount))

deposit(holder, assets) ==
    acceptsDeposit(holder, assets) /\ enter(holder, assets, convertToShares(assets))

mint(holder, amount) == acceptsMint(holder, amount) /\ enter(holder, previewMint(amount), amount)

withdraw(holder, assets) ==
    acceptsWithdraw(holder, assets) /\ leave(holder, assets, previewWithdraw(assets))

redeem(holder, amount) ==
    acceptsRedeem(holder, amount) /\ leave(holder, convertToAssets(amount), amount)

VaultCall(holder) ==
    \/ \E assets \in 1..wallet[holder][underlying] : deposit(holder, assets)
    \/ \E amount \in Parts : mint(holder, amount)
    \/ \E assets \in 1..maxWithdraw(holder) : withdraw(holder, assets)
    \/ \E amount \in Parts \cup {maxRedeem(holder)} : redeem(holder, amount)

\* Every other call to the pool: the vault sends none of its own, and nobody sends
\* tokens to it but through the pool, as supply on its behalf.
PoolCall ==
    /\ Next
    /\ collateral'[vault] = collateral[vault] /\ debt'[vault] = debt[vault]
    /\ wallet'[vault] = wallet[vault]
    /\ UNCHANGED shares

VaultNext == PoolCall \/ \E holder \in Holder : VaultCall(holder)

VaultSpec == VaultInit /\ [][VaultNext]_vaultVars

-----------------------------------------------------------------------------
\* "ERC-4626 requires max* to reflect real limits": whatever the pauses, the cap,
\* the cash lent out and the interest of the moment, the vault accepts a call for
\* exactly what it reports, unless that is worth less than a unit (the pool refuses
\* an amount that rounds to nothing, of which the limits take no notice) or the vault
\* holds more than a uint256, when its views revert.
LimitsHonoured ==
    IsListed(reserves[underlying]) /\ totalAssets <= MaxUint => \A u \in Holder :
        LET takes(assets) == RayDivDown(assets, NormalizedIncome(reserves[underlying], now)) # 0
        IN  /\ \A n \in {AtMost(maxDeposit, wallet[u][underlying])} :
                 takes(n) => acceptsDeposit(u, n)
            /\ \A n \in {AtMost(maxMint, convertToShares(wallet[u][underlying]))} :
                 takes(previewMint(n)) => acceptsMint(u, n)
            /\ \A n \in {maxWithdraw(u)} : n # 0 => acceptsWithdraw(u, n)
            /\ \A n \in {maxRedeem(u)} : convertToAssets(n) # 0 => acceptsRedeem(u, n)

\* What holder u's shares are worth and the tokens u holds.
Worth(u) == wallet[u][underlying] + convertToAssets(shares[u])

\* No call to the vault pays its caller out of the other holders: what the caller
\* owns after it is at most what it owned before, whatever the roundings of the
\* vault and of the pool add up to.
CallsNeverPay ==
    [][\A u \in Holder : shares'[u] # shares[u] => Worth(u)' <= Worth(u)]_vaultVars
=============================================================================
