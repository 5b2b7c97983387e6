------------------------------ MODULE Reserve ------------------------------
(***************************************************************************)
(* One reserve of the pool: what the lenders own of it, what the loans owe *)
(* it, the two indexes that make both grow with time, the interest rates,  *)
(* and the yearn vault in which the uToken keeps the money                 *)
(* (ReserveLogic, InterestRate, SupplyLogic, LendingLogic, UToken, the     *)
(* reserve's part of BorrowLogic and LiquidateLogic, and the settlement of *)
(* a market sale by an adapter).                                           *)
(*                                                                         *)
(* What a loan may borrow, when it may be liquidated and the NFTs are in   *)
(* LendPool: here every amount is possible, and every loan may be sold.    *)
(* A loan's debt is its borrower's balance of debt tokens, one loan each.  *)
(* The wallets that pay into the reserve are taken to hold enough.         *)
(***************************************************************************)
EXTENDS UnlockdMath

CONSTANTS
  Lenders,           \* the holders of uTokens, apart from the treasury
  Treasury,          \* RESERVE_TREASURY_ADDRESS
  Loans,
  SECONDS_PER_YEAR,
  Strategies,        \* what configInterestRate may set
  Factors,           \* what setReserveFactor may set
  Amounts,           \* the amounts of the operations
  Prices,            \* the vault's prices per share, in wad
  Pauses,            \* the seconds that may pass at once
  Proceeds,          \* what a market sale may bring
  Endowment,         \* the treasury's WETH at the start
  MaxTime, MaxSteps  \* bounds of the model: seconds, and steps

Holders == Lenders \union {Treasury}

ASSUME ReserveAssumption ==
  /\ Treasury \notin Lenders
  /\ IsFiniteSet(Lenders) /\ IsFiniteSet(Loans)
  /\ RAY \div WAD > 0
  /\ SECONDS_PER_YEAR \in Nat \ {0}
  /\ Strategies \subseteq [optimal : 1 .. RAY - 1, base : Nat, slope1 : Nat, slope2 : Nat]
  /\ Factors \subseteq 0 .. PERCENTAGE_FACTOR
  /\ Amounts \subseteq Nat \ {0} /\ Proceeds \subseteq Nat
  /\ Prices \subseteq Nat \ {0} /\ WAD \in Prices
  /\ Pauses \subseteq Nat \ {0}
  /\ Endowment \in Nat /\ MaxTime \in Nat /\ MaxSteps \in Nat

VARIABLES
  now,            \* block.timestamp
  reserve,        \* ReserveData: indexes, rates, time of the last update
  reserveFactor,  \* the reserve factor in its configuration
  strategy,       \* the parameters of its InterestRate contract
  scaled,         \* scaled uToken balances
  supply,         \* their scaledTotalSupply
  debt,           \* scaled debt token balances
  debtSupply,     \* their scaledTotalSupply
  shares,         \* the uToken's vault shares
  price,          \* the vault's price per share
  idle,           \* WETH of the uToken outside the vault
  treasury,       \* WETH of the treasury
  adapter,        \* WETH of the market adapter
  disturbed,      \* history: an adapter sold a loan, or the reserve factor was raised
  steps           \* how many steps so far

money == <<shares, idle, treasury, adapter>>
uTokens == <<scaled, supply>>
debtTokens == <<debt, debtSupply>>
settings == <<reserveFactor, strategy>>
vars == <<now, reserve, settings, uTokens, debtTokens, money, price, disturbed, steps>>

-----------------------------------------------------------------------------
(* MathUtils: the interest of the time since the last update. *)

Elapsed == now - reserve.lastUpdateTimestamp

LinearInterest(rate) == (rate * Elapsed) \div SECONDS_PER_YEAR + RAY

CompoundedInterest(rate) ==
  LET perSecond == rate \div SECONDS_PER_YEAR
      squared == RayMul(perSecond, perSecond)
      cubed == RayMul(squared, perSecond)
      beyondTwo == IF Elapsed > 2 THEN Elapsed - 2 ELSE 0
  IN  IF Elapsed = 0 THEN RAY
      ELSE RAY + perSecond * Elapsed
             + (Elapsed * (Elapsed - 1) * squared) \div 2
             + (Elapsed * (Elapsed - 1) * beyondTwo * cubed) \div 6

(* What one unit of a deposit, and of a debt, is worth at this moment. *)
NormalizedIncome ==
  IF Elapsed = 0 THEN reserve.liquidityIndex
  ELSE RayMul(LinearInterest(reserve.currentLiquidityRate), reserve.liquidityIndex)

NormalizedDebt ==
  IF Elapsed = 0 THEN reserve.variableBorrowIndex
  ELSE RayMul(CompoundedInterest(reserve.currentVariableBorrowRate), reserve.variableBorrowIndex)

BalanceOf(user) == RayMul(scaled[user], NormalizedIncome)
Owed(loan) == RayMul(debt[loan], NormalizedDebt)

(* The vault, and getAvailableLiquidity: the shares at the vault's price.  *)
AvailableLiquidity == WadMul(shares, price)
SharesFor(amount) == WadDiv(amount, price)
VaultPays(amount) == (SharesFor(amount) * price) \div WAD
VaultIssues(amount) == (amount * WAD) \div price

-----------------------------------------------------------------------------
(* ReserveLogic. *)

\* Mutant: the timestamp of the update is not stored.
IndexesWithoutTime ==
  [reserve EXCEPT
    !.liquidityIndex = IF reserve.currentLiquidityRate > 0
                       THEN RayMul(LinearInterest(reserve.currentLiquidityRate), @) ELSE @]

\* Mutant: the debt grows by the linear interest.
IndexesLinear ==
  [reserve EXCEPT
    !.liquidityIndex = RayMul(LinearInterest(reserve.currentLiquidityRate), @),
    !.variableBorrowIndex = RayMul(LinearInterest(reserve.currentVariableBorrowRate), @),
    !.lastUpdateTimestamp = now]

(* updateState, first part: the indexes. *)
UpdatedIndexes ==
  LET income == reserve.currentLiquidityRate > 0
  IN  [reserve EXCEPT
        !.liquidityIndex = IF income THEN RayMul(LinearInterest(reserve.currentLiquidityRate), @) ELSE @,
        !.variableBorrowIndex =
          IF income /\ debtSupply # 0
          THEN RayMul(CompoundedInterest(reserve.currentVariableBorrowRate), @) ELSE @,
        !.lastUpdateTimestamp = now]

\* Mutant: the treasury's share is taken of the debt, not of its growth.
MintOfTheDebt(updated) ==
  RayDiv(PercentMul(RayMul(debtSupply, updated.variableBorrowIndex), reserveFactor), updated.liquidityIndex)

(* updateState, second part: the treasury's share of the interest, as the *)
(* scaled uTokens minted for it.                                           *)
MintToTreasury(updated) ==
  LET accrued == RayMul(debtSupply, updated.variableBorrowIndex)
                   - RayMul(debtSupply, reserve.variableBorrowIndex)
  IN  RayDiv(PercentMul(accrued, reserveFactor), updated.liquidityIndex)

(* InterestRate.calculateInterestRates. *)
Utilization(available, totalDebt) ==
  IF totalDebt = 0 THEN 0 ELSE RayDiv(totalDebt, available + totalDebt)

BorrowRate(utilization) ==
  IF utilization > strategy.optimal
  THEN strategy.base + strategy.slope1
         + RayMul(strategy.slope2, RayDiv(utilization - strategy.optimal, RAY - strategy.optimal))
  ELSE strategy.base + RayDiv(RayMul(utilization, strategy.slope1), strategy.optimal)

WadToRay(a) == a * (RAY \div WAD)

OverallBorrowRate(totalDebt, rate) ==
  IF totalDebt = 0 THEN 0
  ELSE RayDiv(RayMul(WadToRay(totalDebt), rate), WadToRay(totalDebt))

LiquidityRate(available, totalDebt) ==
  LET utilization == Utilization(available, totalDebt)
  IN  PercentMul(RayMul(OverallBorrowRate(totalDebt, BorrowRate(utilization)), utilization),
                 PERCENTAGE_FACTOR - reserveFactor)

\* Mutant: the amounts that are going to move are forgotten.
RatesOfTheMoment(r, newSupply, added, taken) ==
  LET totalDebt == RayMul(newSupply, r.variableBorrowIndex)
  IN  [r EXCEPT
        !.currentLiquidityRate = LiquidityRate(AvailableLiquidity, totalDebt),
        !.currentVariableBorrowRate = BorrowRate(Utilization(AvailableLiquidity, totalDebt))]

(* updateInterestRates: from what the vault holds before the transfers of  *)
(* the transaction and the amounts these are going to move.                *)
WithRates(r, newSupply, added, taken) ==
  LET available == AvailableLiquidity + added - taken
      totalDebt == RayMul(newSupply, r.variableBorrowIndex)
  IN  [r EXCEPT
        !.currentLiquidityRate = LiquidityRate(available, totalDebt),
        !.currentVariableBorrowRate = BorrowRate(Utilization(available, totalDebt))]

-----------------------------------------------------------------------------
(* The tokens and the uToken's money. *)

(* What updateState mints for the treasury, and a mint or burn for a user. *)
UTokensMove(updated, user, change) ==
  LET fee == MintToTreasury(updated)
  IN  /\ scaled' = [[scaled EXCEPT ![Treasury] = @ + fee] EXCEPT ![user] = @ + change]
      /\ supply' = supply + fee + change

DebtMoves(loan, change) ==
  /\ debt' = [debt EXCEPT ![loan] = @ + change]
  /\ debtSupply' = debtSupply + change

(* depositReserves, after `amount` came in. *)
DepositReserves(amount) ==
  /\ shares' = shares + VaultIssues(amount)
  /\ UNCHANGED <<idle, treasury, adapter>>

(* withdrawReserves, and then a transfer of `paid`, which need not be what *)
(* the vault has paid for the shares.                                      *)
WithdrawReserves(amount, paid) ==
  /\ shares >= SharesFor(amount)
  /\ shares' = shares - SharesFor(amount)
  /\ idle + VaultPays(amount) >= paid
  /\ idle' = idle + VaultPays(amount) - paid
  /\ UNCHANGED <<treasury, adapter>>

Step == steps < MaxSteps /\ steps' = steps + 1

(* A transaction of the pool leaves time, settings and the vault alone. *)
Transaction == Step /\ UNCHANGED <<now, settings, price>>

-----------------------------------------------------------------------------
(* The operations of the pool on a reserve. *)

Deposit(user, amount) ==
  LET updated == UpdatedIndexes
      minted == RayDiv(amount, updated.liquidityIndex)
  IN  /\ Transaction
      /\ minted # 0
      /\ reserve' = WithRates(updated, debtSupply, amount, 0)
      /\ UTokensMove(updated, user, minted)
      /\ DepositReserves(amount)
      /\ UNCHANGED <<debtTokens, disturbed>>

(* `amount` is the user's whole balance when the caller asks for the       *)
(* maximum.                                                                *)
Withdraw(user, amount) ==
  LET updated == UpdatedIndexes
      burnt == RayDiv(amount, updated.liquidityIndex)
  IN  /\ Transaction
      /\ amount # 0 /\ amount <= BalanceOf(user) /\ amount <= AvailableLiquidity
      /\ burnt # 0
      /\ reserve' = WithRates(updated, debtSupply, 0, amount)
      /\ UTokensMove(updated, user, -burnt)
      /\ scaled'[user] >= 0 /\ supply' >= 0
      /\ WithdrawReserves(amount, amount)
      /\ UNCHANGED <<debtTokens, disturbed>>

(* The borrower owes what was asked for and gets what the vault pays. *)
Borrow(loan, amount) ==
  LET updated == UpdatedIndexes
      minted == RayDiv(amount, updated.variableBorrowIndex)
  IN  /\ Transaction
      /\ minted # 0
      /\ amount <= AvailableLiquidity
      /\ DebtMoves(loan, minted)
      /\ reserve' = WithRates(updated, debtSupply', 0, amount)
      /\ UTokensMove(updated, Treasury, 0)
      /\ WithdrawReserves(amount, VaultPays(amount))
      /\ UNCHANGED disturbed

(* updateState, the debt tokens of a loan burned for `amount`, and the new *)
(* rates, when `added` is going to reach the vault.                        *)
Settle(loan, amount, added) ==
  LET updated == UpdatedIndexes
      burnt == RayDiv(amount, updated.variableBorrowIndex)
  IN  /\ Transaction
      /\ burnt # 0 /\ burnt <= debt[loan] /\ burnt <= debtSupply
      /\ DebtMoves(loan, -burnt)
      /\ reserve' = WithRates(updated, debtSupply', added, 0)
      /\ UTokensMove(updated, Treasury, 0)

(* What a loan owes once the state is updated. *)
OwedNow(loan) == RayMul(debt[loan], UpdatedIndexes.variableBorrowIndex)

(* Paying back `amount`, or all that is owed if that is less.  Redeeming   *)
(* from an auction does the same with the reserve.                         *)
Repay(loan, amount) ==
  LET repaid == IF amount < OwedNow(loan) THEN amount ELSE OwedNow(loan)
  IN  Settle(loan, repaid, repaid) /\ DepositReserves(repaid) /\ UNCHANGED disturbed

(* The end of an auction pays all that is owed; so does a buyout. *)
Liquidate(loan) ==
  Settle(loan, OwedNow(loan), OwedNow(loan)) /\ DepositReserves(OwedNow(loan)) /\ UNCHANGED disturbed

(* A bid on a loan: it waits in the pool's escrow, so no amount moves. *)
Auction(loan) ==
  /\ Transaction
  /\ debt[loan] # 0
  /\ reserve' = WithRates(UpdatedIndexes, debtSupply, 0, 0)
  /\ UTokensMove(UpdatedIndexes, Treasury, 0)
  /\ UNCHANGED <<debtTokens, money, disturbed>>

\* Mutant: what the sale returned is not passed on to the uToken.
SaleKept(loan, proceeds) ==
  LET owed == OwedNow(loan)
  IN  /\ Settle(loan, owed, 0)
      /\ proceeds >= owed
      /\ disturbed' = TRUE
      /\ UNCHANGED money

(* An adapter sells the NFT of a loan.  Rates first, with no amounts; then *)
(* either the treasury pays what is missing, or the adapter all that is    *)
(* owed and the rest to bidder and borrower.  The vault is not involved.   *)
MarketSale(loan, proceeds) ==
  LET owed == OwedNow(loan)
      missing == IF proceeds < owed THEN owed - proceeds ELSE 0
  IN  /\ Settle(loan, owed, 0)
      /\ missing <= treasury
      /\ treasury' = treasury - missing
      /\ idle' = idle + (IF missing # 0 THEN missing ELSE owed)
      /\ adapter' = adapter + (IF missing # 0 THEN proceeds ELSE 0)
      /\ disturbed' = TRUE
      /\ UNCHANGED shares

-----------------------------------------------------------------------------
(* The operations anyone or the pool admin may call on their own. *)

UpdateReserveState ==
  /\ Transaction
  /\ reserve' = UpdatedIndexes
  /\ UTokensMove(UpdatedIndexes, Treasury, 0)
  /\ UNCHANGED <<debtTokens, money, disturbed>>

UpdateReserveInterestRates ==
  /\ Transaction
  /\ reserve' = WithRates(reserve, debtSupply, 0, 0)
  /\ UNCHANGED <<uTokens, debtTokens, money, disturbed>>

\* Mutant: the balance of the sender is not checked.
TransferUnchecked(from, to, amount) ==
  LET moved == RayDiv(amount, NormalizedIncome)
  IN  /\ Transaction
      /\ from # to
      /\ scaled' = [[scaled EXCEPT ![from] = @ - moved] EXCEPT ![to] = @ + moved]
      /\ UNCHANGED <<reserve, supply, debtTokens, money, disturbed>>

(* A transfer of uTokens. *)
TransferUToken(from, to, amount) ==
  LET moved == RayDiv(amount, NormalizedIncome)
  IN  /\ Transaction
      /\ from # to /\ moved <= scaled[from]
      /\ scaled' = [[scaled EXCEPT ![from] = @ - moved] EXCEPT ![to] = @ + moved]
      /\ UNCHANGED <<reserve, supply, debtTokens, money, disturbed>>

SweepUToken ==
  /\ Transaction
  /\ idle > 0
  /\ shares' = shares + VaultIssues(idle)
  /\ idle' = 0
  /\ UNCHANGED <<reserve, uTokens, debtTokens, treasury, adapter, disturbed>>

SetReserveFactor ==
  /\ Step
  /\ \E factor \in Factors \ {reserveFactor} :
       reserveFactor' = factor /\ disturbed' = (disturbed \/ factor > reserveFactor)
  /\ UNCHANGED <<now, reserve, strategy, uTokens, debtTokens, money, price>>

ConfigInterestRate ==
  /\ Step
  /\ \E new \in Strategies \ {strategy} : strategy' = new
  /\ UNCHANGED <<now, reserve, reserveFactor, uTokens, debtTokens, money, price, disturbed>>

(* The vault earns; blocks are mined. *)
VaultEarns ==
  /\ Step
  /\ price' \in Prices /\ price' > price
  /\ UNCHANGED <<now, reserve, settings, uTokens, debtTokens, money, disturbed>>

Tick ==
  /\ Step
  /\ \E pause \in Pauses : now' = now + pause
  /\ now' <= MaxTime
  /\ UNCHANGED <<reserve, settings, uTokens, debtTokens, money, price, disturbed>>

-----------------------------------------------------------------------------
(* A reserve as ReserveLogic.init leaves it. *)
Init ==
  /\ now = 0
  /\ reserve = [liquidityIndex |-> RAY, variableBorrowIndex |-> RAY, currentLiquidityRate |-> 0,
                currentVariableBorrowRate |-> 0, lastUpdateTimestamp |-> 0]
  /\ reserveFactor \in Factors /\ strategy \in Strategies
  /\ scaled = [user \in Holders |-> 0] /\ supply = 0
  /\ debt = [loan \in Loans |-> 0] /\ debtSupply = 0
  /\ shares = 0 /\ price = WAD /\ idle = 0
  /\ treasury = Endowment /\ adapter = 0 /\ disturbed = FALSE
  /\ steps = 0

(* What the pool does for lenders and borrowers. *)
PoolOperation ==
  \/ \E user \in Lenders, amount \in Amounts : Deposit(user, amount)
  \/ \E user \in Holders : \E amount \in Amounts \union {BalanceOf(user)} : Withdraw(user, amount)
  \/ \E loan \in Loans, amount \in Amounts : Borrow(loan, amount) \/ Repay(loan, amount)
  \/ \E loan \in Loans : Liquidate(loan) \/ Auction(loan)

Next ==
  \/ PoolOperation
  \/ \E loan \in Loans, proceeds \in Proceeds : MarketSale(loan, proceeds)
  \/ UpdateReserveState
  \/ UpdateReserveInterestRates
  \/ \E from, to \in Holders, amount \in Amounts : TransferUToken(from, to, amount)
  \/ SweepUToken
  \/ SetReserveFactor
  \/ ConfigInterestRate
  \/ VaultEarns
  \/ Tick

Spec == Init /\ [][Next]_vars

-----------------------------------------------------------------------------
(* Properties. *)

Indexes == [liquidityIndex : Nat \ {0}, variableBorrowIndex : Nat \ {0}, currentLiquidityRate : Nat,
            currentVariableBorrowRate : Nat, lastUpdateTimestamp : Nat]

(* The types of the state, and an update that is never in the future: a    *)
(* subtraction of timestamps never underflows.                             *)
ReserveTypeOK ==
  /\ now \in Nat /\ steps \in 0 .. MaxSteps
  /\ reserve \in Indexes /\ reserve.lastUpdateTimestamp <= now
  /\ reserveFactor \in Factors /\ strategy \in Strategies
  /\ scaled \in [Holders -> Nat] /\ supply \in Nat
  /\ debt \in [Loans -> Nat] /\ debtSupply \in Nat
  /\ shares \in Nat /\ price \in Prices /\ idle \in Nat
  /\ treasury \in Nat /\ adapter \in Nat /\ disturbed \in BOOLEAN

(* What the lenders could ask for, with the treasury's share that the next *)
(* update is going to mint, and what there is to pay them with.            *)
Claims == RayMul(supply + MintToTreasury(UpdatedIndexes), NormalizedIncome)
Backing == AvailableLiquidity + idle + RayMul(debtSupply, NormalizedDebt)

(* As long as no adapter has sold a loan and the reserve factor was not    *)
(* raised, the lenders and the treasury own no more than the vault, the    *)
(* uToken and the loans are worth together, but for what is lost to        *)
(* rounding: in each step at most a wei and one scaled unit of debt.       *)
Dust == 1 + RayMul(1, NormalizedDebt)
LendersBacked == disturbed \/ Claims <= Backing + Dust * steps

(* What rounding can cost an operation: an amount that is scaled and owed   *)
(* or claimed again differs by half a unit of its index, an amount that    *)
(* goes through the vault by less than a share.                            *)
ScalingDust(index) == (index \div 2 + RAY - 1) \div RAY
VaultDust == (price + WAD - 2) \div WAD
OperationDust ==
  VaultDust + 1 + ScalingDust(IF NormalizedIncome > NormalizedDebt THEN NormalizedIncome
                              ELSE NormalizedDebt)

(* No operation of the pool, and no market sale whatever it brings, takes  *)
(* value from the lenders: what there is beyond their claims, with the     *)
(* proceeds that a sale leaves in the adapter, is kept but for rounding.   *)
Surplus == Backing + adapter - Claims
OperationsKeepValue ==
  [][PoolOperation \/ (\E loan \in Loans, proceeds \in Proceeds : MarketSale(loan, proceeds))
       => Surplus' + OperationDust' >= Surplus]_vars

(* Only time changes what a deposit is worth, and it never takes anything  *)
(* back: what an update stores in the index is what the view said just     *)
(* before.  Rates recomputed on their own are the exception.               *)
OnlyTimeAdds(before, after) == IF now' = now THEN after = before ELSE after >= before
DepositsOnlyAccrue ==
  [][~ UpdateReserveInterestRates =>
       \A user \in Holders :
         scaled'[user] = scaled[user] => OnlyTimeAdds(BalanceOf(user), BalanceOf(user)')]_vars

(* The same of what a loan owes. *)
DebtsOnlyAccrue ==
  [][~ UpdateReserveInterestRates =>
       \A loan \in Loans :
         debt'[loan] = debt[loan] => OnlyTimeAdds(Owed(loan), Owed(loan)')]_vars

(* The rates that a pool operation stores are those of the liquidity it    *)
(* leaves in the vault, to what the vault's rounding takes, though they    *)
(* were computed before the transfers.                                     *)
RatesFit ==
  \E available \in Nat \intersect (AvailableLiquidity - VaultDust .. AvailableLiquidity + VaultDust) :
    LET totalDebt == RayMul(debtSupply, reserve.variableBorrowIndex)
    IN  /\ reserve.currentLiquidityRate = LiquidityRate(available, totalDebt)
        /\ reserve.currentVariableBorrowRate = BorrowRate(Utilization(available, totalDebt))
RatesFollowLiquidity == [][PoolOperation => RatesFit']_vars

=============================================================================
