# Unlockd lending protocol v1: TLA+ models, checks and proofs

Unlockd lends WETH against NFTs.  Lenders deposit in a reserve; a borrower
pledges one NFT per loan; a loan whose debt exceeds the liquidation threshold of
its collateral is auctioned, and may be redeemed, bought out or liquidated; an
open loan can be sold, debt and NFT together, on a debt market.  The code is
Solidity (`contracts/`), deployed behind proxies by hardhat tasks in TypeScript
(`tasks/`, `helpers/`).

This directory holds TLA+ models of the contracts that carry that logic and of
the deployment that puts them on a chain, the TLC configurations that check
them on small instances, and proofs, checked by TLAPS, of what the checks found
to hold of the loan book, the pool, the debt market, the reserve and the
deployment.

## 1. The system

**The contracts.**  Every external call is one transaction: it happens completely or not at all,
and transactions are totally ordered.  The pool, the debt market and the
adapters also carry a reentrancy guard.  So an operation is **one action**, with
all the calls it makes into other contracts; the concurrency of the system is
the interleaving of transactions of borrowers, bidders, lenders, liquidators and
administrators, with time and prices moving in between.

| Component | State | Operations | Works with |
|---|---|---|---|
| `LendPoolLoan` (loan book) | loans, id tracker, NFT-to-loan map, collateral counters, adapters | create, update, repay, auction, buyout, redeem, liquidate, market liquidation, re-mint | called by pool, debt market, adapters; calls UNFT |
| `UNFT` (vault and receipts) | owner of the receipt, custody of the NFT | mint, burn | NFT contracts |
| `LendPool` with `BorrowLogic`, `LiquidateLogic`, `SupplyLogic`, `ValidationLogic`, `GenericLogic` | configuration of tokens, pause, WETH of the bids | deposit, withdraw, borrow, repay, auction, redeem, liquidate, buyout, pause | all |
| `DebtToken` | scaled debt of an account, delegation allowances | mint, burn, approve delegation | pool, debt market |
| `UToken`, `ReserveLogic`, `InterestRate`, `LendingLogic` | lenders' scaled balances, indexes and rates, vault shares | mint, burn, update of state and rates, deposit and withdrawal of reserves | pool, yearn vault |
| `DebtMarket` | listings, NFT-to-listing map, counters, WETH of the bids | create, cancel, buy, bid, claim | pool (cancels), loan book, debt token |
| `NFTOracle`, `ReserveOracle`, `LockeyManager` | prices, discounts | set | read by pool and debt market |
| `LendPoolConfigurator` | none of its own | configures tokens, collections, reserves, pause | pool, oracle |
| adapters (`BaseAdapter`, `ReservoirAdapter`) | none | sell the NFT of an unhealthy loan elsewhere and settle | loan book, pool, debt market |
| gateways, recovery, `misc/` | addresses | wrap and forward, views | pool |
| `LendPoolAddressesProvider`, its registry, proxies | address of each slot, admin and implementation of each proxy | `setAddress`, `setAddressAsProxy`, `setXImpl`, `upgrade` | called by the tasks, read by every contract |
| migrations (`tasks/migrations/`) | where the process is | run the tasks of a network, in order | tasks |
| tasks (`tasks/full`, `fork`, `dev`, `misc/new-implementation.ts`) | local variables | deploy, set slots, initialize and configure reserves and collections, pause, upgrade | helpers, provider, configurator, oracles, gateways |
| helpers (`helpers/`) | the database of deployed contracts, the configuration (read only) | look up, deploy, save, verify, wait for a transaction | disk, node, Etherscan |
| operator commands (`unlockd-tasks/`) | none | one call each of a deployed contract | contracts |

**The deployment.**  One process executes hundreds of statements against three
stores that fail separately: the chain, the provider's slots on it, and a JSON
file on disk.  It may die between any two statements and is then started again
by its operator, on whatever the stores hold by then.

What is hard in it:

- **Money in two places.**  The pool's WETH balance holds the best bids of all
  auctions at once; what each operation pays is computed from loan records, and
  the transfers are spread over three contracts.
- **Debt in two places.**  A loan's debt is a scaled amount in the loan book and
  a scaled balance in the debt token, rounded in each.
- **Order.**  A first bid and a later one, redemption and settlement windows, a
  pause, a change of price or configuration, and the growth of debt between two
  of them may come in any order.
- **Time.**  Windows are measured from the first bid, prolonged by a pause;
  anything can happen at their borders.
- **Nothing may get stuck.**  `burn`, the counters, the escrow and the NFT
  receiver are all `require`s on the way out of a loan: an inconsistency in any
  of them locks the collateral.

- **Two moments.**  Interest is a view until the next update stores it, and the
  two must agree; rates are computed before the transfers they describe; the
  vault's price moves under both.

- **Three stores.**  A contract may be on the chain and not in the file, or in
  the file and not on the chain; an entry of an earlier market looks like one of
  this market.
- **Swallowed errors.**  Some tasks catch every error, log it and return: the
  tasks after them run on what is there.
- **Proxies.**  The same call creates a proxy the first time and upgrades it
  the next time, and reverts on an address it does not administer.

What makes each component correct: for the loan book, that map, counters,
custody and auction fields say the same of every NFT; for the pool, that
escrow, debt tokens and transfers agree with the loan book, that only the caller
pays, and that a due auction can be settled; for the clock, that auctions last
as long as announced; for the debt market, that a seller is paid and that a
listing never outlives its loan; for the reserve, that what lenders can
withdraw is covered and that an update stores what the views said; for the
deployment, that a migration which ends has made
one complete market and says so in the file, that it leaves earlier markets
alone, that an operator who tries again gets there, and that the address users
hold of a contract never moves.

## 2. Modules

| Module | Models | Lines of code it stands for |
|---|---|---|
| `UnlockdMath` | `WadRayMath`, `PercentageMath` (rounding to nearest) | 70 |
| `Pawn` | abstract specification of the loan book | - |
| `LendPoolLoan` | the loan book and the UNFT vault | about 500 |
| `Weth` | WETH balances and the transfers of a transaction | 20 |
| `LendPool` | the pool, its logic libraries, the debt token, token configuration, the price oracle, pause and time | about 1100 |
| `DebtMarket` | the debt market, and the pool's operations with the listings they cancel | about 400 |
| `AuctionClock` | an observer of `LendPool` that measures unpaused time | - |
| `Reserve` | the reserve: scaled balances, indexes, rates, the treasury's share, the vault, the settlement of market sales | about 900 |
| `Markets` | abstract specification of a deployment: markets and their contracts | - |
| `DeployScript` | the machine that executes tasks: process, chain, provider, settings, database, faults, restarts | about 700 |
| `DeployHelpers` | the helpers, as sequences of the machine's steps | about 1300 |
| `FullTasks`, `ForkTasks`, `DevTasks`, `UpgradeTasks` | the tasks and migrations, as such sequences | about 2600 |
| `UnlockdMathProofs`, `LendPoolLoanProofs`, `LendPoolProofs`, `AuctionClockProofs`, `DebtMarketProofs`, `ReserveProofs`, `MarketsProofs`, `DeployScriptProofs` | theorems | - |
| `MC...` | instances for TLC | - |

`LendPool` EXTENDS `LendPoolLoan` and `Weth`; its operations conjoin the actions
of the loan book (`CreateLoan`, `RedeemLoan`, ...) with its own guards, the debt
token (`MintDebt`, `BurnDebt`) and one sequence of WETH transfers.  Variables
have the names of the contracts' storage; operations those of its functions.
`Tickets` are the loans as a pawn shop sees them, and `Shop` is `Pawn` with them.
`SumOver` (`UnlockdMath`) adds up a function over a set: bids in the escrow,
scaled amounts of an account, balances.

`DebtMarket` EXTENDS `LendPool`.  borrow (on an open loan), repay, redeem,
liquidate and buyout cancel the loan's listing in their transaction: there they
are the pool's action with the refund of the best bid as its parameter,
conjoined with the market's `CancelListing`; in `LendPool` alone the refund is
empty.  The debt sale is `ReMintUNFT` of the loan book with the burn and the
mint of the debt token.

`Reserve` EXTENDS `UnlockdMath` only: it is the other half of the operations of
`LendPool`, what they do to the money of the lenders, where `LendPool` has what
they do to loans and NFTs.  A loan is its balance of scaled debt tokens, every
amount may be borrowed, and every loan may be repaid, auctioned, liquidated or
sold by an adapter at any time: more behaviours than the pool allows, which is
sound for its properties, none of which says that something can happen.
`UpdatedIndexes` and `MintToTreasury` are `updateState`, `WithRates` is
`updateInterestRates` with the amounts added and taken, and every operation
calls them in the code's order before the vault moves.

`DeployScript` is a machine and the tasks are its programs.  A step has an
operation (`load` an entry of the database, `send` a creation, `save` what was
mined, `set` a slot, `setProxy`, `call` a contract, `verify` a source, ...), a
name, a register it works on and the conditions it is executed under (the
branches of the task).  The tasks are composed of helpers as in TypeScript,
operator for function, with the same names: `DeployLendPoolTask` stands for
`full:deploy-lend-pool`, `Mainnet` for the migration.  An action of the machine
is one step: that is where the process can die, a transaction can fail, or an
error can be thrown and, if the task has a `catch` that only logs, swallowed.
The contracts are there as far as the deployment sees them: what they are, who
administers them, which provider they were made for, what was set in them.

**Correspondence.**  `PROJECT.json` maps every definition to its lines.  Guards
are the `require`s on the path, in the order that matters; a revert is an action
that is not enabled.  A transaction's WETH transfers are a sequence
(`Transfers`), each needing the balance its predecessors leave, so that a
payment funded by an earlier leg is told from one that is not.  The intermediate
holders of an NFT within a transaction (pool, loan book) are not states.

**Abstractions.**
- A collection and token id are one model value; `Collection` gives the
  contract.  Accounts are model values; `Rejecting` are contracts that revert on
  receiving an NFT.
- One reserve, WETH, active and not frozen, as is every collection: only the
  flags of a token are modelled.
- Fixed point with small units: a ray is 2 (so half-rays round), a wad and 100%
  are 10.  The formulas are the code's, rounding included.
- In `LendPool` the borrow index is the normalized one and never falls: `Tick`
  moves time by one and picks a next index.  Rates are not computed there, so
  what is shown holds for any course of interest.
- In `Reserve` a ray is 10000, a wad 5000, 100 % is 100 and a year four units of
  time; the curve of WETH keeps its proportions.  The vault is a price per share
  that only rises; it pays and issues rounded down, as yearn does.  The wallets
  that pay in hold enough, reserve factors are at most 100 %.
- In `LendPool` `UTokenAddr` is uToken and yearn vault together; a withdrawal is bounded by
  liquidity only.
- Approvals of WETH and NFTs to the protocol are given, except the approval of
  a collection to its UNFT contract (`approvedNfts`).
- Bids on the debt market are for an account: one for the zero address, which
  the code accepts and nobody can claim, is left out.
- `uint256` overflow is left out: the compiler makes it revert.
- An address is the number of a contract in the order of creation.  Of a
  setting it is kept that it was made, where and with which address; numbers
  (rates, thresholds, timeframes) are not.
- The signers and the configuration are constants; one network is one database.
- The chain does not reorganize: what is mined stays.  `post` is a transaction
  the code sends and does not wait for: it fails unheard, or takes effect in
  place.

## 3. Runs

| Run | Question | Bounds |
|---|---|---|
| `LoanBook` | are map, ids, custody, counters and auction fields consistent under any caller that respects the access modifiers, do ended loans stay ended, do auctions only rise, is it a pawn shop? | 2 accounts, 2 NFTs of one collection, 2 loans, 1 adapter, amounts 1 and 2, indexes that scale them to 0 and to 1 |
| `PoolMoney` | do payments agree along every life of a loan, can what is due be settled, and is nobody made a debtor without consent? | 1 NFT, 1 loan, times 1..4, indexes that raise the debt by half, prices above and below it, allowances |
| `PoolTwoLoans` | do escrow and debt tokens agree with two loans in one escrow and one debt token, and a lender? | 2 NFTs, 2 loans, times 1..3 |
| `PoolAdmin` | can a due auction be settled whatever the administrators did meanwhile, and does it keep its duration across a pause? | pause, active, frozen, two configurations, prices, times 1..5 |
| `MarketTrades` | do listings, their counters and bids stay in step with the pool, does a sale move debt and money together and charge the buyer only? | one listing, at a fixed price or in an auction, amounts 2 and 4, two indexes, times 1..3 |
| `MarketSettings` | can a due liquidation be blocked by a listing, its bids or a sale? | one Mixed listing, market pause, authorization, bid increments of 0 and 1, times 1..3 |
| `ReserveLife` | do lenders and treasury ever own more than there is, does an operation cost them more than rounding, does an update store what the views said, do rates follow the liquidity, is interest ever taken back? | 1 lender, 1 loan, two amounts, curves, reserve factors and vault prices, market sales below and above the debt, pauses of a quarter and of a year, 6 steps |
| `Deployments` | is a migration that ends complete, does the database name one market, are earlier markets left alone, does a migration that is tried again finish, do proxies stay? | the mainnet, fork and development migrations and the mainnet followed by every upgrade task; 2 starts, 1 fault anywhere |
| `MixedSaleUnpaid`, `AuctionClockPauses`, `RedeemBlocked`, `FreshMainnet` | statements of comments and documentation the code does not keep (section 5) | |

The bounds are enough for the interesting cases to happen: a second loan id lets
an NFT be pledged again after each way of ending; two NFTs of one collection
share its counters, and one borrower can have two loans; two accounts are
borrower and bidder, and each can be any of initiator, beneficiary, first bidder
and current bidder, also both at once; the rejecting account wins auctions, the
lockey holder buys out with and without the discount; times reach beyond the
end of an auction and its claim delay; bids cover and do not cover the debt at
settlement.  Every action of every next-state relation fires in some run.
In the market's runs and in `PoolTwoLoans` a time unit is longer than the claim delay of 20 minutes
(`ClaimDelay` is 0), so that listing, auction and claims fit into three.  The
price of a Mixed listing is above every bid for one account and, with the
discount, a bid for the other: both ways to sell it by bidding occur, and so
does a sale by claim.  `MarketTrades` has no Mixed listings, which
is where `SellersArePaid` fails.  Both market runs have one listing, made once
(`MaxListings` is 1): TLC does not see two listings share the market's balance,
nor an NFT listed a second time.  That `MarketCanRefund` and
`ListingCountersExact` hold there too is what `MarketSolvent` and
`ListingCounters` prove, for any number of listings (section 4).
`SYMMETRY` is used only in runs without temporal properties.  The contracts' runs check
deadlock: time is bounded, but a transfer of an NFT or a price change is always
possible.  The deployment's do not: after its last start the process really
stops.

In `Deployments` every migration is the whole one, with the pool configuration
cut to one reserve and two collections, one of which has no parameters on the
mainnet.  Two starts and one fault let any statement of the first start or of
the second be the one that fails, be it a crash with a creation under way that
is mined later or never, a transaction that fails, or an error a task swallows;
a second start without a fault makes a second market beside the first.  A source
is verified in at most two attempts, and the key for it is there
(`EtherscanReady` is `TRUE`: no run has an Etherscan that is not ready, nor the
flag `--verify`, with which the localhost and mainnet migrations do not end,
section 5).  With *two* faults neither `SupersededUntouched` nor
`FinishedIsComplete` holds: if the first start dies after it has set its pool
and the second start's `full:deploy-lend-pool` swallows an error, the database
still names the pool of the older market, `full:initialize-lend-pool` writes to
that one, and the migration ends all the same (section 5).  These claims are
therefore made for one fault per deployment.  What is proved (section 4) holds
for any number of starts and faults: that the database names the newest market,
that the slots of older ones stay, that no pool is left paused.

`ReserveLife` counts steps (`MaxSteps`) and seconds (`MaxTime`), so it stops,
and deadlock is not checked.  Six steps hold a deposit, a loan, time, a change
of price, curve or factor, and two operations after it.  A year has four units
of time and rates reach 236 %, so within a behaviour an index grows ninefold and
every rounding occurs.  What rounding may cost is named.  `LendersBacked` allows a
`Dust` per step: a wei, and one scaled unit of debt, which is worth what the
borrow index says.  `OperationsKeepValue` allows an `OperationDust`, which is
what its proof needs and no more: an amount that is scaled and owed or claimed
again differs by half a unit of its index (`ScalingDust`, one wei for each two
rays of the index), one that goes through the vault by less than a share
(`VaultDust`, one or two wei at the prices of the run, which bounds
`RatesFollowLiquidity` too), and one wei for the shares themselves.  The mutants
exceed both at once.  The properties name three exceptions, each a thing the
code does (section 5):

- `LendersBacked` is claimed until an adapter sells a loan: what a sale returns
  goes to the uToken or stays in the adapter, and `getAvailableLiquidity` sees
  only the vault, so rates are too high until the next `sweepUToken` and claims
  outgrow what there is.  `OperationsKeepValue` includes sales, and counts the
  proceeds that stay in the adapter.
- It is claimed until the reserve factor is raised: then lenders have accrued at
  the old share and the treasury takes the new one of the same interest.
- The accrual properties except `updateReserveInterestRates` on a reserve that
  was not updated in the same moment.

Every property has a mutant in `PROJECT.json`: a definition of the model changed
as a plausible bug would change the code, under which the same run must fail.

**Fairness.**  For the contracts none is assumed.  No code schedules itself:
borrowers, bidders and keepers act when they like, so no liveness property is
justified by the code alone.  What matters instead is that nobody can be
*blocked*, which is a state property: `DueAuctionsSettle` says that whoever has
the money can settle a due auction, as ENABLED of the action itself, and
`ListedAuctionsSettle` the same of a loan that is listed for sale.

The deployment has a process and an operator.  `FairSpec` assumes weak fairness
of `Work`, since the event loop of node goes on with the next statement (every
await has a timeout or an answer), and of `Start` until a migration has
finished, since an operator tries again.  Nothing is assumed of `Drop` and
`Crash`: they may happen or not.  Under it `FinishesEventually` holds: no crash
leaves chain or database in a state from which the next start cannot finish,
and no verification is retried for ever.

## 4. Proofs

Every theorem is about all values of the constants that the module's assumption
allows: any sets of accounts, NFTs, prices, indexes, amounts, any bound.  The
assumptions are evaluated by TLC in the runs.

### The loan book (`LendPoolLoanProofs`, from `LoanAssumption`)

None of its invariants is inductive alone: custody needs the map (the NFT of
a loan that ends is the one the vault holds for *it*), the counters need the map
and the freshness of ids (a new loan is counted once), the auction fields need
the map (operations are called with the id it holds, and `buyoutLoan` checks
nothing else).  `LoanInv` is their conjunction with the type invariant.

- `LoanInitInv`: the initial state satisfies it.
- Each operation preserves it: `TouchLoan` for operations that change a record
  and nothing else, `EndLoan` for the five that release collateral,
  `CreateLoanInv`, `ReMintInv`, `FrameInv` for administration and trade.
  The counting lemmas `CountOneMore` and `CountOneLess` carry the cardinalities.
- `LoanNextInv` collects them, `LoanBookInvariant` concludes `[]LoanInv`, and
  `LoanBookTypes`, `LoanMapExact`, `CustodyHolds`, `CountersExact`,
  `AuctionFieldsExact`, `FreshIdsHold` are its parts.
- Two action properties follow from the invariant, because each operation
  writes one record, of a loan that is open or new (`LoanOnlyWritten`):
  `ClosedLoansFrozen`, that ended loans never change, and `AuctionsRise`, that a
  running auction keeps its start and its debt and only rises (`OpenLoanRises`
  takes the operations one by one).
- `LoanBookImplementsPawn`: the loan book is the pawn shop.  What is shown of its
  steps is shown for any client of the book (`BookNext`), whatever bids it makes
  (`ShopOf`), and so serves the pool and the debt market too: `BookNextInv`,
  `BookKeepsClosed`, `BookRises`, `BookIsShop`.  Each operation is
  one of its actions for the ticket of the loan (`CreatePledges`,
  `IncreaseAmends`, `OpenAuctionOffers`, `OutbidRaises`, `RedeemCallsOff`,
  `RepayReturns`, `SeizeForfeits`, `MarketSaleForfeits`); a re-mint is an
  assignment of the ticket (`ReMintAssigns`), a trade outside is a sale of an
  NFT nobody pledged (`TradeSells`), administration is unseen.  It rests on
  `LoanInv`: an operation on a loan id concerns the ticket of that loan's NFT
  because the map names it.

### The pool (`LendPoolProofs`, from `PoolAssumption`)

`PoolAssumption` says that the contracts are not accounts, that bids and prices
are positive, that the thresholds of a collection are in the order the
configurator requires, and that the pool starts without WETH.

`PoolInv` is inductive: `LoanInv`, the types, a borrow index of at least one ray,
no pause that starts in the future, `BidsInEscrow` and `DebtTokensMatchLoans`.
The parts need each other.  That no balance underflows when a bid is refunded is
the escrow; that the escrow is exact needs the auction fields of the loan book;
that the burn of a debt token does not underflow is that tokens match loans; and
those match after a repayment only because an amount scaled down and up
again is itself once an index is a ray or more (`ScaleRoundTrip`).

- Money: `TransfersPay` says what any sequence of transfers does to any account
  (by well-founded induction on the number of transfers), and `PayFlow` what a
  sum over them is, whether or not the accounts coincide.  `LedgerDebtChange` and
  `LedgerBidChange` carry a change of one record to the sums.
- Each operation is a lemma (`BorrowKeeps`, `RepayKeeps`, `AuctionKeeps`,
  `RedeemKeeps`, `LiquidateKeeps`, `BuyoutKeeps`, `LenderStepKeeps`,
  `QuietStepKeeps`), with what it does to the money of accounts as well as the
  invariant.  The refund of a listing's bid is their parameter
  (`RefundsKeep`), so the debt market uses the same lemmas.
- `PoolInvariant`, `PoolTypes`, `EscrowExact`, `DebtTokensExact`, and
  `PoolKeepsBook`: the pool's calls are those `LoanInv` was proved for.
- The pool is a client of the book (`BookNext`), from which three theorems follow
  without a new induction: `PoolKeepsClosedLoans`, `PoolAuctionsRise`, and
  `PoolImplementsPawn`: with its money, prices, debts and pauses the pool is
  still the pawn shop, of the bids it passes to the book.
- `EndedLoansPaid`, `OnlySenderPays`, `DebtsConsented` are the action properties
  of the pool's runs.
- `AuctionedLoansOwe` and `DueLiquidationsAllowed` are what `DueAuctionsSettle`
  checks as ENABLED, in a form a proof can have: `LiquidationSplit` shows that
  `Liquidate` is its guards (`LiquidationAllowed`), a payment sequence that must
  be payable, and assignments, and the theorem says that guards and payability
  hold of a due auction, for whoever has the money.  The burn that refuses 0 and
  the oracle that refuses a price of 0 are why `AuctionsOwe` is needed.
- `RedeemedDebtIsSafe`: with a price that covers what is paid back, a redeemed
  loan owes at most what its collateral safely covers and one unit per ray of
  the index, which the rounding of the partial repayment may leave
  (`PartialRepayment`).
- `RedemptionsRestoreHealth` is the exact form, the property of the run: what is
  redeemed is healthy again.  It holds of behaviours in which the distance between
  the safe debt and the liquidation threshold of an auctioned loan covers that
  remainder (`MarginCoversDust`).  With amounts in wei and a threshold that is
  per cents of a price above the safe debt it does; nothing in the code demands
  it of loans of a few wei.

### The clock (`AuctionClockProofs`)

`OnePauseAdded` proves `OnePauseIsAdded`.  The invariant must also speak of the
states in which the pool is paused, where the pause is not yet in the fields that
prolong an auction, and of pauses that ended before the auction began
(`ClockInv`).

### The debt market (`DebtMarketProofs`, from `MarketAssumption`)

`MarketInv` is `PoolInv` with the book of listings (types, the map finds each
listing, the counters), `ListingsAreCurrent` and `MarketCanRefund`.  A
listing's record must outlive no loan, so each operation of the pool that ends
or sells a loan needs `CancelBook`; and the counters' decrements need the map.

- `MarketKeepsPool`: nothing of the debt market breaks the pool.
- `ListingsCurrent`: what is listed is an open loan with the debt that was listed
  (`ListedLoansOpen` is the loan's half).  It says nothing of the listing's debtor,
  who need not be the borrower (section 5).  `ListedLoansStay`: as long as a
  listing is in force no step gives its NFT another loan, nor that loan another
  borrower or debt.
- `MarketSolvent`, `ListingCounters`, `OnlyOnePays`.
- `MarketKeepsClosedLoans`, `MarketAuctionsRise`, `MarketImplementsPawn`: the
  debt market, too, is a client of the book, with every sale of a debt a transfer
  of the ticket.  `EndedLoansPaidOnMarket`: a loan that ends pays its lenders also
  if its listing is cancelled, and a bid for it refunded, in that transaction.
- `BuyAndClaimPaySellers`: every sale but one by a bid pays the borrower who
  sells, for any terms.  `SellersPaidWithoutMixedTerms` is the property of the
  run, `SellersArePaid`, of markets without Mixed terms (`NoMixedTerms`, which
  holds of the run's terms); with them it is false (`MixedSaleUnpaid`).
- `AuctionedLoansOweOnMarket`, `ListedLiquidationsAllowed`,
  `RedeemedDebtIsSafeOnMarket`: the pool's theorems where a loan may be listed
  with a bid and sold during its auction.  The refund is payable because of
  `MarketCanRefund` (`RefundIsPayable`), the cancellation allowed because of the
  counters (`CancelIsAllowed`).  The theorem's exceptions are the market's pause
  and its authorization.

### The reserve (`ReserveProofs`, from `ReserveAssumption`)

For every unit, curve, reserve factor up to 100 %, finite sets of holders and
loans, amounts and vault prices:

- `ReserveTypes`: the reserve stays in its types.  The content is that nothing
  underflows: an index never reaches 0, so every division is defined; the debt
  never shrinks in an update, so the treasury's share is a natural (`FeeNat`);
  rates are naturals on both legs of the curve (`RatesNat`); burns leave no
  negative balance.
- `SuppliesExact`: each scaled total supply is the sum of the balances, for the
  uToken and the debt token (`TotalMoves`, `TotalMovesTwice` for a mint to the
  treasury and to a user who may be the treasury).
- `DepositsAreKept`: only time changes what a deposit is worth, and it takes
  nothing back.  It follows from `StepKeeps`: a step that updates the reserve
  stores exactly what the view said (`UpdateStoresIncome`, which needs that a
  factor of one ray leaves a number as it is, `RayMulOne`), others leave its
  factors alone, and time only adds (`TickGrows`, from the monotony of rounding,
  `RayMulMonotone`).  Rates recomputed on their own, which break it, are
  excepted.
- The same of a debt does **not** hold in general: an update takes a liquidity
  rate of 0 for the absence of income and does not store the debt's interest.
  That is the case with a reserve factor of 100 % (section 5), or where so little
  is borrowed of so much that the rate rounds to 0.  `LoansEarn` says of a state
  that it is not so.  `DebtsAreKept` proves the property for every step from such
  a state, `EarningDebtsAccrue` proves `DebtsOnlyAccrue` of behaviours that stay
  in them.  The terms of the compounded interest must each grow with time
  (`CompoundedGrows`).
- `RatesFollow`: the rates an operation stores are those of the liquidity it
  leaves in the vault, to within `VaultDust` (`VaultTakesIn`, `VaultPaysOut`).
- `ValueIsKept`, and `EarningOperationsKeepValue` for behaviours in `LoansEarn`:
  no operation, and no sale whatever it brings, costs the lenders more than
  `OperationDust`.  `SurplusBefore` and `SurplusAfter` bring the claims and the
  debts on both sides of an operation to the same two indexes, those its update
  stores; then each operation is a sum of roundings (`ScaledAmount`: an amount
  added to a scaled total moves its value by the amount, to within the dust).
  Without `LoansEarn` an operation can forget interest that the view had shown.

### The deployment (`MarketsProofs`, `DeployScriptProofs`)

`MarketsProofs` proves of the abstract markets that no contract ever stands in
two slots (`NoContractShared`); the invariant adds the shape of the function.

`DeployScriptProofs` proves, for *every* set of tasks, networks, configurations,
any number of starts and of faults (`DeployAssumption` says only that steps
name keys, slots and registers that exist, that no provider was there before,
and that the deployer is an account; three of the theorems need more of the
tasks, which is said with them, and which TLC evaluates for the repository's own
tasks in `Deployments`):

- `DeployTypes`: the machine stays in its types.  Not trivial: `pc` stays in the
  task across throws, and every register holds an address;
- `ProxiesOwned`: what stands in a slot that is only set as a proxy is a proxy
  of this provider, which it may upgrade.  That is not inductive: an upgrade
  writes the implementation of the address it is given, and if that address were
  a provider, its slots would vanish.  `DeployInv` therefore adds that every
  provider, also one that is sent and not yet mined, belongs to the deployer
  (`OwnersOK`), who is an account and stays one (`DeployerOK`); whoever a provider
  may upgrade is then no provider (`UpgradesNoProvider`).  `MineOK`,
  `ProxyCreated`, `ImplementationChanged`, `SetSlotChain` and `CallChain` take
  what changes the chain, `AdvanceOK` and `RaiseOK` what moves the process;
- `ImplementsMarkets`: the machine implements `Markets`.  A provider that is
  mined opens a market (`MineOpens`), a first implementation settles a slot
  (`ProxySettles`), at an address that is free because every address in use is
  on the chain (`NextIsFree`); all else is unseen;
- `MarketsNeverShare`: the two together;
- `EntriesMined`: the database never names a contract that is not on the chain,
  outside the keys that are written early.  `MinedInv` says of registers that
  what they hold is there, except between a creation and the wait for it; so the
  tasks must wait before they use it (`TasksAssumption`) and the configuration and
  the first database must name existing contracts (`AddressesAssumption`);
- `FinishedNamesNewest`: when a migration ends, whatever failed before, the
  database names a provider that is on the chain and the newest of all: one that
  an earlier start made, or lost in a crash, is never taken for it.  The tasks must
  make their provider in one place, in a task that swallows no error, before any
  slot is set, and find it in the database afterwards (`MarketFirstAssumption`).
  `MarketInv` follows a start past that place: before it the start knows no
  provider, between the creation and its entry only the one it has sent, after it
  only the newest (`MarketSent`, `MarketEntered`, `ElsewhereStays`);
- `OldMarketsKeepSlots`: no task sets a slot of a market that has been
  superseded.  This is the half of `SupersededUntouched` about the provider; the
  half about the settings of its pool fails with two faults;
- `NeverLeftPaused`: no migration that ends leaves its pool paused
  (`PoolUnpaused`), though the task that pauses it may be lost half way with its
  error swallowed, and though an earlier start may have died while it was paused.
  A task without a catch must look up the configurator, lift the pause and be
  followed by none that pauses (`PausesAssumption`).  `PauseInv` carries the register
  from the lookup to the call (`LookedUp`, `KeptToCall`, `Lifted`); a pause is only
  ever of a pool whose provider has the configurator (`PausesKnown`), and two
  markets never share a pool (`PoolIsItsOwn`, from `ProxySlotsOwned`), so it is
  this market's pause that is lifted.

### Model-checked only

- ENABLED is out of the prover's reach: `DueAuctionsSettle` and
  `ListedAuctionsSettle` (their guards are proved, see above); so is liveness
  under fairness: `FinishesEventually`.
- `FinishedIsComplete`, `OneMarket` and the settings of `SupersededUntouched` depend
  on what hundreds of statements of concrete tasks are, and the first and the last
  fail with two faults (section 3): they are claims about one fault, which no
  invariant over any number of them can carry.
- `LendersBacked`: interest compounded by the second is truncated in its rate per
  second, that of deposits is not, and the two indexes grow by different rules.
  What one `Tick` may lose is thus not bounded by dust without a relation of
  indexes, rates and utilization that the reserve does not keep as an invariant
  (rates are recomputed alone, curves change).
- `SellersArePaid` and `RedeemRestoresHealth` without a hypothesis: the first is
  false of Mixed listings (section 5), the second needs the margin.
- `DebtNeedsConsent` with the debt market: it is false there by design, as `buy`
  mints the debt to whom the buyer names.
- `DebtsOnlyAccrue` and `OperationsKeepValue` without a hypothesis: true in the
  run, whose reserve factors are at most 30 %, false at 100 %.

Where data had to be followed through a sequence (`BalancesAfterDef`,
`TransfersPay`), well-founded induction on a set of numbers serves
(`WFMin` with `NatLessThanWellFounded`); the induction theorems that take an
operator as a parameter do not.


## 5. Where documentation and code differ

- **Redeem does not return the NFT** (read in the code, no run).
  `Documentation.md:59` says redeeming burns the loan and returns the NFT;
  `redeemLoan` reopens it.
- **Redeem can be refused for every amount** (`RedeemBlocked`).  After a
  recovery of the price, `calculateOptimalMinRedeemValue` reverts on a negative
  difference, though the auction is open and the debt due.
- **Repay can be refused to an open loan** (no run).  A partial
  repayment may round the scaled debt to 0; `validateRepay` then finds no debt.
  The way out is to borrow again first.
- **Only the last pause prolongs an auction** (`AuctionClockPauses`), against
  the comment in `LiquidateLogic.sol:501`.  With at most one pause per auction
  the windows are exact (`OnePauseIsAdded`).
- **A Mixed listing sold by a bid does not pay the seller** (`MixedSaleUnpaid`).
  A bid equal to the price transfers the debt and deletes the listing; the price
  stays in the market, and no function can take it out.  Fixed-price sales and
  claims pay (`MarketTrades`).
- **buy pays the borrower, claim the receiver of the listing** (read in the
  code, no run): `createDebtListing` lets a borrower name another receiver
  (`DebtMarket.sol:234`), which `buy` does not look at.
- **An auction does not cancel the listing** (no run), against
  the comment in `DebtMarket.sol:296`.  A listed loan in auction can be sold;
  nothing gets stuck by it (`MarketSettings`).
- **A fresh mainnet migration cannot finish** (`FreshMainnet`), against
  `unlockd.mainnet.ts:15`.  The deployment of the token implementations is
  commented out in `lend-pool.ts:108`; no task deploys a `DebtToken`, so
  `full:initialize-lend-pool` exits unless an earlier deployment left the entry.
- **A reused NFT oracle does not take the new market's prices** (read in the
  code, no run), against `NFTOracle.sol:90`: the configurator becomes a price
  manager only when the oracle is created (`tasks/full/oracle-nft.ts:70`).
- **The proceeds of a market sale below the debt do not reach the uToken** (no
  run), against `test/reservoir-adapter.spec.ts:730`: the treasury pays what is
  missing and the proceeds stay in the adapter (`BaseAdapter.sol:213`, `adapter`
  in `MarketSale`).
- **Rates can be recomputed on a reserve that is not updated** (no run), against
  `ReserveLogic.sol:157`: `updateReserveInterestRates` is open to everyone, and a
  new curve then counts from the last update on.
- **A raised reserve factor counts for the past** (no run):
  `LendPoolConfigurator.sol:456` does not update the reserve, and what lenders
  and treasury are then due exceeds what borrowers owe.
- **A reserve factor of 100 % stops debts from growing** (no run): the liquidity
  rate is 0, for which `_updateIndexes` takes there to be no income.  Above 100 %,
  which `ReserveConfiguration.sol:199` allows, every operation underflows.  The
  run takes factors of 0 and 30 %.
- **A withdrawal can fail by a wei** (no run), against `LendPool.sol:362`: shares
  are rounded to the nearest, and the uToken passes on the amount asked for, not
  what the vault has paid.

Read in the deployment code, without a run:

- `npm` scripts start migrations with `--verify` (`package.json:29`, `:32`): on
  localhost the check of the network throws (`etherscan-verification.ts:31`); on
  the mainnet `verify:general` reads a `WalletBalanceProvider` nobody deployed,
  and `verify:nfts` throws for a collection without parameters.
- The vault address of goerli and localhost is empty, on which
  `initialize-lend-pool` exits.
- `setPricesInNFTOracleWithSigner` does not await its calls; fork tasks never
  read their flag `testUpgrade`; the fork's interest rate task enters an
  undefined address.
- `getCryptoPunksMarketAddress` falls back on the address of the punk *gateway*.
- The token upgrade of the mainnet migration runs before any reserve is listed:
  it always fails and the error is swallowed.
- An error swallowed by the task that deploys the pool leaves the database
  naming the implementation as `LendPool` (`OneMarket` leaves out the entries of
  tasks that swallowed an error).
- After a start that died once its pool was set, such an error leaves the
  database naming the pool of the *earlier* market: `full:initialize-lend-pool`
  then lists the reserves and collections in that one, and the migration prints
  that it has finished while the market it names has no pool, no loan book and no
  configurator (`FinishedIsComplete` with `MaxFaults` = 2).
- `dev:upgrade-all-debtokens` uses an implementation it never defines.

## 6. Not modelled, and the plan

Next, in this order:

1. `Adapter`: the checks of `BaseAdapter` and `ReservoirAdapter` before a sale,
   on `LendPool`; the settlement is in `Reserve`.
2. `Configurator`: flags of reserves and collections, the `no liquidity` checks.
3. Gateways and `ReserveOracle` as far as they decide anything.

Proofs planned: `LendersBacked`, over a longer time than one step.  It needs a
relation between the two indexes and the rates that no invariant here states
(section 4), and a hypothesis on the reserve factor.

Of the reserve: incentives and allowances of uTokens, the 128-bit limits of the
indexes (exceeding them reverts), losses of the vault, and
`cumulateToLiquidityIndex`, which nothing calls.

Left out for good: views (`misc/`, data providers), tests, event logs, token
metadata, mocks other than WETH9 and UNFT, which the protocol's behaviour rests
on; operator commands (`unlockd-tasks/`, the rest of `tasks/misc`), each one
call of a contract with nothing to keep in step; and of the tasks the minting of
test tokens, the accounts they print and check, and deployments to networks
without a migration.

Of the deployment also left out: that the node can sign for the owner of the proxy
admin, as whom `UpgradeProxy` sends (`full/oracle-reserve.ts:76`; the owner is the
deployer, who has made it); the branch of the collector's upgrade that calls an
`initFunc` (`full/unlockd-collector.ts:73`), which no migration runs; the flags
`skipRegistry` and `skipOracle`, for which the mainnet migration passes `false`
whatever is asked (`unlockd.mainnet.ts:61`, `:85`); and that a transaction nobody
waits for (`SendTx`) may be mined after later ones: in the model it is mined at
once or lost.
