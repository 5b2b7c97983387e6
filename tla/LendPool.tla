------------------------------ MODULE LendPool ------------------------------
(***************************************************************************)
(* The lending pool: contracts/protocol/LendPool.sol with BorrowLogic,     *)
(* LiquidateLogic, ValidationLogic and GenericLogic, its debt token, and   *)
(* the parts of the configurator and the price oracle that change what it  *)
(* decides.  It calls the loan book (LendPoolLoan) and moves WETH (Weth).  *)
(*                                                                         *)
(* One reserve is modelled, WETH, the only one whose uToken the code can   *)
(* serve (LendingLogic).  UTokenAddr stands for the uToken together with   *)
(* the vault it deposits in, whose shares are worth what was paid for      *)
(* them.  The borrow index is the normalized one: every operation calls    *)
(* updateState first, so within a transaction it is the index of that      *)
(* moment.  Tick moves the time and lets the index grow.                   *)
(*                                                                         *)
(* Each operation is atomic (nonReentrant, one transaction).  Operations   *)
(* that cancel a debt listing take the transfers the debt market makes     *)
(* meanwhile as the parameter refund: none here, what cancelDebtListing    *)
(* pays in module DebtMarket.                                              *)
(***************************************************************************)
EXTENDS LendPoolLoan, Weth

CONSTANTS
  LendPoolAddr,    \* the pool itself: it keeps the bids
  UTokenAddr,      \* the uToken and its vault: the lenders' money
  Treasury,        \* RESERVE_TREASURY_ADDRESS, an account
  Rejecting,       \* accounts that revert when they are sent an NFT
  LockeyHolders,   \* accounts that hold a lockey
  LockeyDiscount,  \* LockeyManager: percentage of the price a holder pays
  Lenders,         \* the accounts that deposit and withdraw
  Bids,            \* the bids that are offered
  Allowances,      \* the amounts of a delegation
  Prices,          \* the prices the oracle sets
  NftConfigs,      \* the collateral configurations the configurator sets
  BidDelta,        \* _bidDelta: first bid over debt, a percentage
  AuctionFee,      \* _auctionDurationConfigFee
  SafeHealthFactor,\* _safeHealthFactor, in wads
  Timeframe,       \* _timeframe: how long a valuation is good for borrowing
  ClaimDelay,      \* "20 minutes" between auction end and liquidation
  Switches,        \* what the administrators set their flags to
  InitialWeth,     \* the balances at the start
  InitialConfig,   \* the configuration of an NFT at the start, if any
  InitialPrice,    \* the price of an NFT at the start, or 0
  MaxTime          \* bound on the time

\* A configuration of an NFT as collateral.
NftConfig == [ltv : Nat, liquidationThreshold : Nat, redeemFine : Nat,
              minBidFine : Nat, redeemDuration : Nat, auctionDuration : Nat,
              active : BOOLEAN, frozen : BOOLEAN, configTimestamp : Nat]

ASSUME PoolAssumption ==
  /\ Account \cup {LendPoolAddr, UTokenAddr} \subseteq Holder
  /\ LendPoolAddr \notin Account /\ UTokenAddr \notin Account
  /\ LendPoolAddr # UTokenAddr
  /\ Treasury \in Account
  /\ Rejecting \subseteq Account \ {Treasury}
  /\ LockeyHolders \subseteq Account
  /\ Lenders \subseteq Account
  /\ Bids \subseteq Nat \ {0}
  /\ Allowances \subseteq Nat
  /\ Prices \subseteq Nat \ {0}
  /\ NftConfigs \subseteq NftConfig
  /\ \A c \in NftConfigs : /\ c.ltv < c.liquidationThreshold
                           /\ c.redeemDuration <= c.auctionDuration
  /\ LockeyDiscount \in Nat /\ BidDelta \in Nat /\ AuctionFee \in Nat
  /\ Timeframe \in Nat /\ ClaimDelay \in Nat
  /\ SafeHealthFactor \in Nat \ {0}
  /\ Switches \subseteq BOOLEAN
  /\ InitialWeth \in [Holder -> Nat] /\ InitialWeth[LendPoolAddr] = 0
  /\ InitialConfig \in [NFT -> NftConfig]
  /\ InitialPrice \in [NFT -> Nat]
  /\ MaxTime \in Nat \ {0}

VARIABLES
  debtToken,         \* DebtToken: scaled balances
  borrowAllowances,  \* DebtToken._borrowAllowances: delegator -> delegatee
  borrowIndex,       \* the reserve's normalized variable debt, in rays
  nftPrice,          \* NFTOracle.nftPrices, 0 when there is none
  nftConfig,         \* _nftConfig
  now,               \* block.timestamp
  paused,            \* _paused
  pauseStartTime,    \* _pauseStartTime
  pauseDurationTime  \* _pauseDurationTime

debtVars == <<debtToken, borrowAllowances>>
marketVars == <<borrowIndex, nftPrice, nftConfig, now>>
pauseVars == <<paused, pauseStartTime, pauseDurationTime>>
poolVars == <<loanVars, weth, debtVars, marketVars, pauseVars>>

\* A configuration before _configureNftAsCollateral: the zero bitmap.
NoConfig == [ltv |-> 0, liquidationThreshold |-> 0, redeemFine |-> 0,
             minBidFine |-> 0, redeemDuration |-> 0, auctionDuration |-> 0,
             active |-> FALSE, frozen |-> FALSE, configTimestamp |-> 0]

PoolInit ==
  /\ LoanInit
  /\ weth = InitialWeth
  /\ debtToken = [u \in Account |-> 0]
  /\ borrowAllowances = [u \in Account |-> [v \in Account |-> 0]]
  /\ borrowIndex = RAY
  /\ nftPrice = InitialPrice
  /\ nftConfig = InitialConfig
  /\ now = 1
  /\ paused = FALSE
  /\ pauseStartTime = 0
  /\ pauseDurationTime = 0

-----------------------------------------------------------------------------
(* GenericLogic: what a loan owes and what its collateral is worth.        *)

\* getLoanReserveBorrowAmount
BorrowAmount(id) == RayMul(loans[id].scaledAmount, borrowIndex)

\* getNFTPrice reverts without a price.
PriceKnown(nft) == nftPrice[nft] # 0

\* calculateLoanLiquidatePrice: the debt above which the loan is auctioned.
ThresholdPrice(nft) ==
  PercentMul(nftPrice[nft], nftConfig[nft].liquidationThreshold)

\* calculateHealthFactorFromBalances > 1; without debt it is the maximum.
HealthFactorAboveOne(nft, debt) ==
  debt # 0 => WadDiv(ThresholdPrice(nft), debt) > WAD

\* calculateLoanBidFine
BidFine(id) ==
  LET config == nftConfig[loans[id].nft]
      least == PercentMul(WAD, config.minBidFine)
      fine == PercentMul(BorrowAmount(id), config.redeemFine)
  IN  IF loans[id].bidPrice = 0 THEN 0 ELSE IF fine < least THEN least ELSE fine

\* The part of the debt that the collateral safely covers.
SafeDebt(nft) == WadDiv(ThresholdPrice(nft), SafeHealthFactor)

\* Mutant: measured by the whole price.
MinRedeemOfPrice(nft, debt) == debt - nftPrice[nft]

\* calculateOptimalMinRedeemValue; the subtraction reverts below 0.
MinRedeemValue(nft, debt) ==
  IF nftPrice[nft] < debt - SafeDebt(nft) THEN nftPrice[nft]
                                          ELSE debt - SafeDebt(nft)

\* calculateOptimalMaxRedeemValue
MaxRedeemValue(debt, least) == debt - WadDiv(debt - least, 2 * WAD)

-----------------------------------------------------------------------------
(* The debt token.                                                         *)

\* Mutant: the allowance is not looked at.
MintUnapproved(initiator, onBehalfOf, amount) ==
  LET amountScaled == RayDiv(amount, borrowIndex) IN
  /\ amountScaled # 0
  /\ debtToken' = [debtToken EXCEPT ![onBehalfOf] = @ + amountScaled]
  /\ UNCHANGED borrowAllowances

\* mint: an initiator who borrows for another spends his allowance.
MintDebt(initiator, onBehalfOf, amount) ==
  LET amountScaled == RayDiv(amount, borrowIndex) IN
  /\ amountScaled # 0
  /\ debtToken' = [debtToken EXCEPT ![onBehalfOf] = @ + amountScaled]
  /\ IF initiator = onBehalfOf
     THEN UNCHANGED borrowAllowances
     ELSE /\ borrowAllowances[onBehalfOf][initiator] >= amount
          /\ borrowAllowances' =
               [borrowAllowances EXCEPT ![onBehalfOf][initiator] = @ - amount]

\* Mutant: the amount is not scaled.
BurnUnscaled(user, amount) ==
  /\ debtToken[user] >= amount
  /\ debtToken' = [debtToken EXCEPT ![user] = @ - amount]
  /\ UNCHANGED borrowAllowances

\* Mutant: the last debt cannot be burned.
BurnStrict(user, amount) ==
  LET amountScaled == RayDiv(amount, borrowIndex) IN
  /\ debtToken[user] > amountScaled
  /\ debtToken' = [debtToken EXCEPT ![user] = @ - amountScaled]
  /\ UNCHANGED borrowAllowances

\* burn
BurnDebt(user, amount) ==
  LET amountScaled == RayDiv(amount, borrowIndex) IN
  /\ amountScaled # 0
  /\ debtToken[user] >= amountScaled
  /\ debtToken' = [debtToken EXCEPT ![user] = @ - amountScaled]
  /\ UNCHANGED borrowAllowances

\* approveDelegation
ApproveDelegation(delegator, delegatee, amount) ==
  /\ borrowAllowances' =
       [borrowAllowances EXCEPT ![delegator][delegatee] = amount]
  /\ UNCHANGED <<loanVars, weth, debtToken, marketVars, pauseVars>>

-----------------------------------------------------------------------------
(* Time and the auction's windows.                                         *)

\* Mutant: not when bid and pause have the same timestamp.
ExtraDurationLate(id) ==
  IF pauseDurationTime > 0 /\ loans[id].bidStartTimestamp < pauseStartTime
  THEN pauseDurationTime ELSE 0

\* A pause after the first bid prolongs the auction by its length; only the
\* last pause is remembered.
ExtraDuration(id) ==
  IF pauseDurationTime > 0 /\ loans[id].bidStartTimestamp <= pauseStartTime
  THEN pauseDurationTime ELSE 0

AuctionEnd(id) == loans[id].bidStartTimestamp + ExtraDuration(id)
                    + nftConfig[loans[id].nft].auctionDuration

RedeemEnd(id) == loans[id].bidStartTimestamp + ExtraDuration(id)
                   + nftConfig[loans[id].nft].redeemDuration

-----------------------------------------------------------------------------
(* The operations of the pool.                                             *)

\* Mutant: the wrong field is refunded.
RefundDebt(loan) ==
  IF loan.bidderAddress = NullAddress THEN <<>>
  ELSE <<Transfer(LendPoolAddr, loan.bidderAddress, loan.bidBorrowAmount)>>

\* The best bid goes back to its bidder.
RefundBid(loan) ==
  IF loan.bidderAddress = NullAddress THEN <<>>
  ELSE <<Transfer(LendPoolAddr, loan.bidderAddress, loan.bidPrice)>>

\* safeTransferFrom of the seized NFT, with the treasury as the fallback.
Receiver(account) == IF account \in Rejecting THEN Treasury ELSE account

\* deposit and withdraw, as far as WETH is concerned.  What a lender may
\* withdraw is bounded here only by the liquidity; his uTokens are not kept.
Deposit(lender, amount) ==
  /\ ~paused
  /\ Transfers(<<Transfer(lender, UTokenAddr, amount)>>)
  /\ UNCHANGED <<loanVars, debtVars, marketVars, pauseVars>>

Withdraw(lender, amount) ==
  /\ ~paused
  /\ Transfers(<<Transfer(UTokenAddr, lender, amount)>>)
  /\ UNCHANGED <<loanVars, debtVars, marketVars, pauseVars>>

\* validateBorrow, for a new loan (id = 0) or more debt on an open one.
MayBorrow(nft, id, amount) ==
  LET debt == IF id = 0 THEN 0 ELSE BorrowAmount(id) IN
  /\ nftConfig[nft].active /\ ~nftConfig[nft].frozen
  /\ nftConfig[nft].configTimestamp + Timeframe >= now
  /\ PriceKnown(nft)
  /\ HealthFactorAboveOne(nft, debt)
  /\ nftConfig[nft].ltv # 0
  /\ PercentDiv(debt + amount, nftConfig[nft].ltv) <= nftPrice[nft]

\* borrow
Borrow(initiator, onBehalfOf, nft, amount, refund) ==
  LET id == nftToLoanIds[nft] IN
  /\ ~paused
  /\ MayBorrow(nft, id, amount)
  /\ weth[UTokenAddr] >= amount
  /\ IF id = 0
     THEN CreateLoan(initiator, onBehalfOf, nft, amount, borrowIndex)
     ELSE /\ onBehalfOf = loans[id].borrower
          /\ IncreaseLoan(id, amount, borrowIndex)
  /\ MintDebt(initiator, onBehalfOf, amount)
  /\ Transfers(refund \o <<Transfer(UTokenAddr, initiator, amount)>>)
  /\ UNCHANGED <<marketVars, pauseVars>>

\* repay: anyone may; a full repayment returns the NFT to the borrower.
Repay(initiator, nft, amount, refund) ==
  LET id == nftToLoanIds[nft]
      debt == BorrowAmount(id)
      repayAmount == IF amount < debt THEN amount ELSE debt
  IN
  /\ ~paused
  /\ id # 0
  /\ nftConfig[nft].active
  /\ debt > 0
  /\ IF amount < debt
     THEN DecreaseLoan(id, repayAmount, borrowIndex)
     ELSE /\ loans[id].borrower \notin Rejecting
          /\ RepayLoan(id)
  /\ BurnDebt(loans[id].borrower, repayAmount)
  /\ Transfers(refund \o <<Transfer(initiator, UTokenAddr, repayAmount)>>)
  /\ UNCHANGED <<marketVars, pauseVars>>

\* auction: a first bid on an unhealthy loan, or a higher one in time.  The
\* previous bidder is refunded.
Auction(initiator, onBehalfOf, nft, bidPrice) ==
  LET id == nftToLoanIds[nft]
      loan == loans[id]
      debt == BorrowAmount(id)
  IN
  /\ ~paused
  /\ id # 0
  /\ onBehalfOf # loan.bidderAddress
  /\ nftConfig[nft].active
  /\ PriceKnown(nft)
  /\ IF loan.state = "Active"
     THEN /\ debt > ThresholdPrice(nft)
          /\ bidPrice >= PercentMul(debt, BidDelta)
          /\ bidPrice >= debt + AuctionFee
          /\ OpenAuction(id, onBehalfOf, bidPrice, debt, now)
     ELSE /\ bidPrice >= debt
          /\ now <= AuctionEnd(id)
          /\ bidPrice >= loan.bidPrice + PercentMul(debt, ONE_PERCENT)
          /\ OutbidAuction(id, onBehalfOf, bidPrice, debt)
  /\ Transfers(<<Transfer(initiator, LendPoolAddr, bidPrice)>> \o RefundBid(loan))
  /\ UNCHANGED <<debtVars, marketVars, pauseVars>>

\* What executeRedeem demands of the state and of the amount.
MayRedeem(nft, amount) ==
  LET id == nftToLoanIds[nft]
      debt == BorrowAmount(id)
  IN
  /\ id # 0
  /\ nftConfig[nft].active
  /\ loans[id].state = "Auction"
  /\ now <= RedeemEnd(id)
  /\ PriceKnown(nft)
  /\ debt >= SafeDebt(nft)
  /\ amount >= MinRedeemValue(nft, debt)
  /\ amount <= MaxRedeemValue(debt, MinRedeemValue(nft, debt))

\* redeem: repay part of the debt, refund the bidder, fine the initiator; a
\* caller whose limit is below the fine is refused.
RedeemAuction(initiator, nft, amount, fineLimit, refund) ==
  LET id == nftToLoanIds[nft]
      loan == loans[id]
  IN
  /\ ~paused
  /\ MayRedeem(nft, amount)
  /\ BidFine(id) <= fineLimit
  /\ RedeemLoan(id, amount, borrowIndex)
  /\ BurnDebt(loan.borrower, amount)
  /\ Transfers(refund \o <<Transfer(initiator, UTokenAddr, amount)>>
               \o RefundBid(loan)
               \o <<Transfer(initiator, loan.firstBidderAddress, BidFine(id))>>)
  /\ UNCHANGED <<marketVars, pauseVars>>

\* What is missing from the best bid to repay the debt.
ExtraDebt(loan, debt) == IF loan.bidPrice < debt THEN debt - loan.bidPrice ELSE 0

\* Mutant: the debt is that of the last bid, which is stale.
LiquidationOfBidDebt(initiator, loan, debt) ==
  <<Transfer(LendPoolAddr, UTokenAddr, loan.bidBorrowAmount)>>
  \o TransferAny(LendPoolAddr, loan.borrower, loan.bidPrice - loan.bidBorrowAmount)

\* The best bid, topped up by the initiator when it has fallen short, repays
\* the debt; the rest is the borrower's.
LiquidationTransfers(initiator, loan, debt) ==
  TransferAny(initiator, LendPoolAddr, ExtraDebt(loan, debt))
  \o <<Transfer(LendPoolAddr, UTokenAddr, debt)>>
  \o TransferAny(LendPoolAddr, loan.borrower,
                  IF loan.bidPrice > debt THEN loan.bidPrice - debt ELSE 0)

\* liquidate: after the auction and a delay anyone may have it settled.
Liquidate(initiator, nft, amount, refund) ==
  LET id == nftToLoanIds[nft]
      loan == loans[id]
      debt == BorrowAmount(id)
  IN
  /\ ~paused
  /\ id # 0
  /\ nftConfig[nft].active
  /\ now > AuctionEnd(id) + ClaimDelay
  /\ PriceKnown(nft)
  /\ amount >= ExtraDebt(loan, debt)
  /\ LiquidateLoan(id, debt, Receiver(loan.bidderAddress))
  /\ BurnDebt(loan.borrower, debt)
  /\ Transfers(refund \o LiquidationTransfers(initiator, loan, debt))
  /\ UNCHANGED <<marketVars, pauseVars>>

\* The price of a buyout: the debt or the NFT's price, whichever is higher,
\* or the lockey price when that covers the debt.
BuyoutPrice(onBehalfOf, nft, debt) ==
  LET discounted == PercentMul(nftPrice[nft], LockeyDiscount) IN
  IF discounted > debt /\ onBehalfOf \in LockeyHolders THEN discounted
  ELSE IF debt > nftPrice[nft] THEN debt ELSE nftPrice[nft]

\* The buyer pays the debt; the bidder is refunded and the first bidder fined
\* from the rest, as far as it goes; what then remains is the borrower's.
BuyoutTransfers(initiator, loan, price, debt, bidFine) ==
  LET rest == price - debt
      fine == IF loan.bidderAddress = NullAddress THEN 0
              ELSE IF rest >= bidFine THEN bidFine ELSE rest
  IN
  <<Transfer(initiator, LendPoolAddr, price),
    Transfer(LendPoolAddr, UTokenAddr, debt)>>
  \o RefundBid(loan)
  \o TransferAny(LendPoolAddr, loan.firstBidderAddress, fine)
  \o TransferAny(LendPoolAddr, loan.borrower, rest - fine)

\* buyout: an unhealthy loan, auctioned or not, is paid off and its NFT
\* bought.
Buyout(initiator, onBehalfOf, nft, refund) ==
  LET id == nftToLoanIds[nft]
      loan == loans[id]
      debt == BorrowAmount(id)
  IN
  /\ ~paused
  /\ id # 0
  /\ nftConfig[nft].active
  /\ PriceKnown(nft)
  /\ ~HealthFactorAboveOne(nft, debt)
  /\ BuyoutLoan(id, debt, Receiver(onBehalfOf))
  /\ BurnDebt(loan.borrower, debt)
  /\ Transfers(refund \o BuyoutTransfers(initiator, loan,
                            BuyoutPrice(onBehalfOf, nft, debt), debt, BidFine(id)))
  /\ UNCHANGED <<marketVars, pauseVars>>

-----------------------------------------------------------------------------
(* Administration.                                                         *)

\* setPause: the start of a pause is noted when it begins, its length when it
\* ends.
SetPause(val) ==
  /\ paused # val
  /\ paused' = val
  /\ IF val
     THEN pauseStartTime' = now /\ UNCHANGED pauseDurationTime
     ELSE pauseDurationTime' = now - pauseStartTime /\ UNCHANGED pauseStartTime
  /\ UNCHANGED <<loanVars, weth, debtVars, marketVars>>

\* configureNftsAsCollateral: at any time, also during an auction.
ConfigureNftAsCollateral(nft, config, price) ==
  /\ nftConfig' = [nftConfig EXCEPT ![nft] =
       [config EXCEPT !.active = TRUE, !.frozen = FALSE,
                      !.configTimestamp = now]]
  /\ nftPrice' = [nftPrice EXCEPT ![nft] = price]
  /\ UNCHANGED <<loanVars, weth, debtVars, borrowIndex, now, pauseVars>>

\* setNFTPrice of the oracle.
SetNFTPrice(nft, price) ==
  /\ nftPrice' = [nftPrice EXCEPT ![nft] = price]
  /\ UNCHANGED <<loanVars, weth, debtVars, borrowIndex, nftConfig, now, pauseVars>>

\* configureNftAsAuction: also during the auction whose windows it moves.
ConfigureNftAsAuction(nft, config) ==
  /\ nftConfig' = [nftConfig EXCEPT ![nft] =
       [@ EXCEPT !.redeemDuration = config.redeemDuration,
                 !.auctionDuration = config.auctionDuration,
                 !.redeemFine = config.redeemFine]]
  /\ UNCHANGED <<loanVars, weth, debtVars, borrowIndex, nftPrice, now, pauseVars>>

\* setActiveFlagOnNftByTokenId: at any time, also with a loan open.
SetActiveFlagOnNft(nft, flag) ==
  /\ nftConfig' = [nftConfig EXCEPT ![nft].active = flag]
  /\ UNCHANGED <<loanVars, weth, debtVars, borrowIndex, nftPrice, now, pauseVars>>

\* setFreezeFlagOnNftByTokenId
SetFreezeFlagOnNft(nft, flag) ==
  /\ nftConfig' = [nftConfig EXCEPT ![nft].frozen = flag]
  /\ UNCHANGED <<loanVars, weth, debtVars, borrowIndex, nftPrice, now, pauseVars>>

\* Time passes and interest accrues.
Tick ==
  /\ now < MaxTime
  /\ now' = now + 1
  /\ \E index \in BorrowIndexes :
       index >= borrowIndex /\ borrowIndex' = index
  /\ UNCHANGED <<loanVars, weth, debtVars, nftPrice, nftConfig, pauseVars>>

-----------------------------------------------------------------------------
(* The pool and its users, when no debt is listed for sale.                *)

UserStep == \E initiator \in Account, nft \in NFT :
  \/ \E onBehalfOf \in Account :
       \/ \E amount \in Amounts : Borrow(initiator, onBehalfOf, nft, amount, <<>>)
       \/ \E bid \in Bids : Auction(initiator, onBehalfOf, nft, bid)
       \/ Buyout(initiator, onBehalfOf, nft, <<>>)
  \/ \E amount \in Amounts :
       \/ Repay(initiator, nft, amount, <<>>)
       \/ Liquidate(initiator, nft, amount, <<>>)
       \/ \E fineLimit \in Amounts :
            RedeemAuction(initiator, nft, amount, fineLimit, <<>>)

LenderStep == \E lender \in Lenders, amount \in Amounts :
                Deposit(lender, amount) \/ Withdraw(lender, amount)

Delegate == \E delegator, delegatee \in Account, amount \in Allowances :
              /\ delegator # delegatee
              /\ ApproveDelegation(delegator, delegatee, amount)

Configure == \E nft \in NFT :
  \/ \E config \in NftConfigs :
       \/ \E price \in Prices : ConfigureNftAsCollateral(nft, config, price)
       \/ ConfigureNftAsAuction(nft, config)
  \/ \E flag \in Switches :
       SetActiveFlagOnNft(nft, flag) \/ SetFreezeFlagOnNft(nft, flag)
  \/ \E price \in Prices : SetNFTPrice(nft, price)

Elsewhere ==
  /\ Trade \/ \E c \in Collections : InitNft(c)
  /\ UNCHANGED <<weth, debtVars, marketVars, pauseVars>>

PoolNext ==
  \/ UserStep \/ LenderStep \/ Delegate \/ Configure \/ Elsewhere \/ Tick
  \/ \E val \in Switches : SetPause(val)

PoolSpec == PoolInit /\ [][PoolNext]_poolVars

-----------------------------------------------------------------------------
(* Correctness.                                                            *)

\* The type invariant of what the pool adds to the loan book.
PoolTypeOK ==
  /\ LoanTypeOK
  /\ weth \in [Holder -> Nat]
  /\ debtToken \in [Account -> Nat]
  /\ borrowAllowances \in [Account -> [Account -> Nat]]
  /\ borrowIndex \in Nat \ {0}
  /\ nftPrice \in [NFT -> Nat]
  /\ nftConfig \in [NFT -> NftConfig]
  /\ now \in 1 .. MaxTime
  /\ paused \in BOOLEAN
  /\ pauseStartTime \in Nat
  /\ pauseDurationTime \in Nat

BidPrices == [id \in LoanIds |-> loans[id].bidPrice]
ScaledAmounts == [id \in LoanIds |-> loans[id].scaledAmount]

LoansOf(user) == {id \in LoanIds : Live(id) /\ loans[id].borrower = user}
Auctions == {id \in LoanIds : loans[id].state = "Auction"}

\* The pool's WETH is exactly the best bids of the running auctions: every bid
\* that is outbid, redeemed or bought out has been given back, and every
\* auction that is won was spent, whatever the order of the transfers.
BidsInEscrow == weth[LendPoolAddr] = SumOver(BidPrices, Auctions)

\* The debt tokens of an account are the scaled debts of its open loans: the
\* two are computed apart, by LendPoolLoan and by DebtToken, with roundings in
\* between.  Were it ever less, burn would revert and no loan of the account
\* could be closed.
DebtTokensMatchLoans ==
  \A user \in Account :
    debtToken[user] = SumOver(ScaledAmounts, LoansOf(user))

\* When a loan ends, repaid, liquidated or bought out, the lenders receive
\* exactly its debt at that moment, also when the winning bid has become less
\* than the debt.
EndedLoansArePaid ==
  [][\A id \in LoanIds : Live(id) /\ ~Live(id)' =>
       weth'[UTokenAddr] = weth[UTokenAddr] + BorrowAmount(id)]_poolVars

BestBidsOf(account) == {id \in Auctions : loans[id].bidderAddress = account}

\* What an account owns in WETH, its bids in escrow included.
Wealth(account) == weth[account] + SumOver(BidPrices, BestBidsOf(account))

\* The account was the best bidder and its bid was spent on the NFT, which it
\* has now, or the treasury if it refuses NFTs.
WinsAuction(account, id) ==
  /\ loans[id].state = "Auction"
  /\ loans[id].bidderAddress = account
  /\ loans'[id].state = "Defaulted"
  /\ nftOwner'[loans[id].nft] = Receiver(account)
  /\ Wealth(account)' >= Wealth(account) - loans[id].bidPrice

\* At most one account, the one that sends the transaction, is poorer after
\* it: no operation takes from a borrower, an earlier bidder or the first
\* bidder.  The winner of an auction pays his bid when somebody liquidates.
OnlyOneAccountPays ==
  [][\A a, b \in Account :
       /\ Wealth(a)' < Wealth(a)
       /\ Wealth(b)' < Wealth(b)
       => \/ a = b
          \/ \E id \in LoanIds : WinsAuction(a, id) \/ WinsAuction(b, id)]_poolVars

\* Nobody is made a debtor by others without having delegated to them: debt
\* tokens are minted to who receives the loan, or on a spent allowance.
DebtNeedsConsent ==
  [][\A user \in Account :
       debtToken'[user] > debtToken[user] =>
         \/ weth'[user] > weth[user]
         \/ \E delegatee \in Account :
              /\ weth'[delegatee] > weth[delegatee]
              /\ borrowAllowances[user][delegatee]
                   - borrowAllowances'[user][delegatee]
                   = weth'[delegatee] - weth[delegatee]]_poolVars

\* A liquidation that is due, and for which the initiator has the money, never
\* fails: the escrow, the debt tokens, the counters and the custody of the NFT
\* all allow it, for every bidder and after any history.
DueAuctionsSettle ==
  \A id \in Auctions :
    LET nft == loans[id].nft
        extraDebt == ExtraDebt(loans[id], BorrowAmount(id))
    IN
    /\ ~paused /\ nftConfig[nft].active
    /\ now > AuctionEnd(id) + ClaimDelay
    => \A initiator \in Account : weth[initiator] >= extraDebt =>
         ENABLED Liquidate(initiator, nft, extraDebt, <<>>)

\* redeem gives the loan back with its health restored, so that it cannot be
\* auctioned again at once: unless the collateral is worth less than what a
\* safe loan would have to repay.
RedeemRestoresHealth ==
  [][\A id \in LoanIds :
       LET nft == loans[id].nft IN
       /\ loans[id].state = "Auction"
       /\ loans'[id].state = "Active"
       /\ nftPrice[nft] >= BorrowAmount(id) - SafeDebt(nft)
       => BorrowAmount(id)' <= ThresholdPrice(nft)]_poolVars

-----------------------------------------------------------------------------
(* What the documentation says, and the code does not do.                  *)

\* "In this case, the collateral owner can redeem the NFT loan" (Documentation.md
\* of a loan in auction): in time, and for some amount up to its debt.
AuctionsCanBeRedeemed ==
  \A id \in Auctions :
    LET nft == loans[id].nft IN
    nftConfig[nft].active /\ now <= RedeemEnd(id) =>
      \E amount \in 1 .. BorrowAmount(id) : MayRedeem(nft, amount)

=============================================================================
