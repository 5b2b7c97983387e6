----------------------------- MODULE DebtMarket -----------------------------
(***************************************************************************)
(* The debt market: contracts/protocol/DebtMarket.sol, composed with the   *)
(* pool.  A borrower lists an open loan at a fixed price, in an auction or *)
(* both; the buyer becomes the borrower, with the receipt and the whole    *)
(* debt.  The market keeps the best bids of the listings in WETH.          *)
(*                                                                         *)
(* The pool cancels the listing of a loan it changes, inside the same      *)
(* transaction: borrow (on an open loan), repay, redeem, liquidate and     *)
(* buyout are the pool's actions conjoined with CancelIfListed, and their  *)
(* refund is what that pays.  auction does not cancel.                     *)
(***************************************************************************)
EXTENDS LendPool

CONSTANTS
  DebtMarketAddr,           \* the market itself: it keeps the bids
  Terms,                    \* the terms of sale that are offered
  MaxListings,              \* bound on the number of listings ever created
  LockeyDiscountOnMarket,   \* LockeyManager: percentage a holder pays here
  DeltaBidPercents,         \* what _deltaBidPercent may be set to
  MarketSwitches,           \* what the market's pause may be set to
  PoolAuthorized            \* whether the pool may cancel listings: settings

ASSUME MarketAssumption ==
  /\ DebtMarketAddr \in Holder \ (Account \cup {LendPoolAddr, UTokenAddr})
  /\ \A t \in Terms : /\ t.sellPrice \in Nat
                      /\ t.startBiddingPrice \in Nat
                      /\ t.auctionEndTimestamp \in Nat
  /\ MaxListings \in Nat /\ LockeyDiscountOnMarket \in Nat
  /\ DeltaBidPercents \subseteq 0 .. PERCENTAGE_FACTOR
  /\ MarketSwitches \subseteq BOOLEAN /\ PoolAuthorized \subseteq BOOLEAN

VARIABLES
  debtIdTracker,             \* _debtIdTracker: the id of the last listing
  marketListings,            \* _marketListings
  nftToDebtIds,              \* _nftToDebtIds: NFT -> its listing, or 0
  userTotalDebtByCollection, \* _userTotalDebtByCollection
  totalDebtsByCollection,    \* _totalDebtsByCollection
  deltaBidPercent,           \* _deltaBidPercent
  poolIsAuthorized,          \* isAuthorizedAddress of the pool
  marketPaused               \* _paused

listingVars == <<debtIdTracker, marketListings, nftToDebtIds,
                 userTotalDebtByCollection, totalDebtsByCollection>>
settingVars == <<deltaBidPercent, poolIsAuthorized, marketPaused>>
dealVars == <<poolVars, listingVars, settingVars>>

DebtIds == 1 .. MaxListings

DebtMarketType == {"FixedPrice", "Auction", "Mixed"}
DebtMarketState == {"New", "Active", "Sold", "Canceled"}

\* The zero value of the mapping _marketListings.
NoListing == [nft |-> NullAddress, debtor |-> NullAddress,
              sellType |-> "FixedPrice", state |-> "New", sellPrice |-> 0,
              scaledAmount |-> 0, bidderAddress |-> NullAddress, bidPrice |-> 0,
              auctionEndTimestamp |-> 0, startBiddingPrice |-> 0]

MarketInit ==
  /\ PoolInit
  /\ debtIdTracker = 0
  /\ marketListings = [d \in DebtIds |-> NoListing]
  /\ nftToDebtIds = [n \in NFT |-> 0]
  /\ userTotalDebtByCollection = [u \in Account |-> [c \in Collections |-> 0]]
  /\ totalDebtsByCollection = [c \in Collections |-> 0]
  /\ deltaBidPercent = ONE_PERCENT
  /\ poolIsAuthorized \in PoolAuthorized
  /\ marketPaused = FALSE

ListingOf(nft) == marketListings[nftToDebtIds[nft]]

-----------------------------------------------------------------------------
(* Listing and cancelling.                                                 *)

\* debtShouldExistGuard
DebtShouldExist(nft) ==
  /\ nftToDebtIds[nft] # 0
  /\ userTotalDebtByCollection[ListingOf(nft).debtor][Collection[nft]] >= 1
  /\ totalDebtsByCollection[Collection[nft]] >= 1

\* createDebtListing, of the caller's own loan whatever its state; debtor
\* need not be the caller.
CreateDebtListing(caller, nft, terms, debtor) ==
  LET id == nftToLoanIds[nft]
      isValidAuctionType == terms.startBiddingPrice # 0
                              /\ terms.auctionEndTimestamp # 0
      isValidFixedPriceType == terms.sellPrice # 0
      listing == [NoListing EXCEPT
        !.nft = nft, !.debtor = debtor, !.sellPrice = terms.sellPrice,
        !.scaledAmount = loans[id].scaledAmount,
        !.auctionEndTimestamp = terms.auctionEndTimestamp,
        !.startBiddingPrice = terms.startBiddingPrice,
        !.sellType = IF ~isValidAuctionType THEN "FixedPrice"
                     ELSE IF isValidFixedPriceType THEN "Mixed" ELSE "Auction"]
  IN
  /\ ~marketPaused
  /\ nftToDebtIds[nft] = 0
  /\ id # 0
  /\ loans[id].borrower = caller
  /\ isValidFixedPriceType \/ isValidAuctionType
  /\ isValidAuctionType => terms.auctionEndTimestamp >= now
  /\ debtIdTracker < MaxListings
  /\ debtIdTracker' = debtIdTracker + 1
  /\ marketListings' = [marketListings EXCEPT ![debtIdTracker + 1] = listing]
  /\ nftToDebtIds' = [nftToDebtIds EXCEPT ![nft] = debtIdTracker + 1]
  /\ userTotalDebtByCollection' =
       [userTotalDebtByCollection EXCEPT ![debtor][Collection[nft]] = @ + 1]
  /\ totalDebtsByCollection' =
       [totalDebtsByCollection EXCEPT ![Collection[nft]] = @ + 1]
  /\ UNCHANGED <<poolVars, settingVars>>

\* Mutant: the counter of the loan's borrower, not of the listing's debtor.
DeleteOfBorrower(nft, final) ==
  LET borrower == loans[nftToLoanIds[nft]].borrower
      c == Collection[nft]
  IN
  /\ marketListings' = [marketListings EXCEPT ![nftToDebtIds[nft]] = final]
  /\ userTotalDebtByCollection' =
       [userTotalDebtByCollection EXCEPT ![borrower][c] = @ - 1]
  /\ totalDebtsByCollection' = [totalDebtsByCollection EXCEPT ![c] = @ - 1]
  /\ nftToDebtIds' = [nftToDebtIds EXCEPT ![nft] = 0]
  /\ UNCHANGED debtIdTracker

\* _deleteDebtOfferListing; the record stays, as final.
DeleteListing(nft, final) ==
  LET c == Collection[nft] IN
  /\ marketListings' = [marketListings EXCEPT ![nftToDebtIds[nft]] = final]
  /\ userTotalDebtByCollection' =
       [userTotalDebtByCollection EXCEPT ![ListingOf(nft).debtor][c] = @ - 1]
  /\ totalDebtsByCollection' = [totalDebtsByCollection EXCEPT ![c] = @ - 1]
  /\ nftToDebtIds' = [nftToDebtIds EXCEPT ![nft] = 0]
  /\ UNCHANGED debtIdTracker

\* The market's best bid goes back to its bidder.
ReturnBid(listing) ==
  IF listing.bidderAddress = NullAddress THEN <<>>
  ELSE <<Transfer(DebtMarketAddr, listing.bidderAddress, listing.bidPrice)>>

\* Mutant: a listing with bids cannot be cancelled.
CancelListingWithoutBids(nft) ==
  /\ ~marketPaused
  /\ DebtShouldExist(nft)
  /\ ListingOf(nft).state = "New"
  /\ DeleteListing(nft, [ListingOf(nft) EXCEPT !.state = "Canceled"])

\* cancelDebtListing but for its transfer, which the caller makes.
CancelListing(nft) ==
  /\ ~marketPaused
  /\ DebtShouldExist(nft)
  /\ ListingOf(nft).state # "Sold"
  /\ DeleteListing(nft, [ListingOf(nft) EXCEPT !.state = "Canceled"])

\* cancelDebtListing by the seller.
CancelDebtListing(caller, nft) ==
  /\ nftToDebtIds[nft] # 0
  /\ ListingOf(nft).debtor = caller
  /\ CancelListing(nft)
  /\ Transfers(ReturnBid(ListingOf(nft)))
  /\ UNCHANGED <<loanVars, debtVars, marketVars, pauseVars, settingVars>>

-----------------------------------------------------------------------------
(* Selling.                                                                *)

\* Mutant: the seller keeps the debt tokens.
TransferDebtUnburned(nft, buyer) ==
  LET id == nftToLoanIds[nft]
      amountScaled == RayDiv(BorrowAmount(id), borrowIndex)
  IN
  /\ id # 0
  /\ ListingOf(nft).scaledAmount = loans[id].scaledAmount
  /\ debtToken' = [debtToken EXCEPT ![buyer] = @ + amountScaled]
  /\ ReMintUNFT(nft, loans[id].borrower, buyer)
  /\ UNCHANGED <<borrowAllowances, marketVars, pauseVars>>

\* _transferDebt, but for the listing: debt token, receipt and loan go to the
\* buyer, if the debt is still the one that was listed.
TransferDebt(nft, buyer) ==
  LET id == nftToLoanIds[nft]
      seller == loans[id].borrower
      amountScaled == RayDiv(BorrowAmount(id), borrowIndex)
  IN
  /\ id # 0
  /\ ListingOf(nft).scaledAmount = loans[id].scaledAmount
  /\ amountScaled # 0
  /\ debtToken[seller] >= amountScaled
  /\ debtToken' = [[debtToken EXCEPT ![seller] = @ - amountScaled]
                               EXCEPT ![buyer] = @ + amountScaled]
  /\ ReMintUNFT(nft, seller, buyer)
  /\ UNCHANGED <<borrowAllowances, marketVars, pauseVars>>

\* _priceForLockeyHolders
PriceFor(account, price) ==
  IF account \in LockeyHolders THEN PercentMul(price, LockeyDiscountOnMarket)
                               ELSE price

\* Mutant: the price is paid into the market.
BuyIntoMarket(caller, nft, onBehalfOf) ==
  <<Transfer(caller, DebtMarketAddr,
             PriceFor(onBehalfOf, ListingOf(nft).sellPrice))>>
  \o ReturnBid(ListingOf(nft))

\* The price goes to the borrower, the best bid back to the bidder.
BuyTransfers(caller, nft, onBehalfOf) ==
  <<Transfer(caller, loans[nftToLoanIds[nft]].borrower,
             PriceFor(onBehalfOf, ListingOf(nft).sellPrice))>>
  \o ReturnBid(ListingOf(nft))

\* buy
Buy(caller, nft, onBehalfOf) ==
  LET listing == ListingOf(nft) IN
  /\ ~marketPaused
  /\ DebtShouldExist(nft)
  /\ listing.sellType \in {"Mixed", "FixedPrice"}
  /\ TransferDebt(nft, onBehalfOf)
  /\ DeleteListing(nft, [listing EXCEPT !.state = "Sold"])
  /\ Transfers(BuyTransfers(caller, nft, onBehalfOf))
  /\ UNCHANGED settingVars

\* What bid demands in any case.
MayBidDebt(nft, onBehalfOf, bidPrice) ==
  LET listing == ListingOf(nft) IN
  /\ ~marketPaused
  /\ DebtShouldExist(nft)
  /\ listing.sellType \in {"Auction", "Mixed"}
  /\ bidPrice >= listing.startBiddingPrice
  /\ listing.sellType = "Mixed"
       => bidPrice <= PriceFor(onBehalfOf, listing.sellPrice)
  /\ now <= listing.auctionEndTimestamp

MeetsSellPrice(nft, onBehalfOf, bidPrice) ==
  /\ ListingOf(nft).sellType = "Mixed"
  /\ bidPrice = PriceFor(onBehalfOf, ListingOf(nft).sellPrice)

\* Mutant: the previous bidder gets the new bid.
TakeBidReturnsIt(caller, nft, bidPrice) ==
  Transfers(<<Transfer(caller, DebtMarketAddr, bidPrice)>>
            \o ReturnBid([ListingOf(nft) EXCEPT !.bidPrice = bidPrice]))

\* Both kinds of bids: the bid is paid into the market, the previous bidder
\* gets his back.
TakeBid(caller, nft, bidPrice) ==
  Transfers(<<Transfer(caller, DebtMarketAddr, bidPrice)>>
            \o ReturnBid(ListingOf(nft)))

\* bid below the sell price: the new best bid.
BidDebt(caller, nft, onBehalfOf, bidPrice) ==
  LET best == ListingOf(nft).bidPrice IN
  /\ MayBidDebt(nft, onBehalfOf, bidPrice)
  /\ ~MeetsSellPrice(nft, onBehalfOf, bidPrice)
  /\ bidPrice > best + PercentMul(best, deltaBidPercent)
  /\ marketListings' = [marketListings EXCEPT ![nftToDebtIds[nft]] =
       [@ EXCEPT !.state = "Active", !.bidderAddress = onBehalfOf,
                 !.bidPrice = bidPrice]]
  /\ TakeBid(caller, nft, bidPrice)
  /\ UNCHANGED <<loanVars, debtVars, marketVars, pauseVars, debtIdTracker,
                 nftToDebtIds, userTotalDebtByCollection,
                 totalDebtsByCollection, settingVars>>

\* bid at the sell price: the debt is sold at once.
BidSellPrice(caller, nft, onBehalfOf, bidPrice) ==
  /\ MayBidDebt(nft, onBehalfOf, bidPrice)
  /\ MeetsSellPrice(nft, onBehalfOf, bidPrice)
  /\ TransferDebt(nft, onBehalfOf)
  /\ DeleteListing(nft, [ListingOf(nft) EXCEPT !.state = "Sold",
                           !.bidderAddress = onBehalfOf, !.bidPrice = bidPrice])
  /\ TakeBid(caller, nft, bidPrice)
  /\ UNCHANGED settingVars

\* claim: after the end anyone may have the debt given to the best bidder and
\* the bid to the debtor the listing names.  Without a bidder the mint reverts.
Claim(nft) ==
  LET listing == ListingOf(nft) IN
  /\ ~marketPaused
  /\ DebtShouldExist(nft)
  /\ listing.sellType \in {"Auction", "Mixed"}
  /\ listing.bidderAddress # NullAddress
  /\ now > listing.auctionEndTimestamp
  /\ TransferDebt(nft, listing.bidderAddress)
  /\ DeleteListing(nft, [listing EXCEPT !.state = "Sold"])
  /\ Transfers(<<Transfer(DebtMarketAddr, listing.debtor, listing.bidPrice)>>)
  /\ UNCHANGED settingVars

-----------------------------------------------------------------------------
(* The pool's operations, with the listing they cancel.                    *)

\* Mutant: the listing is left as it is.
KeepListing(nft) == UNCHANGED <<listingVars, settingVars>>

\* The pool cancels the listing of a loan, if there is one; when the market
\* is paused, or does not know the pool, the pool's operation reverts.
CancelIfListed(nft) ==
  /\ nftToDebtIds[nft] # 0 => poolIsAuthorized
  /\ IF nftToDebtIds[nft] = 0 THEN UNCHANGED listingVars ELSE CancelListing(nft)
  /\ UNCHANGED settingVars

\* Mutant: the best bid stays in the market.
RefundNothing(nft) == <<>>

\* What the cancellation pays within the pool's operation.
RefundIfListed(nft) ==
  IF nftToDebtIds[nft] = 0 THEN <<>> ELSE ReturnBid(ListingOf(nft))

ListingsStay == UNCHANGED <<listingVars, settingVars>>

\* borrow: only more debt on an open loan cancels.
PoolBorrow(initiator, onBehalfOf, nft, amount) ==
  IF nftToLoanIds[nft] = 0
  THEN Borrow(initiator, onBehalfOf, nft, amount, <<>>) /\ ListingsStay
  ELSE /\ Borrow(initiator, onBehalfOf, nft, amount, RefundIfListed(nft))
       /\ CancelIfListed(nft)

PoolRepay(initiator, nft, amount) ==
  /\ Repay(initiator, nft, amount, RefundIfListed(nft))
  /\ CancelIfListed(nft)

PoolRedeem(initiator, nft, amount, fineLimit) ==
  /\ RedeemAuction(initiator, nft, amount, fineLimit, RefundIfListed(nft))
  /\ CancelIfListed(nft)

PoolLiquidate(initiator, nft, amount) ==
  /\ Liquidate(initiator, nft, amount, RefundIfListed(nft))
  /\ CancelIfListed(nft)

PoolBuyout(initiator, onBehalfOf, nft) ==
  /\ Buyout(initiator, onBehalfOf, nft, RefundIfListed(nft))
  /\ CancelIfListed(nft)

PoolAuction(initiator, onBehalfOf, nft, bidPrice) ==
  Auction(initiator, onBehalfOf, nft, bidPrice) /\ ListingsStay

-----------------------------------------------------------------------------
(* Settings: setPause, setDeltaBidPercent, setAuthorizedAddress.           *)

SetMarketPause(val) ==
  /\ marketPaused # val
  /\ marketPaused' = val
  /\ UNCHANGED <<poolVars, listingVars, deltaBidPercent, poolIsAuthorized>>

SetDeltaBidPercent(value) ==
  /\ deltaBidPercent' = value
  /\ UNCHANGED <<poolVars, listingVars, poolIsAuthorized, marketPaused>>

SetAuthorizedPool(val) ==
  /\ poolIsAuthorized' = val
  /\ UNCHANGED <<poolVars, listingVars, deltaBidPercent, marketPaused>>

-----------------------------------------------------------------------------
(* The market, the pool and their users.                                   *)

SellerStep == \E caller \in Account, nft \in NFT :
  \/ \E terms \in Terms, debtor \in Account :
       CreateDebtListing(caller, nft, terms, debtor)
  \/ CancelDebtListing(caller, nft)

BuyerStep == \E caller, onBehalfOf \in Account, nft \in NFT :
  \/ Buy(caller, nft, onBehalfOf)
  \/ \E bid \in Bids : \/ BidDebt(caller, nft, onBehalfOf, bid)
                      \/ BidSellPrice(caller, nft, onBehalfOf, bid)

ClaimStep == \E nft \in NFT : Claim(nft)

PoolUserStep == \E initiator \in Account, nft \in NFT :
  \/ \E onBehalfOf \in Account :
       \/ \E amount \in Amounts : PoolBorrow(initiator, onBehalfOf, nft, amount)
       \/ \E bid \in Bids : PoolAuction(initiator, onBehalfOf, nft, bid)
       \/ PoolBuyout(initiator, onBehalfOf, nft)
  \/ \E amount \in Amounts :
       \/ PoolRepay(initiator, nft, amount)
       \/ PoolLiquidate(initiator, nft, amount)
       \/ \E fineLimit \in Amounts :
            PoolRedeem(initiator, nft, amount, fineLimit)

OtherPoolStep ==
  /\ \/ LenderStep \/ Delegate \/ Configure \/ Elsewhere \/ Tick
     \/ \E val \in Switches : SetPause(val)
  /\ ListingsStay

Settings ==
  \/ \E val \in MarketSwitches : SetMarketPause(val)
  \/ \E val \in PoolAuthorized : SetAuthorizedPool(val)
  \/ \E value \in DeltaBidPercents : SetDeltaBidPercent(value)

MarketNext == SellerStep \/ BuyerStep \/ ClaimStep \/ PoolUserStep
                \/ OtherPoolStep \/ Settings

MarketSpec == MarketInit /\ [][MarketNext]_dealVars

-----------------------------------------------------------------------------
(* Correctness.                                                            *)

ListingBids == [d \in DebtIds |-> marketListings[d].bidPrice]
OpenListings == {d \in DebtIds : \E nft \in NFT : nftToDebtIds[nft] = d}

\* A listing never outlives its loan nor the debt it was made for: what is
\* listed is an open loan with exactly the scaled debt of the listing, so a
\* sale never fails for a debt that has diverged.  Each of borrow, repay,
\* redeem, liquidate and buyout must have cancelled to keep it.
ListingsAreCurrent ==
  \A nft \in NFT : nftToDebtIds[nft] # 0 =>
    LET id == nftToLoanIds[nft] IN
    /\ id # 0
    /\ ListingOf(nft).nft = nft
    /\ ListingOf(nft).state \in {"New", "Active"}
    /\ ListingOf(nft).scaledAmount = loans[id].scaledAmount

\* The market's WETH covers the best bids of all open listings, so that every
\* cancellation, higher bid and sale can pay them back.
MarketCanRefund ==
  weth[DebtMarketAddr] >= SumOver(ListingBids, OpenListings)

\* The counters count the open listings: the guard that reads them never
\* blocks a cancellation, and with it a repayment or a liquidation.
ListingCountersExact ==
  \A c \in Collections :
    LET listed == {nft \in NFT : Collection[nft] = c /\ nftToDebtIds[nft] # 0} IN
    /\ totalDebtsByCollection[c] = Cardinality(listed)
    /\ \A user \in Account :
         userTotalDebtByCollection[user][c] =
           Cardinality({nft \in listed : ListingOf(nft).debtor = user})

\* A liquidation that is due succeeds also when the debt is listed, with bids
\* on it or not: unless the market is paused or does not know the pool.
ListedAuctionsSettle ==
  \A id \in Auctions :
    LET nft == loans[id].nft
        extraDebt == ExtraDebt(loans[id], BorrowAmount(id))
    IN
    /\ ~paused /\ nftConfig[nft].active
    /\ now > AuctionEnd(id) + ClaimDelay
    /\ nftToDebtIds[nft] # 0 => ~marketPaused /\ poolIsAuthorized
    => \A initiator \in Account : weth[initiator] >= extraDebt =>
         ENABLED PoolLiquidate(initiator, nft, extraDebt)

\* What an account owns in WETH, its bids in the pool and the market included.
TotalWealth(account) ==
  Wealth(account)
    + SumOver(ListingBids, {d \in OpenListings :
                              marketListings[d].bidderAddress = account})

\* The debt of nft is sold, and another account than receiver pays for it.
SoldFor(receiver, nft) ==
  /\ nftToDebtIds[nft] # 0
  /\ marketListings'[nftToDebtIds[nft]].state = "Sold"
  /\ \E payer \in Account \ {receiver} : TotalWealth(payer)' < TotalWealth(payer)

\* A borrower who sells his debt for himself is paid when it is sold: "the ETH
\* asked will go to the user directly" (createDebtListing).  There are three
\* ways to sell: buy, claim, and a bid that meets the sell price.
SellersArePaid ==
  [][\A nft \in NFT, seller \in Account :
       /\ SoldFor(seller, nft)
       /\ seller = ListingOf(nft).debtor
       /\ seller = loans[nftToLoanIds[nft]].borrower
       => TotalWealth(seller)' > TotalWealth(seller)]_dealVars

\* As OnlyOneAccountPays, with the market: no operation of either makes two
\* accounts poorer.  A sale charges the buyer alone, or by a claim the best
\* bidder, and a pool operation that cancels a listing costs no bidder a thing.
OnlyOnePaysOnMarket ==
  [][\A a, b \in Account :
       /\ TotalWealth(a)' < TotalWealth(a)
       /\ TotalWealth(b)' < TotalWealth(b)
       => \/ a = b
          \/ \E id \in LoanIds : WinsAuction(a, id) \/ WinsAuction(b, id)]_dealVars

=============================================================================
