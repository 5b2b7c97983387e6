---------------------------- MODULE LendPoolLoan ----------------------------
(***************************************************************************)
(* The loan book: contracts/protocol/LendPoolLoan.sol, with the UNFT       *)
(* contract (contracts/mock/UNFT/UNFT.sol) that holds the collateral.      *)
(*                                                                         *)
(* A loan is opened against one NFT.  The NFT moves from its owner through *)
(* LendPool and LendPoolLoan into the UNFT contract, which issues the      *)
(* borrower a non-transferable receipt (the uNFT); when the loan ends the  *)
(* receipt is burned and the NFT moves back out.  A transaction is atomic, *)
(* so an action is the whole external call, and the intermediate owners    *)
(* (LendPool, LendPoolLoan) never hold an NFT between two transactions:    *)
(* the parameter initiator or to of an action is the end of that leg.      *)
(*                                                                         *)
(* The operations are parameterised actions over the variables of this     *)
(* module.  LendPool, DebtMarket and the adapters conjoin them with their  *)
(* own state; Next, here, is their most general client: it calls every     *)
(* operation the access modifiers let them call, in every order, with      *)
(* every amount.  The callers always pass the loan id they have just read  *)
(* from _nftToLoanIds (getCollateralLoanId) and refuse 0; so does Next.    *)
(***************************************************************************)
EXTENDS UnlockdMath, FiniteSets

CONSTANTS
  Account,        \* the addresses outside the protocol that hold or borrow
  NFT,            \* the collateral tokens: <<collection, token id>> pairs
  Collection,     \* the contract address of an NFT, as a function of the NFT
  Adapter,        \* the external-market adapters
  UNFTVault,      \* the address of the UNFT contract
  NullAddress,    \* address(0)
  Amounts,        \* the token amounts the operations are called with
  BorrowIndexes,  \* the variable borrow indexes of the reserve, in rays
  Timestamps,     \* the block timestamps
  MaxLoans,       \* bound on the number of loans ever created
  MaxScaledAmount \* bound on the scaled amount of a loan

ASSUME LoanAssumption ==
  /\ Collection \in [NFT -> {Collection[n] : n \in NFT}]
  /\ UNFTVault \notin Account
  /\ NullAddress \notin Account \cup {UNFTVault}
  /\ Amounts \subseteq Nat \ {0}
  /\ BorrowIndexes \subseteq Nat \ {0}
  /\ Timestamps \subseteq Nat \ {0}
  /\ MaxLoans \in Nat
  /\ MaxScaledAmount \in Nat

VARIABLES
  loans,              \* _loans: loan id -> LoanData
  loanIdTracker,      \* _loanIdTracker: the id the next loan gets
  nftToLoanIds,       \* _nftToLoanIds: NFT -> id of its open loan, or 0
  nftTotalCollateral, \* _nftTotalCollateral: collection -> open loans
  userNftCollateral,  \* _userNftCollateral: borrower -> collection -> loans
  marketAdapters,     \* _marketAdapters
  approvedNfts,       \* collections whose UNFT contract may pull the NFTs
  nftOwner,           \* ownerOf in the NFT's own contract
  unftOwner           \* ownerOf in the UNFT contract

bookVars == <<loans, loanIdTracker, nftToLoanIds, nftTotalCollateral,
              userNftCollateral>>
custodyVars == <<nftOwner, unftOwner>>
loanVars == <<bookVars, marketAdapters, approvedNfts, custodyVars>>

Collections == {Collection[n] : n \in NFT}
LoanIds == 1 .. MaxLoans

LoanState == {"None", "Active", "Auction", "Repaid", "Defaulted"}
LiveStates == {"Active", "Auction"}

LoanData == [state : LoanState,
             borrower : Account \cup {NullAddress},
             nft : NFT \cup {NullAddress},
             scaledAmount : 0 .. MaxScaledAmount,
             bidStartTimestamp : Nat,
             bidderAddress : Account \cup {NullAddress},
             bidPrice : Nat,
             bidBorrowAmount : Nat,
             firstBidderAddress : Account \cup {NullAddress}]

\* The zero value of the mapping _loans.
NoLoan == [state |-> "None", borrower |-> NullAddress, nft |-> NullAddress,
           scaledAmount |-> 0, bidStartTimestamp |-> 0,
           bidderAddress |-> NullAddress, bidPrice |-> 0,
           bidBorrowAmount |-> 0, firstBidderAddress |-> NullAddress]

Live(id) == loans[id].state \in LiveStates

-----------------------------------------------------------------------------
(* initialize, initNft and updateMarketAdapters.                           *)

LoanInit ==
  /\ loans = [id \in LoanIds |-> NoLoan]
  /\ loanIdTracker = 1
  /\ nftToLoanIds = [n \in NFT |-> 0]
  /\ nftTotalCollateral = [c \in Collections |-> 0]
  /\ userNftCollateral = [u \in Account |-> [c \in Collections |-> 0]]
  /\ marketAdapters = {}
  /\ approvedNfts = {}
  /\ nftOwner \in [NFT -> Account]
  /\ unftOwner = [n \in NFT |-> NullAddress]

\* LendPool initialises a collection: its UNFT contract may take the NFTs.
InitNft(collection) ==
  /\ approvedNfts' = approvedNfts \cup {collection}
  /\ UNCHANGED <<bookVars, marketAdapters, custodyVars>>

\* The pool admin registers (flag) or removes a set of adapters.
UpdateMarketAdapters(adapters, flag) ==
  /\ marketAdapters' = IF flag THEN marketAdapters \cup adapters
                               ELSE marketAdapters \ adapters
  /\ UNCHANGED <<bookVars, approvedNfts, custodyVars>>

-----------------------------------------------------------------------------
(* The UNFT contract, as LendPoolLoan calls it.                            *)

\* Mutant: the receipt goes to who sent the NFT.
MintToSender(from, to, nft) ==
  /\ unftOwner[nft] = NullAddress
  /\ nftOwner[nft] = from
  /\ Collection[nft] \in approvedNfts
  /\ nftOwner' = [nftOwner EXCEPT ![nft] = UNFTVault]
  /\ unftOwner' = [unftOwner EXCEPT ![nft] = from]

\* mint: take the NFT into the vault and issue the receipt.
MintUNFT(from, to, nft) ==
  /\ unftOwner[nft] = NullAddress
  /\ nftOwner[nft] = from
  /\ Collection[nft] \in approvedNfts
  /\ nftOwner' = [nftOwner EXCEPT ![nft] = UNFTVault]
  /\ unftOwner' = [unftOwner EXCEPT ![nft] = to]

\* burn: destroy the receipt and release the NFT.
BurnUNFT(to, nft) ==
  /\ unftOwner[nft] # NullAddress
  /\ nftOwner[nft] = UNFTVault
  /\ nftOwner' = [nftOwner EXCEPT ![nft] = to]
  /\ unftOwner' = [unftOwner EXCEPT ![nft] = NullAddress]

-----------------------------------------------------------------------------
(* The operations of LendPoolLoan.                                         *)

\* Mutant: the tracker is not incremented.
CreateReusesId(initiator, onBehalfOf, nft, amount, borrowIndex) ==
  /\ nftToLoanIds[nft] = 0
  /\ RayDiv(amount, borrowIndex) <= MaxScaledAmount
  /\ loans' = [loans EXCEPT ![loanIdTracker] =
                 [NoLoan EXCEPT !.state = "Active", !.borrower = onBehalfOf,
                                !.nft = nft,
                                !.scaledAmount = RayDiv(amount, borrowIndex)]]
  /\ nftToLoanIds' = [nftToLoanIds EXCEPT ![nft] = loanIdTracker]
  /\ userNftCollateral' =
       [userNftCollateral EXCEPT ![onBehalfOf][Collection[nft]] = @ + 1]
  /\ nftTotalCollateral' =
       [nftTotalCollateral EXCEPT ![Collection[nft]] = @ + 1]
  /\ MintUNFT(initiator, onBehalfOf, nft)
  /\ UNCHANGED <<loanIdTracker, marketAdapters, approvedNfts>>

\* createLoan.  The scaled amount is not checked against 0.
CreateLoan(initiator, onBehalfOf, nft, amount, borrowIndex) ==
  /\ loanIdTracker \in LoanIds
  /\ nftToLoanIds[nft] = 0
  /\ RayDiv(amount, borrowIndex) <= MaxScaledAmount
  /\ loans' = [loans EXCEPT ![loanIdTracker] =
                 [NoLoan EXCEPT !.state = "Active",
                                !.borrower = onBehalfOf,
                                !.nft = nft,
                                !.scaledAmount = RayDiv(amount, borrowIndex)]]
  /\ loanIdTracker' = loanIdTracker + 1
  /\ nftToLoanIds' = [nftToLoanIds EXCEPT ![nft] = loanIdTracker]
  /\ userNftCollateral' =
       [userNftCollateral EXCEPT ![onBehalfOf][Collection[nft]] = @ + 1]
  /\ nftTotalCollateral' =
       [nftTotalCollateral EXCEPT ![Collection[nft]] = @ + 1]
  /\ MintUNFT(initiator, onBehalfOf, nft)
  /\ UNCHANGED <<marketAdapters, approvedNfts>>

\* updateLoan with amountAdded > 0: borrow more against an open loan.
IncreaseLoan(id, amountAdded, borrowIndex) ==
  LET amountScaled == RayDiv(amountAdded, borrowIndex) IN
  /\ loans[id].state = "Active"
  /\ amountScaled # 0
  /\ loans[id].scaledAmount + amountScaled <= MaxScaledAmount
  /\ loans' = [loans EXCEPT ![id].scaledAmount = @ + amountScaled]
  /\ UNCHANGED <<loanIdTracker, nftToLoanIds, nftTotalCollateral,
                 userNftCollateral, marketAdapters, approvedNfts, custodyVars>>

\* Mutant: no LPL_AMOUNT_OVERFLOW.
DecreaseUnchecked(id, amountTaken, borrowIndex) ==
  LET amountScaled == RayDiv(amountTaken, borrowIndex) IN
  /\ loans[id].state = "Active"
  /\ amountScaled # 0
  /\ loans' = [loans EXCEPT ![id].scaledAmount = @ - amountScaled]
  /\ UNCHANGED <<loanIdTracker, nftToLoanIds, nftTotalCollateral,
                 userNftCollateral, marketAdapters, approvedNfts, custodyVars>>

\* updateLoan with amountTaken > 0: repay part of an open loan.
DecreaseLoan(id, amountTaken, borrowIndex) ==
  LET amountScaled == RayDiv(amountTaken, borrowIndex) IN
  /\ loans[id].state = "Active"
  /\ amountScaled # 0
  /\ loans[id].scaledAmount >= amountScaled
  /\ loans' = [loans EXCEPT ![id].scaledAmount = @ - amountScaled]
  /\ UNCHANGED <<loanIdTracker, nftToLoanIds, nftTotalCollateral,
                 userNftCollateral, marketAdapters, approvedNfts, custodyVars>>

\* Mutant: the map still finds the loan that has ended.
ReleaseKeepsMap(id, to) ==
  LET collection == Collection[loans[id].nft] IN
  /\ userNftCollateral' =
       [userNftCollateral EXCEPT ![loans[id].borrower][collection] = @ - 1]
  /\ nftTotalCollateral' = [nftTotalCollateral EXCEPT ![collection] = @ - 1]
  /\ BurnUNFT(to, loans[id].nft)
  /\ UNCHANGED <<nftToLoanIds, loanIdTracker, marketAdapters, approvedNfts>>

\* The clean-up that ends a loan: its maps, its counters, its collateral.
ReleaseCollateral(id, to) ==
  LET nft == loans[id].nft
      borrower == loans[id].borrower
  IN
  /\ userNftCollateral[borrower][Collection[nft]] >= 1
  /\ nftTotalCollateral[Collection[nft]] >= 1
  /\ nftToLoanIds' = [nftToLoanIds EXCEPT ![nft] = 0]
  /\ userNftCollateral' =
       [userNftCollateral EXCEPT ![borrower][Collection[nft]] = @ - 1]
  /\ nftTotalCollateral' =
       [nftTotalCollateral EXCEPT ![Collection[nft]] = @ - 1]
  /\ BurnUNFT(to, nft)
  /\ UNCHANGED <<loanIdTracker, marketAdapters, approvedNfts>>

\* repayLoan; LendPool passes the NFT on to the borrower.
RepayLoan(id) ==
  /\ loans[id].state = "Active"
  /\ loans' = [loans EXCEPT ![id].state = "Repaid"]
  /\ ReleaseCollateral(id, loans[id].borrower)

\* auctionLoan, first bid: bidStartTimestamp tells it from a later one.
OpenAuction(id, onBehalfOf, bidPrice, borrowAmount, now) ==
  /\ loans[id].bidStartTimestamp = 0
  /\ loans[id].state = "Active"
  /\ loans' = [loans EXCEPT ![id] =
                 [@ EXCEPT !.state = "Auction",
                           !.bidStartTimestamp = now,
                           !.firstBidderAddress = onBehalfOf,
                           !.bidBorrowAmount = borrowAmount,
                           !.bidderAddress = onBehalfOf,
                           !.bidPrice = bidPrice]]
  /\ UNCHANGED <<loanIdTracker, nftToLoanIds, nftTotalCollateral,
                 userNftCollateral, marketAdapters, approvedNfts, custodyVars>>

\* Mutant: a later bid may be lower.
OutbidLower(id, onBehalfOf, bidPrice, borrowAmount) ==
  /\ loans[id].state = "Auction"
  /\ loans' = [loans EXCEPT ![id] =
                 [@ EXCEPT !.bidBorrowAmount = borrowAmount,
                           !.bidderAddress = onBehalfOf,
                           !.bidPrice = bidPrice]]
  /\ UNCHANGED <<loanIdTracker, nftToLoanIds, nftTotalCollateral,
                 userNftCollateral, marketAdapters, approvedNfts, custodyVars>>

\* auctionLoan, later bids.
OutbidAuction(id, onBehalfOf, bidPrice, borrowAmount) ==
  /\ loans[id].bidStartTimestamp # 0
  /\ loans[id].state = "Auction"
  /\ bidPrice > loans[id].bidPrice
  /\ loans' = [loans EXCEPT ![id] =
                 [@ EXCEPT !.bidBorrowAmount = borrowAmount,
                           !.bidderAddress = onBehalfOf,
                           !.bidPrice = bidPrice]]
  /\ UNCHANGED <<loanIdTracker, nftToLoanIds, nftTotalCollateral,
                 userNftCollateral, marketAdapters, approvedNfts, custodyVars>>

\* buyoutLoan: no check of the state; the NFT goes to the buyer.
BuyoutLoan(id, borrowAmount, to) ==
  /\ loans' = [loans EXCEPT ![id] =
                 [@ EXCEPT !.state = "Defaulted",
                           !.bidBorrowAmount = borrowAmount]]
  /\ ReleaseCollateral(id, to)

\* Mutant: the start of the auction is not reset.
CalledOffKeepsStart(loan) ==
  [loan EXCEPT !.state = "Active", !.bidBorrowAmount = 0, !.bidPrice = 0,
               !.bidderAddress = NullAddress, !.firstBidderAddress = NullAddress]

\* What redeemLoan clears.
CalledOff(loan) ==
  [loan EXCEPT !.state = "Active",
               !.bidStartTimestamp = 0,
               !.bidBorrowAmount = 0,
               !.bidderAddress = NullAddress,
               !.bidPrice = 0,
               !.firstBidderAddress = NullAddress]

\* redeemLoan: the auction is called off and part of the debt repaid.
RedeemLoan(id, amountTaken, borrowIndex) ==
  LET amountScaled == RayDiv(amountTaken, borrowIndex) IN
  /\ loans[id].state = "Auction"
  /\ amountScaled # 0
  /\ loans[id].scaledAmount >= amountScaled
  /\ loans' = [loans EXCEPT ![id] =
                 [CalledOff(@) EXCEPT
                    !.scaledAmount = loans[id].scaledAmount - amountScaled]]
  /\ UNCHANGED <<loanIdTracker, nftToLoanIds, nftTotalCollateral,
                 userNftCollateral, marketAdapters, approvedNfts, custodyVars>>

\* liquidateLoan: the auction is settled; the NFT goes to the winner.
LiquidateLoan(id, borrowAmount, to) ==
  /\ loans[id].state = "Auction"
  /\ loans' = [loans EXCEPT ![id] =
                 [@ EXCEPT !.state = "Defaulted",
                           !.bidBorrowAmount = borrowAmount]]
  /\ ReleaseCollateral(id, to)

\* liquidateLoanMarket: an adapter takes the NFT to sell it elsewhere.
LiquidateLoanMarket(adapter, id, to) ==
  /\ adapter \in marketAdapters
  /\ Live(id)
  /\ loans' = [loans EXCEPT ![id].state = "Defaulted"]
  /\ ReleaseCollateral(id, to)

\* Mutant: both counts are read before either is written.
MovedCountStale(count, user, old, new) ==
  IF user = new THEN count + 1 ELSE IF user = old THEN count - 1 ELSE count

\* A user's count when a loan moves from old to new, who may be the same.
MovedCount(count, user, old, new) ==
  count - (IF user = old THEN 1 ELSE 0) + (IF user = new THEN 1 ELSE 0)

\* reMintUNFT: the debt market hands the open loan of an NFT, with its
\* receipt, from one borrower to another.  The vault keeps the NFT: burn
\* returns it to LendPoolLoan and mint takes it again.
ReMintUNFT(nft, oldOnBehalfOf, newOnBehalfOf) ==
  /\ userNftCollateral[oldOnBehalfOf][Collection[nft]] >= 1
  /\ unftOwner[nft] # NullAddress
  /\ Collection[nft] \in approvedNfts
  /\ userNftCollateral' =
       [u \in Account |->
          [userNftCollateral[u] EXCEPT ![Collection[nft]] =
             MovedCount(@, u, oldOnBehalfOf, newOnBehalfOf)]]
  /\ loans' = [loans EXCEPT ![nftToLoanIds[nft]].borrower = newOnBehalfOf]
  /\ unftOwner' = [unftOwner EXCEPT ![nft] = newOnBehalfOf]
  /\ UNCHANGED <<loanIdTracker, nftToLoanIds, nftTotalCollateral,
                 marketAdapters, approvedNfts, nftOwner>>

\* External: an owner sells or gives away an NFT that is not pledged.
TransferNft(from, to, nft) ==
  /\ nftOwner[nft] = from
  /\ nftOwner' = [nftOwner EXCEPT ![nft] = to]
  /\ UNCHANGED <<bookVars, marketAdapters, approvedNfts, unftOwner>>

-----------------------------------------------------------------------------
(* The most general client.                                                *)

Create == \E initiator, onBehalfOf \in Account, nft \in NFT,
             amount \in Amounts, index \in BorrowIndexes :
            CreateLoan(initiator, onBehalfOf, nft, amount, index)

Increase(id) == \E amount \in Amounts, index \in BorrowIndexes :
                  IncreaseLoan(id, amount, index)

Decrease(id) == \E amount \in Amounts, index \in BorrowIndexes :
                  DecreaseLoan(id, amount, index)

Bid(id) == \E bidder \in Account, price, debt \in Amounts :
             \/ \E now \in Timestamps : OpenAuction(id, bidder, price, debt, now)
             \/ OutbidAuction(id, bidder, price, debt)

Redeem(id) == \E amount \in Amounts, index \in BorrowIndexes :
                RedeemLoan(id, amount, index)

Seize(id) == \E debt \in Amounts, to \in Account :
               \/ BuyoutLoan(id, debt, to)
               \/ LiquidateLoan(id, debt, to)

MarketSale(id) == \E adapter \in Adapter, to \in Account :
                    LiquidateLoanMarket(adapter, id, to)

SellDebt(nft) == \E newOnBehalfOf \in Account :
  ReMintUNFT(nft, loans[nftToLoanIds[nft]].borrower, newOnBehalfOf)

OnOpenLoan == \E nft \in NFT :
  LET id == nftToLoanIds[nft] IN
  /\ id # 0
  /\ \/ Increase(id) \/ Decrease(id) \/ RepayLoan(id) \/ Bid(id) \/ Redeem(id)
     \/ Seize(id) \/ MarketSale(id) \/ SellDebt(nft)

Administer ==
  \/ \E c \in Collections : InitNft(c)
  \/ \E adapters \in SUBSET Adapter, flag \in BOOLEAN :
       UpdateMarketAdapters(adapters, flag)

Trade == \E from, to \in Account, nft \in NFT : TransferNft(from, to, nft)

LoanNext == Create \/ OnOpenLoan \/ Administer \/ Trade

LoanSpec == LoanInit /\ [][LoanNext]_loanVars

-----------------------------------------------------------------------------
(* Correctness.                                                            *)

\* The type invariant.
LoanTypeOK ==
  /\ loans \in [LoanIds -> LoanData]
  /\ loanIdTracker \in 1 .. MaxLoans + 1
  /\ nftToLoanIds \in [NFT -> {0} \cup LoanIds]
  /\ nftTotalCollateral \in [Collections -> Nat]
  /\ userNftCollateral \in [Account -> [Collections -> Nat]]
  /\ marketAdapters \subseteq Adapter
  /\ approvedNfts \subseteq Collections
  /\ nftOwner \in [NFT -> Account \cup {UNFTVault}]
  /\ unftOwner \in [NFT -> Account \cup {NullAddress}]

\* The map from NFTs to loans is exact: it finds the one open loan of an NFT,
\* and every open loan is found through its own NFT.  buyoutLoan trusts it: it
\* does not look at the state of the loan it ends.
OneOpenLoanPerNFT ==
  /\ \A nft \in NFT : nftToLoanIds[nft] # 0 =>
       /\ Live(nftToLoanIds[nft])
       /\ loans[nftToLoanIds[nft]].nft = nft
  /\ \A id \in LoanIds : Live(id) =>
       /\ loans[id].nft \in NFT
       /\ nftToLoanIds[loans[id].nft] = id

\* Identifiers are handed out once: those from the tracker on are unused.
FreshLoanIds ==
  \A id \in LoanIds : id >= loanIdTracker <=> loans[id].state = "None"

\* The collateral of an open loan is in the UNFT contract and its receipt with
\* the borrower the loan names; without a loan the NFT is with an account and
\* no receipt exists.
CollateralInCustody ==
  \A nft \in NFT :
    LET id == nftToLoanIds[nft] IN
    IF id = 0
    THEN nftOwner[nft] \in Account /\ unftOwner[nft] = NullAddress
    ELSE /\ nftOwner[nft] = UNFTVault
         /\ loans[id].borrower \in Account
         /\ unftOwner[nft] = loans[id].borrower

OpenLoansOf(user, collection) ==
  {id \in LoanIds : /\ Live(id)
                    /\ Collection[loans[id].nft] = collection
                    /\ loans[id].borrower = user}

OpenLoansIn(collection) ==
  {id \in LoanIds : Live(id) /\ Collection[loans[id].nft] = collection}

\* The collateral counters count the open loans, so the requires of repayLoan,
\* liquidateLoan and the others ("at least 1") never block the end of a loan,
\* also after the debt market moved loans between borrowers.
CountersCountOpenLoans ==
  \A collection \in Collections :
    /\ nftTotalCollateral[collection] = Cardinality(OpenLoansIn(collection))
    /\ \A user \in Account :
         userNftCollateral[user][collection]
           = Cardinality(OpenLoansOf(user, collection))

AuctionFieldsAgree(loan) ==
  IF loan.state = "Auction"
  THEN /\ loan.bidStartTimestamp # 0
       /\ loan.bidderAddress \in Account
       /\ loan.firstBidderAddress \in Account
       /\ loan.bidPrice # 0
  ELSE /\ loan.bidStartTimestamp = 0
       /\ loan.bidderAddress = NullAddress
       /\ loan.firstBidderAddress = NullAddress
       /\ loan.bidPrice = 0

\* An open loan has a bidder, a first bidder, a price and a start exactly when
\* it is in auction.  auctionLoan tells a first bid from a later one by the
\* start alone, redeemLoan must clear it all.
AuctionFieldsInStep ==
  \A id \in LoanIds : Live(id) => AuctionFieldsAgree(loans[id])

\* A loan that was repaid or has defaulted is a terminal record (DataTypes,
\* "This is a terminal state"): no operation changes it again.
ClosedLoansStayClosed ==
  [][\A id \in LoanIds :
       loans[id].state \in {"Repaid", "Defaulted"} => loans'[id] = loans[id]]_loanVars

\* While an auction lasts its start and first bidder (who is paid the fine)
\* are fixed, the best bid only rises, and the debt that is auctioned stays
\* what it is.
AuctionsOnlyRise ==
  [][\A id \in LoanIds :
       LET before == loans[id]
           after == loans'[id]
       IN
       before.state = "Auction" /\ after.state = "Auction" =>
         /\ after.bidStartTimestamp = before.bidStartTimestamp
         /\ after.firstBidderAddress = before.firstBidderAddress
         /\ after.scaledAmount = before.scaledAmount
         /\ after.bidPrice >= before.bidPrice
         /\ after.bidderAddress # before.bidderAddress
              => after.bidPrice > before.bidPrice]_loanVars

-----------------------------------------------------------------------------
(* The loan book implements the abstract pawn shop: the ticket of an NFT   *)
(* is what its open loan says, or its owner when there is none.            *)

Ticket(nft) ==
  LET id == nftToLoanIds[nft] IN
  IF id = 0
  THEN [status |-> "free", holder |-> nftOwner[nft], owed |-> 0, bid |-> 0,
        bidder |-> NullAddress]
  ELSE [status |-> IF loans[id].state = "Auction" THEN "auctioned" ELSE "pledged",
        holder |-> unftOwner[nft], owed |-> loans[id].scaledAmount,
        bid |-> loans[id].bidPrice, bidder |-> loans[id].bidderAddress]

Tickets == [nft \in NFT |-> Ticket(nft)]

Shop == INSTANCE Pawn WITH Item <- NFT, Party <- Account, Nobody <- NullAddress,
                           Debt <- 0 .. MaxScaledAmount, Price <- Amounts,
                           ticket <- Tickets

\* Every behaviour of the loan book is one of the pawn shop, so an NFT leaves
\* custody only to the borrower of a repaid loan or by default, and the debt
\* and the best bid change only as the shop allows.
ImplementsPawn == Shop!Spec

=============================================================================
