--------------------------- MODULE DebtMarketProofs ---------------------------
(***************************************************************************)
(* Proofs about the debt market, composed with the pool.                   *)
(***************************************************************************)
EXTENDS DebtMarket, LendPoolProofs

-----------------------------------------------------------------------------
(* What the pool's operations leave to the others.                         *)

PoolTransfer == {t \in TransferType :
                   t.from \in Account \cup {LendPoolAddr, UTokenAddr}}

\* Transfers of the pool take nothing from any other contract.
LEMMA OthersKeepMoney ==
  ASSUME NEW s \in Seq(PoolTransfer), NEW b \in Balances, NEW c, Pays(b, s, c),
         NEW h \in Holder, h \notin Account \cup {LendPoolAddr, UTokenAddr}
  PROVE  c \in Balances /\ c[h] >= b[h]
<1>1. Len(s) \in Nat /\ \A k \in 1 .. Len(s) : s[k] \in PoolTransfer OBVIOUS
<1>2. PICK f \in [0 .. Len(s) -> Balances] :
        /\ f[0] = b /\ f[Len(s)] = c
        /\ \A k \in 1 .. Len(s) : /\ f[k - 1][s[k].from] >= s[k].amount
                                  /\ f[k] = Moved(f[k - 1], s[k])
  BY DEF Pays
<1> DEFINE Bad == {k \in 0 .. Len(s) : ~(f[k][h] >= b[h])}
<1>3. ASSUME Bad # {} PROVE FALSE
  <2>1. PICK n \in Bad : \A m \in Bad : ~(<<m, n>> \in OpToRel(<, Nat))
    <3>1. Bad \subseteq Nat BY <1>1
    <3> HIDE DEF Bad
    <3> QED BY <1>3, <3>1, NatLessThanWellFounded, WFMin, Zenon
  <2>2. n \in Nat /\ n \in 0 .. Len(s) /\ ~(f[n][h] >= b[h]) BY <1>1
  <2>3. b[h] \in Nat BY DEF Balances
  <2>4. n # 0 BY <2>2, <2>3, <1>2
  <2>5. n - 1 \in Nat /\ n - 1 \in 0 .. Len(s) /\ n - 1 < n /\ n \in 1 .. Len(s)
    BY <2>2, <2>4, <1>1
  <2>6. f[n - 1][h] >= b[h]
    <3>1. <<n - 1, n>> \in OpToRel(<, Nat) BY <2>2, <2>5 DEF OpToRel
    <3> QED BY <3>1, <2>1, <2>5
  <2>7. f[n][h] >= f[n - 1][h]
    <3> DEFINE t == s[n]
               e == f[n - 1]
    <3>1. /\ t.from # h /\ t.from \in Holder /\ t.to \in Holder /\ t.amount \in Nat
          /\ e \in Balances /\ f[n] = Moved(e, t)
      BY <1>1, <1>2, <2>5 DEF PoolTransfer, TransferType
    <3> HIDE DEF t, e
    <3>2. e[h] \in Nat BY <3>1 DEF Balances
    <3>3. Moved(e, t)[h] = IF h = t.to THEN e[h] + t.amount ELSE e[h]
      BY <3>1 DEF Moved, Balances
    <3> QED BY <3>1, <3>2, <3>3 DEF e
  <2>8. f[n][h] \in Nat /\ f[n - 1][h] \in Nat BY <1>2, <2>5 DEF Balances
  <2> QED BY <2>2, <2>3, <2>6, <2>7, <2>8
<1>4. Len(s) \in 0 .. Len(s) BY <1>1
<1> QED BY <1>2, <1>3, <1>4

\* The loans of the other NFTs are found where they were, and as they were.
OtherLoansKept(nft) ==
  \A n \in NFT : n # nft =>
    /\ nftToLoanIds'[n] = nftToLoanIds[n]
    /\ nftToLoanIds[n] # 0 => loans'[nftToLoanIds[n]] = loans[nftToLoanIds[n]]

LEMMA OneLoanWritten ==
  ASSUME LoanInv, NEW nft \in NFT, NEW id, id = nftToLoanIds[nft], id # 0,
         OthersKept(id),
         nftToLoanIds' = nftToLoanIds \/ nftToLoanIds' = [nftToLoanIds EXCEPT ![nft] = 0]
  PROVE  OtherLoansKept(nft)
<1>1. ASSUME NEW n \in NFT, n # nft, nftToLoanIds[n] # 0
      PROVE  loans'[nftToLoanIds[n]] = loans[nftToLoanIds[n]]
  <2>1. /\ nftToLoanIds[n] \in LoanIds /\ loans[nftToLoanIds[n]].nft = n
        /\ loans[id].nft = nft
    BY <1>1, FoundLoan
  <2>2. nftToLoanIds[n] # id BY <1>1, <2>1
  <2> QED BY <2>1, <2>2 DEF OthersKept
<1>2. nftToLoanIds \in [NFT -> {0} \cup LoanIds] BY DEF LoanInv, LoanTypeOK
<1> QED BY <1>1, <1>2 DEF OtherLoansKept

\* An operation of the pool about one NFT: it makes its own transfers after
\* the refund, and leaves the other loans alone.
PoolOperation(nft, refund) ==
  /\ \E s \in Seq(PoolTransfer) : Transfers(refund \o s)
  /\ OtherLoansKept(nft)

LEMMA PoolTransferSeq ==
  ASSUME NEW from, NEW to, NEW amount,
         from \in Account \cup {LendPoolAddr, UTokenAddr},
         to \in Account \cup {LendPoolAddr, UTokenAddr}, amount \in Nat
  PROVE  <<Transfer(from, to, amount)>> \in Seq(PoolTransfer)
<1>1. Transfer(from, to, amount) \in PoolTransfer
  BY Addresses DEF Transfer, TransferType, PoolTransfer
<1> HIDE DEF Transfer
<1> QED BY <1>1

LEMMA PoolTransferAnySeq ==
  ASSUME NEW from, NEW to, NEW amount, amount \in Nat,
         from \in Account \cup {LendPoolAddr, UTokenAddr},
         amount # 0 => to \in Account \cup {LendPoolAddr, UTokenAddr}
  PROVE  TransferAny(from, to, amount) \in Seq(PoolTransfer)
BY PoolTransferSeq DEF TransferAny

LEMMA PoolRefundSeq ==
  ASSUME NEW loan \in LoanData, AuctionFieldsAgree(loan)
  PROVE  RefundBid(loan) \in Seq(PoolTransfer)
<1>1. /\ loan.bidPrice \in Nat
      /\ loan.bidderAddress \in Account \/ loan.bidderAddress = NullAddress
  BY DEF LoanData
<1> QED BY <1>1, PoolTransferSeq DEF RefundBid

LEMMA PoolSeqConcat ==
  ASSUME NEW s, NEW t, s \in Seq(PoolTransfer), t \in Seq(PoolTransfer)
  PROVE  s \o t \in Seq(PoolTransfer)
BY ConcatProperties

LEMMA RepayOperation ==
  ASSUME PoolInv, NEW initiator \in Account, NEW nft \in NFT,
         NEW amount \in Nat, NEW refund,
         Repay(initiator, nft, amount, refund)
  PROVE  PoolOperation(nft, refund)
<1> DEFINE id == nftToLoanIds[nft]
           debt == BorrowAmount(id)
           paid == IF amount < debt THEN amount ELSE debt
<1>1. /\ id # 0
      /\ DecreaseLoan(id, paid, borrowIndex) \/ RepayLoan(id)
      /\ Transfers(refund \o <<Transfer(initiator, UTokenAddr, paid)>>)
  BY DEF Repay
<1>2. /\ id \in LoanIds /\ loans[id].nft = nft /\ LoanInv
      /\ loans \in [LoanIds -> LoanData]
  BY <1>1, FoundLoan DEF PoolInv, LoanInv, LoanTypeOK
<1>3. debt \in Nat BY <1>2, PoolAmounts
<1>4. <<Transfer(initiator, UTokenAddr, paid)>> \in Seq(PoolTransfer)
  <2> HIDE DEF debt
  <2>1. paid \in Nat BY <1>3
  <2> HIDE DEF paid
  <2> QED BY <2>1, PoolTransferSeq
<1>5. /\ OthersKept(id)
      /\ \/ nftToLoanIds' = nftToLoanIds
         \/ nftToLoanIds' = [nftToLoanIds EXCEPT ![nft] = 0]
  BY <1>1, <1>2 DEF DecreaseLoan, RepayLoan, ReleaseCollateral, OthersKept
<1>6. OtherLoansKept(nft) BY <1>1, <1>2, <1>5, OneLoanWritten
<1> QED BY <1>1, <1>4, <1>6 DEF PoolOperation

LEMMA BorrowOperation ==
  ASSUME PoolInv, NEW initiator \in Account, NEW onBehalfOf \in Account,
         NEW nft \in NFT, NEW amount \in Nat, NEW refund,
         Borrow(initiator, onBehalfOf, nft, amount, refund)
  PROVE  PoolOperation(nft, refund)
<1> DEFINE id == nftToLoanIds[nft]
<1>1. /\ IF id = 0
         THEN CreateLoan(initiator, onBehalfOf, nft, amount, borrowIndex)
         ELSE IncreaseLoan(id, amount, borrowIndex)
      /\ Transfers(refund \o <<Transfer(UTokenAddr, initiator, amount)>>)
  BY DEF Borrow
<1>2. <<Transfer(UTokenAddr, initiator, amount)>> \in Seq(PoolTransfer)
  BY PoolTransferSeq
<1>3. /\ LoanInv /\ loans \in [LoanIds -> LoanData]
      /\ nftToLoanIds \in [NFT -> {0} \cup LoanIds]
  BY DEF PoolInv, LoanInv, LoanTypeOK
<1>4. CASE id = 0
  <2>1. /\ loanIdTracker \in LoanIds
        /\ \A j \in LoanIds : j # loanIdTracker => loans'[j] = loans[j]
        /\ \A n \in NFT : n # nft => nftToLoanIds'[n] = nftToLoanIds[n]
    BY <1>1, <1>3, <1>4 DEF CreateLoan
  <2>2. ~Live(loanIdTracker)
    <3>1. loanIdTracker \in Nat /\ loanIdTracker >= loanIdTracker
      BY <2>1, LoanAssumption DEF LoanIds
    <3>2. loans[loanIdTracker].state = "None"
      BY <2>1, <3>1 DEF PoolInv, LoanInv, FreshLoanIds
    <3> QED BY <3>2 DEF Live, LiveStates
  <2>3. ASSUME NEW n \in NFT, nftToLoanIds[n] # 0
        PROVE  loans'[nftToLoanIds[n]] = loans[nftToLoanIds[n]]
    <3>1. nftToLoanIds[n] \in LoanIds /\ Live(nftToLoanIds[n])
      BY <1>3, <2>3, FoundLoan
    <3> QED BY <2>1, <2>2, <3>1
  <2>4. OtherLoansKept(nft) BY <2>1, <2>3 DEF OtherLoansKept
  <2> QED BY <1>1, <1>2, <2>4 DEF PoolOperation
<1>5. CASE id # 0
  <2>1. OthersKept(id) /\ nftToLoanIds' = nftToLoanIds
    BY <1>1, <1>3, <1>5 DEF IncreaseLoan, OthersKept
  <2>2. OtherLoansKept(nft) BY <1>3, <1>5, <2>1, OneLoanWritten
  <2> QED BY <1>1, <1>2, <2>2 DEF PoolOperation
<1> QED BY <1>4, <1>5

LEMMA RedeemOperation ==
  ASSUME PoolInv, NEW initiator \in Account, NEW nft \in NFT,
         NEW amount \in Nat, NEW fineLimit, NEW refund \in Refunds,
         RedeemAuction(initiator, nft, amount, fineLimit, refund)
  PROVE  PoolOperation(nft, refund)
<1> DEFINE id == nftToLoanIds[nft]
           loan == loans[id]
           s1 == <<Transfer(initiator, UTokenAddr, amount)>>
           s2 == RefundBid(loan)
           s3 == <<Transfer(initiator, loan.firstBidderAddress, BidFine(id))>>
<1>1. /\ id # 0 /\ RedeemLoan(id, amount, borrowIndex)
      /\ Transfers(refund \o s1 \o s2 \o s3)
  BY DEF RedeemAuction, MayRedeem
<1>2. /\ id \in LoanIds /\ loan \in LoanData /\ loan.nft = nft
      /\ AuctionFieldsAgree(loan) /\ loan.state = "Auction" /\ LoanInv
      /\ loans \in [LoanIds -> LoanData]
  BY <1>1, FoundLoan DEF PoolInv, RedeemLoan, LoanInv, LoanTypeOK
<1>3. s1 \in Seq(PoolTransfer) BY PoolTransferSeq
<1>4. s2 \in Seq(PoolTransfer) BY <1>2, PoolRefundSeq
<1>5. s3 \in Seq(PoolTransfer)
  <2>1. loan.firstBidderAddress \in Account BY <1>2 DEF AuctionFieldsAgree
  <2>2. BidFine(id) \in Nat BY <1>2, BidFineNat
  <2> QED BY <2>1, <2>2, PoolTransferSeq
<1>6. OtherLoansKept(nft)
  <2>1. OthersKept(id) /\ nftToLoanIds' = nftToLoanIds
    BY <1>1, <1>2 DEF RedeemLoan, OthersKept
  <2> QED BY <1>1, <1>2, <2>1, OneLoanWritten
<1> HIDE DEF s1, s2, s3
<1>7. s1 \o (s2 \o s3) \in Seq(PoolTransfer) BY <1>3, <1>4, <1>5, PoolSeqConcat
<1>8. refund \o s1 \o s2 \o s3 = refund \o (s1 \o (s2 \o s3))
  <2>1. /\ refund \in Seq(TransferType) /\ s1 \in Seq(TransferType)
        /\ s2 \in Seq(TransferType) /\ s3 \in Seq(TransferType)
    <3>1. PoolTransfer \subseteq TransferType BY DEF PoolTransfer
    <3> QED BY <1>3, <1>4, <1>5, <3>1, RefundsSeq
  <2>2. (refund \o s1) \o s2 = refund \o (s1 \o s2) BY <2>1, ConcatAssociative
  <2>3. s1 \o s2 \in Seq(TransferType) BY <2>1, ConcatProperties
  <2>4. (refund \o (s1 \o s2)) \o s3 = refund \o ((s1 \o s2) \o s3)
    <3> DEFINE m == s1 \o s2
    <3>1. m \in Seq(TransferType) BY <2>3
    <3> HIDE DEF m
    <3>2. (refund \o m) \o s3 = refund \o (m \o s3)
      BY <2>1, <3>1, ConcatAssociative
    <3> QED BY <3>2 DEF m
  <2>5. (s1 \o s2) \o s3 = s1 \o (s2 \o s3) BY <2>1, ConcatAssociative
  <2> QED BY <2>2, <2>4, <2>5
<1> QED BY <1>1, <1>6, <1>7, <1>8 DEF PoolOperation

\* An operation that ends the loan of an NFT leaves the other loans alone.
LEMMA OneLoanClosed ==
  ASSUME LoanInv, NEW nft \in NFT, NEW id, id = nftToLoanIds[nft], id # 0,
         NEW loan, NEW to, loans' = [loans EXCEPT ![id] = loan],
         ReleaseCollateral(id, to)
  PROVE  OtherLoansKept(nft)
<1>1. id \in LoanIds /\ loans[id].nft = nft /\ loans \in [LoanIds -> LoanData]
  BY FoundLoan DEF LoanInv, LoanTypeOK
<1>2. OthersKept(id) BY <1>1 DEF OthersKept
<1>3. nftToLoanIds' = [nftToLoanIds EXCEPT ![nft] = 0]
  BY <1>1 DEF ReleaseCollateral
<1> QED BY <1>2, <1>3, OneLoanWritten

LEMMA LiquidateOperation ==
  ASSUME PoolInv, NEW initiator \in Account, NEW nft \in NFT,
         NEW amount, NEW refund,
         Liquidate(initiator, nft, amount, refund)
  PROVE  PoolOperation(nft, refund)
<1> DEFINE id == nftToLoanIds[nft]
           loan == loans[id]
           debt == BorrowAmount(id)
           extra == ExtraDebt(loan, debt)
           rest == IF loan.bidPrice > debt THEN loan.bidPrice - debt ELSE 0
           s1 == TransferAny(initiator, LendPoolAddr, extra)
           s2 == <<Transfer(LendPoolAddr, UTokenAddr, debt)>>
           s3 == TransferAny(LendPoolAddr, loan.borrower, rest)
<1>1. /\ id # 0 /\ LiquidateLoan(id, debt, Receiver(loan.bidderAddress))
      /\ Transfers(refund \o (s1 \o s2 \o s3))
  BY DEF Liquidate, LiquidationTransfers
<1>2. /\ id \in LoanIds /\ loan \in LoanData /\ loan.borrower \in Account /\ LoanInv
  BY <1>1, FoundLoan DEF PoolInv
<1>3. debt \in Nat BY <1>2, PoolAmounts
<1>4. loan.bidPrice \in Nat BY <1>2 DEF LoanData
<1>5. OtherLoansKept(nft) BY <1>1, <1>2, OneLoanClosed DEF LiquidateLoan
<1> HIDE DEF debt
<1>6. extra \in Nat /\ rest \in Nat BY <1>3, <1>4 DEF ExtraDebt
<1> HIDE DEF extra, rest
<1>7. s1 \in Seq(PoolTransfer) /\ s3 \in Seq(PoolTransfer)
  BY <1>2, <1>6, PoolTransferAnySeq
<1>8. s2 \in Seq(PoolTransfer) BY <1>3, PoolTransferSeq
<1> HIDE DEF s1, s2, s3
<1>9. (s1 \o s2) \o s3 \in Seq(PoolTransfer) BY <1>7, <1>8, PoolSeqConcat
<1> QED BY <1>1, <1>5, <1>9 DEF PoolOperation

LEMMA BuyoutOperation ==
  ASSUME PoolInv, NEW initiator \in Account, NEW onBehalfOf \in Account,
         NEW nft \in NFT, NEW refund,
         Buyout(initiator, onBehalfOf, nft, refund)
  PROVE  PoolOperation(nft, refund)
<1> DEFINE id == nftToLoanIds[nft]
           loan == loans[id]
           first == loan.firstBidderAddress
           debt == BorrowAmount(id)
           price == BuyoutPrice(onBehalfOf, nft, debt)
           bidFine == BidFine(id)
           rest == price - debt
           fine == IF loan.bidderAddress = NullAddress THEN 0
                   ELSE IF rest >= bidFine THEN bidFine ELSE rest
           left == rest - fine
           s1 == <<Transfer(initiator, LendPoolAddr, price),
                   Transfer(LendPoolAddr, UTokenAddr, debt)>>
           s2 == RefundBid(loan)
           s3 == TransferAny(LendPoolAddr, first, fine)
           s4 == TransferAny(LendPoolAddr, loan.borrower, left)
<1>1. /\ id # 0 /\ BuyoutLoan(id, debt, Receiver(onBehalfOf))
      /\ Transfers(refund \o (s1 \o s2 \o s3 \o s4))
  BY DEF Buyout, BuyoutTransfers
<1>2. /\ id \in LoanIds /\ loan \in LoanData /\ loan.nft = nft
      /\ loan.borrower \in Account /\ AuctionFieldsAgree(loan) /\ LoanInv
  BY <1>1, FoundLoan DEF PoolInv
<1>3. debt \in Nat BY <1>2, PoolAmounts
<1>4. OtherLoansKept(nft) BY <1>1, <1>2, OneLoanClosed DEF BuyoutLoan
<1>5. loan.bidderAddress # NullAddress => first \in Account
  BY <1>2 DEF AuctionFieldsAgree
<1>6. price \in Nat /\ price >= debt /\ bidFine \in Nat
  BY <1>2, <1>3, BuyoutPriceCovers, BidFineNat
<1> HIDE DEF debt, price, bidFine, first
<1>7. fine \in Nat /\ left \in Nat /\ (fine # 0 => first \in Account)
  BY <1>3, <1>5, <1>6
<1> HIDE DEF fine, left
<1>8. s1 \in Seq(PoolTransfer)
  <2> DEFINE t == Transfer(initiator, LendPoolAddr, price)
             u == Transfer(LendPoolAddr, UTokenAddr, debt)
  <2>1. t \in PoolTransfer /\ u \in PoolTransfer
    BY <1>3, <1>6, Addresses DEF Transfer, TransferType, PoolTransfer
  <2> HIDE DEF t, u
  <2>2. <<t, u>> \in Seq(PoolTransfer) BY <2>1
  <2> QED BY <2>2 DEF t, u
<1>9. s2 \in Seq(PoolTransfer) BY <1>2, PoolRefundSeq
<1>10. s3 \in Seq(PoolTransfer) /\ s4 \in Seq(PoolTransfer)
  BY <1>2, <1>7, PoolTransferAnySeq
<1> HIDE DEF s1, s2, s3, s4
<1>11. ((s1 \o s2) \o s3) \o s4 \in Seq(PoolTransfer)
  BY <1>8, <1>9, <1>10, PoolSeqConcat
<1> QED BY <1>1, <1>4, <1>11 DEF PoolOperation

\* auction changes no debt at all, nor who owes it.
LEMMA AuctionOperation ==
  ASSUME PoolInv, NEW initiator \in Account, NEW onBehalfOf \in Account,
         NEW nft \in NFT, NEW price \in Nat,
         Auction(initiator, onBehalfOf, nft, price)
  PROVE  /\ PoolOperation(nft, <<>>)
         /\ nftToLoanIds' = nftToLoanIds
         /\ loans'[nftToLoanIds[nft]].scaledAmount
              = loans[nftToLoanIds[nft]].scaledAmount
         /\ loans'[nftToLoanIds[nft]].borrower = loans[nftToLoanIds[nft]].borrower
<1> DEFINE id == nftToLoanIds[nft]
           loan == loans[id]
           debt == BorrowAmount(id)
           s1 == <<Transfer(initiator, LendPoolAddr, price)>>
           s2 == RefundBid(loan)
<1>1. /\ id # 0
      /\ OpenAuction(id, onBehalfOf, price, debt, now)
           \/ OutbidAuction(id, onBehalfOf, price, debt)
      /\ Transfers(s1 \o s2)
  BY DEF Auction
<1>2. /\ id \in LoanIds /\ loan \in LoanData /\ AuctionFieldsAgree(loan) /\ LoanInv
      /\ loans \in [LoanIds -> LoanData]
  BY <1>1, FoundLoan DEF PoolInv, LoanInv, LoanTypeOK
<1> HIDE DEF debt
<1>3. /\ OthersKept(id) /\ nftToLoanIds' = nftToLoanIds
      /\ loans'[id].scaledAmount = loan.scaledAmount
      /\ loans'[id].borrower = loan.borrower
  <2>2. CASE OpenAuction(id, onBehalfOf, price, debt, now)
    BY <1>2, <2>2 DEF OpenAuction, OthersKept, LoanData
  <2>3. CASE OutbidAuction(id, onBehalfOf, price, debt)
    BY <1>2, <2>3 DEF OutbidAuction, OthersKept, LoanData
  <2> QED BY <1>1, <2>2, <2>3
<1>4. OtherLoansKept(nft) BY <1>1, <1>2, <1>3, OneLoanWritten
<1>5. s1 \in Seq(PoolTransfer) /\ s2 \in Seq(PoolTransfer)
  BY <1>2, PoolTransferSeq, PoolRefundSeq
<1> HIDE DEF s1, s2
<1>6. s1 \o s2 \in Seq(PoolTransfer) BY <1>5, PoolSeqConcat
<1>7. <<>> \o (s1 \o s2) = s1 \o s2 BY <1>6, ConcatEmptySeq
<1> QED BY <1>1, <1>3, <1>4, <1>6, <1>7 DEF PoolOperation

-----------------------------------------------------------------------------
(* The book of listings.                                                   *)

ListingData == [nft : NFT \cup {NullAddress},
                debtor : Account \cup {NullAddress},
                sellType : DebtMarketType, state : DebtMarketState,
                sellPrice : Nat, scaledAmount : Nat,
                bidderAddress : Account \cup {NullAddress}, bidPrice : Nat,
                auctionEndTimestamp : Nat, startBiddingPrice : Nat]

ListingTypeOK ==
  /\ debtIdTracker \in 0 .. MaxListings
  /\ marketListings \in [DebtIds -> ListingData]
  /\ nftToDebtIds \in [NFT -> {0} \cup DebtIds]
  /\ userTotalDebtByCollection \in [Account -> [Collections -> Nat]]
  /\ totalDebtsByCollection \in [Collections -> Nat]

\* What is found through the map is a listing that was made for that NFT and
\* is neither sold nor cancelled.
ListingsFound ==
  \A nft \in NFT : nftToDebtIds[nft] # 0 =>
    /\ nftToDebtIds[nft] <= debtIdTracker
    /\ ListingOf(nft).nft = nft
    /\ ListingOf(nft).state \in {"New", "Active"}
    /\ ListingOf(nft).debtor \in Account
    /\ ListingOf(nft).bidderAddress = NullAddress => ListingOf(nft).bidPrice = 0

ListingBook == ListingTypeOK /\ ListingsFound /\ ListingCountersExact

\* The listings of a collection, and those of them that name a debtor.
ListedIn(c) == {nft \in NFT : Collection[nft] = c /\ nftToDebtIds[nft] # 0}
ListedFor(user, c) == {nft \in ListedIn(c) : ListingOf(nft).debtor = user}

\* The listing of an NFT is its own.
LEMMA FoundListing ==
  ASSUME ListingTypeOK, ListingsFound, NEW nft \in NFT, nftToDebtIds[nft] # 0
  PROVE  /\ nftToDebtIds[nft] \in DebtIds
         /\ ListingOf(nft) = marketListings[nftToDebtIds[nft]]
         /\ ListingOf(nft) \in ListingData
         /\ ListingOf(nft).debtor \in Account
         /\ ListingOf(nft).bidPrice \in Nat
         /\ ListingOf(nft).bidderAddress \in Account \cup {NullAddress}
         /\ ListingOf(nft).bidderAddress = NullAddress
              => ListingOf(nft).bidPrice = 0
         /\ Collection[nft] \in Collections
         /\ \A n \in NFT : n # nft => nftToDebtIds[n] # nftToDebtIds[nft]
<1>1. nftToDebtIds[nft] \in DebtIds /\ ListingOf(nft) \in ListingData
  BY DEF ListingTypeOK, ListingOf
<1>2. /\ ListingOf(nft).bidPrice \in Nat
      /\ ListingOf(nft).bidderAddress \in Account \cup {NullAddress}
  BY <1>1 DEF ListingData
<1>3. \A n \in NFT : n # nft => nftToDebtIds[n] # nftToDebtIds[nft]
  BY DEF ListingsFound, ListingOf
<1> QED BY <1>1, <1>2, <1>3 DEF ListingsFound, ListingOf, Collections

LEMMA ListedFinite ==
  ASSUME ListingTypeOK, ListingsFound, NEW S, S \subseteq NFT,
         \A n \in S : nftToDebtIds[n] # 0
  PROVE  IsFiniteSet(S) /\ Cardinality(S) \in Nat
<1> DEFINE f == [n \in S |-> nftToDebtIds[n]]
<1>1. f \in Injection(S, DebtIds)
  <2>1. f \in [S -> DebtIds] BY FoundListing
  <2>2. \A m, n \in S : m # n => f[m] # f[n] BY FoundListing
  <2> HIDE DEF f
  <2> QED BY <2>1, <2>2 DEF Injection, IsInjective
<1>2. IsFiniteSet(DebtIds)
  <2>1. 1 \in Int /\ MaxListings \in Int BY MarketAssumption
  <2>2. IsFiniteSet(1 .. MaxListings) BY <2>1, FS_Interval, Zenon
  <2> QED BY <2>2 DEF DebtIds
<1> HIDE DEF f
<1>3. IsFiniteSet(S) BY <1>1, <1>2, FS_Injection
<1> QED BY <1>3, FS_CardinalityType

\* The counters, restated.
LEMMA CountersRestated ==
  ListingCountersExact <=>
    \A c \in Collections :
      /\ totalDebtsByCollection[c] = Cardinality(ListedIn(c))
      /\ \A user \in Account :
           userTotalDebtByCollection[user][c] = Cardinality(ListedFor(user, c))
BY DEF ListingCountersExact, ListedIn, ListedFor

\* What a step about the listing of one NFT leaves alone.
OtherListingsKept(nft) ==
  \A n \in NFT : n # nft =>
    /\ nftToDebtIds'[n] = nftToDebtIds[n]
    /\ nftToDebtIds[n] # 0 =>
         marketListings'[nftToDebtIds[n]] = marketListings[nftToDebtIds[n]]

\* A listing that is neither made nor deleted, but may get a new best bid,
\* counts as before.
LEMMA CountersStay ==
  ASSUME ListingTypeOK, ListingsFound, ListingCountersExact,
         NEW nft \in NFT, OtherListingsKept(nft),
         nftToDebtIds' = nftToDebtIds,
         nftToDebtIds[nft] # 0 =>
           marketListings'[nftToDebtIds[nft]].debtor = ListingOf(nft).debtor,
         UNCHANGED <<userTotalDebtByCollection, totalDebtsByCollection>>
  PROVE  ListingCountersExact'
<1>1. ASSUME NEW n \in NFT, nftToDebtIds[n] # 0
      PROVE  ListingOf(n)'.debtor = ListingOf(n).debtor
  BY <1>1 DEF OtherListingsKept, ListingOf
<1>2. \A c : ListedIn(c)' = ListedIn(c) BY DEF ListedIn
<1>3. \A user, c : ListedFor(user, c)' = ListedFor(user, c)
  BY <1>1, <1>2 DEF ListedFor, ListedIn
<1>4. \A c \in Collections :
        /\ totalDebtsByCollection[c] = Cardinality(ListedIn(c))
        /\ \A user \in Account :
             userTotalDebtByCollection[user][c] = Cardinality(ListedFor(user, c))
  BY CountersRestated
<1>5. \A c \in Collections :
        /\ totalDebtsByCollection'[c] = Cardinality(ListedIn(c)')
        /\ \A user \in Account :
             userTotalDebtByCollection'[user][c] = Cardinality(ListedFor(user, c)')
  BY <1>2, <1>3, <1>4
<1>6. (ListingCountersExact <=>
        \A c \in Collections :
          /\ totalDebtsByCollection[c] = Cardinality(ListedIn(c))
          /\ \A user \in Account :
               userTotalDebtByCollection[user][c] = Cardinality(ListedFor(user, c)))'
  BY CountersRestated DEF ListingCountersExact, ListedIn, ListedFor
<1> QED BY <1>5, <1>6

\* _deleteDebtOfferListing
LEMMA DeleteBook ==
  ASSUME ListingBook, NEW nft \in NFT, nftToDebtIds[nft] # 0,
         DebtShouldExist(nft), NEW final \in ListingData,
         DeleteListing(nft, final)
  PROVE  /\ ListingBook' /\ OtherListingsKept(nft)
         /\ nftToDebtIds' = [nftToDebtIds EXCEPT ![nft] = 0]
<1> DEFINE d == nftToDebtIds[nft]
           debtor == ListingOf(nft).debtor
           col == Collection[nft]
<1> USE DEF ListingBook
<1>1. /\ d \in DebtIds /\ debtor \in Account /\ col \in Collections
      /\ \A n \in NFT : n # nft => nftToDebtIds[n] # d
  BY FoundListing
<1>2. /\ marketListings' = [marketListings EXCEPT ![d] = final]
      /\ userTotalDebtByCollection' =
           [userTotalDebtByCollection EXCEPT ![debtor] =
              [userTotalDebtByCollection[debtor] EXCEPT
                 ![col] = userTotalDebtByCollection[debtor][col] - 1]]
      /\ totalDebtsByCollection' =
           [totalDebtsByCollection EXCEPT ![col] = totalDebtsByCollection[col] - 1]
      /\ nftToDebtIds' = [nftToDebtIds EXCEPT ![nft] = 0]
      /\ debtIdTracker' = debtIdTracker
  BY DEF DeleteListing, ListingTypeOK
<1>3. /\ userTotalDebtByCollection[debtor][col] >= 1
      /\ totalDebtsByCollection[col] >= 1
  BY DEF DebtShouldExist
<1> HIDE DEF d, debtor, col
<1>4. ListingTypeOK'
  BY <1>1, <1>2, <1>3 DEF ListingTypeOK
<1>5. OtherListingsKept(nft)
  BY <1>1, <1>2 DEF OtherListingsKept, ListingTypeOK
<1>6. ListingsFound'
  <2>1. ASSUME NEW n \in NFT, nftToDebtIds'[n] # 0
        PROVE  n # nft /\ nftToDebtIds[n] # 0 /\ nftToDebtIds'[n] = nftToDebtIds[n]
                 /\ ListingOf(n)' = ListingOf(n)
    BY <1>2, <1>5, <2>1 DEF ListingTypeOK, OtherListingsKept, ListingOf
  <2> QED BY <1>2, <2>1 DEF ListingsFound
<1>7. /\ \A c \in Collections :
           ListedIn(c)' = IF c = col THEN ListedIn(c) \ {nft} ELSE ListedIn(c)
      /\ nft \in ListedIn(col)
  BY <1>2 DEF ListedIn, ListingTypeOK, col, d
<1>8. /\ \A c \in Collections, user \in Account :
           ListedFor(user, c)' = IF c = col /\ user = debtor
                                 THEN ListedFor(user, c) \ {nft}
                                 ELSE ListedFor(user, c)
      /\ nft \in ListedFor(debtor, col)
  <2>1. nft \in ListedFor(debtor, col) BY <1>7 DEF ListedFor, debtor
  <2>2. ASSUME NEW n \in NFT, n # nft, nftToDebtIds[n] # 0
        PROVE  ListingOf(n)' = ListingOf(n)
    BY <1>5, <2>2 DEF OtherListingsKept, ListingOf
  <2>3. \A c \in Collections : \A n \in ListedIn(c) \ {nft} : ListingOf(n)' = ListingOf(n)
    BY <2>2 DEF ListedIn
  <2>4. \A c \in Collections : c # col => nft \notin ListedIn(c) BY DEF ListedIn, col
  <2>5. \A c \in Collections, user \in Account :
           ListedFor(user, c)' = {n \in ListedIn(c)' : ListingOf(n)'.debtor = user}
    BY DEF ListedFor
  <2>6. \A c \in Collections, user \in Account :
           user # debtor => nft \notin ListedFor(user, c)
    BY DEF ListedFor, debtor
  <2>7. \A c \in Collections, user \in Account :
           ListedFor(user, c)' = ListedFor(user, c) \ {nft}
    <3> TAKE c \in Collections, user \in Account
    <3>1. \A n : n \in ListedIn(c)' <=> n \in ListedIn(c) /\ n # nft
      BY <1>7, <2>4
    <3> QED BY <2>3, <2>5, <3>1 DEF ListedFor
  <2>8. \A c \in Collections, user \in Account :
           c # col => nft \notin ListedFor(user, c)
    BY <2>4 DEF ListedFor
  <2> QED BY <2>1, <2>6, <2>7, <2>8
<1>9. /\ \A c \in Collections : IsFiniteSet(ListedIn(c))
      /\ \A c \in Collections, user \in Account : IsFiniteSet(ListedFor(user, c))
  BY ListedFinite DEF ListedIn, ListedFor
<1>10. \A c \in Collections :
         /\ totalDebtsByCollection[c] = Cardinality(ListedIn(c))
         /\ \A user \in Account :
              userTotalDebtByCollection[user][c] = Cardinality(ListedFor(user, c))
  BY CountersRestated
<1>11. \A c \in Collections :
         /\ totalDebtsByCollection'[c] = Cardinality(ListedIn(c)')
         /\ \A user \in Account :
              userTotalDebtByCollection'[user][c] = Cardinality(ListedFor(user, c)')
  <2> TAKE c \in Collections
  <2>1. totalDebtsByCollection'[c] = Cardinality(ListedIn(c)')
    <3>1. CASE c = col
      <4>1. Cardinality(ListedIn(c) \ {nft}) = Cardinality(ListedIn(c)) - 1
        BY <1>7, <1>9, <3>1, FS_RemoveElement
      <4>2. totalDebtsByCollection'[c] = totalDebtsByCollection[c] - 1
        BY <1>1, <1>2, <3>1 DEF ListingTypeOK
      <4> QED BY <1>7, <1>10, <3>1, <4>1, <4>2
    <3>2. CASE c # col
      <4>1. totalDebtsByCollection'[c] = totalDebtsByCollection[c]
        BY <1>1, <1>2, <3>2 DEF ListingTypeOK
      <4> QED BY <1>7, <1>10, <3>2, <4>1
    <3> QED BY <3>1, <3>2
  <2>2. ASSUME NEW user \in Account
        PROVE  userTotalDebtByCollection'[user][c] = Cardinality(ListedFor(user, c)')
    <3>1. CASE c = col /\ user = debtor
      <4>1. Cardinality(ListedFor(user, c) \ {nft}) = Cardinality(ListedFor(user, c)) - 1
        BY <1>8, <1>9, <3>1, FS_RemoveElement
      <4>2. userTotalDebtByCollection'[user][c] = userTotalDebtByCollection[user][c] - 1
        BY <1>1, <1>2, <3>1 DEF ListingTypeOK
      <4> QED BY <1>8, <1>10, <3>1, <4>1, <4>2
    <3>2. CASE ~(c = col /\ user = debtor)
      <4>1. userTotalDebtByCollection'[user][c] = userTotalDebtByCollection[user][c]
        BY <1>1, <1>2, <3>2 DEF ListingTypeOK
      <4> QED BY <1>8, <1>10, <3>2, <4>1
    <3> QED BY <3>1, <3>2
  <2> QED BY <2>1, <2>2
<1>12. (ListingCountersExact <=>
        \A c \in Collections :
          /\ totalDebtsByCollection[c] = Cardinality(ListedIn(c))
          /\ \A user \in Account :
               userTotalDebtByCollection[user][c] = Cardinality(ListedFor(user, c)))'
  BY DEF ListingCountersExact, ListedIn, ListedFor
<1>13. ListingCountersExact' BY <1>11, <1>12
<1> QED BY <1>2, <1>4, <1>5, <1>6, <1>13 DEF d

\* createDebtListing
LEMMA CreateBook ==
  ASSUME ListingBook, PoolInv, NEW caller \in Account, NEW nft \in NFT,
         NEW terms \in Terms, NEW debtor \in Account,
         CreateDebtListing(caller, nft, terms, debtor)
  PROVE  /\ ListingBook' /\ OtherListingsKept(nft)
         /\ nftToLoanIds[nft] # 0 /\ nftToDebtIds[nft] = 0
         /\ nftToDebtIds' = [nftToDebtIds EXCEPT ![nft] = debtIdTracker + 1]
         /\ debtIdTracker + 1 \in DebtIds
         /\ ListingOf(nft)'.scaledAmount = loans[nftToLoanIds[nft]].scaledAmount
         /\ ListingOf(nft)'.bidPrice = 0
         /\ ListingOf(nft)'.bidderAddress = NullAddress
         /\ UNCHANGED <<poolVars, settingVars>>
<1> DEFINE id == nftToLoanIds[nft]
           d == debtIdTracker + 1
           col == Collection[nft]
           isValidAuctionType == terms.startBiddingPrice # 0
                                   /\ terms.auctionEndTimestamp # 0
           isValidFixedPriceType == terms.sellPrice # 0
           type == IF ~isValidAuctionType THEN "FixedPrice"
                   ELSE IF isValidFixedPriceType THEN "Mixed" ELSE "Auction"
           listing == [NoListing EXCEPT
             !.nft = nft, !.debtor = debtor, !.sellPrice = terms.sellPrice,
             !.scaledAmount = loans[id].scaledAmount,
             !.auctionEndTimestamp = terms.auctionEndTimestamp,
             !.startBiddingPrice = terms.startBiddingPrice, !.sellType = type]
<1> USE DEF ListingBook
<1>1. /\ nftToDebtIds[nft] = 0 /\ id # 0 /\ debtIdTracker < MaxListings
      /\ debtIdTracker' = d
      /\ marketListings' = [marketListings EXCEPT ![d] = listing]
      /\ nftToDebtIds' = [nftToDebtIds EXCEPT ![nft] = d]
      /\ userTotalDebtByCollection' =
           [userTotalDebtByCollection EXCEPT ![debtor] =
              [userTotalDebtByCollection[debtor] EXCEPT
                 ![col] = userTotalDebtByCollection[debtor][col] + 1]]
      /\ totalDebtsByCollection' =
           [totalDebtsByCollection EXCEPT ![col] = totalDebtsByCollection[col] + 1]
      /\ UNCHANGED <<poolVars, settingVars>>
  BY DEF CreateDebtListing, ListingTypeOK
<1>2. /\ d \in DebtIds /\ d \in Nat /\ d # 0 /\ col \in Collections
      /\ debtIdTracker \in Nat /\ debtIdTracker <= d
      /\ \A n \in NFT : nftToDebtIds[n] # d
  <2>1. debtIdTracker \in 0 .. MaxListings /\ MaxListings \in Nat
    BY MarketAssumption DEF ListingTypeOK
  <2>2. d \in DebtIds /\ d \in Nat /\ d # 0 /\ debtIdTracker \in Nat /\ debtIdTracker <= d
    BY <1>1, <2>1 DEF DebtIds
  <2>3. \A n \in NFT : nftToDebtIds[n] # d
    BY <2>1, <2>2 DEF ListingsFound
  <2> QED BY <2>2, <2>3 DEF Collections
<1>3. loans[id].scaledAmount \in Nat
  <2>1. LoanInv /\ id \in LoanIds BY <1>1, FoundLoan DEF PoolInv
  <2> QED BY <2>1, PoolAmounts
<1>4. /\ listing.nft = nft /\ listing.debtor = debtor /\ listing.state = "New"
      /\ listing.scaledAmount = loans[id].scaledAmount
      /\ listing.bidderAddress = NullAddress /\ listing.bidPrice = 0
  BY DEF NoListing
<1>5. listing \in ListingData
  <2>1. /\ terms.sellPrice \in Nat /\ terms.startBiddingPrice \in Nat
        /\ terms.auctionEndTimestamp \in Nat
    BY MarketAssumption
  <2>2. type \in DebtMarketType BY DEF DebtMarketType
  <2>3. "New" \in DebtMarketState BY DEF DebtMarketState
  <2> HIDE DEF type
  <2> QED BY <1>3, <2>1, <2>2, <2>3 DEF NoListing, ListingData
<1> HIDE DEF id, d, col, listing
<1>6. ListingTypeOK'
  <2>1. d \in 0 .. MaxListings
    BY <1>2, MarketAssumption DEF DebtIds
  <2> QED BY <1>1, <1>2, <1>5, <2>1 DEF ListingTypeOK
<1>7. OtherListingsKept(nft)
  BY <1>1, <1>2 DEF OtherListingsKept, ListingTypeOK
<1>8. ListingOf(nft)' = listing
  BY <1>1, <1>2 DEF ListingOf, ListingTypeOK
<1>9. ListingsFound'
  <2>1. ASSUME NEW n \in NFT, nftToDebtIds'[n] # 0, n # nft
        PROVE  nftToDebtIds[n] # 0 /\ nftToDebtIds'[n] = nftToDebtIds[n]
                 /\ ListingOf(n)' = ListingOf(n)
    BY <1>7, <2>1 DEF OtherListingsKept, ListingOf
  <2>2. nftToDebtIds'[nft] = d /\ d <= d BY <1>1, <1>2 DEF ListingTypeOK
  <2>3. \A n \in NFT : nftToDebtIds[n] # 0 /\ nftToDebtIds[n] <= debtIdTracker
                         => nftToDebtIds[n] <= d
    BY <1>2 DEF ListingTypeOK, DebtIds
  <2>4. ASSUME NEW n \in NFT, nftToDebtIds'[n] # 0
        PROVE  /\ nftToDebtIds'[n] <= debtIdTracker'
               /\ ListingOf(n)'.nft = n
               /\ ListingOf(n)'.state \in {"New", "Active"}
               /\ ListingOf(n)'.debtor \in Account
               /\ ListingOf(n)'.bidderAddress = NullAddress
                    => ListingOf(n)'.bidPrice = 0
    <3>1. CASE n = nft BY <1>1, <1>4, <1>8, <2>2, <3>1
    <3>2. CASE n # nft BY <1>1, <2>1, <2>3, <2>4, <3>2 DEF ListingsFound
    <3> QED BY <3>1, <3>2
  <2> QED BY <2>4 DEF ListingsFound
<1>10. \A c \in Collections :
         /\ ListedIn(c)' = IF c = col THEN ListedIn(c) \cup {nft} ELSE ListedIn(c)
         /\ nft \notin ListedIn(c)
  BY <1>1, <1>2 DEF ListedIn, ListingTypeOK, col
<1>11. \A c \in Collections, user \in Account :
         /\ ListedFor(user, c)' = IF c = col /\ user = debtor
                                  THEN ListedFor(user, c) \cup {nft}
                                  ELSE ListedFor(user, c)
         /\ nft \notin ListedFor(user, c)
  <2>1. ASSUME NEW n \in NFT, n # nft, nftToDebtIds[n] # 0
        PROVE  ListingOf(n)' = ListingOf(n)
    BY <1>7, <2>1 DEF OtherListingsKept, ListingOf
  <2>2. \A c \in Collections : \A n \in ListedIn(c) : ListingOf(n)' = ListingOf(n)
    BY <1>1, <2>1 DEF ListedIn
  <2>3. \A c \in Collections, user \in Account :
           ListedFor(user, c)' = {n \in ListedIn(c)' : ListingOf(n)'.debtor = user}
    BY DEF ListedFor
  <2>4. \A c \in Collections, user \in Account : nft \notin ListedFor(user, c)
    BY <1>10 DEF ListedFor
  <2>5. ListingOf(nft)'.debtor = debtor BY <1>4, <1>8
  <2>6. ASSUME NEW c \in Collections, NEW user \in Account
        PROVE  ListedFor(user, c)' = IF c = col /\ user = debtor
                                     THEN ListedFor(user, c) \cup {nft}
                                     ELSE ListedFor(user, c)
    <3>1. CASE c = col
      <4>1. ListedIn(c)' = ListedIn(c) \cup {nft} BY <1>10, <3>1
      <4> QED BY <2>2, <2>3, <2>5, <3>1, <4>1 DEF ListedFor
    <3>2. CASE c # col
      <4>1. ListedIn(c)' = ListedIn(c) BY <1>10, <3>2
      <4> QED BY <2>2, <2>3, <3>2, <4>1 DEF ListedFor
    <3> QED BY <3>1, <3>2
  <2> QED BY <2>4, <2>6
<1>12. /\ \A c \in Collections : IsFiniteSet(ListedIn(c))
       /\ \A c \in Collections, user \in Account : IsFiniteSet(ListedFor(user, c))
  BY ListedFinite DEF ListedIn, ListedFor
<1>13. \A c \in Collections :
         /\ totalDebtsByCollection[c] = Cardinality(ListedIn(c))
         /\ \A user \in Account :
              userTotalDebtByCollection[user][c] = Cardinality(ListedFor(user, c))
  BY CountersRestated
<1>14. \A c \in Collections :
         /\ totalDebtsByCollection'[c] = Cardinality(ListedIn(c)')
         /\ \A user \in Account :
              userTotalDebtByCollection'[user][c] = Cardinality(ListedFor(user, c)')
  <2> TAKE c \in Collections
  <2>1. totalDebtsByCollection'[c] = Cardinality(ListedIn(c)')
    <3>1. CASE c = col
      <4>1. Cardinality(ListedIn(c) \cup {nft}) = Cardinality(ListedIn(c)) + 1
        BY <1>10, <1>12, <3>1, FS_AddElement
      <4>2. totalDebtsByCollection'[c] = totalDebtsByCollection[c] + 1
        BY <1>1, <1>2, <3>1 DEF ListingTypeOK
      <4> QED BY <1>10, <1>13, <3>1, <4>1, <4>2
    <3>2. CASE c # col
      <4>1. totalDebtsByCollection'[c] = totalDebtsByCollection[c]
        BY <1>1, <1>2, <3>2 DEF ListingTypeOK
      <4> QED BY <1>10, <1>13, <3>2, <4>1
    <3> QED BY <3>1, <3>2
  <2>2. ASSUME NEW user \in Account
        PROVE  userTotalDebtByCollection'[user][c] = Cardinality(ListedFor(user, c)')
    <3>1. CASE c = col /\ user = debtor
      <4>1. Cardinality(ListedFor(user, c) \cup {nft}) = Cardinality(ListedFor(user, c)) + 1
        BY <1>11, <1>12, <3>1, FS_AddElement
      <4>2. userTotalDebtByCollection'[user][c] = userTotalDebtByCollection[user][c] + 1
        BY <1>1, <1>2, <3>1 DEF ListingTypeOK
      <4> QED BY <1>11, <1>13, <3>1, <4>1, <4>2
    <3>2. CASE ~(c = col /\ user = debtor)
      <4>1. userTotalDebtByCollection'[user][c] = userTotalDebtByCollection[user][c]
        BY <1>1, <1>2, <3>2 DEF ListingTypeOK
      <4> QED BY <1>11, <1>13, <3>2, <4>1
    <3> QED BY <3>1, <3>2
  <2> QED BY <2>1, <2>2
<1>15. (ListingCountersExact <=>
        \A c \in Collections :
          /\ totalDebtsByCollection[c] = Cardinality(ListedIn(c))
          /\ \A user \in Account :
               userTotalDebtByCollection[user][c] = Cardinality(ListedFor(user, c)))'
  BY DEF ListingCountersExact, ListedIn, ListedFor
<1>16. ListingCountersExact' BY <1>14, <1>15
<1> QED BY <1>1, <1>2, <1>4, <1>6, <1>7, <1>8, <1>9, <1>16 DEF d, id

\* bid: the listing with its new best bid.
LEMMA BidBook ==
  ASSUME ListingBook, NEW nft \in NFT, nftToDebtIds[nft] # 0,
         NEW bidder \in Account, NEW price \in Nat,
         marketListings' = [marketListings EXCEPT ![nftToDebtIds[nft]] =
           [@ EXCEPT !.state = "Active", !.bidderAddress = bidder,
                     !.bidPrice = price]],
         UNCHANGED <<debtIdTracker, nftToDebtIds, userTotalDebtByCollection,
                     totalDebtsByCollection>>
  PROVE  /\ ListingBook' /\ OtherListingsKept(nft)
         /\ ListingOf(nft)' = [ListingOf(nft) EXCEPT !.state = "Active",
                                 !.bidderAddress = bidder, !.bidPrice = price]
         /\ ListingOf(nft)'.scaledAmount = ListingOf(nft).scaledAmount
         /\ ListingOf(nft)'.bidderAddress = bidder
         /\ ListingOf(nft)'.bidPrice = price
<1> DEFINE d == nftToDebtIds[nft]
           old == ListingOf(nft)
           new == [old EXCEPT !.state = "Active", !.bidderAddress = bidder,
                              !.bidPrice = price]
<1> USE DEF ListingBook
<1>1. /\ d \in DebtIds /\ old = marketListings[d] /\ old \in ListingData
      /\ old.debtor \in Account
      /\ \A n \in NFT : n # nft => nftToDebtIds[n] # d
  BY FoundListing
<1>2. marketListings' = [marketListings EXCEPT ![d] = new]
  BY <1>1 DEF ListingTypeOK
<1>3. /\ new \in ListingData /\ new.nft = old.nft /\ new.debtor = old.debtor
      /\ new.scaledAmount = old.scaledAmount
      /\ new.state = "Active" /\ new.bidderAddress = bidder /\ new.bidPrice = price
  <2>1. "Active" \in DebtMarketState BY DEF DebtMarketState
  <2> HIDE DEF old
  <2> QED BY <1>1, <2>1 DEF ListingData
<1> HIDE DEF new, d
<1>4. ListingTypeOK' BY <1>1, <1>2, <1>3 DEF ListingTypeOK
<1>5. OtherListingsKept(nft)
  BY <1>1, <1>2 DEF OtherListingsKept, ListingTypeOK
<1>6. ListingOf(nft)' = new
  BY <1>1, <1>2 DEF ListingOf, ListingTypeOK, d
<1>7. ListingsFound'
  <2>1. \A n \in NFT : n # nft /\ nftToDebtIds[n] # 0 => ListingOf(n)' = ListingOf(n)
    BY <1>5 DEF OtherListingsKept, ListingOf
  <2>2. bidder # NullAddress BY LoanAssumption
  <2> HIDE DEF old
  <2> QED BY <1>1, <1>3, <1>6, <2>1, <2>2 DEF ListingsFound, old
<1>8. ListingCountersExact'
  <2>1. marketListings'[nftToDebtIds[nft]].debtor = ListingOf(nft).debtor
    BY <1>1, <1>2, <1>3 DEF ListingTypeOK, d
  <2> QED BY <1>5, <2>1, CountersStay
<1> QED BY <1>3, <1>4, <1>5, <1>6, <1>7, <1>8 DEF new

-----------------------------------------------------------------------------
(* The bids in the market.                                                 *)

HeldBids == SumOver(ListingBids, OpenListings)
BidListings(account) ==
  {d \in OpenListings : marketListings[d].bidderAddress = account}
BidsOf(account) == SumOver(ListingBids, BidListings(account))

\* What the listing of an NFT keeps in the market, and for whom.
HeldFor(nft) == IF nftToDebtIds[nft] = 0 THEN 0 ELSE ListingOf(nft).bidPrice
HeldBy(account, nft) ==
  IF nftToDebtIds[nft] # 0 /\ ListingOf(nft).bidderAddress = account
  THEN ListingOf(nft).bidPrice ELSE 0

LEMMA BidTypes ==
  ASSUME ListingTypeOK
  PROVE  /\ \A S \in SUBSET DebtIds : IsFiniteSet(S)
         /\ \A d \in DebtIds : ListingBids[d] \in Nat
         /\ HeldBids \in Nat /\ \A a : BidsOf(a) \in Nat
<1>1. ASSUME NEW S \in SUBSET DebtIds PROVE IsFiniteSet(S)
  <2>1. 1 \in Int /\ MaxListings \in Int BY MarketAssumption
  <2>2. IsFiniteSet(1 .. MaxListings) BY <2>1, FS_Interval, Zenon
  <2> QED BY <2>2, FS_Subset DEF DebtIds
<1>2. \A d \in DebtIds : ListingBids[d] \in Nat
  BY DEF ListingTypeOK, ListingData, ListingBids
<1>3. ASSUME NEW S \in SUBSET DebtIds PROVE SumOver(ListingBids, S) \in Nat
  <2>1. IsFiniteSet(S) /\ \A d \in S : ListingBids[d] \in Nat BY <1>1, <1>2
  <2> HIDE DEF ListingBids
  <2> QED BY <2>1, SumNat
<1>4. OpenListings \in SUBSET DebtIds /\ \A a : BidListings(a) \in SUBSET DebtIds
  BY DEF OpenListings, BidListings
<1> QED BY <1>1, <1>2, <1>3, <1>4 DEF HeldBids, BidsOf

\* When one listing is made, changed or deleted, the sums change by what it
\* keeps.
LEMMA BidChange ==
  ASSUME ListingTypeOK, ListingsFound, ListingTypeOK', ListingsFound',
         NEW nft \in NFT, OtherListingsKept(nft), NEW d \in DebtIds,
         \/ nftToDebtIds[nft] = d /\ nftToDebtIds'[nft] \in {0, d}
         \/ nftToDebtIds[nft] = 0 /\ nftToDebtIds'[nft] = d
  PROVE  /\ HeldBids' = HeldBids - HeldFor(nft) + HeldFor(nft)'
         /\ HeldFor(nft) \in Nat /\ HeldFor(nft)' \in Nat
         /\ HeldFor(nft) <= HeldBids
         /\ \A a : /\ BidsOf(a)' = BidsOf(a) - HeldBy(a, nft) + HeldBy(a, nft)'
                   /\ HeldBy(a, nft) \in Nat /\ HeldBy(a, nft)' \in Nat
<1>1. /\ nftToDebtIds \in [NFT -> {0} \cup DebtIds]
      /\ nftToDebtIds' \in [NFT -> {0} \cup DebtIds]
      /\ 0 \notin DebtIds
  BY DEF ListingTypeOK, DebtIds
<1>2. /\ \A n \in NFT : n # nft => nftToDebtIds[n] # d /\ nftToDebtIds'[n] # d
  <2>1. d # 0 BY <1>1
  <2>2. \A n \in NFT : n # nft => nftToDebtIds'[n] = nftToDebtIds[n]
    BY DEF OtherListingsKept
  <2>3. CASE nftToDebtIds[nft] = d
    BY <2>1, <2>2, <2>3, FoundListing
  <2>4. CASE nftToDebtIds'[nft] = d
    <3>1. ListingOf(nft)' = marketListings'[nftToDebtIds'[nft]]
            /\ \A n \in NFT : ListingOf(n)' = marketListings'[nftToDebtIds'[n]]
      BY DEF ListingOf
    <3>2. \A n \in NFT : nftToDebtIds'[n] = d => n = nft
      BY <2>1, <2>4, <3>1 DEF ListingsFound
    <3> QED BY <2>2, <3>2
  <2> QED BY <2>3, <2>4
<1>3. \A e \in DebtIds \ {d} :
        /\ e \in OpenListings <=> e \in OpenListings'
        /\ e \in OpenListings => marketListings'[e] = marketListings[e]
  BY <1>1 DEF OtherListingsKept, OpenListings
<1>4. /\ d \in OpenListings <=> nftToDebtIds[nft] = d
      /\ d \in OpenListings' <=> nftToDebtIds'[nft] = d
  BY <1>2 DEF OpenListings
<1>5. /\ OpenListings \in SUBSET DebtIds /\ OpenListings' \in SUBSET DebtIds
      /\ ListingBids = [e \in DebtIds |-> marketListings[e].bidPrice]
      /\ ListingBids' = [e \in DebtIds |-> marketListings'[e].bidPrice]
  BY DEF OpenListings, ListingBids
<1>6. /\ \A S \in SUBSET DebtIds : IsFiniteSet(S)
      /\ \A e \in DebtIds : ListingBids[e] \in Nat
  BY BidTypes
<1>7. \A e \in DebtIds : ListingBids'[e] \in Nat
  BY <1>5 DEF ListingTypeOK, ListingData
\* All of the market, and one bidder, by the same argument.
<1>8. ASSUME NEW S \in SUBSET DebtIds, NEW T \in SUBSET DebtIds,
             S \ {d} = T \ {d}, S \subseteq OpenListings,
             NEW k, NEW l, Share(ListingBids, S, d) = k, Share(ListingBids', T, d) = l
      PROVE  /\ SumOver(ListingBids', T) = SumOver(ListingBids, S) - k + l
             /\ k \in Nat /\ l \in Nat /\ k <= SumOver(ListingBids, S)
  <2> DEFINE f == ListingBids
             g == ListingBids'
  <2>1. /\ IsFiniteSet(S) /\ \A e \in S : f[e] \in Nat
        /\ IsFiniteSet(T) /\ \A e \in T : g[e] \in Nat
        /\ \A e \in S \ {d} : f[e] = g[e]
        /\ Share(f, S, d) = k /\ Share(g, T, d) = l
    BY <1>3, <1>5, <1>6, <1>7, <1>8
  <2> HIDE DEF f, g
  <2>2. /\ SumOver(g, T) = SumOver(f, S) - k + l
        /\ k \in Nat /\ l \in Nat /\ k <= SumOver(f, S)
    BY <1>8, <2>1, SumChange
  <2> QED BY <2>2 DEF f, g
<1>9. /\ HeldBids' = HeldBids - HeldFor(nft) + HeldFor(nft)'
      /\ HeldFor(nft) \in Nat /\ HeldFor(nft)' \in Nat
      /\ HeldFor(nft) <= HeldBids
  <2>1. OpenListings \ {d} = OpenListings' \ {d} BY <1>3, <1>5
  <2>2. Share(ListingBids, OpenListings, d) = HeldFor(nft)
    BY <1>1, <1>4, <1>5 DEF Share, HeldFor, ListingOf
  <2>3. Share(ListingBids', OpenListings', d) = HeldFor(nft)'
    BY <1>1, <1>4, <1>5 DEF Share, HeldFor, ListingOf
  <2> DEFINE S == OpenListings
             T == OpenListings'
  <2>4. /\ S \in SUBSET DebtIds /\ T \in SUBSET DebtIds
        /\ S \ {d} = T \ {d} /\ S \subseteq OpenListings
        /\ Share(ListingBids, S, d) = HeldFor(nft)
        /\ Share(ListingBids', T, d) = HeldFor(nft)'
    BY <1>5, <2>1, <2>2, <2>3
  <2> HIDE DEF S, T
  <2>5. /\ SumOver(ListingBids', T) = SumOver(ListingBids, S) - HeldFor(nft) + HeldFor(nft)'
        /\ HeldFor(nft) \in Nat /\ HeldFor(nft)' \in Nat
        /\ HeldFor(nft) <= SumOver(ListingBids, S)
    BY <1>8, <2>4
  <2> QED BY <2>5 DEF HeldBids, S, T
<1>10. ASSUME NEW a
       PROVE  /\ BidsOf(a)' = BidsOf(a) - HeldBy(a, nft) + HeldBy(a, nft)'
              /\ HeldBy(a, nft) \in Nat /\ HeldBy(a, nft)' \in Nat
  <2> DEFINE S == BidListings(a)
             T == BidListings(a)'
  <2>1. /\ S = {e \in OpenListings : marketListings[e].bidderAddress = a}
        /\ T = {e \in OpenListings' : marketListings'[e].bidderAddress = a}
    BY DEF BidListings
  <2>2. S \ {d} = T \ {d} /\ S \subseteq OpenListings
          /\ S \in SUBSET DebtIds /\ T \in SUBSET DebtIds
    BY <1>3, <1>5, <2>1
  <2>3. Share(ListingBids, S, d) = HeldBy(a, nft)
    BY <1>1, <1>4, <1>5, <2>1 DEF Share, HeldBy, ListingOf
  <2>4. Share(ListingBids', T, d) = HeldBy(a, nft)'
    BY <1>1, <1>4, <1>5, <2>1 DEF Share, HeldBy, ListingOf
  <2> HIDE DEF S, T
  <2>5. /\ SumOver(ListingBids', T)
             = SumOver(ListingBids, S) - HeldBy(a, nft) + HeldBy(a, nft)'
        /\ HeldBy(a, nft) \in Nat /\ HeldBy(a, nft)' \in Nat
    BY <1>8, <2>2, <2>3, <2>4
  <2> QED BY <2>5 DEF BidsOf, S, T
<1> QED BY <1>9, <1>10

-----------------------------------------------------------------------------
(* The invariant.                                                          *)

\* The pool's invariant, the book of listings, and what relates the two: each
\* listing is that of an open loan with the debt it was made for, and the
\* market has the bids it keeps.
MarketInv ==
  /\ PoolInv
  /\ ListingBook
  /\ ListingsAreCurrent
  /\ MarketCanRefund

LEMMA MarketInitInv == MarketInit => MarketInv
<1> SUFFICES ASSUME MarketInit PROVE MarketInv OBVIOUS
<1>1. PoolInv BY PoolInitInv DEF MarketInit
<1>2. /\ debtIdTracker = 0 /\ marketListings = [d \in DebtIds |-> NoListing]
      /\ nftToDebtIds = [n \in NFT |-> 0]
      /\ userTotalDebtByCollection = [u \in Account |-> [c \in Collections |-> 0]]
      /\ totalDebtsByCollection = [c \in Collections |-> 0]
  BY DEF MarketInit
<1>3. ListingTypeOK
  <2>1. NoListing \in ListingData
    BY DEF NoListing, ListingData, DebtMarketType, DebtMarketState
  <2>2. 0 \in 0 .. MaxListings BY MarketAssumption
  <2> HIDE DEF NoListing
  <2> QED BY <1>2, <2>1, <2>2 DEF ListingTypeOK
<1>4. ListingsFound /\ ListingsAreCurrent
  BY <1>2 DEF ListingsFound, ListingsAreCurrent
<1>5. ListingCountersExact
  <2>1. \A c \in Collections : ListedIn(c) = {} BY <1>2 DEF ListedIn
  <2>2. \A c \in Collections, user \in Account : ListedFor(user, c) = {}
    BY <2>1 DEF ListedFor
  <2>3. Cardinality({}) = 0 BY FS_EmptySet
  <2>4. \A c \in Collections :
          /\ totalDebtsByCollection[c] = Cardinality(ListedIn(c))
          /\ \A user \in Account :
               userTotalDebtByCollection[user][c] = Cardinality(ListedFor(user, c))
    BY <1>2, <2>1, <2>2, <2>3
  <2> QED BY <2>4, CountersRestated
<1>6. MarketCanRefund
  <2>1. OpenListings = {} BY <1>2 DEF OpenListings, DebtIds
  <2>2. SumOver(ListingBids, OpenListings) = 0 BY <2>1, SumEmpty
  <2>3. weth[DebtMarketAddr] \in Nat
    BY <1>1, MarketAssumption DEF PoolInv, PoolTypeOK
  <2> QED BY <2>2, <2>3 DEF MarketCanRefund
<1> QED BY <1>1, <1>3, <1>4, <1>5, <1>6 DEF MarketInv, ListingBook

\* Nobody but the payer is poorer, in the wallet, the pool and the market,
\* unless he wins an auction of the pool.
TotalPaidOnlyBy(payer) ==
  \A a \in Account : a # payer =>
    \/ TotalWealth(a)' >= TotalWealth(a)
    \/ \E id \in LoanIds : WinsAuction(a, id)

LEMMA TotalParts ==
  ASSUME MarketInv
  PROVE  \A a \in Account : /\ Wealth(a) \in Nat /\ BidsOf(a) \in Nat
                            /\ TotalWealth(a) = Wealth(a) + BidsOf(a)
<1>1. \A a : BidsOf(a) \in Nat BY BidTypes DEF MarketInv, ListingBook
<1>2. \A a : TotalWealth(a) = Wealth(a) + BidsOf(a)
  BY DEF TotalWealth, BidsOf, BidListings
<1> QED BY <1>1, <1>2, WealthNat DEF MarketInv

\* What an account gets back from the market it no longer has there.
LEMMA PaidInTotal ==
  ASSUME MarketInv, MarketInv', NEW payer, NEW refund, refund \in Refunds,
         PaidOnlyBy(payer, refund),
         \A a \in Account : a # payer =>
           Got(a, refund) + BidsOf(a)' >= BidsOf(a)
  PROVE  TotalPaidOnlyBy(payer)
<1>1. \A a \in Account : /\ Wealth(a) \in Nat /\ BidsOf(a) \in Nat
                         /\ TotalWealth(a) = Wealth(a) + BidsOf(a)
  BY TotalParts
<1>2. (MarketInv =>
        \A a \in Account : /\ Wealth(a) \in Nat /\ BidsOf(a) \in Nat
                           /\ TotalWealth(a) = Wealth(a) + BidsOf(a))'
  BY TotalParts, PTL
<1>3. \A a \in Account : /\ Wealth(a)' \in Nat /\ BidsOf(a)' \in Nat
                         /\ TotalWealth(a)' = Wealth(a)' + BidsOf(a)'
  BY <1>2
<1>4. ASSUME NEW a \in Account, a # payer
      PROVE  \/ TotalWealth(a)' >= TotalWealth(a)
             \/ \E id \in LoanIds : WinsAuction(a, id)
  <2>1. Got(a, refund) \in Nat BY GotNat
  <2>2. CASE Wealth(a)' >= Wealth(a) + Got(a, refund)
    <3>1. Got(a, refund) + BidsOf(a)' >= BidsOf(a) BY <1>4
    <3> QED BY <1>1, <1>3, <1>4, <2>1, <2>2, <3>1
  <2> QED BY <1>4, <2>2 DEF PaidOnlyBy
<1> QED BY <1>4 DEF TotalPaidOnlyBy

\* The listings stay current when a step changes the loan and the listing of
\* one NFT alone, and leaves it no listing of another debt.
LEMMA CurrentStep ==
  ASSUME MarketInv, ListingBook', NEW nft \in NFT,
         OtherLoansKept(nft), OtherListingsKept(nft),
         nftToDebtIds'[nft] # 0 =>
           /\ nftToLoanIds'[nft] # 0
           /\ ListingOf(nft)'.scaledAmount = loans'[nftToLoanIds'[nft]].scaledAmount
  PROVE  ListingsAreCurrent'
<1>1. ASSUME NEW n \in NFT, nftToDebtIds'[n] # 0, n # nft
      PROVE  /\ nftToLoanIds'[n] # 0
             /\ ListingOf(n)'.scaledAmount = loans'[nftToLoanIds'[n]].scaledAmount
  <2>1. /\ nftToDebtIds'[n] = nftToDebtIds[n]
        /\ nftToDebtIds[n] # 0 /\ ListingOf(n)' = ListingOf(n)
    BY <1>1 DEF OtherListingsKept, ListingOf
  <2>2. /\ nftToLoanIds[n] # 0
        /\ ListingOf(n).scaledAmount = loans[nftToLoanIds[n]].scaledAmount
    BY <2>1 DEF MarketInv, ListingsAreCurrent
  <2>3. nftToLoanIds'[n] = nftToLoanIds[n]
          /\ loans'[nftToLoanIds[n]] = loans[nftToLoanIds[n]]
    BY <1>1, <2>2 DEF OtherLoansKept
  <2> QED BY <2>1, <2>2, <2>3
<1>2. \A n \in NFT : nftToDebtIds'[n] # 0 =>
        /\ nftToLoanIds'[n] # 0
        /\ ListingOf(n)'.scaledAmount = loans'[nftToLoanIds'[n]].scaledAmount
  BY <1>1
<1>3. \A n \in NFT : nftToDebtIds'[n] # 0 =>
        ListingOf(n)'.nft = n /\ ListingOf(n)'.state \in {"New", "Active"}
  BY DEF ListingBook, ListingsFound
<1> QED BY <1>2, <1>3 DEF ListingsAreCurrent

\* A step about one NFT that makes, changes or deletes its listing.
LEMMA ListingStep ==
  ASSUME MarketInv, PoolInv', ListingBook', NEW nft \in NFT,
         OtherLoansKept(nft), OtherListingsKept(nft), NEW d \in DebtIds,
         \/ nftToDebtIds[nft] = d /\ nftToDebtIds'[nft] \in {0, d}
         \/ nftToDebtIds[nft] = 0 /\ nftToDebtIds'[nft] = d,
         nftToDebtIds'[nft] # 0 =>
           /\ nftToLoanIds'[nft] # 0
           /\ ListingOf(nft)'.scaledAmount = loans'[nftToLoanIds'[nft]].scaledAmount,
         weth'[DebtMarketAddr] >= weth[DebtMarketAddr] - HeldFor(nft) + HeldFor(nft)',
         NEW payer, NEW refund, refund \in Refunds, PaidOnlyBy(payer, refund),
         \A a \in Account : a # payer =>
           Got(a, refund) + HeldBy(a, nft)' >= HeldBy(a, nft)
  PROVE  MarketInv' /\ TotalPaidOnlyBy(payer)
<1>1. /\ HeldBids' = HeldBids - HeldFor(nft) + HeldFor(nft)'
      /\ HeldFor(nft) \in Nat /\ HeldFor(nft)' \in Nat
      /\ HeldFor(nft) <= HeldBids
      /\ \A a : /\ BidsOf(a)' = BidsOf(a) - HeldBy(a, nft) + HeldBy(a, nft)'
                /\ HeldBy(a, nft) \in Nat /\ HeldBy(a, nft)' \in Nat
  BY BidChange DEF MarketInv, ListingBook
<1>2. /\ HeldBids \in Nat /\ weth[DebtMarketAddr] \in Nat
      /\ weth'[DebtMarketAddr] \in Nat /\ weth[DebtMarketAddr] >= HeldBids
      /\ \A a : BidsOf(a) \in Nat
  BY BidTypes, MarketAssumption
  DEF MarketInv, ListingBook, PoolInv, PoolTypeOK, MarketCanRefund, HeldBids
<1>3. MarketCanRefund'
  <2>1. weth'[DebtMarketAddr] >= HeldBids' BY <1>1, <1>2
  <2> QED BY <2>1 DEF MarketCanRefund, HeldBids
<1>4. ListingsAreCurrent' BY CurrentStep
<1>5. MarketInv' BY <1>3, <1>4 DEF MarketInv
<1>6. \A a \in Account : a # payer => Got(a, refund) + BidsOf(a)' >= BidsOf(a)
  <2> TAKE a \in Account
  <2>1. Got(a, refund) \in Nat BY GotNat
  <2> QED BY <1>1, <1>2, <2>1
<1> QED BY <1>5, <1>6, PaidInTotal

\* The debts that are listed stay as they are.
ListedDebtsKept ==
  \A n \in NFT : nftToDebtIds[n] # 0 =>
    /\ nftToLoanIds'[n] # 0
    /\ loans'[nftToLoanIds'[n]].scaledAmount = loans[nftToLoanIds[n]].scaledAmount

LEMMA OthersListedKept ==
  ASSUME MarketInv, NEW nft \in NFT, OtherLoansKept(nft),
         nftToDebtIds[nft] # 0 =>
           /\ nftToLoanIds'[nft] # 0
           /\ loans'[nftToLoanIds'[nft]].scaledAmount
                = loans[nftToLoanIds[nft]].scaledAmount
  PROVE  ListedDebtsKept
<1>1. \A n \in NFT : nftToDebtIds[n] # 0 => nftToLoanIds[n] # 0
  BY DEF MarketInv, ListingsAreCurrent
<1> QED BY <1>1 DEF OtherLoansKept, ListedDebtsKept

\* A step that leaves the listings as they are.
LEMMA NoListingStep ==
  ASSUME MarketInv, PoolInv', UNCHANGED listingVars, ListedDebtsKept,
         weth'[DebtMarketAddr] >= weth[DebtMarketAddr],
         NEW payer, PaidOnlyBy(payer, <<>>)
  PROVE  MarketInv' /\ TotalPaidOnlyBy(payer)
<1>1. UNCHANGED <<debtIdTracker, marketListings, nftToDebtIds,
                  userTotalDebtByCollection, totalDebtsByCollection>>
  BY DEF listingVars
<1>2. ListingBook'
  <2>1. ListingTypeOK /\ ListingsFound /\ ListingCountersExact
    BY DEF MarketInv, ListingBook
  <2>2. ListingTypeOK' BY <1>1, <2>1 DEF ListingTypeOK
  <2>3. ListingsFound' BY <1>1, <2>1 DEF ListingsFound, ListingOf
  <2>4. ListingCountersExact' BY <1>1, <2>1 DEF ListingCountersExact, ListingOf
  <2> QED BY <2>2, <2>3, <2>4 DEF ListingBook
<1>3. /\ HeldBids' = HeldBids /\ \A a : BidsOf(a)' = BidsOf(a)
      /\ \A nft \in NFT : ListingOf(nft)' = ListingOf(nft)
  BY <1>1 DEF HeldBids, BidsOf, BidListings, ListingBids, OpenListings, ListingOf
<1>4. ListingsAreCurrent'
  BY <1>1, <1>3 DEF MarketInv, ListingsAreCurrent, ListedDebtsKept
<1>5. HeldBids \in Nat /\ \A a : BidsOf(a) \in Nat
  BY BidTypes DEF MarketInv, ListingBook
<1>6. MarketCanRefund'
  <2>1. /\ weth[DebtMarketAddr] \in Nat /\ weth'[DebtMarketAddr] \in Nat
        /\ weth[DebtMarketAddr] >= HeldBids
    BY MarketAssumption
    DEF MarketInv, PoolInv, PoolTypeOK, MarketCanRefund, HeldBids
  <2>2. weth'[DebtMarketAddr] >= HeldBids' BY <1>3, <1>5, <2>1
  <2> QED BY <2>2 DEF MarketCanRefund, HeldBids
<1>7. MarketInv' BY <1>2, <1>4, <1>6 DEF MarketInv
<1>8. <<>> \in Refunds BY DEF Refunds
<1>9. \A a \in Account : Got(a, <<>>) + BidsOf(a)' >= BidsOf(a)
  BY <1>3, <1>5 DEF Got
<1> QED BY <1>7, <1>8, <1>9, PaidInTotal

-----------------------------------------------------------------------------
(* The market's transfers.                                                 *)

LEMMA MarketAddress ==
  /\ DebtMarketAddr \in Holder
  /\ DebtMarketAddr \notin Account \cup {LendPoolAddr, UTokenAddr}
BY MarketAssumption

\* What the market pays back when a listing ends or gets a better bid: the
\* bid that is kept for it, to the bidder.
LEMMA BidReturned ==
  ASSUME ListingBook, NEW nft \in NFT, nftToDebtIds[nft] # 0
  PROVE  /\ ReturnBid(ListingOf(nft)) \in Refunds
         /\ \A a \in Account : Got(a, ReturnBid(ListingOf(nft))) = HeldBy(a, nft)
         /\ \A b \in Balances : \A c : Pays(b, ReturnBid(ListingOf(nft)), c) =>
              c[DebtMarketAddr] = b[DebtMarketAddr] - HeldFor(nft)
<1> DEFINE bidder == ListingOf(nft).bidderAddress
           price == ListingOf(nft).bidPrice
           t == Transfer(DebtMarketAddr, bidder, price)
<1>1. /\ price \in Nat /\ bidder \in Account \cup {NullAddress}
      /\ bidder = NullAddress => price = 0
      /\ NullAddress \notin Account
  BY FoundListing, LoanAssumption DEF ListingBook
<1>2. /\ HeldFor(nft) = price
      /\ \A a \in Account : HeldBy(a, nft) = IF bidder = a THEN price ELSE 0
  BY DEF HeldFor, HeldBy
<1>3. ReturnBid(ListingOf(nft)) = IF bidder = NullAddress THEN <<>> ELSE <<t>>
  BY DEF ReturnBid
<1> HIDE DEF bidder, price
<1>4. CASE bidder = NullAddress
  <2>1. ReturnBid(ListingOf(nft)) = <<>> BY <1>3, <1>4
  <2>2. \A a \in Account : HeldBy(a, nft) = 0 /\ Got(a, <<>>) = 0
    BY <1>1, <1>2, <1>4 DEF Got
  <2>3. HeldFor(nft) = 0 BY <1>1, <1>2, <1>4
  <2>4. ASSUME NEW b \in Balances, NEW c, Pays(b, <<>>, c)
        PROVE  c[DebtMarketAddr] = b[DebtMarketAddr] - 0
    <3>1. c = b BY <2>4, PayNothing
    <3>2. b[DebtMarketAddr] \in Nat BY MarketAddress DEF Balances
    <3> QED BY <3>1, <3>2
  <2>5. <<>> \in Refunds BY DEF Refunds
  <2> QED BY <2>1, <2>2, <2>3, <2>4, <2>5
<1>5. CASE bidder # NullAddress
  <2>1. ReturnBid(ListingOf(nft)) = <<t>> BY <1>3, <1>5
  <2>2. t \in SideTransfer /\ t.to = bidder /\ t.amount = price
    BY <1>1, <1>5, MarketAddress, Addresses
    DEF Transfer, SideTransfer, TransferType
  <2>3. \A a \in Account : Got(a, <<t>>) = HeldBy(a, nft)
    <3> HIDE DEF t
    <3>1. <<t>> # <<>> /\ <<t>>[1] = t OBVIOUS
    <3> QED BY <1>2, <2>2, <3>1 DEF Got
  <2>4. ASSUME NEW b \in Balances, NEW c, Pays(b, <<t>>, c)
        PROVE  c[DebtMarketAddr] = b[DebtMarketAddr] - HeldFor(nft)
    <3>1. Paid(b, DebtMarketAddr, bidder, price, c) BY <2>4 DEF Paid
    <3>2. \A h \in Holder : c[h] = b[h] + Flow(h, DebtMarketAddr, bidder, price)
      BY <1>1, <1>5, <3>1, PayFlow, MarketAddress, Addresses
    <3>3. b[DebtMarketAddr] \in Nat BY MarketAddress DEF Balances
    <3>4. DebtMarketAddr # bidder BY <1>1, <1>5, MarketAddress
    <3> QED BY <1>1, <1>2, <3>2, <3>3, <3>4, MarketAddress DEF Flow
  <2>5. <<t>> \in Refunds BY <2>2 DEF Refunds
  <2> HIDE DEF t
  <2> QED BY <2>1, <2>3, <2>4, <2>5
<1> QED BY <1>4, <1>5

\* The same for what a pool operation has paid back, if there was a listing.
LEMMA RefundIfListedPays ==
  ASSUME ListingBook, NEW nft \in NFT
  PROVE  /\ RefundIfListed(nft) \in Refunds
         /\ \A a \in Account : Got(a, RefundIfListed(nft)) = HeldBy(a, nft)
         /\ \A b \in Balances : \A c : Pays(b, RefundIfListed(nft), c) =>
              c[DebtMarketAddr] = b[DebtMarketAddr] - HeldFor(nft)
<1>1. CASE nftToDebtIds[nft] # 0
  <2>1. RefundIfListed(nft) = ReturnBid(ListingOf(nft)) BY <1>1 DEF RefundIfListed
  <2> QED BY <1>1, <2>1, BidReturned
<1>2. CASE nftToDebtIds[nft] = 0
  <2>1. RefundIfListed(nft) = <<>> BY <1>2 DEF RefundIfListed
  <2>2. /\ \A a \in Account : HeldBy(a, nft) = 0 /\ Got(a, <<>>) = 0
        /\ HeldFor(nft) = 0
    BY <1>2 DEF HeldBy, HeldFor, Got
  <2>3. ASSUME NEW b \in Balances, NEW c, Pays(b, <<>>, c)
        PROVE  c[DebtMarketAddr] = b[DebtMarketAddr] - 0
    <3>1. c = b BY <2>3, PayNothing
    <3>2. b[DebtMarketAddr] \in Nat BY MarketAddress DEF Balances
    <3> QED BY <3>1, <3>2
  <2>4. <<>> \in Refunds BY DEF Refunds
  <2> QED BY <2>1, <2>2, <2>3, <2>4
<1> QED BY <1>1, <1>2

\* A pool operation costs the market the bid it pays back, and no more.
LEMMA PoolLeavesMarket ==
  ASSUME ListingBook, weth \in Balances, NEW nft \in NFT,
         PoolOperation(nft, RefundIfListed(nft))
  PROVE  weth'[DebtMarketAddr] >= weth[DebtMarketAddr] - HeldFor(nft)
<1> DEFINE refund == RefundIfListed(nft)
<1>1. /\ refund \in Refunds
      /\ \A b \in Balances : \A c : Pays(b, refund, c) =>
           c[DebtMarketAddr] = b[DebtMarketAddr] - HeldFor(nft)
  BY RefundIfListedPays
<1>2. PICK s \in Seq(PoolTransfer) : Transfers(refund \o s) BY DEF PoolOperation
<1> HIDE DEF refund
<1>3. s \in Seq(TransferType)
  <2>1. PoolTransfer \subseteq TransferType BY DEF PoolTransfer
  <2> QED BY <2>1
<1>4. refund \in Seq(TransferType) BY <1>1, RefundsSeq
<1>5. refund \o s \in Seq(TransferType) BY <1>3, <1>4, ConcatProperties
<1> DEFINE all == refund \o s
<1>6. all \in Seq(TransferType) /\ Transfers(all) BY <1>2, <1>5
<1> HIDE DEF all
<1>7. PICK c \in Balances : weth' = c /\ Pays(weth, all, c) BY <1>6, TransfersPay
<1>8. PICK b \in Balances : Pays(weth, refund, b) /\ Pays(b, s, c)
  BY <1>3, <1>4, <1>7, PayParts DEF all
<1>9. b[DebtMarketAddr] = weth[DebtMarketAddr] - HeldFor(nft) BY <1>1, <1>8
<1>10. c[DebtMarketAddr] >= b[DebtMarketAddr]
  BY <1>8, OthersKeepMoney, MarketAddress
<1> QED BY <1>7, <1>9, <1>10

\* cancelDebtListing, by whomever.
LEMMA CancelBook ==
  ASSUME ListingBook, NEW nft \in NFT, nftToDebtIds[nft] # 0, CancelListing(nft)
  PROVE  /\ ListingBook' /\ OtherListingsKept(nft)
         /\ nftToDebtIds' = [nftToDebtIds EXCEPT ![nft] = 0]
<1> DEFINE final == [ListingOf(nft) EXCEPT !.state = "Canceled"]
<1>1. DebtShouldExist(nft) /\ DeleteListing(nft, final) BY DEF CancelListing
<1>2. final \in ListingData
  <2>1. ListingOf(nft) \in ListingData BY FoundListing DEF ListingBook
  <2>2. "Canceled" \in DebtMarketState BY DEF DebtMarketState
  <2> QED BY <2>1, <2>2 DEF ListingData
<1> HIDE DEF final
<1> QED BY <1>1, <1>2, DeleteBook

\* An operation of the pool that cancels the listing, if there is one.
LEMMA CancellingStep ==
  ASSUME MarketInv, PoolInv', NEW nft \in NFT,
         PoolOperation(nft, RefundIfListed(nft)), CancelIfListed(nft),
         NEW payer, PaidOnlyBy(payer, RefundIfListed(nft))
  PROVE  MarketInv' /\ TotalPaidOnlyBy(payer)
<1>1. ListingBook /\ weth \in Balances /\ nftToDebtIds \in [NFT -> {0} \cup DebtIds]
  BY DEF MarketInv, PoolInv, PoolTypeOK, Balances, ListingBook, ListingTypeOK
<1>2. OtherLoansKept(nft) BY DEF PoolOperation
<1>3. /\ RefundIfListed(nft) \in Refunds
      /\ \A a \in Account : Got(a, RefundIfListed(nft)) = HeldBy(a, nft)
  BY <1>1, RefundIfListedPays
<1>4. weth'[DebtMarketAddr] >= weth[DebtMarketAddr] - HeldFor(nft)
  BY <1>1, PoolLeavesMarket
<1>5. CASE nftToDebtIds[nft] = 0
  <2>1. UNCHANGED listingVars BY <1>5 DEF CancelIfListed
  <2>2. RefundIfListed(nft) = <<>> BY <1>5 DEF RefundIfListed
  <2>3. PaidOnlyBy(payer, <<>>) BY <2>2
  <2>4. weth'[DebtMarketAddr] >= weth[DebtMarketAddr]
    <3>1. HeldFor(nft) = 0 /\ weth[DebtMarketAddr] \in Nat
      BY <1>1, <1>5, MarketAddress DEF HeldFor, Balances
    <3> QED BY <1>4, <3>1
  <2>5. ListedDebtsKept BY <1>2, <1>5, OthersListedKept
  <2> QED BY <2>1, <2>3, <2>4, <2>5, NoListingStep
<1>6. CASE nftToDebtIds[nft] # 0
  <2>1. /\ ListingBook' /\ OtherListingsKept(nft)
        /\ nftToDebtIds' = [nftToDebtIds EXCEPT ![nft] = 0]
    BY <1>1, <1>6, CancelBook DEF CancelIfListed
  <2>2. nftToDebtIds'[nft] = 0 BY <1>1, <2>1
  <2>3. HeldFor(nft)' = 0 /\ \A a \in Account : HeldBy(a, nft)' = 0
    BY <2>2 DEF HeldFor, HeldBy
  <2>4. /\ HeldFor(nft) \in Nat /\ \A a \in Account : HeldBy(a, nft) \in Nat
        /\ weth[DebtMarketAddr] \in Nat
    <3>1. ListingOf(nft).bidPrice \in Nat BY <1>6, <1>1, FoundListing DEF ListingBook
    <3> QED BY <1>1, <3>1, MarketAddress DEF HeldFor, HeldBy, Balances
  <2> DEFINE d == nftToDebtIds[nft]
  <2>5. d \in DebtIds /\ nftToDebtIds[nft] = d BY <1>1, <1>6
  <2> HIDE DEF d
  <2>6. weth'[DebtMarketAddr] >= weth[DebtMarketAddr] - HeldFor(nft) + HeldFor(nft)'
    BY <1>4, <2>3, <2>4
  <2>7. \A a \in Account : a # payer =>
          Got(a, RefundIfListed(nft)) + HeldBy(a, nft)' >= HeldBy(a, nft)
    BY <1>3, <2>3, <2>4
  <2> QED BY <1>2, <1>3, <2>1, <2>2, <2>5, <2>6, <2>7, ListingStep
<1> QED BY <1>5, <1>6

\* Transfers of the pool alone cost the market nothing.
LEMMA PoolTransfersLeaveMarket ==
  ASSUME weth \in Balances, NEW s \in Seq(PoolTransfer), Transfers(s)
  PROVE  weth'[DebtMarketAddr] >= weth[DebtMarketAddr]
<1>1. s \in Seq(TransferType)
  <2>1. PoolTransfer \subseteq TransferType BY DEF PoolTransfer
  <2> QED BY <2>1
<1>2. PICK c \in Balances : weth' = c /\ Pays(weth, s, c) BY <1>1, TransfersPay
<1> QED BY <1>2, OthersKeepMoney, MarketAddress

-----------------------------------------------------------------------------
(* The pool's steps.                                                       *)

LEMMA PoolBorrowKeeps ==
  ASSUME MarketInv, NEW initiator \in Account, NEW onBehalfOf \in Account,
         NEW nft \in NFT, NEW amount \in Nat \ {0},
         PoolBorrow(initiator, onBehalfOf, nft, amount)
  PROVE  MarketInv' /\ TotalPaidOnlyBy(initiator)
<1>1. PoolInv /\ ListingBook /\ amount \in Nat BY DEF MarketInv
<1>2. RefundIfListed(nft) \in Refunds /\ <<>> \in Refunds
  BY <1>1, RefundIfListedPays DEF Refunds
<1>3. CASE nftToLoanIds[nft] = 0
  <2>1. Borrow(initiator, onBehalfOf, nft, amount, <<>>) /\ UNCHANGED listingVars
    BY <1>3 DEF PoolBorrow, ListingsStay
  <2>2. PoolInv' /\ PaidOnlyBy(initiator, <<>>)
    BY <1>1, <1>2, <2>1, BorrowKeeps
  <2>3. PoolOperation(nft, <<>>) BY <1>1, <2>1, BorrowOperation
  <2>4. nftToDebtIds[nft] = 0 BY <1>3 DEF MarketInv, ListingsAreCurrent
  <2>5. ListedDebtsKept BY <2>3, <2>4, OthersListedKept DEF PoolOperation
  <2>6. weth'[DebtMarketAddr] >= weth[DebtMarketAddr]
    <3>1. weth \in Balances /\ weth[DebtMarketAddr] \in Nat
      BY <1>1, MarketAddress DEF PoolInv, PoolTypeOK, Balances
    <3>2. RefundIfListed(nft) = <<>> /\ HeldFor(nft) = 0
      BY <2>4 DEF RefundIfListed, HeldFor
    <3>3. weth'[DebtMarketAddr] >= weth[DebtMarketAddr] - HeldFor(nft)
      BY <1>1, <2>3, <3>1, <3>2, PoolLeavesMarket
    <3> QED BY <3>1, <3>2, <3>3
  <2> QED BY <2>1, <2>2, <2>5, <2>6, NoListingStep
<1>4. CASE nftToLoanIds[nft] # 0
  <2>1. /\ Borrow(initiator, onBehalfOf, nft, amount, RefundIfListed(nft))
        /\ CancelIfListed(nft)
    BY <1>4 DEF PoolBorrow
  <2>2. PoolInv' /\ PaidOnlyBy(initiator, RefundIfListed(nft))
    BY <1>1, <1>2, <2>1, BorrowKeeps
  <2>3. PoolOperation(nft, RefundIfListed(nft)) BY <1>1, <2>1, BorrowOperation
  <2> QED BY <2>1, <2>2, <2>3, CancellingStep
<1> QED BY <1>3, <1>4

LEMMA PoolAuctionKeeps ==
  ASSUME MarketInv, NEW initiator \in Account, NEW onBehalfOf \in Account,
         NEW nft \in NFT, NEW price \in Nat \ {0},
         PoolAuction(initiator, onBehalfOf, nft, price)
  PROVE  MarketInv' /\ TotalPaidOnlyBy(initiator)
<1>1. PoolInv /\ price \in Nat BY DEF MarketInv
<1>2. Auction(initiator, onBehalfOf, nft, price) /\ UNCHANGED listingVars
  BY DEF PoolAuction, ListingsStay
<1>3. PoolInv' /\ PaidOnlyBy(initiator, <<>>) BY <1>1, <1>2, AuctionKeeps
<1>4. /\ PoolOperation(nft, <<>>) /\ nftToLoanIds' = nftToLoanIds
      /\ loans'[nftToLoanIds[nft]].scaledAmount
           = loans[nftToLoanIds[nft]].scaledAmount
  BY <1>1, <1>2, AuctionOperation
<1>5. ListedDebtsKept
  <2>1. nftToDebtIds[nft] # 0 => nftToLoanIds[nft] # 0
    BY DEF MarketInv, ListingsAreCurrent
  <2> QED BY <1>4, <2>1, OthersListedKept DEF PoolOperation
<1>6. weth'[DebtMarketAddr] >= weth[DebtMarketAddr]
  <2>1. PICK s \in Seq(PoolTransfer) : Transfers(<<>> \o s)
    BY <1>4 DEF PoolOperation
  <2>2. <<>> \o s = s BY ConcatEmptySeq
  <2>3. Transfers(s) BY <2>1, <2>2
  <2>4. weth \in Balances BY <1>1 DEF PoolInv, PoolTypeOK, Balances
  <2> QED BY <2>3, <2>4, PoolTransfersLeaveMarket
<1> QED BY <1>2, <1>3, <1>5, <1>6, NoListingStep

LEMMA PoolUserStepKeeps ==
  ASSUME MarketInv, PoolUserStep
  PROVE  MarketInv' /\ \E payer \in Account : TotalPaidOnlyBy(payer)
<1>1. PICK initiator \in Account, nft \in NFT :
        \/ \E onBehalfOf \in Account :
             \/ \E amount \in Amounts : PoolBorrow(initiator, onBehalfOf, nft, amount)
             \/ \E bid \in Bids : PoolAuction(initiator, onBehalfOf, nft, bid)
             \/ PoolBuyout(initiator, onBehalfOf, nft)
        \/ \E amount \in Amounts :
             \/ PoolRepay(initiator, nft, amount)
             \/ PoolLiquidate(initiator, nft, amount)
             \/ \E fineLimit \in Amounts :
                  PoolRedeem(initiator, nft, amount, fineLimit)
  BY DEF PoolUserStep
<1>2. Amounts \subseteq Nat \ {0} /\ Bids \subseteq Nat \ {0}
  BY LoanAssumption, PoolAssumption
<1> DEFINE refund == RefundIfListed(nft)
<1>3. PoolInv /\ refund \in Refunds
  BY RefundIfListedPays DEF MarketInv
<1>4. ASSUME PoolInv', PaidOnlyBy(initiator, refund), PoolOperation(nft, refund),
             CancelIfListed(nft)
      PROVE  MarketInv' /\ TotalPaidOnlyBy(initiator)
  BY <1>4, CancellingStep
<1> HIDE DEF refund
<1>5. CASE \E onBehalfOf \in Account, amount \in Amounts :
             PoolBorrow(initiator, onBehalfOf, nft, amount)
  <2>1. PICK onBehalfOf \in Account, amount \in Nat \ {0} :
          PoolBorrow(initiator, onBehalfOf, nft, amount)
    BY <1>2, <1>5
  <2> QED BY <2>1, PoolBorrowKeeps
<1>6. CASE \E onBehalfOf \in Account, bid \in Bids :
             PoolAuction(initiator, onBehalfOf, nft, bid)
  <2>1. PICK onBehalfOf \in Account, bid \in Nat \ {0} :
          PoolAuction(initiator, onBehalfOf, nft, bid)
    BY <1>2, <1>6
  <2> QED BY <2>1, PoolAuctionKeeps
<1>7. CASE \E onBehalfOf \in Account : PoolBuyout(initiator, onBehalfOf, nft)
  <2>1. PICK onBehalfOf \in Account :
          Buyout(initiator, onBehalfOf, nft, refund) /\ CancelIfListed(nft)
    BY <1>7 DEF PoolBuyout, refund
  <2>2. PoolInv' /\ PaidOnlyBy(initiator, refund) BY <1>3, <2>1, BuyoutKeeps
  <2>3. PoolOperation(nft, refund) BY <1>3, <2>1, BuyoutOperation
  <2> QED BY <1>4, <2>1, <2>2, <2>3
<1>8. CASE \E amount \in Amounts : PoolRepay(initiator, nft, amount)
  <2>1. PICK amount \in Nat :
          Repay(initiator, nft, amount, refund) /\ CancelIfListed(nft)
    BY <1>2, <1>8 DEF PoolRepay, refund
  <2>2. PoolInv' /\ PaidOnlyBy(initiator, refund) BY <1>3, <2>1, RepayKeeps
  <2>3. PoolOperation(nft, refund) BY <1>3, <2>1, RepayOperation
  <2> QED BY <1>4, <2>1, <2>2, <2>3
<1>9. CASE \E amount \in Amounts : PoolLiquidate(initiator, nft, amount)
  <2>1. PICK amount \in Nat :
          Liquidate(initiator, nft, amount, refund) /\ CancelIfListed(nft)
    BY <1>2, <1>9 DEF PoolLiquidate, refund
  <2>2. PoolInv' /\ PaidOnlyBy(initiator, refund) BY <1>3, <2>1, LiquidateKeeps
  <2>3. PoolOperation(nft, refund) BY <1>3, <2>1, LiquidateOperation
  <2> QED BY <1>4, <2>1, <2>2, <2>3
<1>10. CASE \E amount, fineLimit \in Amounts :
              PoolRedeem(initiator, nft, amount, fineLimit)
  <2>1. PICK amount \in Nat, fineLimit \in Nat :
          RedeemAuction(initiator, nft, amount, fineLimit, refund)
            /\ CancelIfListed(nft)
    BY <1>2, <1>10 DEF PoolRedeem, refund
  <2>2. PoolInv' /\ PaidOnlyBy(initiator, refund) BY <1>3, <2>1, RedeemKeeps
  <2>3. PoolOperation(nft, refund) BY <1>3, <2>1, RedeemOperation
  <2> QED BY <1>4, <2>1, <2>2, <2>3
<1> QED BY <1>1, <1>5, <1>6, <1>7, <1>8, <1>9, <1>10

\* Lenders, delegations, the administrators, sales elsewhere and the time leave
\* the loans as they are.
LEMMA OtherPoolLeavesLoans ==
  ASSUME OtherPoolStep
  PROVE  UNCHANGED <<loans, nftToLoanIds>>
<1>1. CASE LenderStep
  BY <1>1 DEF LenderStep, Deposit, Withdraw, loanVars, bookVars
<1>2. CASE Delegate BY <1>2 DEF Delegate, ApproveDelegation, loanVars, bookVars
<1>3. CASE Configure
  BY <1>3 DEF Configure, ConfigureNftAsCollateral, ConfigureNftAsAuction,
              SetActiveFlagOnNft, SetFreezeFlagOnNft, SetNFTPrice,
              loanVars, bookVars
<1>4. CASE Elsewhere BY <1>4 DEF Elsewhere, Trade, TransferNft, InitNft, bookVars
<1>5. CASE Tick BY <1>5 DEF Tick, loanVars, bookVars
<1>6. CASE \E val \in Switches : SetPause(val)
  BY <1>6 DEF SetPause, loanVars, bookVars
<1> QED BY <1>1, <1>2, <1>3, <1>4, <1>5, <1>6 DEF OtherPoolStep

\* Such a step keeps the invariant, and one account alone pays.
LEMMA OtherPoolStepKeeps ==
  ASSUME MarketInv, OtherPoolStep
  PROVE  MarketInv' /\ \E payer \in Account : TotalPaidOnlyBy(payer)
<1>1. PoolInv /\ UNCHANGED listingVars /\ weth \in Balances
  BY DEF MarketInv, OtherPoolStep, ListingsStay, PoolInv, PoolTypeOK, Balances
<1>2. ASSUME UNCHANGED <<loans, nftToLoanIds>> PROVE ListedDebtsKept
  BY <1>2 DEF MarketInv, ListingsAreCurrent, ListedDebtsKept
<1>3. CASE LenderStep
  <2>1. PICK payer \in Account : PoolInv' /\ PaidOnlyBy(payer, <<>>)
    BY <1>1, <1>3, LenderStepKeeps
  <2>2. PICK lender \in Account, amount \in Nat :
          Deposit(lender, amount) \/ Withdraw(lender, amount)
    BY <1>3, PoolAssumption, LoanAssumption DEF LenderStep
  <2>3. UNCHANGED <<loans, nftToLoanIds>> BY OtherPoolLeavesLoans
  <2>4. PICK s \in Seq(PoolTransfer) : Transfers(s)
    <3>1. /\ <<Transfer(lender, UTokenAddr, amount)>> \in Seq(PoolTransfer)
          /\ <<Transfer(UTokenAddr, lender, amount)>> \in Seq(PoolTransfer)
      BY PoolTransferSeq
    <3>2. \/ Transfers(<<Transfer(lender, UTokenAddr, amount)>>)
          \/ Transfers(<<Transfer(UTokenAddr, lender, amount)>>)
      BY <2>2 DEF Deposit, Withdraw
    <3> QED BY <3>1, <3>2
  <2>5. weth'[DebtMarketAddr] >= weth[DebtMarketAddr]
    BY <1>1, <2>4, PoolTransfersLeaveMarket
  <2> QED BY <1>1, <1>2, <2>1, <2>3, <2>5, NoListingStep
<1>4. CASE \/ Delegate \/ Configure \/ Elsewhere \/ Tick
           \/ \E val \in Switches : SetPause(val)
  <2>1. PoolInv' /\ UNCHANGED <<loans, weth, debtToken>>
    BY <1>1, <1>4, QuietStepKeeps
  <2>2. nftToLoanIds' = nftToLoanIds BY OtherPoolLeavesLoans
  <2>3. Treasury \in Account BY PoolAssumption
  <2>4. /\ weth' \in Balances
        /\ \A a \in Account : a # Treasury => weth'[a] >= weth[a]
        /\ weth'[DebtMarketAddr] >= weth[DebtMarketAddr]
    BY <1>1, <2>1, Addresses, MarketAddress DEF Balances
  <2>5. PaidOnlyBy(Treasury, <<>>) BY <1>1, <2>1, <2>4, FrameEffects
  <2>6. ListedDebtsKept BY <1>2, <2>1, <2>2
  <2> QED BY <1>1, <2>1, <2>3, <2>4, <2>5, <2>6, NoListingStep
<1> QED BY <1>3, <1>4 DEF OtherPoolStep

-----------------------------------------------------------------------------
(* The market's own steps.                                                 *)

LEMMA PriceNat ==
  ASSUME NEW account, NEW price \in Nat
  PROVE  PriceFor(account, price) \in Nat
<1>1. PercentMul(price, LockeyDiscountOnMarket) \in Nat
  BY MarketAssumption, UnitsAssumption, UnitMulNat DEF PercentMul
<1> QED BY <1>1 DEF PriceFor

\* A sale moves the debt tokens with the record of the loan.
LEMMA TransferDebtKeeps ==
  ASSUME PoolInv, NEW nft \in NFT, NEW buyer \in Account, TransferDebt(nft, buyer),
         weth' \in Balances, weth'[LendPoolAddr] = weth[LendPoolAddr],
         NEW payer, NEW refund, refund \in Refunds,
         \A a \in Account : a # payer => weth'[a] >= weth[a] + Got(a, refund)
  PROVE  PoolInv' /\ OtherLoansKept(nft) /\ PaidOnlyBy(payer, refund)
<1> DEFINE id == nftToLoanIds[nft]
           loan == loans[id]
           seller == loan.borrower
           amountScaled == RayDiv(BorrowAmount(id), borrowIndex)
<1>1. /\ id # 0 /\ debtToken[seller] >= amountScaled
      /\ debtToken' = [[debtToken EXCEPT ![seller] = @ - amountScaled]
                                  EXCEPT ![buyer] = @ + amountScaled]
      /\ ReMintUNFT(nft, seller, buyer)
      /\ UNCHANGED <<borrowAllowances, marketVars, pauseVars>>
  BY DEF TransferDebt
<1>2. /\ id \in LoanIds /\ Live(id) /\ loan \in LoanData /\ seller \in Account
      /\ AuctionFieldsAgree(loan)
  BY <1>1, FoundLoan DEF PoolInv
<1>3. /\ debtToken \in [Account -> Nat] /\ loan.scaledAmount \in Nat
      /\ amountScaled = loan.scaledAmount /\ weth \in Balances
      /\ borrowAllowances \in [Account -> [Account -> Nat]]
  BY <1>2, PoolAmounts DEF PoolInv, PoolTypeOK
<1>4. LoanInv' BY <1>1, ReMintInv DEF PoolInv
<1>5. /\ loans' = [loans EXCEPT ![id].borrower = buyer] /\ nftToLoanIds' = nftToLoanIds
      /\ loans \in [LoanIds -> LoanData]
  BY <1>1 DEF ReMintUNFT, PoolInv, LoanInv, LoanTypeOK
<1> HIDE DEF id, loan, seller, amountScaled
<1>6. /\ OthersKept(id) /\ loans'[id] = [loan EXCEPT !.borrower = buyer]
  BY <1>2, <1>5 DEF OthersKept, loan
<1>7. /\ loans'[id].state = loan.state /\ loans'[id].bidPrice = loan.bidPrice
      /\ loans'[id].bidderAddress = loan.bidderAddress
      /\ loans'[id].scaledAmount = loan.scaledAmount
      /\ loans'[id].borrower = buyer
  BY <1>2, <1>6 DEF LoanData
<1>8. /\ EscrowOf(loans'[id]) = EscrowOf(loan)
      /\ \A a \in Account : BidBy(a, loans'[id]) = BidBy(a, loan)
  BY <1>7 DEF EscrowOf, BidBy
<1>9. \A a \in Account : BidBy(a, loan) \in Nat
  BY <1>2 DEF BidBy, LoanData
<1>10. EscrowOf(loan) \in Nat BY <1>2 DEF EscrowOf, LoanData
<1>11. \A user \in Account :
         /\ OwedBy(user, loan) = IF user = seller THEN amountScaled ELSE 0
         /\ OwedBy(user, loans'[id]) = IF user = buyer THEN amountScaled ELSE 0
  BY <1>2, <1>3, <1>7 DEF OwedBy, Live, loan, seller
<1>12. debtToken' \in [Account -> Nat]
  BY <1>1, <1>2, <1>3
<1>13. \A user \in Account :
         debtToken'[user] = debtToken[user] - OwedBy(user, loan)
                              + OwedBy(user, loans'[id])
  <2> TAKE user \in Account
  <2>1. debtToken[user] \in Nat /\ debtToken[seller] \in Nat /\ debtToken[buyer] \in Nat
    BY <1>2, <1>3
  <2>2. debtToken'[user] = debtToken[user]
                             - (IF user = seller THEN amountScaled ELSE 0)
                             + (IF user = buyer THEN amountScaled ELSE 0)
    BY <1>1, <1>2, <1>3, <2>1
  <2> QED BY <1>11, <2>2
<1>14. Live(id) /\ loans'[id].state \notin LiveStates
         => weth'[UTokenAddr] = weth[UTokenAddr] + BorrowAmount(id)
  BY <1>7 DEF Live, loan
<1>15. weth'[LendPoolAddr]
         = weth[LendPoolAddr] - EscrowOf(loans[id]) + EscrowOf(loans'[id])
  <2>1. weth[LendPoolAddr] \in Nat BY <1>3, Addresses DEF Balances
  <2> QED BY <1>8, <1>10, <2>1 DEF loan
<1>16. \A a \in Account : a # payer =>
         weth'[a] + BidBy(a, loans'[id]) >= weth[a] + Got(a, refund) + BidBy(a, loans[id])
  <2> TAKE a \in Account
  <2>1. weth[a] \in Nat /\ weth'[a] \in Nat BY <1>3, Addresses DEF Balances
  <2>2. Got(a, refund) \in Nat BY GotNat
  <2> QED BY <1>8, <1>9, <2>1, <2>2 DEF loan
<1>17. PoolInv' /\ PaidOnlyBy(payer, refund)
  BY <1>1, <1>2, <1>3, <1>4, <1>6, <1>12, <1>13, <1>14, <1>15, <1>16, LoanStep DEF loan
<1>18. OtherLoansKept(nft)
  BY <1>1, <1>5, <1>6, OneLoanWritten DEF PoolInv, id
<1> QED BY <1>17, <1>18

\* A payment, then the earlier best bid to its bidder.
LEMMA PayAndReturn ==
  ASSUME MarketInv, NEW nft \in NFT, nftToDebtIds[nft] # 0,
         NEW from, NEW to, NEW amount, from \in Account,
         to \in Account \cup {DebtMarketAddr}, amount \in Nat,
         Transfers(<<Transfer(from, to, amount)>> \o ReturnBid(ListingOf(nft)))
  PROVE  /\ weth' \in Balances
         /\ weth'[LendPoolAddr] = weth[LendPoolAddr]
         /\ \A a \in Account : a # from =>
              weth'[a] >= weth[a] + Got(a, ReturnBid(ListingOf(nft)))
         /\ \A a \in Account :
              weth'[a] = weth[a] + Flow(a, from, to, amount)
                           + Got(a, ReturnBid(ListingOf(nft)))
         /\ weth'[DebtMarketAddr]
              = weth[DebtMarketAddr] + (IF to = DebtMarketAddr THEN amount ELSE 0)
                  - HeldFor(nft)
<1> DEFINE refund == ReturnBid(ListingOf(nft))
           s == <<Transfer(from, to, amount)>>
<1>1. weth \in Balances /\ ListingBook
  BY DEF MarketInv, PoolInv, PoolTypeOK, Balances
<1>2. /\ refund \in Refunds
      /\ \A b \in Balances : \A c : Pays(b, refund, c) =>
           c[DebtMarketAddr] = b[DebtMarketAddr] - HeldFor(nft)
  BY <1>1, BidReturned
<1>3. /\ from \in Holder /\ to \in Holder /\ to # LendPoolAddr
      /\ from # LendPoolAddr /\ from # DebtMarketAddr
  BY Addresses, MarketAddress
<1>4. s \in Seq(TransferType) BY <1>3, TransferSeq
<1>5. refund \in Seq(TransferType) BY <1>2, RefundsSeq
<1>6. s \o refund \in Seq(TransferType) BY <1>4, <1>5, ConcatProperties
<1>7. PICK c \in Balances : weth' = c /\ Pays(weth, s \o refund, c)
  BY <1>1, <1>6, TransfersPay
<1>8. PICK b \in Balances : Pays(weth, s, b) /\ Pays(b, refund, c)
  BY <1>4, <1>5, <1>7, PayParts
<1>9. Paid(weth, from, to, amount, b) BY <1>8 DEF Paid
<1> HIDE DEF refund, s
<1>10. \A h \in Holder : b[h] = weth[h] + Flow(h, from, to, amount)
  BY <1>3, <1>9, PayFlow
<1>11. /\ c[LendPoolAddr] = b[LendPoolAddr]
       /\ \A a \in Account : c[a] = b[a] + Got(a, refund)
  BY <1>2, <1>8, RefundsKeep
<1>12. \A h \in Holder : weth[h] \in Nat /\ b[h] \in Nat BY <1>1 DEF Balances
<1>13. weth'[LendPoolAddr] = weth[LendPoolAddr]
  <2>1. Flow(LendPoolAddr, from, to, amount) = 0 BY <1>3 DEF Flow
  <2> QED BY <1>7, <1>10, <1>11, <1>12, <2>1, Addresses
<1>14. ASSUME NEW a \in Account, a # from PROVE weth'[a] >= weth[a] + Got(a, refund)
  <2>1. Flow(a, from, to, amount) \in Nat BY <1>14 DEF Flow
  <2>2. Got(a, refund) \in Nat BY <1>2, GotNat
  <2>3. a \in Holder BY Addresses
  <2> QED BY <1>7, <1>10, <1>11, <1>12, <2>1, <2>2, <2>3
<1>15. weth'[DebtMarketAddr]
         = weth[DebtMarketAddr] + (IF to = DebtMarketAddr THEN amount ELSE 0)
             - HeldFor(nft)
  <2>1. Flow(DebtMarketAddr, from, to, amount)
          = IF to = DebtMarketAddr THEN amount ELSE 0
    BY <1>3 DEF Flow
  <2>2. c[DebtMarketAddr] = b[DebtMarketAddr] - HeldFor(nft) BY <1>2, <1>8
  <2>3. b[DebtMarketAddr]
          = weth[DebtMarketAddr] + (IF to = DebtMarketAddr THEN amount ELSE 0)
    BY <1>10, <2>1, MarketAddress
  <2>4. HeldFor(nft) \in Nat BY <1>1, FoundListing DEF HeldFor, ListingBook
  <2>5. weth[DebtMarketAddr] \in Nat BY <1>12, MarketAddress
  <2> QED BY <1>7, <2>2, <2>3, <2>4, <2>5
<1>16. \A a \in Account :
         weth'[a] = weth[a] + Flow(a, from, to, amount) + Got(a, refund)
  BY <1>7, <1>10, <1>11, Addresses
<1> QED BY <1>7, <1>13, <1>14, <1>15, <1>16 DEF refund

\* A step that ends the listing of an NFT, sold or cancelled.
LEMMA DeletingStep ==
  ASSUME MarketInv, PoolInv', NEW nft \in NFT, nftToDebtIds[nft] # 0,
         DebtShouldExist(nft), NEW final \in ListingData, DeleteListing(nft, final),
         OtherLoansKept(nft),
         weth'[DebtMarketAddr] >= weth[DebtMarketAddr] - HeldFor(nft),
         NEW payer, NEW refund, refund \in Refunds, PaidOnlyBy(payer, refund),
         \A a \in Account : a # payer => Got(a, refund) >= HeldBy(a, nft)
  PROVE  MarketInv' /\ TotalPaidOnlyBy(payer)
<1>1. ListingBook /\ weth \in Balances /\ nftToDebtIds \in [NFT -> {0} \cup DebtIds]
  BY DEF MarketInv, PoolInv, PoolTypeOK, Balances, ListingBook, ListingTypeOK
<1>2. /\ ListingBook' /\ OtherListingsKept(nft)
      /\ nftToDebtIds' = [nftToDebtIds EXCEPT ![nft] = 0]
  BY <1>1, DeleteBook
<1>3. nftToDebtIds'[nft] = 0 BY <1>1, <1>2
<1>4. HeldFor(nft)' = 0 /\ \A a \in Account : HeldBy(a, nft)' = 0
  BY <1>3 DEF HeldFor, HeldBy
<1>5. HeldFor(nft) \in Nat /\ weth[DebtMarketAddr] \in Nat
  BY <1>1, FoundListing, MarketAddress DEF HeldFor, ListingBook, Balances
<1> DEFINE d == nftToDebtIds[nft]
<1>6. d \in DebtIds /\ nftToDebtIds[nft] = d BY <1>1
<1> HIDE DEF d
<1>7. weth'[DebtMarketAddr] >= weth[DebtMarketAddr] - HeldFor(nft) + HeldFor(nft)'
  BY <1>4, <1>5
<1>8. \A a \in Account : a # payer =>
        Got(a, refund) + HeldBy(a, nft)' >= HeldBy(a, nft)
  <2>1. \A a \in Account : Got(a, refund) \in Nat BY GotNat
  <2> QED BY <1>4, <2>1
<1> QED BY <1>2, <1>3, <1>6, <1>7, <1>8, ListingStep

\* A record of a listing in another state, with a bid.
LEMMA SoldListing ==
  ASSUME ListingBook, NEW nft \in NFT, nftToDebtIds[nft] # 0
  PROVE  /\ [ListingOf(nft) EXCEPT !.state = "Sold"] \in ListingData
         /\ [ListingOf(nft) EXCEPT !.state = "Canceled"] \in ListingData
         /\ \A bidder \in Account, price \in Nat :
              [ListingOf(nft) EXCEPT !.state = "Sold", !.bidderAddress = bidder,
                                     !.bidPrice = price] \in ListingData
<1>1. ListingOf(nft) \in ListingData BY FoundListing DEF ListingBook
<1>2. "Sold" \in DebtMarketState /\ "Canceled" \in DebtMarketState
  BY DEF DebtMarketState
<1> DEFINE listing == ListingOf(nft)
<1>3. listing \in ListingData BY <1>1
<1> HIDE DEF listing
<1>4. /\ [listing EXCEPT !.state = "Sold"] \in ListingData
      /\ [listing EXCEPT !.state = "Canceled"] \in ListingData
  BY <1>2, <1>3 DEF ListingData
<1>5. ASSUME NEW bidder \in Account, NEW price \in Nat
      PROVE  [listing EXCEPT !.state = "Sold", !.bidderAddress = bidder,
                             !.bidPrice = price] \in ListingData
  BY <1>2, <1>3 DEF ListingData
<1> QED BY <1>4, <1>5 DEF listing

\* buy
LEMMA BuyKeeps ==
  ASSUME MarketInv, NEW caller \in Account, NEW onBehalfOf \in Account,
         NEW nft \in NFT, Buy(caller, nft, onBehalfOf)
  PROVE  MarketInv' /\ TotalPaidOnlyBy(caller)
<1> DEFINE listing == ListingOf(nft)
           final == [listing EXCEPT !.state = "Sold"]
           seller == loans[nftToLoanIds[nft]].borrower
           price == PriceFor(onBehalfOf, listing.sellPrice)
           refund == ReturnBid(listing)
<1>1. /\ DebtShouldExist(nft) /\ nftToDebtIds[nft] # 0
      /\ TransferDebt(nft, onBehalfOf) /\ nftToLoanIds[nft] # 0
      /\ DeleteListing(nft, final)
      /\ Transfers(<<Transfer(caller, seller, price)>> \o refund)
  BY DEF Buy, BuyTransfers, DebtShouldExist, TransferDebt
<1>2. PoolInv /\ ListingBook /\ LoanInv BY DEF MarketInv, PoolInv
<1>3. /\ final \in ListingData /\ listing.sellPrice \in Nat
      /\ seller \in Account /\ price \in Nat
  <2>1. final \in ListingData BY <1>1, <1>2, SoldListing
  <2>2. listing.sellPrice \in Nat
    <3>1. listing \in ListingData BY <1>1, <1>2, FoundListing DEF ListingBook
    <3> QED BY <3>1 DEF ListingData
  <2> QED BY <1>1, <1>2, <2>1, <2>2, FoundLoan, PriceNat
<1>4. refund \in Refunds /\ \A a \in Account : Got(a, refund) = HeldBy(a, nft)
  BY <1>1, <1>2, BidReturned
<1> HIDE DEF price, seller, final
<1>5. /\ weth' \in Balances
      /\ weth'[LendPoolAddr] = weth[LendPoolAddr]
      /\ \A a \in Account : a # caller => weth'[a] >= weth[a] + Got(a, refund)
      /\ weth'[DebtMarketAddr] = weth[DebtMarketAddr] - HeldFor(nft)
  <2>1. seller # DebtMarketAddr BY <1>3, MarketAddress
  <2>2. weth[DebtMarketAddr] \in Nat /\ HeldFor(nft) \in Nat
    BY <1>1, <1>2, FoundListing, MarketAddress
    DEF HeldFor, ListingBook, PoolInv, PoolTypeOK
  <2>3. weth'[DebtMarketAddr] = weth[DebtMarketAddr]
          + (IF seller = DebtMarketAddr THEN price ELSE 0) - HeldFor(nft)
    BY <1>1, <1>3, PayAndReturn
  <2>4. weth'[DebtMarketAddr] = weth[DebtMarketAddr] - HeldFor(nft)
    BY <2>1, <2>2, <2>3
  <2>5. /\ weth' \in Balances
        /\ weth'[LendPoolAddr] = weth[LendPoolAddr]
        /\ \A a \in Account : a # caller => weth'[a] >= weth[a] + Got(a, refund)
    BY <1>1, <1>3, PayAndReturn
  <2> QED BY <2>4, <2>5
<1>6. PoolInv' /\ OtherLoansKept(nft) /\ PaidOnlyBy(caller, refund)
  BY <1>1, <1>2, <1>4, <1>5, TransferDebtKeeps
<1>7. weth'[DebtMarketAddr] >= weth[DebtMarketAddr] - HeldFor(nft)
  <2>1. weth'[DebtMarketAddr] \in Int BY <1>5, MarketAddress DEF Balances
  <2> QED BY <1>5, <2>1
<1>8. \A a \in Account : a # caller => Got(a, refund) >= HeldBy(a, nft)
  BY <1>4, GotNat
<1> HIDE DEF refund
<1> QED BY <1>1, <1>3, <1>4, <1>6, <1>7, <1>8, DeletingStep

\* bid at the sell price
LEMMA BidSellPriceKeeps ==
  ASSUME MarketInv, NEW caller \in Account, NEW onBehalfOf \in Account,
         NEW nft \in NFT, NEW price \in Nat,
         BidSellPrice(caller, nft, onBehalfOf, price)
  PROVE  MarketInv' /\ TotalPaidOnlyBy(caller)
<1> DEFINE final == [ListingOf(nft) EXCEPT !.state = "Sold",
                       !.bidderAddress = onBehalfOf, !.bidPrice = price]
           refund == ReturnBid(ListingOf(nft))
<1>1. /\ DebtShouldExist(nft) /\ nftToDebtIds[nft] # 0
      /\ TransferDebt(nft, onBehalfOf)
      /\ DeleteListing(nft, final)
      /\ Transfers(<<Transfer(caller, DebtMarketAddr, price)>> \o refund)
  BY DEF BidSellPrice, MayBidDebt, TakeBid, DebtShouldExist
<1>2. PoolInv /\ ListingBook BY DEF MarketInv
<1>3. final \in ListingData BY <1>1, <1>2, SoldListing
<1>4. refund \in Refunds /\ \A a \in Account : Got(a, refund) = HeldBy(a, nft)
  BY <1>1, <1>2, BidReturned
<1> HIDE DEF final
<1>5. /\ weth' \in Balances
      /\ weth'[LendPoolAddr] = weth[LendPoolAddr]
      /\ \A a \in Account : a # caller => weth'[a] >= weth[a] + Got(a, refund)
      /\ weth'[DebtMarketAddr]
           = weth[DebtMarketAddr]
               + (IF DebtMarketAddr = DebtMarketAddr THEN price ELSE 0) - HeldFor(nft)
  BY <1>1, PayAndReturn
<1>6. PoolInv' /\ OtherLoansKept(nft) /\ PaidOnlyBy(caller, refund)
  BY <1>1, <1>2, <1>4, <1>5, TransferDebtKeeps
<1>7. weth'[DebtMarketAddr] >= weth[DebtMarketAddr] - HeldFor(nft)
  <2>1. weth[DebtMarketAddr] \in Nat /\ HeldFor(nft) \in Nat
    BY <1>1, <1>2, FoundListing, MarketAddress
    DEF HeldFor, ListingBook, PoolInv, PoolTypeOK
  <2> QED BY <1>5, <2>1
<1>8. \A a \in Account : a # caller => Got(a, refund) >= HeldBy(a, nft)
  BY <1>4, GotNat
<1> HIDE DEF refund
<1> QED BY <1>1, <1>3, <1>4, <1>6, <1>7, <1>8, DeletingStep

\* claim: the best bidder pays, with the bid that is in the market.
LEMMA ClaimKeeps ==
  ASSUME MarketInv, NEW nft \in NFT, Claim(nft)
  PROVE  MarketInv' /\ \E payer \in Account : TotalPaidOnlyBy(payer)
<1> DEFINE bidder == ListingOf(nft).bidderAddress
           final == [ListingOf(nft) EXCEPT !.state = "Sold"]
           to == ListingOf(nft).debtor
           price == ListingOf(nft).bidPrice
           s == <<Transfer(DebtMarketAddr, to, price)>>
<1>1. /\ DebtShouldExist(nft) /\ nftToDebtIds[nft] # 0
      /\ bidder # NullAddress /\ TransferDebt(nft, bidder)
      /\ DeleteListing(nft, final) /\ Transfers(s)
  BY DEF Claim, DebtShouldExist
<1>2. PoolInv /\ ListingBook /\ weth \in Balances
  BY DEF MarketInv, PoolInv, PoolTypeOK, Balances
<1>3. bidder \in Account /\ to \in Account /\ price \in Nat
  BY <1>1, <1>2, FoundListing DEF ListingBook
<1>4. final \in ListingData BY <1>1, <1>2, SoldListing
<1>5. HeldFor(nft) = price /\ \A a \in Account : a # bidder => HeldBy(a, nft) = 0
  BY <1>1 DEF HeldFor, HeldBy
<1>6. /\ to \in Holder /\ to # DebtMarketAddr /\ to # LendPoolAddr
      /\ DebtMarketAddr \in Holder /\ DebtMarketAddr # LendPoolAddr
  BY <1>3, Addresses, MarketAddress
<1>7. s \in Seq(TransferType) BY <1>3, <1>6, TransferSeq
<1>8. PICK c \in Balances : weth' = c /\ Pays(weth, s, c)
  BY <1>1, <1>2, <1>7, TransfersPay
<1>9. Paid(weth, DebtMarketAddr, to, price, c) BY <1>8 DEF Paid
<1> HIDE DEF s, price, to, bidder, final
<1>10. \A h \in Holder : c[h] = weth[h] + Flow(h, DebtMarketAddr, to, price)
  BY <1>3, <1>6, <1>9, PayFlow
<1>11. \A h \in Holder : weth[h] \in Nat BY <1>2 DEF Balances
<1>12. /\ weth' \in Balances /\ weth'[LendPoolAddr] = weth[LendPoolAddr]
       /\ weth'[DebtMarketAddr] >= weth[DebtMarketAddr] - HeldFor(nft)
  <2>1. /\ Flow(LendPoolAddr, DebtMarketAddr, to, price) = 0
        /\ Flow(DebtMarketAddr, DebtMarketAddr, to, price) = 0 - price
    BY <1>3, <1>6 DEF Flow
  <2> QED BY <1>3, <1>5, <1>6, <1>8, <1>10, <1>11, <2>1, Addresses
<1>13. \A a \in Account : a # bidder => weth'[a] >= weth[a] + Got(a, <<>>)
  <2> TAKE a \in Account
  <2>1. a \in Holder /\ a # DebtMarketAddr BY Addresses, MarketAddress
  <2>2. Flow(a, DebtMarketAddr, to, price) \in Nat BY <1>3, <2>1 DEF Flow
  <2>3. Got(a, <<>>) = 0 BY DEF Got
  <2> QED BY <1>8, <1>10, <1>11, <2>1, <2>2, <2>3
<1>14. <<>> \in Refunds BY DEF Refunds
<1>15. PoolInv' /\ OtherLoansKept(nft) /\ PaidOnlyBy(bidder, <<>>)
  BY <1>1, <1>2, <1>3, <1>12, <1>13, <1>14, TransferDebtKeeps
<1>16. \A a \in Account : a # bidder => Got(a, <<>>) >= HeldBy(a, nft)
  BY <1>5 DEF Got
<1>17. MarketInv' /\ TotalPaidOnlyBy(bidder)
  BY <1>1, <1>4, <1>12, <1>14, <1>15, <1>16, DeletingStep
<1> QED BY <1>3, <1>17

\* A step of the market that moves money and leaves the pool as it is.
LEMMA MoneyOnlyStep ==
  ASSUME PoolInv, UNCHANGED <<loanVars, debtVars, marketVars, pauseVars>>,
         weth' \in Balances, weth'[LendPoolAddr] = weth[LendPoolAddr],
         NEW payer, NEW refund, refund \in Refunds,
         \A a \in Account : a # payer => weth'[a] >= weth[a] + Got(a, refund)
  PROVE  PoolInv' /\ PaidOnlyBy(payer, refund)
<1>1. LoanInv'
  <2>1. UNCHANGED <<bookVars, custodyVars>> /\ UNCHANGED <<marketAdapters, approvedNfts>>
    BY DEF loanVars
  <2>2. LoanTypeOK'
    BY <2>1 DEF PoolInv, LoanInv, LoanTypeOK, bookVars, custodyVars
  <2> QED BY <2>1, <2>2, FrameInv DEF PoolInv, LoanInv
<1>2. PoolTypeOK'
  BY <1>1 DEF PoolInv, PoolTypeOK, LoanInv, Balances, debtVars, marketVars, pauseVars
<1>3. borrowIndex' >= borrowIndex /\ pauseStartTime' <= now'
  BY DEF PoolInv, PoolTypeOK, marketVars, pauseVars
<1>4. UNCHANGED <<loans, debtToken>> BY DEF loanVars, bookVars, debtVars
<1>5. PoolInv' BY <1>1, <1>2, <1>3, <1>4, FrameStepInv
<1>6. ASSUME NEW a \in Account, a # payer
      PROVE  Wealth(a)' >= Wealth(a) + Got(a, refund)
  <2> DEFINE bids == SumOver(BidPrices, BestBidsOf(a))
  <2>1. bids \in Nat BY LedgerTypes DEF PoolInv, LoanInv, BestBidsOf, Auctions
  <2>2. BidPrices' = BidPrices /\ BestBidsOf(a)' = BestBidsOf(a)
    BY <1>4 DEF BidPrices, BestBidsOf, Auctions
  <2>3. Wealth(a) = weth[a] + bids BY DEF Wealth
  <2>4. Wealth(a)' = weth'[a] + bids BY <2>2 DEF Wealth
  <2>5. weth[a] \in Nat /\ weth'[a] \in Nat /\ weth'[a] >= weth[a] + Got(a, refund)
    BY <1>6, Addresses DEF PoolInv, PoolTypeOK, Balances
  <2>6. Got(a, refund) \in Nat BY GotNat
  <2> HIDE DEF bids
  <2> QED BY <2>1, <2>3, <2>4, <2>5, <2>6
<1> QED BY <1>5, <1>6 DEF PaidOnlyBy

LEMMA NoLoanChanged ==
  ASSUME PoolInv, UNCHANGED loanVars, NEW nft \in NFT
  PROVE  OtherLoansKept(nft) /\ UNCHANGED <<loans, nftToLoanIds>>
BY DEF loanVars, bookVars, OtherLoansKept

\* cancelDebtListing
LEMMA CancelKeeps ==
  ASSUME MarketInv, NEW caller \in Account, NEW nft \in NFT,
         CancelDebtListing(caller, nft)
  PROVE  MarketInv' /\ TotalPaidOnlyBy(caller)
<1> DEFINE refund == ReturnBid(ListingOf(nft))
           final == [ListingOf(nft) EXCEPT !.state = "Canceled"]
<1>1. /\ nftToDebtIds[nft] # 0 /\ DebtShouldExist(nft) /\ DeleteListing(nft, final)
      /\ Transfers(refund)
      /\ UNCHANGED <<loanVars, debtVars, marketVars, pauseVars>>
  BY DEF CancelDebtListing, CancelListing
<1>2. PoolInv /\ ListingBook /\ weth \in Balances
  BY DEF MarketInv, PoolInv, PoolTypeOK, Balances
<1>3. final \in ListingData BY <1>1, <1>2, SoldListing
<1>4. /\ refund \in Refunds /\ \A a \in Account : Got(a, refund) = HeldBy(a, nft)
      /\ \A b \in Balances : \A c : Pays(b, refund, c) =>
           c[DebtMarketAddr] = b[DebtMarketAddr] - HeldFor(nft)
  BY <1>1, <1>2, BidReturned
<1> HIDE DEF refund, final
<1>5. refund \in Seq(TransferType) BY <1>4, RefundsSeq
<1>6. PICK c \in Balances : weth' = c /\ Pays(weth, refund, c)
  BY <1>1, <1>2, <1>5, TransfersPay
<1>7. /\ weth' \in Balances /\ weth'[LendPoolAddr] = weth[LendPoolAddr]
      /\ \A a \in Account : weth'[a] = weth[a] + Got(a, refund)
      /\ weth'[DebtMarketAddr] = weth[DebtMarketAddr] - HeldFor(nft)
  BY <1>2, <1>4, <1>6, RefundsKeep
<1>8. \A a \in Account : a # caller => weth'[a] >= weth[a] + Got(a, refund)
  <2>1. \A a \in Account : weth'[a] \in Nat BY <1>7, Addresses DEF Balances
  <2> QED BY <1>7, <2>1
<1>9. PoolInv' /\ PaidOnlyBy(caller, refund)
  BY <1>1, <1>2, <1>4, <1>7, <1>8, MoneyOnlyStep
<1>10. OtherLoansKept(nft) BY <1>1, <1>2, NoLoanChanged
<1>11. weth'[DebtMarketAddr] >= weth[DebtMarketAddr] - HeldFor(nft)
  <2>1. weth'[DebtMarketAddr] \in Nat BY <1>7, MarketAddress DEF Balances
  <2> QED BY <1>7, <2>1
<1>12. \A a \in Account : a # caller => Got(a, refund) >= HeldBy(a, nft)
  BY <1>4, GotNat
<1> QED BY <1>1, <1>3, <1>4, <1>9, <1>10, <1>11, <1>12, DeletingStep

\* bid below the sell price
LEMMA BidDebtKeeps ==
  ASSUME MarketInv, NEW caller \in Account, NEW onBehalfOf \in Account,
         NEW nft \in NFT, NEW price \in Nat,
         BidDebt(caller, nft, onBehalfOf, price)
  PROVE  MarketInv' /\ TotalPaidOnlyBy(caller)
<1> DEFINE refund == ReturnBid(ListingOf(nft))
<1>1. /\ nftToDebtIds[nft] # 0
      /\ Transfers(<<Transfer(caller, DebtMarketAddr, price)>> \o refund)
      /\ marketListings' = [marketListings EXCEPT ![nftToDebtIds[nft]] =
           [@ EXCEPT !.state = "Active", !.bidderAddress = onBehalfOf,
                     !.bidPrice = price]]
      /\ UNCHANGED <<loanVars, debtVars, marketVars, pauseVars>>
      /\ UNCHANGED <<debtIdTracker, nftToDebtIds, userTotalDebtByCollection,
                     totalDebtsByCollection>>
  BY DEF BidDebt, MayBidDebt, TakeBid, DebtShouldExist
<1>2. PoolInv /\ ListingBook /\ nftToDebtIds \in [NFT -> {0} \cup DebtIds]
  BY DEF MarketInv, ListingBook, ListingTypeOK
<1>3. refund \in Refunds /\ \A a \in Account : Got(a, refund) = HeldBy(a, nft)
  BY <1>1, <1>2, BidReturned
<1>4. /\ weth' \in Balances /\ weth'[LendPoolAddr] = weth[LendPoolAddr]
      /\ \A a \in Account : a # caller => weth'[a] >= weth[a] + Got(a, refund)
      /\ weth'[DebtMarketAddr]
           = weth[DebtMarketAddr]
               + (IF DebtMarketAddr = DebtMarketAddr THEN price ELSE 0) - HeldFor(nft)
  BY <1>1, PayAndReturn
<1>5. /\ ListingBook' /\ OtherListingsKept(nft)
      /\ ListingOf(nft)'.scaledAmount = ListingOf(nft).scaledAmount
      /\ ListingOf(nft)'.bidderAddress = onBehalfOf
      /\ ListingOf(nft)'.bidPrice = price
  BY <1>1, <1>2, BidBook
<1> HIDE DEF refund
<1>6. PoolInv' /\ PaidOnlyBy(caller, refund)
  BY <1>1, <1>2, <1>3, <1>4, MoneyOnlyStep
<1>7. OtherLoansKept(nft) /\ UNCHANGED <<loans, nftToLoanIds>>
  BY <1>1, <1>2, NoLoanChanged
<1>8. /\ nftToLoanIds'[nft] # 0
      /\ ListingOf(nft)'.scaledAmount = loans'[nftToLoanIds'[nft]].scaledAmount
  BY <1>1, <1>5, <1>7 DEF MarketInv, ListingsAreCurrent
<1>9. HeldFor(nft)' = price /\ \A a \in Account : HeldBy(a, nft)' \in Nat
  <2>1. nftToDebtIds'[nft] # 0 BY <1>1
  <2> QED BY <1>5, <2>1 DEF HeldFor, HeldBy
<1>10. weth'[DebtMarketAddr] >= weth[DebtMarketAddr] - HeldFor(nft) + HeldFor(nft)'
  <2>1. weth[DebtMarketAddr] \in Nat /\ HeldFor(nft) \in Nat
    BY <1>1, <1>2, FoundListing, MarketAddress
    DEF HeldFor, ListingBook, PoolInv, PoolTypeOK
  <2> QED BY <1>4, <1>9, <2>1
<1>11. \A a \in Account : a # caller =>
         Got(a, refund) + HeldBy(a, nft)' >= HeldBy(a, nft)
  <2>1. \A a \in Account : Got(a, refund) \in Nat BY <1>3, GotNat
  <2> QED BY <1>3, <1>9, <2>1
<1> DEFINE d == nftToDebtIds[nft]
<1>12. d \in DebtIds /\ nftToDebtIds[nft] = d /\ nftToDebtIds'[nft] = d
  BY <1>1, <1>2
<1> HIDE DEF d
<1> QED BY <1>3, <1>5, <1>6, <1>7, <1>8, <1>10, <1>11, <1>12, ListingStep

\* createDebtListing
LEMMA CreateListingKeeps ==
  ASSUME MarketInv, NEW caller \in Account, NEW nft \in NFT, NEW terms \in Terms,
         NEW debtor \in Account, CreateDebtListing(caller, nft, terms, debtor)
  PROVE  MarketInv' /\ TotalPaidOnlyBy(caller)
<1>1. PoolInv /\ ListingBook /\ weth \in Balances
        /\ nftToDebtIds \in [NFT -> {0} \cup DebtIds]
  BY DEF MarketInv, PoolInv, PoolTypeOK, Balances, ListingBook, ListingTypeOK
<1> DEFINE d == debtIdTracker + 1
<1>2. /\ ListingBook' /\ OtherListingsKept(nft)
      /\ nftToLoanIds[nft] # 0 /\ nftToDebtIds[nft] = 0
      /\ nftToDebtIds' = [nftToDebtIds EXCEPT ![nft] = d]
      /\ d \in DebtIds
      /\ ListingOf(nft)'.scaledAmount = loans[nftToLoanIds[nft]].scaledAmount
      /\ ListingOf(nft)'.bidPrice = 0
      /\ UNCHANGED poolVars
  BY <1>1, CreateBook
<1> HIDE DEF d
<1>3. nftToDebtIds'[nft] = d BY <1>1, <1>2
<1>4. UNCHANGED <<loanVars, debtVars, marketVars, pauseVars, weth>>
  BY <1>2 DEF poolVars
<1>5. <<>> \in Refunds /\ \A a \in Account : Got(a, <<>>) = 0 BY DEF Refunds, Got
<1>6. /\ weth' \in Balances /\ weth'[LendPoolAddr] = weth[LendPoolAddr]
      /\ \A a \in Account : a # caller => weth'[a] >= weth[a] + Got(a, <<>>)
  BY <1>1, <1>4, <1>5, Addresses DEF Balances
<1>7. PoolInv' /\ PaidOnlyBy(caller, <<>>)
  BY <1>1, <1>4, <1>5, <1>6, MoneyOnlyStep
<1>8. OtherLoansKept(nft) /\ UNCHANGED <<loans, nftToLoanIds>>
  BY <1>1, <1>4, NoLoanChanged
<1>9. /\ nftToLoanIds'[nft] # 0
      /\ ListingOf(nft)'.scaledAmount = loans'[nftToLoanIds'[nft]].scaledAmount
  BY <1>2, <1>8
<1>10. /\ HeldFor(nft) = 0 /\ HeldFor(nft)' = 0
       /\ \A a \in Account : HeldBy(a, nft) = 0 /\ HeldBy(a, nft)' = 0
  BY <1>2 DEF HeldFor, HeldBy
<1>11. weth'[DebtMarketAddr] >= weth[DebtMarketAddr] - HeldFor(nft) + HeldFor(nft)'
  BY <1>1, <1>4, <1>10, MarketAddress DEF Balances
<1>12. \A a \in Account : a # caller =>
         Got(a, <<>>) + HeldBy(a, nft)' >= HeldBy(a, nft)
  BY <1>5, <1>10
<1> QED BY <1>2, <1>3, <1>5, <1>7, <1>8, <1>9, <1>11, <1>12, ListingStep

\* The market's settings, and a step that changes nothing.
LEMMA SettingsKeep ==
  ASSUME MarketInv, UNCHANGED <<poolVars, listingVars>>
  PROVE  MarketInv' /\ TotalPaidOnlyBy(Treasury)
<1>1. PoolInv /\ weth \in Balances BY DEF MarketInv, PoolInv, PoolTypeOK, Balances
<1>2. UNCHANGED <<loanVars, debtVars, marketVars, pauseVars, weth>> BY DEF poolVars
<1>3. <<>> \in Refunds /\ \A a \in Account : Got(a, <<>>) = 0 BY DEF Refunds, Got
<1>4. /\ weth' \in Balances /\ weth'[LendPoolAddr] = weth[LendPoolAddr]
      /\ \A a \in Account : a # Treasury => weth'[a] >= weth[a] + Got(a, <<>>)
      /\ weth'[DebtMarketAddr] >= weth[DebtMarketAddr]
  BY <1>1, <1>2, <1>3, Addresses, MarketAddress DEF Balances
<1>5. PoolInv' /\ PaidOnlyBy(Treasury, <<>>)
  BY <1>1, <1>2, <1>3, <1>4, MoneyOnlyStep
<1>6. ListedDebtsKept
  BY <1>2 DEF MarketInv, ListingsAreCurrent, ListedDebtsKept, loanVars, bookVars
<1> QED BY <1>4, <1>5, <1>6, NoListingStep

-----------------------------------------------------------------------------
(* The market, the pool and their users.                                   *)

\* Whatever step is taken: the invariant is kept and one account alone pays.
LEMMA MarketNextKeeps ==
  ASSUME MarketInv, [MarketNext]_dealVars
  PROVE  MarketInv' /\ \E payer \in Account : TotalPaidOnlyBy(payer)
<1>1. CASE SellerStep
  <2>1. PICK caller \in Account, nft \in NFT :
          \/ \E terms \in Terms, debtor \in Account :
               CreateDebtListing(caller, nft, terms, debtor)
          \/ CancelDebtListing(caller, nft)
    BY <1>1 DEF SellerStep
  <2> QED BY <2>1, CreateListingKeeps, CancelKeeps
<1>2. CASE BuyerStep
  <2>1. PICK caller \in Account, onBehalfOf \in Account, nft \in NFT :
          \/ Buy(caller, nft, onBehalfOf)
          \/ \E bid \in Bids : \/ BidDebt(caller, nft, onBehalfOf, bid)
                               \/ BidSellPrice(caller, nft, onBehalfOf, bid)
    BY <1>2 DEF BuyerStep
  <2>2. Bids \subseteq Nat BY PoolAssumption
  <2> QED BY <2>1, <2>2, BuyKeeps, BidDebtKeeps, BidSellPriceKeeps
<1>3. CASE ClaimStep BY <1>3, ClaimKeeps DEF ClaimStep
<1>4. CASE PoolUserStep BY <1>4, PoolUserStepKeeps
<1>5. CASE OtherPoolStep BY <1>5, OtherPoolStepKeeps
<1>6. CASE Settings \/ UNCHANGED dealVars
  <2>1. UNCHANGED <<poolVars, listingVars>>
    BY <1>6 DEF Settings, SetMarketPause, SetAuthorizedPool, SetDeltaBidPercent,
                dealVars
  <2>2. Treasury \in Account BY PoolAssumption
  <2> QED BY <2>1, <2>2, SettingsKeep
<1> QED BY <1>1, <1>2, <1>3, <1>4, <1>5, <1>6 DEF MarketNext

\* The inductive invariant of pool and market together.
THEOREM MarketInvariant == MarketSpec => []MarketInv
<1>1. MarketInit => MarketInv BY MarketInitInv
<1>2. MarketInv /\ [MarketNext]_dealVars => MarketInv' BY MarketNextKeeps
<1> QED BY <1>1, <1>2, PTL DEF MarketSpec

\* The pool keeps its invariant, with the escrow and the debt tokens, also when
\* debts are sold and its operations cancel listings.
THEOREM MarketKeepsPool == MarketSpec => []PoolInv
<1>1. MarketInv => PoolInv BY DEF MarketInv
<1> QED BY <1>1, MarketInvariant, PTL

\* What is listed is an open loan of that NFT.
ListedLoansOpen ==
  \A nft \in NFT : nftToDebtIds[nft] # 0 =>
    /\ Live(nftToLoanIds[nft])
    /\ loans[nftToLoanIds[nft]].nft = nft

\* A listing in force is the one its NFT names, and the NFT has an open loan
\* with exactly the scaled debt it was listed for: each of the pool's operations
\* that changes a debt or ends a loan cancels the listing, and auction, which
\* does not, leaves the debt as it is.
THEOREM ListingsCurrent == MarketSpec => [](ListingsAreCurrent /\ ListedLoansOpen)
<1>1. MarketInv => ListingsAreCurrent /\ ListedLoansOpen
  <2>1. MarketInv => ListingsAreCurrent /\ LoanInv BY DEF MarketInv, PoolInv
  <2>2. ListingsAreCurrent /\ LoanInv => ListedLoansOpen
    BY FoundLoan DEF ListingsAreCurrent, ListedLoansOpen
  <2> QED BY <2>1, <2>2
<1> QED BY <1>1, MarketInvariant, PTL

\* The market has what it owes the best bidders, whoever ends their listings.
THEOREM MarketSolvent == MarketSpec => []MarketCanRefund
<1>1. MarketInv => MarketCanRefund BY DEF MarketInv
<1> QED BY <1>1, MarketInvariant, PTL

\* The counters that guard a cancellation count the open listings, so that the
\* guard never stops a repayment or a liquidation.
THEOREM ListingCounters == MarketSpec => []ListingCountersExact
<1>1. MarketInv => ListingCountersExact BY DEF MarketInv, ListingBook
<1> QED BY <1>1, MarketInvariant, PTL

\* No operation of the pool or the market makes two accounts poorer, their bids
\* in both counted: who cancels, sells, liquidates or claims takes nothing from
\* those whose bids he ends.
THEOREM OnlyOnePays == MarketSpec => OnlyOnePaysOnMarket
<1> DEFINE OnePays ==
      \A a, b \in Account :
        /\ TotalWealth(a)' < TotalWealth(a)
        /\ TotalWealth(b)' < TotalWealth(b)
        => \/ a = b
           \/ \E id \in LoanIds : WinsAuction(a, id) \/ WinsAuction(b, id)
<1>0. (MarketInv => \A a \in Account : /\ Wealth(a) \in Nat /\ BidsOf(a) \in Nat
                                       /\ TotalWealth(a) = Wealth(a) + BidsOf(a))'
  BY TotalParts, PTL
<1>1. ASSUME MarketInv, [MarketNext]_dealVars
      PROVE  OnePays
  <2>1. MarketInv' BY <1>1, MarketNextKeeps
  <2>2. PICK payer \in Account : TotalPaidOnlyBy(payer) BY <1>1, MarketNextKeeps
  <2>3. \A a \in Account : TotalWealth(a) \in Nat BY <1>1, TotalParts
  <2>4. \A a \in Account : TotalWealth(a)' \in Nat BY <2>1, <1>0
  <2>5. ASSUME NEW a \in Account, TotalWealth(a)' < TotalWealth(a), a # payer
        PROVE  \E id \in LoanIds : WinsAuction(a, id)
    BY <2>2, <2>3, <2>4, <2>5 DEF TotalPaidOnlyBy
  <2> QED BY <2>5
<1> HIDE DEF OnePays
<1>2. MarketInv /\ [MarketNext]_dealVars => [OnePays]_dealVars BY <1>1
<1>3. MarketSpec => [][OnePays]_dealVars BY <1>2, MarketInvariant, PTL DEF MarketSpec
<1> QED BY <1>3 DEF OnlyOnePaysOnMarket, OnePays

-----------------------------------------------------------------------------
(* Auctions of loans whose debt may be listed.                             *)

\* The step of a pool's user is one of the pool's operations, with what the
\* cancelled listing pays back.
LEMMA PoolUserOperation ==
  ASSUME PoolUserStep
  PROVE  \E initiator \in Account, nft \in NFT : \E refund :
           UserOperation(initiator, nft, refund)
<1>1. PICK initiator \in Account, nft \in NFT :
        \/ \E onBehalfOf \in Account :
             \/ \E amount \in Amounts : PoolBorrow(initiator, onBehalfOf, nft, amount)
             \/ \E bid \in Bids : PoolAuction(initiator, onBehalfOf, nft, bid)
             \/ PoolBuyout(initiator, onBehalfOf, nft)
        \/ \E amount \in Amounts :
             \/ PoolRepay(initiator, nft, amount)
             \/ PoolLiquidate(initiator, nft, amount)
             \/ \E fineLimit \in Amounts :
                  PoolRedeem(initiator, nft, amount, fineLimit)
  BY DEF PoolUserStep
<1>2. \/ UserOperation(initiator, nft, <<>>)
      \/ UserOperation(initiator, nft, RefundIfListed(nft))
  BY <1>1 DEF UserOperation, PoolBorrow, PoolAuction, PoolBuyout, PoolRepay,
              PoolLiquidate, PoolRedeem
<1> QED BY <1>2

\* A sale changes who owes the debt, and nothing else of the loan.
LEMMA SaleOfDebt ==
  ASSUME PoolInv, NEW nft \in NFT, NEW buyer, TransferDebt(nft, buyer)
  PROVE  StartsKept /\ NoneTakenOut /\ UNCHANGED nftPrice
<1> DEFINE id == nftToLoanIds[nft]
           loan == [loans[id] EXCEPT !.borrower = buyer]
<1>1. id # 0 /\ loans' = [loans EXCEPT ![id].borrower = buyer] /\ UNCHANGED nftPrice
  BY DEF TransferDebt, ReMintUNFT, marketVars
<1>2. id \in LoanIds /\ loans[id] \in LoanData /\ LoanInv
  BY <1>1, FoundLoan DEF PoolInv
<1>3. loans' = [loans EXCEPT ![id] = loan] BY <1>1
<1>4. /\ loan.state = loans[id].state /\ loan.nft = loans[id].nft
      /\ loan.scaledAmount = loans[id].scaledAmount
      /\ loan.bidStartTimestamp = loans[id].bidStartTimestamp
  BY <1>2 DEF LoanData
<1> HIDE DEF loan, id
<1>5. StartKept(loans[id], loan) /\ ~TakenOut(loans[id], loan)
  BY <1>4 DEF StartKept, TakenOut
<1> QED BY <1>1, <1>2, <1>3, <1>5, OneStart, OneNotTakenOut

\* What is not a step of a pool's user leaves the auctions as they are.
LEMMA MarketStepStarts ==
  ASSUME MarketInv, [MarketNext]_dealVars, ~PoolUserStep
  PROVE  StartsKept /\ NoneTakenOut /\ PricesStay
<1>1. UNCHANGED loans => StartsKept /\ NoneTakenOut
  BY DEF StartsKept, StartKept, NoneTakenOut, TakenOut
<1>2. UNCHANGED nftPrice => PricesStay BY DEF PricesStay, PriceKnown
<1>3. PoolInv BY DEF MarketInv
<1>4. CASE SellerStep \/ Settings \/ UNCHANGED dealVars
  <2>1. \/ UNCHANGED poolVars
        \/ UNCHANGED <<loanVars, marketVars>>
    <3>1. CASE SellerStep
      <4>1. PICK caller \in Account, nft \in NFT :
              \/ \E terms \in Terms, debtor \in Account :
                   CreateDebtListing(caller, nft, terms, debtor)
              \/ CancelDebtListing(caller, nft)
        BY <3>1 DEF SellerStep
      <4>2. ASSUME NEW terms, NEW debtor, CreateDebtListing(caller, nft, terms, debtor)
            PROVE  UNCHANGED poolVars
        BY <4>2 DEF CreateDebtListing
      <4>3. CancelDebtListing(caller, nft) => UNCHANGED <<loanVars, marketVars>>
        BY DEF CancelDebtListing
      <4> QED BY <4>1, <4>2, <4>3
    <3>2. CASE Settings \/ UNCHANGED dealVars
      BY <3>2 DEF Settings, SetMarketPause, SetAuthorizedPool, SetDeltaBidPercent,
                  dealVars
    <3> QED BY <1>4, <3>1, <3>2
  <2>2. UNCHANGED loans /\ UNCHANGED nftPrice
    BY <2>1 DEF poolVars, loanVars, bookVars, marketVars
  <2> QED BY <1>1, <1>2, <2>2
<1>5. CASE BuyerStep
  <2>1. PICK caller \in Account, onBehalfOf \in Account, nft \in NFT :
          \/ Buy(caller, nft, onBehalfOf)
          \/ \E bid \in Bids : \/ BidDebt(caller, nft, onBehalfOf, bid)
                               \/ BidSellPrice(caller, nft, onBehalfOf, bid)
    BY <1>5 DEF BuyerStep
  <2>2. Buy(caller, nft, onBehalfOf) => TransferDebt(nft, onBehalfOf)
    BY DEF Buy
  <2>3. ASSUME NEW bid
        PROVE  /\ BidSellPrice(caller, nft, onBehalfOf, bid) =>
                    TransferDebt(nft, onBehalfOf)
               /\ BidDebt(caller, nft, onBehalfOf, bid) =>
                    UNCHANGED loans /\ UNCHANGED nftPrice
    BY DEF BidSellPrice, BidDebt, loanVars, bookVars, marketVars
  <2>4. \/ TransferDebt(nft, onBehalfOf)
        \/ UNCHANGED loans /\ UNCHANGED nftPrice
    BY <2>1, <2>2, <2>3
  <2> QED BY <1>1, <1>2, <1>3, <2>4, SaleOfDebt
<1>6. CASE ClaimStep
  <2>1. PICK nft \in NFT : TransferDebt(nft, ListingOf(nft).bidderAddress)
    BY <1>6 DEF ClaimStep, Claim
  <2> QED BY <1>2, <1>3, <2>1, SaleOfDebt
<1>7. CASE OtherPoolStep
  <2>1. CASE LenderStep \/ Delegate \/ Configure \/ Elsewhere
    BY <1>1, <1>3, <2>1, QuietStarts
  <2>2. CASE Tick \/ \E val \in Switches : SetPause(val)
    BY <1>1, <1>2, <2>2 DEF Tick, SetPause, loanVars, bookVars, marketVars
  <2> QED BY <1>7, <2>1, <2>2 DEF OtherPoolStep
<1> QED BY <1>4, <1>5, <1>6, <1>7 DEF MarketNext

\* An auctioned loan has a debt and a collateral with a price on the market too.
THEOREM AuctionedLoansOweOnMarket == MarketSpec => []AuctionsOwe
<1>1. MarketInit => AuctionsOwe BY AuctionsOweInit DEF MarketInit
<1>2. ASSUME MarketInv, AuctionsOwe, [MarketNext]_dealVars
      PROVE  AuctionsOwe'
  <2>1. LoanInv' BY <1>2, MarketNextKeeps DEF MarketInv, PoolInv
  <2>2. CASE PoolUserStep
    <3>1. PICK initiator \in Account, nft \in NFT : \E refund :
            UserOperation(initiator, nft, refund)
      BY <2>2, PoolUserOperation
    <3>2. PICK refund : UserOperation(initiator, nft, refund) BY <3>1
    <3>3. PoolInv BY <1>2 DEF MarketInv
    <3>4. StartsKept /\ UNCHANGED nftPrice BY <3>2, <3>3, UserStarts
    <3>5. PricesStay BY <3>4 DEF PricesStay, PriceKnown
    <3> QED BY <1>2, <2>1, <3>4, <3>5, OweKept
  <2>3. CASE ~PoolUserStep
    <3>1. StartsKept /\ PricesStay BY <1>2, <2>3, MarketStepStarts
    <3> QED BY <1>2, <2>1, <3>1, OweKept
  <2> QED BY <2>2, <2>3
<1>3. MarketInv /\ AuctionsOwe /\ [MarketNext]_dealVars => AuctionsOwe' BY <1>2
<1> QED BY <1>1, <1>3, MarketInvariant, PTL DEF MarketSpec

\* What cancelDebtListing demands when the pool calls it, and what it does.
CancelAllowed(nft) ==
  nftToDebtIds[nft] # 0 =>
    /\ poolIsAuthorized
    /\ ~marketPaused
    /\ DebtShouldExist(nft)
    /\ ListingOf(nft).state # "Sold"

CancelEffect(nft) ==
  /\ IF nftToDebtIds[nft] = 0 THEN UNCHANGED listingVars
     ELSE DeleteListing(nft, [ListingOf(nft) EXCEPT !.state = "Canceled"])
  /\ UNCHANGED settingVars

\* So liquidate is possible exactly when the pool allows it and the market lets
\* the listing be cancelled; the effects are on different variables.
LEMMA PoolLiquidationSplit ==
  ASSUME NEW initiator, NEW nft, NEW amount
  PROVE  PoolLiquidate(initiator, nft, amount)
           <=> /\ LiquidationAllowed(initiator, nft, amount, RefundIfListed(nft))
               /\ CancelAllowed(nft)
               /\ LiquidationEffect(initiator, nft, RefundIfListed(nft))
               /\ CancelEffect(nft)
<1> DEFINE refund == RefundIfListed(nft)
<1>1. Liquidate(initiator, nft, amount, refund)
        <=> /\ LiquidationAllowed(initiator, nft, amount, refund)
            /\ LiquidationEffect(initiator, nft, refund)
  BY LiquidationSplit
<1>2. CancelIfListed(nft) <=> CancelAllowed(nft) /\ CancelEffect(nft)
  BY DEF CancelIfListed, CancelListing, CancelAllowed, CancelEffect
<1> QED BY <1>1, <1>2 DEF PoolLiquidate

\* A listing can be cancelled, unless the market is paused or does not know the
\* pool: its counters count it, and it is not sold.
LEMMA CancelIsAllowed ==
  ASSUME MarketInv, NEW nft \in NFT,
         nftToDebtIds[nft] # 0 => ~marketPaused /\ poolIsAuthorized
  PROVE  CancelAllowed(nft)
<1> SUFFICES ASSUME nftToDebtIds[nft] # 0
             PROVE  DebtShouldExist(nft) /\ ListingOf(nft).state # "Sold"
  BY DEF CancelAllowed
<1> DEFINE c == Collection[nft]
           debtor == ListingOf(nft).debtor
<1>1. ListingBook BY DEF MarketInv
<1>2. debtor \in Account /\ ListingOf(nft).state \in {"New", "Active"}
      /\ c \in Collections
  BY <1>1 DEF ListingBook, ListingsFound, Collections
<1>3. /\ totalDebtsByCollection[c] = Cardinality(ListedIn(c))
      /\ userTotalDebtByCollection[debtor][c] = Cardinality(ListedFor(debtor, c))
  BY <1>1, <1>2, CountersRestated DEF ListingBook
<1>4. /\ nft \in ListedIn(c) /\ nft \in ListedFor(debtor, c)
      /\ IsFiniteSet(ListedIn(c)) /\ IsFiniteSet(ListedFor(debtor, c))
  <2>1. nft \in ListedIn(c) /\ nft \in ListedFor(debtor, c)
    BY DEF ListedIn, ListedFor
  <2>2. /\ ListedIn(c) \subseteq NFT /\ ListedFor(debtor, c) \subseteq NFT
        /\ \A n \in ListedIn(c) : nftToDebtIds[n] # 0
        /\ \A n \in ListedFor(debtor, c) : nftToDebtIds[n] # 0
    BY DEF ListedIn, ListedFor
  <2> HIDE DEF c, debtor
  <2> QED BY <1>1, <2>1, <2>2, ListedFinite DEF ListingBook
<1>5. \A S : IsFiniteSet(S) /\ nft \in S => Cardinality(S) >= 1
  <2> SUFFICES ASSUME NEW S, IsFiniteSet(S), nft \in S PROVE Cardinality(S) >= 1
    OBVIOUS
  <2>1. Cardinality(S) \in Nat BY FS_CardinalityType
  <2>2. Cardinality(S) # 0 BY FS_EmptySet
  <2> QED BY <2>1, <2>2
<1> HIDE DEF c, debtor
<1>6. totalDebtsByCollection[c] >= 1 /\ userTotalDebtByCollection[debtor][c] >= 1
  BY <1>3, <1>4, <1>5
<1> QED BY <1>2, <1>6 DEF DebtShouldExist, c, debtor

\* The market can pay the refund of a listing back, and that takes nothing from
\* the pool nor from any account.
LEMMA RefundIsPayable ==
  ASSUME MarketInv, NEW nft \in NFT,
         NEW initiator \in Account, NEW s \in Seq(TransferType),
         \A b \in Balances :
           b[LendPoolAddr] = weth[LendPoolAddr] /\ b[initiator] >= weth[initiator]
             => Payable(b, s)
  PROVE  CanPay(RefundIfListed(nft) \o s)
<1> DEFINE bidder == ListingOf(nft).bidderAddress
           price == ListingOf(nft).bidPrice
           t == Transfer(DebtMarketAddr, bidder, price)
           after == Moved(weth, t)
<1>1. weth \in Balances /\ ListingBook
  BY DEF MarketInv, PoolInv, PoolTypeOK, Balances
<1>2. weth[initiator] \in Nat BY <1>1, Addresses DEF Balances
<1>3. CASE RefundIfListed(nft) = <<>>
  <2>1. Payable(weth, s) BY <1>1, <1>2
  <2>2. <<>> \o s = s OBVIOUS
  <2> QED BY <1>3, <2>1, <2>2, PayableNow
<1>4. CASE RefundIfListed(nft) # <<>>
  <2>1. nftToDebtIds[nft] # 0 /\ bidder # NullAddress /\ RefundIfListed(nft) = <<t>>
    BY <1>4 DEF RefundIfListed, ReturnBid
  <2>2. price \in Nat /\ bidder \in Account
    BY <1>1, <2>1, FoundListing DEF ListingBook
  <2>3. weth[DebtMarketAddr] >= price
    <3>1. /\ nftToDebtIds[nft] \in DebtIds
          /\ ListingOf(nft) = marketListings[nftToDebtIds[nft]]
      BY <1>1, <2>1, FoundListing DEF ListingBook
    <3>2. nftToDebtIds[nft] \in OpenListings BY <3>1 DEF OpenListings
    <3>3. /\ IsFiniteSet(OpenListings)
          /\ \A d \in OpenListings : ListingBids[d] \in Nat
      <4>1. OpenListings \in SUBSET DebtIds BY DEF OpenListings
      <4> QED BY <1>1, <4>1, BidTypes DEF ListingBook
    <3>4. Share(ListingBids, OpenListings, nftToDebtIds[nft]) = price
      BY <3>1, <3>2 DEF Share, ListingBids
    <3>5. /\ SumOver(ListingBids, OpenListings)
               = SumOver(ListingBids, OpenListings \ {nftToDebtIds[nft]})
                   + Share(ListingBids, OpenListings, nftToDebtIds[nft])
          /\ SumOver(ListingBids, OpenListings \ {nftToDebtIds[nft]}) \in Nat
      BY <3>3, SumSplit
    <3>6. weth[DebtMarketAddr] >= SumOver(ListingBids, OpenListings)
      BY DEF MarketInv, MarketCanRefund
    <3>7. weth[DebtMarketAddr] \in Nat BY <1>1, MarketAddress DEF Balances
    <3> QED BY <2>2, <3>4, <3>5, <3>6, <3>7
  <2>4. t \in TransferType /\ t.from = DebtMarketAddr /\ t.amount = price
    BY <2>2, MarketAddress, Addresses DEF Transfer, TransferType
  <2>5. \A h \in Holder : after[h] = weth[h] + Flow(h, DebtMarketAddr, bidder, price)
    BY <1>1, <2>2, MarketAddress, Addresses, MovedFlow
  <2>6. \A h \in Holder : weth[h] \in Nat BY <1>1 DEF Balances
  <2>7. after[LendPoolAddr] = weth[LendPoolAddr] /\ after[initiator] >= weth[initiator]
    BY <2>2, <2>5, <2>6, MarketAddress, Addresses DEF Flow
  <2>8. after \in Balances
    <3>1. DOMAIN after = Holder /\ after = [h \in Holder |-> after[h]]
      BY <1>1 DEF Moved, Balances
    <3>2. \A h \in Holder : after[h] \in Nat
      BY <2>2, <2>3, <2>5, <2>6, MarketAddress, Addresses DEF Flow
    <3> HIDE DEF after
    <3> QED BY <3>1, <3>2 DEF Balances
  <2>9. Payable(after, s) BY <2>7, <2>8
  <2> HIDE DEF t
  <2>10. CanPay(<<t>> \o s) BY <2>3, <2>4, <2>9, PayableAfter
  <2> QED BY <2>1, <2>10
<1> QED BY <1>3, <1>4

\* ListedAuctionsSettle, with what liquidate demands of the state for ENABLED.
ListedAuctionsAllowed ==
  \A id \in Auctions :
    LET nft == loans[id].nft
        extraDebt == ExtraDebt(loans[id], BorrowAmount(id))
    IN
    /\ ~paused /\ nftConfig[nft].active
    /\ now > AuctionEnd(id) + ClaimDelay
    /\ nftToDebtIds[nft] # 0 => ~marketPaused /\ poolIsAuthorized
    => \A initiator \in Account : weth[initiator] >= extraDebt =>
         /\ LiquidationAllowed(initiator, nft, extraDebt, RefundIfListed(nft))
         /\ CancelAllowed(nft)

\* No auction gets stuck because its debt is listed, with a bid on it or not:
\* while the market works, who has what the best bid lacks may liquidate it.
THEOREM ListedLiquidationsAllowed == MarketSpec => []ListedAuctionsAllowed
<1>1. ASSUME MarketInv, AuctionsOwe, NEW id \in Auctions, NEW initiator \in Account,
             ~paused, nftConfig[loans[id].nft].active,
             now > AuctionEnd(id) + ClaimDelay,
             nftToDebtIds[loans[id].nft] # 0 => ~marketPaused /\ poolIsAuthorized,
             weth[initiator] >= ExtraDebt(loans[id], BorrowAmount(id))
      PROVE  /\ LiquidationAllowed(initiator, loans[id].nft,
                                   ExtraDebt(loans[id], BorrowAmount(id)),
                                   RefundIfListed(loans[id].nft))
             /\ CancelAllowed(loans[id].nft)
  <2> DEFINE nft == loans[id].nft
             extra == ExtraDebt(loans[id], BorrowAmount(id))
             s == LiquidationTransfers(initiator, loans[id], BorrowAmount(id))
  <2>1. /\ id \in LoanIds /\ loans[id].state = "Auction" /\ PoolInv
        /\ weth \in Balances
    BY <1>1 DEF Auctions, MarketInv, PoolInv, PoolTypeOK, Balances
  <2>2. nft \in NFT BY <2>1 DEF PoolInv, LoanInv, OneOpenLoanPerNFT, Live, LiveStates
  <2>3. CancelAllowed(nft) BY <1>1, <2>2, CancelIsAllowed
  <2>4. s \in Seq(TransferType) /\ extra \in Nat BY <2>1, LiquidationSeq
  <2>5. ASSUME NEW b \in Balances, b[LendPoolAddr] = weth[LendPoolAddr],
               b[initiator] >= weth[initiator]
        PROVE  Payable(b, s)
    <3>1. b[initiator] >= extra
      <4>1. b[initiator] \in Nat /\ weth[initiator] \in Nat /\ weth[initiator] >= extra
        BY <1>1, <2>1, Addresses DEF Balances
      <4> HIDE DEF extra
      <4> QED BY <2>4, <2>5, <4>1
    <3> QED BY <2>1, <2>5, <3>1, LiquidationPayable
  <2>6. CanPay(RefundIfListed(nft) \o s)
    <3> HIDE DEF s
    <3> QED BY <1>1, <2>2, <2>4, <2>5, RefundIsPayable
  <2>7. LiquidationAllowed(initiator, nft, extra, RefundIfListed(nft))
    BY <1>1, <2>1, <2>6, DueIsAllowed
  <2> QED BY <2>3, <2>7
<1>2. MarketInv /\ AuctionsOwe => ListedAuctionsAllowed
  BY <1>1 DEF ListedAuctionsAllowed
<1> QED BY <1>2, MarketInvariant, AuctionedLoansOweOnMarket, PTL

\* What redeem leaves of a debt on the market, whatever its listing has paid
\* back: what the collateral safely covers, but for the rounding.
THEOREM RedeemedDebtIsSafeOnMarket ==
  MarketSpec =>
    [][\A id \in LoanIds :
         /\ TakenOut(loans[id], loans'[id])
         /\ nftPrice[loans[id].nft] >= BorrowAmount(id) - SafeDebt(loans[id].nft)
         => BorrowAmount(id)' <= SafeDebt(loans[id].nft) + (borrowIndex \div RAY)]_dealVars
<1> DEFINE Left ==
      \A id \in LoanIds :
        /\ TakenOut(loans[id], loans'[id])
        /\ nftPrice[loans[id].nft] >= BorrowAmount(id) - SafeDebt(loans[id].nft)
        => BorrowAmount(id)' <= SafeDebt(loans[id].nft) + (borrowIndex \div RAY)
<1>1. ASSUME MarketInv, [MarketNext]_dealVars, NEW id \in LoanIds,
             TakenOut(loans[id], loans'[id]),
             nftPrice[loans[id].nft] >= BorrowAmount(id) - SafeDebt(loans[id].nft)
      PROVE  BorrowAmount(id)' <= SafeDebt(loans[id].nft) + (borrowIndex \div RAY)
  <2>1. ~NoneTakenOut BY <1>1 DEF NoneTakenOut
  <2>2. PoolUserStep BY <1>1, <2>1, MarketStepStarts
  <2>3. PICK initiator \in Account, nft \in NFT : \E refund :
          UserOperation(initiator, nft, refund)
    BY <2>2, PoolUserOperation
  <2>4. PICK refund : UserOperation(initiator, nft, refund) BY <2>3
  <2>5. PoolInv BY <1>1 DEF MarketInv
  <2>6. PICK amount \in Amounts, fineLimit \in Amounts :
          RedeemAuction(initiator, nft, amount, fineLimit, refund)
    BY <2>1, <2>4, <2>5, UserTakesOut
  <2>7. amount \in Nat BY LoanAssumption
  <2>8. RedeemedFrom(nft, id) BY <1>1, <2>5, <2>6, TakenFrom
  <2> QED BY <1>1, <2>5, <2>6, <2>7, <2>8, RedeemLeaves DEF RedeemedFrom
<1>2. MarketInv /\ [MarketNext]_dealVars => [Left]_dealVars BY <1>1
<1>3. MarketSpec => [][Left]_dealVars BY <1>2, MarketInvariant, PTL DEF MarketSpec
<1> QED BY <1>3 DEF Left

-----------------------------------------------------------------------------
(* Pool and market as callers of the loan book.                            *)

\* A step of a pool's user, with the refund of the listing it cancels.
LEMMA RefundingOperation ==
  ASSUME MarketInv, PoolUserStep
  PROVE  \E initiator \in Account, nft \in NFT, refund \in Refunds :
           UserOperation(initiator, nft, refund)
<1>1. PICK initiator \in Account, nft \in NFT :
        \/ \E onBehalfOf \in Account :
             \/ \E amount \in Amounts : PoolBorrow(initiator, onBehalfOf, nft, amount)
             \/ \E bid \in Bids : PoolAuction(initiator, onBehalfOf, nft, bid)
             \/ PoolBuyout(initiator, onBehalfOf, nft)
        \/ \E amount \in Amounts :
             \/ PoolRepay(initiator, nft, amount)
             \/ PoolLiquidate(initiator, nft, amount)
             \/ \E fineLimit \in Amounts :
                  PoolRedeem(initiator, nft, amount, fineLimit)
  BY DEF PoolUserStep
<1>2. \/ UserOperation(initiator, nft, <<>>)
      \/ UserOperation(initiator, nft, RefundIfListed(nft))
  BY <1>1 DEF UserOperation, PoolBorrow, PoolAuction, PoolBuyout, PoolRepay,
              PoolLiquidate, PoolRedeem
<1>3. RefundIfListed(nft) \in Refunds /\ <<>> \in Refunds
  BY RefundIfListedPays DEF MarketInv, Refunds
<1> QED BY <1>2, <1>3

\* The other steps sell a debt, or are steps of the pool without a user, or
\* leave the loan book alone.
LEMMA OtherMarketSteps ==
  ASSUME MarketInv, [MarketNext]_dealVars, ~PoolUserStep
  PROVE  \/ \E nft \in NFT, buyer \in Account : TransferDebt(nft, buyer)
         \/ OtherPoolStep
         \/ UNCHANGED loanVars
<1>1. CASE SellerStep
  <2>1. PICK caller \in Account, nft \in NFT :
          \/ \E terms \in Terms, debtor \in Account :
               CreateDebtListing(caller, nft, terms, debtor)
          \/ CancelDebtListing(caller, nft)
    BY <1>1 DEF SellerStep
  <2>2. ASSUME NEW terms, NEW debtor, CreateDebtListing(caller, nft, terms, debtor)
        PROVE  UNCHANGED loanVars
    BY <2>2 DEF CreateDebtListing, poolVars
  <2>3. CancelDebtListing(caller, nft) => UNCHANGED loanVars
    BY DEF CancelDebtListing
  <2> QED BY <2>1, <2>2, <2>3
<1>2. CASE BuyerStep
  <2>1. PICK caller \in Account, onBehalfOf \in Account, nft \in NFT :
          \/ Buy(caller, nft, onBehalfOf)
          \/ \E bid \in Bids : \/ BidDebt(caller, nft, onBehalfOf, bid)
                               \/ BidSellPrice(caller, nft, onBehalfOf, bid)
    BY <1>2 DEF BuyerStep
  <2>2. Buy(caller, nft, onBehalfOf) => TransferDebt(nft, onBehalfOf)
    BY DEF Buy
  <2>3. ASSUME NEW bid
        PROVE  /\ BidSellPrice(caller, nft, onBehalfOf, bid) =>
                    TransferDebt(nft, onBehalfOf)
               /\ BidDebt(caller, nft, onBehalfOf, bid) => UNCHANGED loanVars
    BY DEF BidSellPrice, BidDebt
  <2> QED BY <2>1, <2>2, <2>3
<1>3. CASE ClaimStep
  <2>1. PICK nft \in NFT : /\ TransferDebt(nft, ListingOf(nft).bidderAddress)
                           /\ nftToDebtIds[nft] # 0
                           /\ ListingOf(nft).bidderAddress # NullAddress
    BY <1>3 DEF ClaimStep, Claim, DebtShouldExist
  <2>2. ListingOf(nft).bidderAddress \in Account
    BY <2>1, FoundListing DEF MarketInv, ListingBook
  <2> QED BY <2>1, <2>2
<1>4. CASE Settings \/ UNCHANGED dealVars
  BY <1>4 DEF Settings, SetMarketPause, SetAuthorizedPool, SetDeltaBidPercent,
              dealVars, poolVars
<1> QED BY <1>1, <1>2, <1>3, <1>4 DEF MarketNext

\* While a listing stays in force its NFT keeps the loan that is for sale, with
\* the borrower who sells it and the debt the buyer takes over.
ListedLoanKept(nft) ==
  nftToDebtIds[nft] # 0 /\ nftToDebtIds'[nft] = nftToDebtIds[nft] =>
    /\ nftToLoanIds'[nft] = nftToLoanIds[nft]
    /\ loans'[nftToLoanIds[nft]].borrower = loans[nftToLoanIds[nft]].borrower
    /\ loans'[nftToLoanIds[nft]].scaledAmount
         = loans[nftToLoanIds[nft]].scaledAmount

LEMMA OneListedKept ==
  ASSUME MarketInv, NEW nft \in NFT, OtherLoansKept(nft), ListedLoanKept(nft)
  PROVE  \A n \in NFT : ListedLoanKept(n)
<1>1. ASSUME NEW n \in NFT, n # nft, nftToDebtIds[n] # 0
      PROVE  ListedLoanKept(n)
  <2>1. nftToLoanIds[n] # 0 BY <1>1 DEF MarketInv, ListingsAreCurrent
  <2>2. /\ nftToLoanIds'[n] = nftToLoanIds[n]
        /\ loans'[nftToLoanIds[n]] = loans[nftToLoanIds[n]]
    BY <1>1, <2>1 DEF OtherLoansKept
  <2> QED BY <2>2 DEF ListedLoanKept
<1>2. ASSUME NEW n \in NFT, nftToDebtIds[n] = 0
      PROVE  ListedLoanKept(n)
  BY <1>2 DEF ListedLoanKept
<1> QED BY <1>1, <1>2

\* A listing that is cancelled or sold keeps nothing.
LEMMA DeletedListing ==
  ASSUME MarketInv, NEW nft \in NFT, NEW final, DeleteListing(nft, final)
  PROVE  ListedLoanKept(nft)
<1>1. nftToDebtIds \in [NFT -> {0} \cup DebtIds]
  BY DEF MarketInv, ListingBook, ListingTypeOK
<1>2. nftToDebtIds'[nft] = 0 BY <1>1 DEF DeleteListing
<1> QED BY <1>2 DEF ListedLoanKept

LEMMA CancelledListing ==
  ASSUME MarketInv, NEW nft \in NFT, CancelIfListed(nft)
  PROVE  ListedLoanKept(nft)
<1>1. CASE nftToDebtIds[nft] = 0 BY <1>1 DEF ListedLoanKept
<1>2. CASE nftToDebtIds[nft] # 0
  BY <1>2, DeletedListing DEF CancelIfListed, CancelListing
<1> QED BY <1>1, <1>2

\* The pool's users cancel what they change, but for auction.
LEMMA PoolUserKeepsListed ==
  ASSUME MarketInv, PoolUserStep
  PROVE  \A n \in NFT : ListedLoanKept(n)
<1>1. PICK initiator \in Account, nft \in NFT :
        \/ \E onBehalfOf \in Account :
             \/ \E amount \in Amounts : PoolBorrow(initiator, onBehalfOf, nft, amount)
             \/ \E bid \in Bids : PoolAuction(initiator, onBehalfOf, nft, bid)
             \/ PoolBuyout(initiator, onBehalfOf, nft)
        \/ \E amount \in Amounts :
             \/ PoolRepay(initiator, nft, amount)
             \/ PoolLiquidate(initiator, nft, amount)
             \/ \E fineLimit \in Amounts :
                  PoolRedeem(initiator, nft, amount, fineLimit)
  BY DEF PoolUserStep
<1>2. Amounts \subseteq Nat /\ Bids \subseteq Nat
  BY LoanAssumption, PoolAssumption
<1> DEFINE refund == RefundIfListed(nft)
<1>3. PoolInv /\ refund \in Refunds BY RefundIfListedPays DEF MarketInv
<1>4. ASSUME PoolOperation(nft, refund), CancelIfListed(nft)
      PROVE  \A n \in NFT : ListedLoanKept(n)
  BY <1>4, CancelledListing, OneListedKept DEF PoolOperation
<1> HIDE DEF refund
<1>5. ASSUME NEW onBehalfOf \in Account, NEW amount \in Amounts,
             PoolBorrow(initiator, onBehalfOf, nft, amount)
      PROVE  \A n \in NFT : ListedLoanKept(n)
  <2>1. CASE nftToLoanIds[nft] = 0
    <3>1. Borrow(initiator, onBehalfOf, nft, amount, <<>>)
      BY <1>5, <2>1 DEF PoolBorrow
    <3>2. OtherLoansKept(nft) BY <1>2, <1>3, <3>1, BorrowOperation DEF PoolOperation
    <3>3. nftToDebtIds[nft] = 0 BY <2>1 DEF MarketInv, ListingsAreCurrent
    <3>4. ListedLoanKept(nft) BY <3>3 DEF ListedLoanKept
    <3> QED BY <3>2, <3>4, OneListedKept
  <2>2. CASE nftToLoanIds[nft] # 0
    <3>1. Borrow(initiator, onBehalfOf, nft, amount, refund) /\ CancelIfListed(nft)
      BY <1>5, <2>2 DEF PoolBorrow, refund
    <3>2. PoolOperation(nft, refund) BY <1>2, <1>3, <3>1, BorrowOperation
    <3> QED BY <1>4, <3>1, <3>2
  <2> QED BY <2>1, <2>2
<1>6. ASSUME NEW onBehalfOf \in Account, NEW bid \in Bids,
             PoolAuction(initiator, onBehalfOf, nft, bid)
      PROVE  \A n \in NFT : ListedLoanKept(n)
  <2>1. Auction(initiator, onBehalfOf, nft, bid) BY <1>6 DEF PoolAuction
  <2>2. /\ OtherLoansKept(nft) /\ nftToLoanIds' = nftToLoanIds
        /\ loans'[nftToLoanIds[nft]].scaledAmount
             = loans[nftToLoanIds[nft]].scaledAmount
        /\ loans'[nftToLoanIds[nft]].borrower = loans[nftToLoanIds[nft]].borrower
    BY <1>2, <1>3, <2>1, AuctionOperation DEF PoolOperation
  <2>3. ListedLoanKept(nft) BY <2>2 DEF ListedLoanKept
  <2> QED BY <2>2, <2>3, OneListedKept
<1>7. ASSUME NEW onBehalfOf \in Account, PoolBuyout(initiator, onBehalfOf, nft)
      PROVE  \A n \in NFT : ListedLoanKept(n)
  <2>1. Buyout(initiator, onBehalfOf, nft, refund) /\ CancelIfListed(nft)
    BY <1>7 DEF PoolBuyout, refund
  <2>2. PoolOperation(nft, refund) BY <1>3, <2>1, BuyoutOperation
  <2> QED BY <1>4, <2>1, <2>2
<1>8. ASSUME NEW amount \in Amounts,
             \/ PoolRepay(initiator, nft, amount)
             \/ PoolLiquidate(initiator, nft, amount)
             \/ \E fineLimit \in Amounts :
                  PoolRedeem(initiator, nft, amount, fineLimit)
      PROVE  \A n \in NFT : ListedLoanKept(n)
  <2>1. CASE PoolRepay(initiator, nft, amount)
    <3>1. Repay(initiator, nft, amount, refund) /\ CancelIfListed(nft)
      BY <2>1 DEF PoolRepay, refund
    <3>2. PoolOperation(nft, refund) BY <1>2, <1>3, <3>1, RepayOperation
    <3> QED BY <1>4, <3>1, <3>2
  <2>2. CASE PoolLiquidate(initiator, nft, amount)
    <3>1. Liquidate(initiator, nft, amount, refund) /\ CancelIfListed(nft)
      BY <2>2 DEF PoolLiquidate, refund
    <3>2. PoolOperation(nft, refund) BY <1>3, <3>1, LiquidateOperation
    <3> QED BY <1>4, <3>1, <3>2
  <2>3. CASE \E fineLimit \in Amounts : PoolRedeem(initiator, nft, amount, fineLimit)
    <3>1. PICK fineLimit \in Amounts :
            RedeemAuction(initiator, nft, amount, fineLimit, refund)
              /\ CancelIfListed(nft)
      BY <2>3 DEF PoolRedeem, refund
    <3>2. PoolOperation(nft, refund) BY <1>2, <1>3, <3>1, RedeemOperation
    <3> QED BY <1>4, <3>1, <3>2
  <2> QED BY <1>8, <2>1, <2>2, <2>3
<1> QED BY <1>1, <1>5, <1>6, <1>7, <1>8

\* A sale deletes the listing it was about and leaves the other loans alone.
LEMMA SaleKeepsListed ==
  ASSUME MarketInv, NEW nft \in NFT, NEW buyer, NEW final,
         TransferDebt(nft, buyer), DeleteListing(nft, final)
  PROVE  \A n \in NFT : ListedLoanKept(n)
<1> DEFINE id == nftToLoanIds[nft]
<1>1. /\ id # 0 /\ loans' = [loans EXCEPT ![id].borrower = buyer]
      /\ nftToLoanIds' = nftToLoanIds
  BY DEF TransferDebt, ReMintUNFT
<1>2. id \in LoanIds /\ LoanInv /\ loans \in [LoanIds -> LoanData]
  BY <1>1, FoundLoan DEF MarketInv, PoolInv, LoanInv, LoanTypeOK
<1>3. OthersKept(id) BY <1>1, <1>2 DEF OthersKept
<1>4. OtherLoansKept(nft) BY <1>1, <1>2, <1>3, OneLoanWritten
<1> QED BY <1>4, DeletedListing, OneListedKept

\* As long as a listing is in force, no step changes the loan it offers: not its
\* debt, nor the borrower, whom buy pays, although the debtor whom the listing
\* names, and claim pays, need not be that borrower.
THEOREM ListedLoansStay ==
  MarketSpec => [][\A nft \in NFT : ListedLoanKept(nft)]_dealVars
<1> DEFINE Kept == \A nft \in NFT : ListedLoanKept(nft)
<1>0. UNCHANGED <<loans, nftToLoanIds>> => Kept BY DEF ListedLoanKept
<1>1. ASSUME MarketInv, [MarketNext]_dealVars
      PROVE  Kept
  <2>1. CASE SellerStep
    <3>1. PICK caller \in Account, nft \in NFT :
            \/ \E terms \in Terms, debtor \in Account :
                 CreateDebtListing(caller, nft, terms, debtor)
            \/ CancelDebtListing(caller, nft)
      BY <2>1 DEF SellerStep
    <3>2. ASSUME NEW terms, NEW debtor, CreateDebtListing(caller, nft, terms, debtor)
          PROVE  UNCHANGED <<loans, nftToLoanIds>>
      BY <3>2 DEF CreateDebtListing, poolVars, loanVars, bookVars
    <3>3. CancelDebtListing(caller, nft) => UNCHANGED <<loans, nftToLoanIds>>
      BY DEF CancelDebtListing, loanVars, bookVars
    <3> QED BY <1>0, <3>1, <3>2, <3>3
  <2>2. CASE BuyerStep
    <3>1. PICK caller \in Account, onBehalfOf \in Account, nft \in NFT :
            \/ Buy(caller, nft, onBehalfOf)
            \/ \E bid \in Bids : \/ BidDebt(caller, nft, onBehalfOf, bid)
                                 \/ BidSellPrice(caller, nft, onBehalfOf, bid)
      BY <2>2 DEF BuyerStep
    <3>2. CASE Buy(caller, nft, onBehalfOf)
      BY <1>1, <3>2, SaleKeepsListed DEF Buy
    <3>3. ASSUME NEW bid, BidSellPrice(caller, nft, onBehalfOf, bid)
          PROVE  Kept
      BY <1>1, <3>3, SaleKeepsListed DEF BidSellPrice
    <3>4. ASSUME NEW bid, BidDebt(caller, nft, onBehalfOf, bid)
          PROVE  UNCHANGED <<loans, nftToLoanIds>>
      BY <3>4 DEF BidDebt, loanVars, bookVars
    <3> HIDE DEF Kept
    <3> QED BY <1>0, <3>1, <3>2, <3>3, <3>4
  <2>3. CASE ClaimStep
    <3>1. PICK nft \in NFT : Claim(nft) BY <2>3 DEF ClaimStep
    <3> QED BY <1>1, <3>1, SaleKeepsListed DEF Claim
  <2>4. CASE PoolUserStep BY <1>1, <2>4, PoolUserKeepsListed
  <2>5. CASE OtherPoolStep
    <3>1. UNCHANGED <<loans, nftToLoanIds>> BY <2>5, OtherPoolLeavesLoans
    <3> QED BY <1>0, <3>1
  <2>6. CASE Settings \/ UNCHANGED dealVars
    <3>1. UNCHANGED <<loans, nftToLoanIds>>
      BY <2>6 DEF Settings, SetMarketPause, SetAuthorizedPool, SetDeltaBidPercent,
                  dealVars, poolVars, loanVars, bookVars
    <3> QED BY <1>0, <3>1
  <2> HIDE DEF Kept
  <2> QED BY <1>1, <2>1, <2>2, <2>3, <2>4, <2>5, <2>6 DEF MarketNext
<1> HIDE DEF Kept
<1>2. MarketInv /\ [MarketNext]_dealVars => [Kept]_dealVars BY <1>1
<1>3. MarketSpec => [][Kept]_dealVars BY <1>2, MarketInvariant, PTL DEF MarketSpec
<1> QED BY <1>3 DEF Kept

\* Pool and market together are a caller of the loan book, which they call in
\* one transaction at most once.
LEMMA MarketCallsBook ==
  ASSUME MarketInv, [MarketNext]_dealVars
  PROVE  [BookNext(Bids)]_loanVars
<1>1. PoolInv BY DEF MarketInv
<1>2. CASE PoolUserStep
  <2>1. PICK initiator \in Account, nft \in NFT, refund \in Refunds :
          UserOperation(initiator, nft, refund)
    BY <1>2, RefundingOperation
  <2> QED BY <1>1, <2>1, UserCallsBook
<1>3. CASE \E nft \in NFT, buyer \in Account : TransferDebt(nft, buyer)
  <2>1. PICK nft \in NFT, buyer \in Account : TransferDebt(nft, buyer) BY <1>3
  <2>2. /\ nftToLoanIds[nft] # 0
        /\ ReMintUNFT(nft, loans[nftToLoanIds[nft]].borrower, buyer)
    BY <2>1 DEF TransferDebt
  <2>3. SellDebt(nft) BY <2>2 DEF SellDebt
  <2> QED BY <2>2, <2>3 DEF BookNext, BookOperation
<1>4. CASE OtherPoolStep BY <1>4, OthersCallBook DEF OtherPoolStep
<1> QED BY <1>2, <1>3, <1>4, OtherMarketSteps

\* A loan that has ended is never changed again on the market either: no
\* operation of the pool and no sale of its debt finds it.
THEOREM MarketKeepsClosedLoans == MarketSpec => ClosedLoansStayClosed
<1>1. MarketInv /\ [MarketNext]_dealVars => [ClosedKept]_loanVars
  BY MarketCallsBook, BookKeepsClosed DEF MarketInv, PoolInv
<1>2. MarketSpec => [][ClosedKept]_loanVars
  BY <1>1, MarketInvariant, PTL DEF MarketSpec
<1> QED BY <1>2 DEF ClosedLoansStayClosed, ClosedKept

\* An auction keeps its start, its first bidder and its debt, and its bid only
\* rises, also while the debt is listed, sold and bought.
THEOREM MarketAuctionsRise == MarketSpec => AuctionsOnlyRise
<1>1. Bids \in SUBSET (Nat \ {0}) BY PoolAssumption
<1>2. MarketInv /\ [MarketNext]_dealVars => [AuctionsRising]_loanVars
  BY <1>1, MarketCallsBook, BookRises DEF MarketInv, PoolInv
<1>3. MarketSpec => [][AuctionsRising]_loanVars
  BY <1>2, MarketInvariant, PTL DEF MarketSpec
<1> QED BY <1>3 DEF AuctionsOnlyRise, AuctionsRising, StillRises

\* Pool and market together implement the abstract pawn shop: what the market
\* adds to the pool is the sale of a ticket, and nothing else the shop forbids.
THEOREM MarketImplementsPawn == MarketSpec => ShopOf(Bids)!Spec
<1>1. MarketInit => ShopOf(Bids)!Init
  BY BookStartsFree DEF MarketInit, PoolInit
<1>2. MarketInv /\ [MarketNext]_dealVars => [ShopOf(Bids)!Next]_Tickets
  <2>1. Bids \in SUBSET (Nat \ {0}) BY PoolAssumption
  <2> QED BY <2>1, MarketCallsBook, BookIsShop DEF MarketInv, PoolInv
<1> QED BY <1>1, <1>2, MarketInvariant, PTL DEF MarketSpec, ShopOf!Spec

-----------------------------------------------------------------------------
(* What the lenders get on the market.                                     *)

\* Each operation of a user pays the lenders the whole debt of a loan it ends.
LEMMA UserPaysEnded ==
  ASSUME PoolInv, NEW initiator \in Account, NEW nft \in NFT,
         NEW refund \in Refunds, UserOperation(initiator, nft, refund)
  PROVE  EndedPaid
<1>1. Amounts \subseteq Nat \ {0} /\ Bids \subseteq Nat \ {0}
  BY LoanAssumption, PoolAssumption
<1>2. CASE \E onBehalfOf \in Account, amount \in Amounts :
             Borrow(initiator, onBehalfOf, nft, amount, refund)
  <2>1. PICK onBehalfOf \in Account, amount \in Nat \ {0} :
          Borrow(initiator, onBehalfOf, nft, amount, refund)
    BY <1>1, <1>2
  <2> QED BY <2>1, BorrowKeeps
<1>3. CASE \E onBehalfOf \in Account, bid \in Bids :
             Auction(initiator, onBehalfOf, nft, bid)
  <2>1. PICK onBehalfOf \in Account, bid \in Nat \ {0} :
          Auction(initiator, onBehalfOf, nft, bid)
    BY <1>1, <1>3
  <2> QED BY <2>1, AuctionKeeps
<1>4. CASE \E onBehalfOf \in Account : Buyout(initiator, onBehalfOf, nft, refund)
  BY <1>4, BuyoutKeeps
<1>5. CASE \E amount \in Amounts : Repay(initiator, nft, amount, refund)
  <2>1. PICK amount \in Nat : Repay(initiator, nft, amount, refund) BY <1>1, <1>5
  <2> QED BY <2>1, RepayKeeps
<1>6. CASE \E amount \in Amounts : Liquidate(initiator, nft, amount, refund)
  BY <1>6, LiquidateKeeps
<1>7. CASE \E amount, fineLimit \in Amounts :
             RedeemAuction(initiator, nft, amount, fineLimit, refund)
  <2>1. PICK amount \in Nat, fineLimit \in Nat :
          RedeemAuction(initiator, nft, amount, fineLimit, refund)
    BY <1>1, <1>7
  <2> QED BY <2>1, RedeemKeeps
<1> QED BY <1>2, <1>3, <1>4, <1>5, <1>6, <1>7 DEF UserOperation

\* No other step ends a loan: a sale gives it another borrower, and the pool's
\* other steps leave the loans alone.
LEMMA OthersEndNone ==
  ASSUME MarketInv, [MarketNext]_dealVars, ~PoolUserStep
  PROVE  EndedPaid
<1>1. PoolInv BY DEF MarketInv
<1>2. UNCHANGED loans => EndedPaid BY DEF EndedPaid, Live
<1>3. CASE \E nft \in NFT, buyer \in Account : TransferDebt(nft, buyer)
  <2>1. PICK nft \in NFT, buyer \in Account : TransferDebt(nft, buyer) BY <1>3
  <2>2. loans' = [loans EXCEPT ![nftToLoanIds[nft]].borrower = buyer]
    BY <2>1 DEF TransferDebt, ReMintUNFT
  <2>3. loans \in [LoanIds -> LoanData]
    BY <1>1 DEF PoolInv, LoanInv, LoanTypeOK
  <2>4. \A id \in LoanIds : loans'[id].state = loans[id].state
    BY <2>2, <2>3 DEF LoanData
  <2> QED BY <2>4 DEF EndedPaid, Live
<1>4. CASE OtherPoolStep
  <2>1. CASE LenderStep
    BY <1>2, <2>1 DEF LenderStep, Deposit, Withdraw, loanVars, bookVars
  <2>2. CASE \/ Delegate \/ Configure \/ Elsewhere \/ Tick
             \/ \E val \in Switches : SetPause(val)
    BY <1>1, <1>2, <2>2, QuietStepKeeps
  <2> QED BY <1>4, <2>1, <2>2 DEF OtherPoolStep
<1>5. CASE UNCHANGED loanVars BY <1>2, <1>5 DEF loanVars, bookVars
<1> QED BY <1>3, <1>4, <1>5, OtherMarketSteps

\* A loan that ends is paid to the lenders in full on the market too, whoever
\* has bought its debt meanwhile and whatever its listing paid back.
THEOREM EndedLoansPaidOnMarket == MarketSpec => EndedLoansArePaid
<1>1. ASSUME MarketInv, [MarketNext]_dealVars PROVE EndedPaid
  <2>1. CASE PoolUserStep
    <3>1. PICK initiator \in Account, nft \in NFT, refund \in Refunds :
            UserOperation(initiator, nft, refund)
      BY <1>1, <2>1, RefundingOperation
    <3> QED BY <1>1, <3>1, UserPaysEnded DEF MarketInv
  <2> QED BY <1>1, <2>1, OthersEndNone
<1>2. MarketInv /\ [MarketNext]_dealVars =>
        [\A id \in LoanIds : Live(id) /\ ~Live(id)' =>
           weth'[UTokenAddr] = weth[UTokenAddr] + BorrowAmount(id)]_poolVars
  BY <1>1 DEF EndedPaid
<1> QED BY <1>2, MarketInvariant, PTL DEF MarketSpec, EndedLoansArePaid

-----------------------------------------------------------------------------
(* What a seller gets.                                                     *)

\* The debt of nft is not sold in this step.
StaysUnsold(nft) ==
  nftToDebtIds[nft] # 0 => marketListings'[nftToDebtIds[nft]].state # "Sold"

\* The three ways to sell the debt of an NFT.
SaleByBid(nft) == \E caller, onBehalfOf \in Account, bid \in Bids :
  BidSellPrice(caller, nft, onBehalfOf, bid)

Sale(nft) ==
  \/ \E caller, onBehalfOf \in Account : Buy(caller, nft, onBehalfOf)
  \/ SaleByBid(nft)
  \/ Claim(nft)

\* A step about the listing of another NFT does not sell, nor one that leaves
\* the listings alone.
LEMMA OthersUnsold ==
  ASSUME MarketInv, NEW nft \in NFT,
         \/ marketListings' = marketListings
         \/ \E n \in NFT : n # nft /\ OtherListingsKept(n)
  PROVE  StaysUnsold(nft)
<1> SUFFICES ASSUME nftToDebtIds[nft] # 0
             PROVE  marketListings'[nftToDebtIds[nft]].state # "Sold"
  BY DEF StaysUnsold
<1>1. ListingOf(nft).state \in {"New", "Active"}
  BY DEF MarketInv, ListingsAreCurrent
<1>2. marketListings'[nftToDebtIds[nft]] = ListingOf(nft)
  BY DEF OtherListingsKept, ListingOf
<1> QED BY <1>1, <1>2

\* A cancellation does not sell.
LEMMA CancelUnsold ==
  ASSUME MarketInv, NEW nft \in NFT, NEW n \in NFT, nftToDebtIds[n] # 0,
         CancelListing(n)
  PROVE  StaysUnsold(nft)
<1>1. CASE n # nft
  <2>1. OtherListingsKept(n) BY CancelBook DEF MarketInv
  <2> QED BY <1>1, <2>1, OthersUnsold
<1>2. CASE n = nft
  <2> DEFINE d == nftToDebtIds[nft]
             old == ListingOf(nft)
             final == [old EXCEPT !.state = "Canceled"]
  <2>1. d \in DebtIds /\ old \in ListingData
    BY <1>2, FoundListing DEF MarketInv, ListingBook
  <2>2. marketListings' = [marketListings EXCEPT ![d] = final]
    BY <1>2 DEF CancelListing, DeleteListing
  <2>3. marketListings \in [DebtIds -> ListingData]
    BY DEF MarketInv, ListingBook, ListingTypeOK
  <2> HIDE DEF d, old
  <2>4. final.state = "Canceled" BY <2>1 DEF ListingData
  <2>5. marketListings'[d].state = "Canceled"
    <3> HIDE DEF final
    <3> QED BY <2>1, <2>2, <2>3, <2>4
  <2> QED BY <2>5 DEF StaysUnsold, d
<1> QED BY <1>1, <1>2

\* A new best bid does not sell.
LEMMA BidUnsold ==
  ASSUME MarketInv, NEW nft \in NFT, NEW n \in NFT, NEW caller \in Account,
         NEW onBehalfOf \in Account, NEW bid \in Bids,
         BidDebt(caller, n, onBehalfOf, bid)
  PROVE  StaysUnsold(nft)
<1>1. /\ nftToDebtIds[n] # 0
      /\ marketListings' = [marketListings EXCEPT ![nftToDebtIds[n]] =
           [@ EXCEPT !.state = "Active", !.bidderAddress = onBehalfOf,
                     !.bidPrice = bid]]
      /\ UNCHANGED <<debtIdTracker, nftToDebtIds, userTotalDebtByCollection,
                     totalDebtsByCollection>>
  BY DEF BidDebt, MayBidDebt, DebtShouldExist
<1>2. ListingBook /\ bid \in Nat BY PoolAssumption DEF MarketInv
<1>3. /\ OtherListingsKept(n)
      /\ ListingOf(n)' = [ListingOf(n) EXCEPT !.state = "Active",
                            !.bidderAddress = onBehalfOf, !.bidPrice = bid]
  BY <1>1, <1>2, BidBook
<1>4. CASE n # nft BY <1>3, <1>4, OthersUnsold
<1>5. CASE n = nft
  <2>1. ListingOf(nft) \in ListingData
    BY <1>1, <1>2, <1>5, FoundListing DEF ListingBook
  <2> DEFINE old == ListingOf(nft)
             new == [old EXCEPT !.state = "Active",
                       !.bidderAddress = onBehalfOf, !.bidPrice = bid]
  <2>2. old \in ListingData /\ ListingOf(nft)' = new BY <1>3, <1>5, <2>1
  <2>3. new.state = "Active"
    <3> HIDE DEF old
    <3> QED BY <2>2 DEF ListingData
  <2>4. ListingOf(nft)' = marketListings'[nftToDebtIds[nft]] BY <1>1 DEF ListingOf
  <2> HIDE DEF new
  <2> QED BY <2>2, <2>3, <2>4 DEF StaysUnsold
<1> QED BY <1>4, <1>5

\* Nothing else sells a debt: not the pool, and no step about another listing.
LEMMA OnlySalesSell ==
  ASSUME MarketInv, [MarketNext]_dealVars, NEW nft \in NFT, ~StaysUnsold(nft)
  PROVE  Sale(nft)
<1>1. ListingBook /\ PoolInv BY DEF MarketInv
<1>2. ASSUME NEW n \in NFT, NEW final \in ListingData, n # nft,
             DebtShouldExist(n), DeleteListing(n, final)
      PROVE  FALSE
  <2>1. nftToDebtIds[n] # 0 BY <1>2 DEF DebtShouldExist
  <2>2. OtherListingsKept(n) BY <1>1, <1>2, <2>1, DeleteBook
  <2> QED BY <1>2, <2>2, OthersUnsold
<1>3. CASE SellerStep
  <2>1. PICK caller \in Account, n \in NFT :
          \/ \E terms \in Terms, debtor \in Account :
               CreateDebtListing(caller, n, terms, debtor)
          \/ CancelDebtListing(caller, n)
    BY <1>3 DEF SellerStep
  <2>2. ASSUME NEW terms \in Terms, NEW debtor \in Account,
               CreateDebtListing(caller, n, terms, debtor)
        PROVE  FALSE
    <3>1. OtherListingsKept(n) /\ nftToDebtIds[n] = 0
      BY <1>1, <2>2, CreateBook
    <3>2. nftToDebtIds[nft] # 0 BY DEF StaysUnsold
    <3> QED BY <3>1, <3>2, OthersUnsold
  <2>3. CancelDebtListing(caller, n) => FALSE
    BY CancelUnsold DEF CancelDebtListing
  <2> QED BY <2>1, <2>2, <2>3
<1>4. CASE BuyerStep
  <2>1. PICK caller \in Account, onBehalfOf \in Account, n \in NFT :
          \/ Buy(caller, n, onBehalfOf)
          \/ \E bid \in Bids : \/ BidDebt(caller, n, onBehalfOf, bid)
                               \/ BidSellPrice(caller, n, onBehalfOf, bid)
    BY <1>4 DEF BuyerStep
  <2>2. CASE Buy(caller, n, onBehalfOf)
    <3> DEFINE final == [ListingOf(n) EXCEPT !.state = "Sold"]
    <3>1. /\ DebtShouldExist(n) /\ DeleteListing(n, final) /\ nftToDebtIds[n] # 0
      BY <2>2 DEF Buy, DebtShouldExist
    <3>2. final \in ListingData BY <1>1, <3>1, SoldListing
    <3>3. n = nft BY <1>2, <3>1, <3>2
    <3> QED BY <2>2, <3>3 DEF Sale
  <2>3. ASSUME NEW bid \in Bids, BidSellPrice(caller, n, onBehalfOf, bid)
        PROVE  Sale(nft)
    <3> DEFINE final == [ListingOf(n) EXCEPT !.state = "Sold",
                           !.bidderAddress = onBehalfOf, !.bidPrice = bid]
    <3>1. /\ DebtShouldExist(n) /\ DeleteListing(n, final) /\ nftToDebtIds[n] # 0
      BY <2>3 DEF BidSellPrice, MayBidDebt, DebtShouldExist
    <3>2. bid \in Nat BY PoolAssumption
    <3>3. final \in ListingData BY <1>1, <3>1, <3>2, SoldListing
    <3>4. n = nft BY <1>2, <3>1, <3>3
    <3> QED BY <2>3, <3>4 DEF Sale, SaleByBid
  <2> QED BY <2>1, <2>2, <2>3, BidUnsold
<1>5. CASE ClaimStep
  <2>1. PICK n \in NFT : Claim(n) BY <1>5 DEF ClaimStep
  <2> DEFINE final == [ListingOf(n) EXCEPT !.state = "Sold"]
  <2>2. /\ DebtShouldExist(n) /\ DeleteListing(n, final) /\ nftToDebtIds[n] # 0
    BY <2>1 DEF Claim, DebtShouldExist
  <2>3. final \in ListingData BY <1>1, <2>2, SoldListing
  <2>4. n = nft BY <1>2, <2>2, <2>3
  <2> QED BY <2>1, <2>4 DEF Sale
<1>6. CASE PoolUserStep
  <2>1. PICK n \in NFT : CancelIfListed(n) \/ ListingsStay
    BY <1>6 DEF PoolUserStep, PoolBorrow, PoolAuction, PoolBuyout, PoolRepay,
                PoolLiquidate, PoolRedeem
  <2>2. CASE marketListings' = marketListings BY <2>2, OthersUnsold
  <2>3. CASE CancelListing(n) /\ nftToDebtIds[n] # 0 BY <2>3, CancelUnsold
  <2> QED BY <2>1, <2>2, <2>3 DEF CancelIfListed, ListingsStay, listingVars
<1>7. CASE OtherPoolStep \/ Settings \/ UNCHANGED dealVars
  <2>1. marketListings' = marketListings
    BY <1>7 DEF OtherPoolStep, ListingsStay, Settings, SetMarketPause,
                SetAuthorizedPool, SetDeltaBidPercent, dealVars, listingVars
  <2> QED BY <2>1, OthersUnsold
<1> QED BY <1>3, <1>4, <1>5, <1>6, <1>7 DEF MarketNext

\* By a sale nobody's wealth changes but in the wallet, and by the bid that the
\* market no longer keeps for him: the pool's auctions go on as they were.
LEMMA SaleChange ==
  ASSUME MarketInv, MarketInv', NEW nft \in NFT, NEW buyer \in Account,
         NEW final \in ListingData, DebtShouldExist(nft),
         DeleteListing(nft, final), TransferDebt(nft, buyer)
  PROVE  \A a \in Account :
           /\ weth[a] \in Nat /\ weth'[a] \in Nat /\ HeldBy(a, nft) \in Nat
           /\ TotalWealth(a) \in Nat /\ TotalWealth(a)' \in Nat
           /\ TotalWealth(a)' + HeldBy(a, nft) + weth[a] = TotalWealth(a) + weth'[a]
<1>1. /\ ListingTypeOK /\ ListingsFound /\ ListingBook /\ PoolInv
      /\ ListingTypeOK' /\ ListingsFound' /\ PoolInv'
  BY DEF MarketInv, ListingBook
<1>2. nftToDebtIds[nft] # 0 BY DEF DebtShouldExist
<1>3. /\ OtherListingsKept(nft)
      /\ nftToDebtIds' = [nftToDebtIds EXCEPT ![nft] = 0]
  BY <1>1, <1>2, DeleteBook
<1>4. nftToDebtIds'[nft] = 0 BY <1>1, <1>3 DEF ListingTypeOK
<1>5. \A a : /\ BidsOf(a)' = BidsOf(a) - HeldBy(a, nft) + HeldBy(a, nft)'
             /\ HeldBy(a, nft) \in Nat /\ HeldBy(a, nft)' = 0
  <2>1. nftToDebtIds[nft] \in DebtIds BY <1>1, <1>2, FoundListing
  <2> DEFINE d == nftToDebtIds[nft]
  <2>2. d \in DebtIds /\ nftToDebtIds[nft] = d BY <2>1
  <2> HIDE DEF d
  <2>3. \A a : /\ BidsOf(a)' = BidsOf(a) - HeldBy(a, nft) + HeldBy(a, nft)'
               /\ HeldBy(a, nft) \in Nat
    BY <1>1, <1>3, <1>4, <2>2, BidChange
  <2> QED BY <1>4, <2>3 DEF HeldBy
<1>6. BidPrices' = BidPrices /\ \A a : BestBidsOf(a)' = BestBidsOf(a)
  <2> DEFINE id == nftToLoanIds[nft]
  <2>1. loans' = [loans EXCEPT ![id].borrower = buyer]
    BY DEF TransferDebt, ReMintUNFT
  <2>2. loans \in [LoanIds -> LoanData] BY <1>1 DEF PoolInv, LoanInv, LoanTypeOK
  <2> HIDE DEF id
  <2>3. \A i \in LoanIds : /\ loans'[i].bidPrice = loans[i].bidPrice
                           /\ loans'[i].state = loans[i].state
                           /\ loans'[i].bidderAddress = loans[i].bidderAddress
    BY <2>1, <2>2 DEF LoanData
  <2>4. Auctions' = Auctions BY <2>3 DEF Auctions
  <2> QED BY <2>3, <2>4 DEF BidPrices, BestBidsOf, Auctions
<1>7. \A a \in Account : /\ Wealth(a) \in Nat /\ BidsOf(a) \in Nat
                         /\ TotalWealth(a) = Wealth(a) + BidsOf(a)
  BY TotalParts
<1>8. (MarketInv =>
        \A a \in Account : /\ Wealth(a) \in Nat /\ BidsOf(a) \in Nat
                           /\ TotalWealth(a) = Wealth(a) + BidsOf(a))'
  BY TotalParts, PTL
<1>9. \A a \in Account : /\ Wealth(a)' \in Nat /\ BidsOf(a)' \in Nat
                         /\ TotalWealth(a)' = Wealth(a)' + BidsOf(a)'
  BY <1>8
<1> SUFFICES ASSUME NEW a \in Account
             PROVE  /\ weth[a] \in Nat /\ weth'[a] \in Nat
                    /\ HeldBy(a, nft) \in Nat
                    /\ TotalWealth(a) \in Nat /\ TotalWealth(a)' \in Nat
                    /\ TotalWealth(a)' + HeldBy(a, nft) + weth[a]
                         = TotalWealth(a) + weth'[a]
  OBVIOUS
<1>10. weth[a] \in Nat /\ weth'[a] \in Nat
  BY <1>1, Addresses DEF PoolInv, PoolTypeOK
<1> DEFINE bids == SumOver(BidPrices, BestBidsOf(a))
<1>11. Wealth(a) = weth[a] + bids /\ Wealth(a)' = weth'[a] + bids
  BY <1>6 DEF Wealth
<1>12. bids \in Nat
  BY <1>1, LedgerTypes DEF PoolInv, LoanInv, BestBidsOf, Auctions
<1> HIDE DEF bids
<1>13. BidsOf(a)' + HeldBy(a, nft) = BidsOf(a) /\ HeldBy(a, nft) \in Nat
  <2>1. BidsOf(a)' = BidsOf(a) - HeldBy(a, nft) + 0 BY <1>5
  <2>2. HeldBy(a, nft) \in Nat BY <1>5
  <2>3. BidsOf(a) \in Nat BY <1>7
  <2> QED BY <2>1, <2>2, <2>3
<1> QED BY <1>7, <1>9, <1>10, <1>11, <1>12, <1>13

\* buy: the price goes from the buyer to the borrower.
LEMMA BuyPaysSeller ==
  ASSUME MarketInv, MarketInv', NEW caller \in Account, NEW onBehalfOf \in Account,
         NEW nft \in NFT, Buy(caller, nft, onBehalfOf),
         NEW seller \in Account, seller = loans[nftToLoanIds[nft]].borrower,
         NEW payer \in Account \ {seller}, TotalWealth(payer)' < TotalWealth(payer)
  PROVE  TotalWealth(seller)' > TotalWealth(seller)
<1> DEFINE listing == ListingOf(nft)
           final == [listing EXCEPT !.state = "Sold"]
           price == PriceFor(onBehalfOf, listing.sellPrice)
           refund == ReturnBid(listing)
<1>1. /\ DebtShouldExist(nft) /\ nftToDebtIds[nft] # 0
      /\ TransferDebt(nft, onBehalfOf) /\ nftToLoanIds[nft] # 0
      /\ DeleteListing(nft, final)
      /\ Transfers(<<Transfer(caller, seller, price)>> \o refund)
  BY DEF Buy, BuyTransfers, DebtShouldExist, TransferDebt
<1>2. PoolInv /\ ListingBook /\ LoanInv BY DEF MarketInv, PoolInv
<1>3. /\ final \in ListingData /\ listing.sellPrice \in Nat
      /\ price \in Nat
  <2>1. final \in ListingData BY <1>1, <1>2, SoldListing
  <2>2. listing.sellPrice \in Nat
    <3>1. listing \in ListingData BY <1>1, <1>2, FoundListing DEF ListingBook
    <3> QED BY <3>1 DEF ListingData
  <2> QED BY <1>1, <1>2, <2>1, <2>2, FoundLoan, PriceNat
<1>4. \A a \in Account : Got(a, refund) = HeldBy(a, nft)
  BY <1>1, <1>2, BidReturned
<1> HIDE DEF price, final
<1>5. \A a \in Account :
        weth'[a] = weth[a] + Flow(a, caller, seller, price) + Got(a, refund)
  BY <1>1, <1>3, PayAndReturn
<1>6. \A a \in Account :
        /\ weth[a] \in Nat /\ weth'[a] \in Nat /\ HeldBy(a, nft) \in Nat
        /\ TotalWealth(a) \in Nat /\ TotalWealth(a)' \in Nat
        /\ TotalWealth(a)' + HeldBy(a, nft) + weth[a] = TotalWealth(a) + weth'[a]
  BY <1>1, <1>3, SaleChange
<1> HIDE DEF refund
<1>7. \A a \in Account :
        /\ TotalWealth(a) \in Nat /\ TotalWealth(a)' \in Nat
        /\ TotalWealth(a)' = TotalWealth(a) + Flow(a, caller, seller, price)
  <2> TAKE a \in Account
  <2>1. Flow(a, caller, seller, price) \in Int BY <1>3 DEF Flow
  <2>2. weth'[a] = weth[a] + Flow(a, caller, seller, price) + HeldBy(a, nft)
    BY <1>4, <1>5
  <2>3. /\ weth[a] \in Nat /\ weth'[a] \in Nat /\ HeldBy(a, nft) \in Nat
        /\ TotalWealth(a) \in Nat /\ TotalWealth(a)' \in Nat
        /\ TotalWealth(a)' + HeldBy(a, nft) + weth[a] = TotalWealth(a) + weth'[a]
    BY <1>6
  <2> DEFINE flow == Flow(a, caller, seller, price)
             held == HeldBy(a, nft)
             had == weth[a]
  <2>4. TotalWealth(a)' + held + had = TotalWealth(a) + (had + flow + held) BY <2>2, <2>3
  <2>5. flow \in Int /\ held \in Nat /\ had \in Nat BY <2>1, <2>3
  <2> HIDE DEF flow, held, had
  <2>6. TotalWealth(a)' = TotalWealth(a) + flow BY <2>3, <2>4, <2>5
  <2> QED BY <2>3, <2>6 DEF flow
<1>8. payer # seller OBVIOUS
<1>9. caller = payer /\ price > 0
  <2>1. /\ TotalWealth(payer) \in Nat
        /\ TotalWealth(payer)' = TotalWealth(payer) + Flow(payer, caller, seller, price)
    BY <1>7
  <2>2. Flow(payer, caller, seller, price) = 0 - (IF payer = caller THEN price ELSE 0)
    BY <1>3, <1>8 DEF Flow
  <2> QED BY <1>3, <2>1, <2>2
<1>10. Flow(seller, caller, seller, price) = price
  BY <1>3, <1>8, <1>9 DEF Flow
<1>11. TotalWealth(seller)' > TotalWealth(seller)
  <2>1. /\ TotalWealth(seller) \in Nat /\ TotalWealth(seller)' \in Nat
        /\ TotalWealth(seller)' = TotalWealth(seller) + price
    BY <1>3, <1>7, <1>10
  <2> QED BY <1>3, <1>9, <2>1
<1> QED BY <1>11

\* claim: the best bid, which the market has, goes to the debtor.
LEMMA ClaimPaysDebtor ==
  ASSUME MarketInv, MarketInv', NEW nft \in NFT, Claim(nft),
         NEW to \in Account, to = ListingOf(nft).debtor,
         NEW payer \in Account \ {to}, TotalWealth(payer)' < TotalWealth(payer)
  PROVE  TotalWealth(to)' > TotalWealth(to)
<1> DEFINE bidder == ListingOf(nft).bidderAddress
           final == [ListingOf(nft) EXCEPT !.state = "Sold"]
           price == ListingOf(nft).bidPrice
           s == <<Transfer(DebtMarketAddr, to, price)>>
<1>1. /\ DebtShouldExist(nft) /\ nftToDebtIds[nft] # 0
      /\ bidder # NullAddress /\ TransferDebt(nft, bidder)
      /\ DeleteListing(nft, final) /\ Transfers(s)
  BY DEF Claim, DebtShouldExist
<1>2. PoolInv /\ ListingBook /\ weth \in Balances
  BY DEF MarketInv, PoolInv, PoolTypeOK, Balances
<1>3. bidder \in Account /\ price \in Nat
  BY <1>1, <1>2, FoundListing DEF ListingBook
<1>4. final \in ListingData BY <1>1, <1>2, SoldListing
<1>5. \A a \in Account : HeldBy(a, nft) = IF a = bidder THEN price ELSE 0
  BY <1>1 DEF HeldBy
<1>6. /\ to \in Holder /\ to # DebtMarketAddr
      /\ DebtMarketAddr \in Holder
  BY <1>3, Addresses, MarketAddress
<1>7. s \in Seq(TransferType) BY <1>3, <1>6, TransferSeq
<1>8. PICK c \in Balances : weth' = c /\ Pays(weth, s, c)
  BY <1>1, <1>2, <1>7, TransfersPay
<1>9. Paid(weth, DebtMarketAddr, to, price, c) BY <1>8 DEF Paid
<1> HIDE DEF s, price, bidder, final
<1>10. \A h \in Holder : c[h] = weth[h] + Flow(h, DebtMarketAddr, to, price)
  BY <1>3, <1>6, <1>9, PayFlow
<1>11. \A a \in Account :
         weth'[a] = weth[a] + (IF a = to THEN price ELSE 0)
  <2> TAKE a \in Account
  <2>1. a \in Holder /\ a # DebtMarketAddr BY Addresses, MarketAddress
  <2>2. Flow(a, DebtMarketAddr, to, price) = IF a = to THEN price ELSE 0
    BY <1>3, <2>1 DEF Flow
  <2> QED BY <1>8, <1>10, <2>1, <2>2
<1>12. \A a \in Account :
         /\ weth[a] \in Nat /\ weth'[a] \in Nat /\ HeldBy(a, nft) \in Nat
         /\ TotalWealth(a) \in Nat /\ TotalWealth(a)' \in Nat
         /\ TotalWealth(a)' + HeldBy(a, nft) + weth[a] = TotalWealth(a) + weth'[a]
  BY <1>1, <1>3, <1>4, SaleChange
<1>13. \A a \in Account :
         /\ TotalWealth(a) \in Nat /\ TotalWealth(a)' \in Nat
         /\ TotalWealth(a)' + (IF a = bidder THEN price ELSE 0)
              = TotalWealth(a) + (IF a = to THEN price ELSE 0)
  <2> TAKE a \in Account
  <2> DEFINE k == IF a = bidder THEN price ELSE 0
             l == IF a = to THEN price ELSE 0
  <2>1. k \in Nat /\ l \in Nat BY <1>3
  <2>2. HeldBy(a, nft) = k /\ weth'[a] = weth[a] + l BY <1>5, <1>11
  <2>3. /\ weth[a] \in Nat /\ TotalWealth(a) \in Nat /\ TotalWealth(a)' \in Nat
        /\ TotalWealth(a)' + HeldBy(a, nft) + weth[a] = TotalWealth(a) + weth'[a]
    BY <1>12
  <2> HIDE DEF k, l
  <2>4. TotalWealth(a)' + k = TotalWealth(a) + l BY <2>1, <2>2, <2>3
  <2> QED BY <2>3, <2>4 DEF k, l
<1>14. payer # to OBVIOUS
<1>15. payer = bidder /\ price > 0
  BY <1>3, <1>13, <1>14
<1>16. TotalWealth(to)' > TotalWealth(to)
  <2>1. /\ TotalWealth(to) \in Nat /\ TotalWealth(to)' \in Nat
        /\ TotalWealth(to)' + 0 = TotalWealth(to) + price
    BY <1>3, <1>13, <1>14, <1>15
  <2> QED BY <1>3, <1>15, <2>1
<1> QED BY <1>16

\* A borrower who sells his debt for himself is paid by every sale but one: buy
\* pays him the price and claim the best bid, and where nobody else pays he is
\* the buyer himself, or asked nothing.  The one is a bid that meets the sell
\* price, which stays in the market.
THEOREM BuyAndClaimPaySellers ==
  MarketSpec =>
    [][\A nft \in NFT, seller \in Account :
         /\ SoldFor(seller, nft)
         /\ seller = ListingOf(nft).debtor
         /\ seller = loans[nftToLoanIds[nft]].borrower
         /\ ~SaleByBid(nft)
         => TotalWealth(seller)' > TotalWealth(seller)]_dealVars
<1> DEFINE Paying ==
      \A nft \in NFT, seller \in Account :
        /\ SoldFor(seller, nft)
        /\ seller = ListingOf(nft).debtor
        /\ seller = loans[nftToLoanIds[nft]].borrower
        /\ ~SaleByBid(nft)
        => TotalWealth(seller)' > TotalWealth(seller)
<1>1. ASSUME MarketInv, [MarketNext]_dealVars,
             NEW nft \in NFT, NEW seller \in Account, SoldFor(seller, nft),
             seller = ListingOf(nft).debtor,
             seller = loans[nftToLoanIds[nft]].borrower, ~SaleByBid(nft)
      PROVE  TotalWealth(seller)' > TotalWealth(seller)
  <2>1. MarketInv' BY <1>1, MarketNextKeeps
  <2>2. ~StaysUnsold(nft) BY <1>1 DEF SoldFor, StaysUnsold
  <2>3. Sale(nft) BY <1>1, <2>2, OnlySalesSell
  <2>4. PICK payer \in Account \ {seller} : TotalWealth(payer)' < TotalWealth(payer)
    BY <1>1 DEF SoldFor
  <2>5. ASSUME NEW caller \in Account, NEW onBehalfOf \in Account,
               Buy(caller, nft, onBehalfOf)
        PROVE  TotalWealth(seller)' > TotalWealth(seller)
    BY <1>1, <2>1, <2>4, <2>5, BuyPaysSeller
  <2>6. Claim(nft) => TotalWealth(seller)' > TotalWealth(seller)
    BY <1>1, <2>1, <2>4, ClaimPaysDebtor
  <2> QED BY <1>1, <2>3, <2>5, <2>6 DEF Sale
<1>2. MarketInv /\ [MarketNext]_dealVars => Paying BY <1>1
<1> HIDE DEF Paying
<1>3. MarketInv /\ [MarketNext]_dealVars => [Paying]_dealVars BY <1>2
<1>4. MarketSpec => [][Paying]_dealVars BY <1>3, MarketInvariant, PTL DEF MarketSpec
<1> QED BY <1>4 DEF Paying

\* Terms that are either those of an auction or a fixed price, not both.
NoMixedTerms ==
  \A t \in Terms :
    t.sellPrice = 0 \/ t.startBiddingPrice = 0 \/ t.auctionEndTimestamp = 0

NoMixedListing == \A d \in DebtIds : marketListings[d].sellType # "Mixed"

\* A listing is written anew, or stays of its type.
LEMMA UnmixedKept ==
  ASSUME MarketInv, NoMixedListing, NEW nft \in NFT, nftToDebtIds[nft] # 0,
         NEW final, final.sellType = ListingOf(nft).sellType,
         marketListings' = [marketListings EXCEPT ![nftToDebtIds[nft]] = final]
  PROVE  NoMixedListing'
<1>1. nftToDebtIds[nft] \in DebtIds /\ ListingOf(nft) = marketListings[nftToDebtIds[nft]]
  BY FoundListing DEF MarketInv, ListingBook
<1>2. marketListings \in [DebtIds -> ListingData]
  BY DEF MarketInv, ListingBook, ListingTypeOK
<1> QED BY <1>1, <1>2 DEF NoMixedListing

\* Without mixed terms there are no mixed listings.
LEMMA UnmixedStep ==
  ASSUME NoMixedTerms, MarketInv, NoMixedListing, [MarketNext]_dealVars
  PROVE  NoMixedListing'
<1>1. ListingBook /\ PoolInv BY DEF MarketInv
<1>2. marketListings' = marketListings => NoMixedListing' BY DEF NoMixedListing
<1>3. ASSUME NEW n \in NFT, DebtShouldExist(n)
      PROVE  /\ nftToDebtIds[n] # 0 /\ ListingOf(n) \in ListingData
             /\ [ListingOf(n) EXCEPT !.state = "Sold"].sellType
                  = ListingOf(n).sellType
             /\ [ListingOf(n) EXCEPT !.state = "Canceled"].sellType
                  = ListingOf(n).sellType
  <2>1. nftToDebtIds[n] # 0 BY <1>3 DEF DebtShouldExist
  <2>2. ListingOf(n) \in ListingData BY <1>1, <2>1, FoundListing DEF ListingBook
  <2> DEFINE old == ListingOf(n)
  <2>3. old \in ListingData BY <2>2
  <2> HIDE DEF old
  <2>4. /\ [old EXCEPT !.state = "Sold"].sellType = old.sellType
        /\ [old EXCEPT !.state = "Canceled"].sellType = old.sellType
    BY <2>3 DEF ListingData
  <2> QED BY <2>1, <2>2, <2>4 DEF old
<1>4. ASSUME NEW n \in NFT, CancelListing(n) PROVE NoMixedListing'
  <2>1. /\ DebtShouldExist(n)
        /\ DeleteListing(n, [ListingOf(n) EXCEPT !.state = "Canceled"])
    BY <1>4 DEF CancelListing
  <2> QED BY <1>3, <2>1, UnmixedKept DEF DeleteListing
<1>5. ASSUME NEW n \in NFT, DebtShouldExist(n),
             DeleteListing(n, [ListingOf(n) EXCEPT !.state = "Sold"])
      PROVE  NoMixedListing'
  BY <1>3, <1>5, UnmixedKept DEF DeleteListing
<1>6. ASSUME NEW n \in NFT, NEW caller \in Account, NEW terms \in Terms,
             NEW debtor \in Account, CreateDebtListing(caller, n, terms, debtor)
      PROVE  NoMixedListing'
  <2> DEFINE d == debtIdTracker + 1
             isValidAuctionType == terms.startBiddingPrice # 0
                                     /\ terms.auctionEndTimestamp # 0
             type == IF ~isValidAuctionType THEN "FixedPrice"
                     ELSE IF terms.sellPrice # 0 THEN "Mixed" ELSE "Auction"
             listing == [NoListing EXCEPT
               !.nft = n, !.debtor = debtor, !.sellPrice = terms.sellPrice,
               !.scaledAmount = loans[nftToLoanIds[n]].scaledAmount,
               !.auctionEndTimestamp = terms.auctionEndTimestamp,
               !.startBiddingPrice = terms.startBiddingPrice,
               !.sellType = type]
  <2>1. marketListings' = [marketListings EXCEPT ![d] = listing]
    BY <1>6 DEF CreateDebtListing
  <2>2. type # "Mixed" BY DEF NoMixedTerms
  <2> HIDE DEF type
  <2>3. listing.sellType = type BY DEF NoListing
  <2>4. marketListings \in [DebtIds -> ListingData]
    BY <1>1 DEF ListingBook, ListingTypeOK
  <2> HIDE DEF listing, d
  <2> QED BY <2>1, <2>2, <2>3, <2>4 DEF NoMixedListing
<1>7. CASE SellerStep
  <2>1. PICK caller \in Account, n \in NFT :
          \/ \E terms \in Terms, debtor \in Account :
               CreateDebtListing(caller, n, terms, debtor)
          \/ CancelDebtListing(caller, n)
    BY <1>7 DEF SellerStep
  <2> QED BY <1>4, <1>6, <2>1 DEF CancelDebtListing
<1>8. CASE BuyerStep
  <2>1. PICK caller \in Account, onBehalfOf \in Account, n \in NFT :
          \/ Buy(caller, n, onBehalfOf)
          \/ \E bid \in Bids : \/ BidDebt(caller, n, onBehalfOf, bid)
                               \/ BidSellPrice(caller, n, onBehalfOf, bid)
    BY <1>8 DEF BuyerStep
  <2>2. Buy(caller, n, onBehalfOf) => NoMixedListing' BY <1>5 DEF Buy
  <2>3. ASSUME NEW bid \in Bids, BidSellPrice(caller, n, onBehalfOf, bid)
        PROVE  FALSE
    <3>1. DebtShouldExist(n) /\ ListingOf(n).sellType = "Mixed"
      BY <2>3 DEF BidSellPrice, MayBidDebt, MeetsSellPrice
    <3>2. nftToDebtIds[n] \in DebtIds
      BY <1>1, <3>1, FoundListing DEF DebtShouldExist, ListingBook
    <3> QED BY <3>1, <3>2 DEF NoMixedListing, ListingOf
  <2>4. ASSUME NEW bid \in Bids, BidDebt(caller, n, onBehalfOf, bid)
        PROVE  NoMixedListing'
    <3>1. DebtShouldExist(n) BY <2>4 DEF BidDebt, MayBidDebt
    <3> DEFINE d == nftToDebtIds[n]
               old == ListingOf(n)
               final == [old EXCEPT !.state = "Active",
                           !.bidderAddress = onBehalfOf, !.bidPrice = bid]
    <3>2. d \in DebtIds /\ old \in ListingData /\ marketListings[d] = old
      BY <1>1, <3>1, FoundListing DEF ListingBook, DebtShouldExist
    <3>3. marketListings' = [marketListings EXCEPT ![d] = final]
      BY <1>1, <2>4, <3>2 DEF BidDebt, ListingBook, ListingTypeOK
    <3>4. final.sellType = old.sellType
      <4> HIDE DEF old
      <4> QED BY <3>2 DEF ListingData
    <3> HIDE DEF final
    <3> QED BY <1>3, <3>1, <3>3, <3>4, UnmixedKept
  <2> QED BY <2>1, <2>2, <2>3, <2>4
<1>9. CASE ClaimStep BY <1>5, <1>9 DEF ClaimStep, Claim
<1>10. CASE PoolUserStep
  <2>1. PICK n \in NFT : CancelIfListed(n) \/ ListingsStay
    BY <1>10 DEF PoolUserStep, PoolBorrow, PoolAuction, PoolBuyout, PoolRepay,
                 PoolLiquidate, PoolRedeem
  <2> QED BY <1>2, <1>4, <2>1 DEF CancelIfListed, ListingsStay, listingVars
<1>11. CASE OtherPoolStep \/ Settings \/ UNCHANGED dealVars
  <2>1. marketListings' = marketListings
    BY <1>11 DEF OtherPoolStep, ListingsStay, Settings, SetMarketPause,
                 SetAuthorizedPool, SetDeltaBidPercent, dealVars, listingVars
  <2> QED BY <1>2, <2>1
<1> QED BY <1>7, <1>8, <1>9, <1>10, <1>11 DEF MarketNext

\* Where no listing is both an auction and at a fixed price, every borrower who
\* sells his debt for himself is paid when it is sold: the third way to sell is
\* then never open.
THEOREM SellersPaidWithoutMixedTerms ==
  ASSUME NoMixedTerms
  PROVE  MarketSpec => SellersArePaid
<1>1. MarketInit => NoMixedListing
  BY DEF MarketInit, NoMixedListing, NoListing
<1>2. MarketInv /\ NoMixedListing /\ [MarketNext]_dealVars => NoMixedListing'
  BY UnmixedStep
<1>3. MarketSpec => []NoMixedListing
  BY <1>1, <1>2, MarketInvariant, PTL DEF MarketSpec
<1> DEFINE NotByBid == \A nft \in NFT : ~SaleByBid(nft)
           Paying ==
             \A nft \in NFT, seller \in Account :
               /\ SoldFor(seller, nft)
               /\ seller = ListingOf(nft).debtor
               /\ seller = loans[nftToLoanIds[nft]].borrower
               => TotalWealth(seller)' > TotalWealth(seller)
           PayingUnlessByBid ==
             \A nft \in NFT, seller \in Account :
               /\ SoldFor(seller, nft)
               /\ seller = ListingOf(nft).debtor
               /\ seller = loans[nftToLoanIds[nft]].borrower
               /\ ~SaleByBid(nft)
               => TotalWealth(seller)' > TotalWealth(seller)
<1>4. ASSUME MarketInv, NoMixedListing, NEW nft \in NFT, SaleByBid(nft)
      PROVE  FALSE
  <2>1. DebtShouldExist(nft) /\ ListingOf(nft).sellType = "Mixed"
    BY <1>4 DEF SaleByBid, BidSellPrice, MayBidDebt, MeetsSellPrice
  <2>2. nftToDebtIds[nft] \in DebtIds
    BY <1>4, <2>1, FoundListing DEF DebtShouldExist, MarketInv, ListingBook
  <2> QED BY <1>4, <2>1, <2>2 DEF NoMixedListing, ListingOf
<1>5. MarketInv /\ NoMixedListing => NotByBid BY <1>4
<1>6. NotByBid /\ PayingUnlessByBid => Paying OBVIOUS
<1>7. MarketSpec => [][PayingUnlessByBid]_dealVars BY BuyAndClaimPaySellers
<1> HIDE DEF NotByBid, Paying, PayingUnlessByBid
<1>8. MarketInv /\ NoMixedListing /\ [PayingUnlessByBid]_dealVars => [Paying]_dealVars
  BY <1>5, <1>6
<1>9. MarketSpec => [][Paying]_dealVars
  BY <1>3, <1>7, <1>8, MarketInvariant, PTL
<1> QED BY <1>9 DEF Paying, SellersArePaid

=============================================================================
