--------------------------- MODULE LendPoolProofs ---------------------------
(***************************************************************************)
(* Proofs about the lending pool.                                          *)
(***************************************************************************)
EXTENDS LendPool, LendPoolLoanProofs, UnlockdMathProofs, SequenceTheorems

-----------------------------------------------------------------------------
(* Transfers of WETH.                                                      *)

TransferType == [from : Holder, to : Holder, amount : Nat]

Balances == [Holder -> Nat]

\* The balances after the transfers s, one by one, each of which has what it
\* needs.
Pays(before, s, after) ==
  \E b \in [0 .. Len(s) -> Balances] :
    /\ b[0] = before
    /\ b[Len(s)] = after
    /\ \A k \in 1 .. Len(s) : /\ b[k - 1][s[k].from] >= s[k].amount
                              /\ b[k] = Moved(b[k - 1], s[k])

\* A transfer that is covered keeps the balances natural numbers.
LEMMA MovedType ==
  ASSUME NEW b \in Balances, NEW t \in TransferType, b[t.from] >= t.amount
  PROVE  Moved(b, t) \in Balances
<1>1. t.from \in Holder /\ t.to \in Holder /\ t.amount \in Nat
  BY DEF TransferType
<1> DEFINE c == [b EXCEPT ![t.from] = @ - t.amount]
<1>2. c \in Balances BY <1>1 DEF Balances
<1> HIDE DEF c
<1>3. [c EXCEPT ![t.to] = @ + t.amount] \in Balances BY <1>1, <1>2 DEF Balances
<1> QED BY <1>3 DEF Moved, c

\* The recursion of BalancesAfter defines the balances it describes.
LEMMA BalancesAfterDef ==
  ASSUME NEW s, Len(s) \in Nat
  PROVE  BalancesAfter(s) =
           [k \in 0 .. Len(s) |-> IF k = 0 THEN weth
                                  ELSE Moved(BalancesAfter(s)[k - 1], s[k])]
<1> DEFINE Unfolds(f, n) ==
             f = [k \in 0 .. n |-> IF k = 0 THEN weth ELSE Moved(f[k - 1], s[k])]
           Bad == {n \in Nat : \A f : ~Unfolds(f, n)}
<1>1. ASSUME Bad # {} PROVE FALSE
  <2>1. PICK n \in Bad : \A m \in Bad : ~(<<m, n>> \in OpToRel(<, Nat))
    <3>1. Bad \subseteq Nat OBVIOUS
    <3> HIDE DEF Bad
    <3> QED BY <1>1, <3>1, NatLessThanWellFounded, WFMin, Zenon
  <2>2. n \in Nat OBVIOUS
  <2>3. \A m \in Nat : m < n => m \notin Bad
    BY <2>1, <2>2 DEF OpToRel
  <2>4. CASE n = 0
    <3> DEFINE f == [k \in 0 .. 0 |-> weth]
    <3>1. Unfolds(f, 0) OBVIOUS
    <3> QED BY <2>4, <3>1
  <2>5. CASE n # 0
    <3>1. n - 1 \in Nat /\ n - 1 < n BY <2>2, <2>5
    <3>2. PICK g : Unfolds(g, n - 1) BY <2>3, <3>1
    <3> DEFINE f == [k \in 0 .. n |-> IF k = n THEN Moved(g[n - 1], s[n]) ELSE g[k]]
    <3>3. \A k \in 0 .. n - 1 : g[k] = IF k = 0 THEN weth ELSE Moved(g[k - 1], s[k])
      BY <3>1, <3>2
    <3>4. ASSUME NEW k \in 0 .. n
          PROVE  f[k] = IF k = 0 THEN weth ELSE Moved(f[k - 1], s[k])
      <4>1. CASE k = n
        <5>1. f[n - 1] = g[n - 1] /\ f[n] = Moved(g[n - 1], s[n])
          BY <2>2, <3>1
        <5> QED BY <4>1, <5>1, <2>5
      <4>2. CASE k # n
        <5>1. k \in 0 .. n - 1 /\ f[k] = g[k] BY <4>2, <2>2
        <5>2. k # 0 => f[k - 1] = g[k - 1] BY <4>2, <2>2
        <5> HIDE DEF f
        <5> QED BY <5>1, <5>2, <3>3
      <4> QED BY <4>1, <4>2
    <3>5. Unfolds(f, n)
      <4>1. f = [k \in 0 .. n |-> f[k]] OBVIOUS
      <4> HIDE DEF f
      <4> QED BY <4>1, <3>4
    <3> QED BY <3>5
  <2> QED BY <2>4, <2>5
<1>2. \E f : Unfolds(f, Len(s)) BY <1>1
<1>3. BalancesAfter(s) = CHOOSE f : Unfolds(f, Len(s)) BY DEF BalancesAfter
<1> QED BY <1>2, <1>3

\* Transfers, as the balances after each of them.
LEMMA TransfersPay ==
  ASSUME weth \in Balances, NEW s \in Seq(TransferType), Transfers(s)
  PROVE  \E balances \in Balances :
           weth' = balances /\ Pays(weth, s, balances)
<1> DEFINE after == BalancesAfter(s)
           Bad == {k \in 0 .. Len(s) : after[k] \notin Balances}
<1>1. Len(s) \in Nat /\ \A k \in 1 .. Len(s) : s[k] \in TransferType
  OBVIOUS
<1>2. /\ after = [k \in 0 .. Len(s) |-> IF k = 0 THEN weth
                                        ELSE Moved(after[k - 1], s[k])]
      /\ \A k \in 1 .. Len(s) : after[k - 1][s[k].from] >= s[k].amount
      /\ weth' = after[Len(s)]
  BY <1>1, BalancesAfterDef DEF Transfers
<1> HIDE DEF after
<1>3. /\ after[0] = weth
      /\ \A k \in 1 .. Len(s) : after[k] = Moved(after[k - 1], s[k])
  <2>1. \A k \in 0 .. Len(s) :
          after[k] = IF k = 0 THEN weth ELSE Moved(after[k - 1], s[k])
    BY <1>2
  <2> QED BY <2>1, <1>1
<1>4. ASSUME Bad # {} PROVE FALSE
  <2>1. PICK n \in Bad : \A m \in Bad : ~(<<m, n>> \in OpToRel(<, Nat))
    <3>1. Bad \subseteq Nat BY <1>1
    <3> HIDE DEF Bad
    <3> QED BY <1>4, <3>1, NatLessThanWellFounded, WFMin, Zenon
  <2>2. n \in Nat /\ n \in 0 .. Len(s) /\ after[n] \notin Balances BY <1>1
  <2>3. n # 0 BY <2>2, <1>3
  <2>4. n - 1 \in Nat /\ n - 1 \in 0 .. Len(s) /\ n - 1 < n /\ n \in 1 .. Len(s)
    BY <2>2, <2>3, <1>1
  <2>5. after[n - 1] \in Balances
    <3>1. <<n - 1, n>> \in OpToRel(<, Nat) BY <2>2, <2>4 DEF OpToRel
    <3> QED BY <3>1, <2>1, <2>4
  <2>6. after[n] \in Balances
    BY <1>1, <1>2, <1>3, <2>4, <2>5, MovedType
  <2> QED BY <2>2, <2>6
<1>5. after \in [0 .. Len(s) -> Balances] BY <1>2, <1>4
<1>6. Pays(weth, s, after[Len(s)]) BY <1>3, <1>2, <1>5 DEF Pays
<1>7. after[Len(s)] \in Balances BY <1>1, <1>5
<1> QED BY <1>2, <1>6, <1>7

\* Without transfers nothing moves.
LEMMA PayNothing ==
  ASSUME NEW b, NEW c, Pays(b, <<>>, c)
  PROVE  c = b
BY DEF Pays

\* One transfer needs its amount.
LEMMA PayOne ==
  ASSUME NEW b, NEW c, NEW t \in TransferType, Pays(b, <<t>>, c)
  PROVE  /\ b \in Balances /\ c \in Balances
         /\ b[t.from] >= t.amount
         /\ c = Moved(b, t)
BY DEF Pays

\* A sequence of transfers can be cut anywhere.
LEMMA PayParts ==
  ASSUME NEW s \in Seq(TransferType), NEW t \in Seq(TransferType),
         NEW b, NEW c, Pays(b, s \o t, c)
  PROVE  \E m \in Balances : Pays(b, s, m) /\ Pays(m, t, c)
<1> DEFINE n == Len(s)
           l == Len(t)
<1>1. n \in Nat /\ l \in Nat /\ Len(s \o t) = n + l OBVIOUS
<1>2. PICK f \in [0 .. n + l -> Balances] :
        /\ f[0] = b /\ f[n + l] = c
        /\ \A k \in 1 .. n + l : /\ f[k - 1][(s \o t)[k].from] >= (s \o t)[k].amount
                                 /\ f[k] = Moved(f[k - 1], (s \o t)[k])
  BY <1>1 DEF Pays
<1>3. /\ \A k \in 1 .. n : (s \o t)[k] = s[k]
      /\ \A k \in 1 .. l : (s \o t)[n + k] = t[k]
  OBVIOUS
<1> HIDE DEF n, l
<1> DEFINE g == [k \in 0 .. n |-> f[k]]
           h == [k \in 0 .. l |-> f[n + k]]
<1>4. Pays(b, s, f[n])
  <2>1. g \in [0 .. n -> Balances] BY <1>1, <1>2
  <2>2. g[0] = b /\ g[n] = f[n] BY <1>1, <1>2
  <2>3. \A k \in 1 .. n : g[k - 1][s[k].from] >= s[k].amount
                            /\ g[k] = Moved(g[k - 1], s[k])
    <3> TAKE k \in 1 .. n
    <3>1. k \in 1 .. n + l /\ k \in 0 .. n /\ k - 1 \in 0 .. n BY <1>1
    <3>2. g[k - 1] = f[k - 1] /\ g[k] = f[k] BY <3>1
    <3> HIDE DEF g
    <3> QED BY <3>1, <3>2, <1>2, <1>3
  <2> HIDE DEF g
  <2> QED BY <2>1, <2>2, <2>3 DEF Pays, n
<1>5. Pays(f[n], t, c)
  <2>1. h \in [0 .. l -> Balances] BY <1>1, <1>2
  <2>2. h[0] = f[n] /\ h[l] = c BY <1>1, <1>2
  <2>3. \A k \in 1 .. l : h[k - 1][t[k].from] >= t[k].amount
                            /\ h[k] = Moved(h[k - 1], t[k])
    <3> TAKE k \in 1 .. l
    <3>1. n + k \in 1 .. n + l /\ k \in 0 .. l /\ k - 1 \in 0 .. l
          /\ (n + k) - 1 = n + (k - 1)
      BY <1>1
    <3>2. h[k - 1] = f[(n + k) - 1] /\ h[k] = f[n + k] BY <3>1
    <3>3. /\ f[(n + k) - 1][(s \o t)[n + k].from] >= (s \o t)[n + k].amount
          /\ f[n + k] = Moved(f[(n + k) - 1], (s \o t)[n + k])
      BY <3>1, <1>2
    <3>4. (s \o t)[n + k] = t[k] BY <1>3
    <3> HIDE DEF h
    <3> QED BY <3>2, <3>3, <3>4
  <2> HIDE DEF h
  <2> QED BY <2>1, <2>2, <2>3 DEF Pays, l
<1>6. f[n] \in Balances BY <1>1, <1>2
<1> QED BY <1>4, <1>5, <1>6

\* What a holder gains by a transfer.
Flow(h, from, to, amount) ==
  (IF h = to THEN amount ELSE 0) - (IF h = from THEN amount ELSE 0)

Paid(b, from, to, amount, c) == Pays(b, <<Transfer(from, to, amount)>>, c)

\* The balances after one transfer, holder by holder.
LEMMA PayFlow ==
  ASSUME NEW b, NEW c, NEW from, NEW to, NEW amount,
         from \in Holder, to \in Holder, amount \in Nat,
         Paid(b, from, to, amount, c)
  PROVE  /\ b \in Balances /\ c \in Balances /\ b[from] >= amount
         /\ \A h \in Holder : c[h] = b[h] + Flow(h, from, to, amount)
<1> DEFINE t == Transfer(from, to, amount)
<1>1. /\ t \in TransferType
      /\ t.from = from /\ t.to = to /\ t.amount = amount
  BY DEF Transfer, TransferType
<1>2. Pays(b, <<t>>, c) BY DEF Paid
<1> HIDE DEF t
<1>3. b \in Balances /\ c \in Balances /\ b[from] >= amount /\ c = Moved(b, t)
  BY <1>1, <1>2, PayOne
<1>4. c = [[b EXCEPT ![from] = b[from] - amount]
             EXCEPT ![to] = [b EXCEPT ![from] = b[from] - amount][to] + amount]
  BY <1>1, <1>3 DEF Moved
<1>5. \A h \in Holder : b[h] \in Nat BY <1>3 DEF Balances
<1> QED BY <1>3, <1>4, <1>5 DEF Flow, Balances

\* ... after a transfer that is left out when its amount is 0.
LEMMA PayAnyFlow ==
  ASSUME NEW b, NEW c, NEW from, NEW to, NEW amount,
         b \in Balances, amount \in Nat,
         amount # 0 => from \in Holder /\ to \in Holder,
         Pays(b, TransferAny(from, to, amount), c)
  PROVE  /\ c \in Balances
         /\ \A h \in Holder : c[h] = b[h] + Flow(h, from, to, amount)
<1>1. CASE amount = 0
  <2>1. c = b BY <1>1, PayNothing DEF TransferAny
  <2>2. \A h \in Holder : b[h] \in Nat BY DEF Balances
  <2> QED BY <1>1, <2>1, <2>2 DEF Flow
<1>2. CASE amount # 0
  <2>1. Paid(b, from, to, amount, c) BY <1>2 DEF TransferAny, Paid
  <2> QED BY <1>2, <2>1, PayFlow
<1> QED BY <1>1, <1>2

\* The shapes of the transfers are right.
LEMMA TransferSeq ==
  ASSUME NEW from \in Holder, NEW to \in Holder, NEW amount \in Nat
  PROVE  <<Transfer(from, to, amount)>> \in Seq(TransferType)
<1>1. Transfer(from, to, amount) \in TransferType BY DEF Transfer, TransferType
<1> HIDE DEF Transfer
<1> QED BY <1>1

LEMMA TransferAnySeq ==
  ASSUME NEW from, NEW to, NEW amount, amount \in Nat,
         amount # 0 => from \in Holder /\ to \in Holder
  PROVE  TransferAny(from, to, amount) \in Seq(TransferType)
BY TransferSeq DEF TransferAny

\* The best bid of a loan goes back to its bidder; without a bidder the price
\* is 0 and nothing moves.
LEMMA RefundBidSeq ==
  ASSUME NEW loan \in LoanData, AuctionFieldsAgree(loan)
  PROVE  /\ RefundBid(loan) \in Seq(TransferType)
         /\ loan.bidPrice \in Nat
         /\ loan.bidPrice # 0 => loan.bidderAddress \in Account
         /\ loan.bidderAddress = NullAddress => loan.bidPrice = 0
<1>1. /\ loan.bidPrice \in Nat
      /\ loan.bidderAddress \in Account \/ loan.bidderAddress = NullAddress
      /\ loan.bidderAddress = NullAddress => loan.bidPrice = 0
  BY LoanAssumption DEF LoanData, AuctionFieldsAgree
<1>2. LendPoolAddr \in Holder /\ Account \subseteq Holder BY PoolAssumption
<1> QED BY <1>1, <1>2, TransferSeq DEF RefundBid

LEMMA RefundBidFlow ==
  ASSUME NEW loan \in LoanData, AuctionFieldsAgree(loan),
         NEW b \in Balances, NEW c, Pays(b, RefundBid(loan), c)
  PROVE  /\ c \in Balances
         /\ \A h \in Holder :
              c[h] = b[h] + Flow(h, LendPoolAddr, loan.bidderAddress,
                                 loan.bidPrice)
<1>1. /\ loan.bidPrice \in Nat
      /\ loan.bidderAddress \in Account \/ loan.bidderAddress = NullAddress
      /\ loan.bidderAddress = NullAddress => loan.bidPrice = 0
  BY LoanAssumption DEF LoanData, AuctionFieldsAgree
<1>2. LendPoolAddr \in Holder /\ Account \subseteq Holder BY PoolAssumption
<1>3. CASE loan.bidderAddress = NullAddress
  <2>1. c = b BY <1>3, PayNothing DEF RefundBid
  <2>2. \A h \in Holder : b[h] \in Nat BY DEF Balances
  <2> QED BY <2>1, <2>2, <1>1, <1>3 DEF Flow
<1>4. CASE loan.bidderAddress # NullAddress
  <2> DEFINE who == loan.bidderAddress
             price == loan.bidPrice
  <2>1. Paid(b, LendPoolAddr, who, price, c)
    BY <1>4 DEF RefundBid, Paid
  <2>2. who \in Holder /\ price \in Nat BY <1>1, <1>2, <1>4
  <2> HIDE DEF who, price
  <2>3. /\ c \in Balances
        /\ \A h \in Holder : c[h] = b[h] + Flow(h, LendPoolAddr, who, price)
    BY <1>2, <2>1, <2>2, PayFlow
  <2> QED BY <2>3 DEF who, price
<1> QED BY <1>3, <1>4

\* What a pool operation may have paid to others meanwhile: at most one
\* transfer, from an account of neither the pool nor a user.
SideTransfer == {t \in TransferType :
                   /\ t.from \notin Account \cup {LendPoolAddr, UTokenAddr}
                   /\ t.to \notin {LendPoolAddr, UTokenAddr}}
Refunds == {<<>>} \cup {<<t>> : t \in SideTransfer}

LEMMA RefundsSeq ==
  ASSUME NEW refund \in Refunds
  PROVE  refund \in Seq(TransferType)
<1>1. ASSUME NEW t \in SideTransfer PROVE <<t>> \in Seq(TransferType)
  <2>1. t \in TransferType BY DEF SideTransfer
  <2> QED BY <2>1
<1>2. <<>> \in Seq(TransferType) OBVIOUS
<1>3. refund = <<>> \/ \E t \in SideTransfer : refund = <<t>>
  BY Zenon DEF Refunds
<1> QED BY <1>1, <1>2, <1>3, Zenon

\* What an account gets of it.
Got(account, refund) ==
  IF refund # <<>> /\ refund[1].to = account THEN refund[1].amount ELSE 0

LEMMA GotNat ==
  ASSUME NEW refund, refund \in Refunds, NEW account
  PROVE  Got(account, refund) \in Nat /\ Got(account, <<>>) = 0
<1>1. CASE refund = <<>> BY <1>1 DEF Got
<1>2. CASE refund # <<>>
  <2>1. PICK t \in SideTransfer : refund = <<t>> BY <1>2 DEF Refunds
  <2>2. refund[1] = t BY <2>1
  <2>3. t.amount \in Nat BY DEF SideTransfer, TransferType
  <2> QED BY <2>2, <2>3 DEF Got
<1> QED BY <1>1, <1>2

\* Such a refund leaves the pool's and the lenders' money alone and takes from
\* no account.
LEMMA RefundsKeep ==
  ASSUME NEW refund \in Refunds, NEW b \in Balances, NEW c, Pays(b, refund, c)
  PROVE  /\ c \in Balances
         /\ c[LendPoolAddr] = b[LendPoolAddr]
         /\ c[UTokenAddr] = b[UTokenAddr]
         /\ \A a \in Account : c[a] = b[a] + Got(a, refund)
<1>0. Account \cup {LendPoolAddr, UTokenAddr} \subseteq Holder BY PoolAssumption
<1>1. \A h \in Holder : b[h] \in Nat BY DEF Balances
<1>2. CASE refund = <<>>
  BY <1>0, <1>1, <1>2, PayNothing DEF Got
<1>3. CASE refund # <<>>
  <2>1. PICK t \in SideTransfer : refund = <<t>> BY <1>3 DEF Refunds
  <2>2. t \in TransferType BY DEF SideTransfer
  <2>3. /\ t.from \in Holder /\ t.to \in Holder /\ t.amount \in Nat
        /\ t.from \notin Account \cup {LendPoolAddr, UTokenAddr}
        /\ t.to \notin {LendPoolAddr, UTokenAddr}
    BY DEF SideTransfer, TransferType
  <2>4. t = Transfer(t.from, t.to, t.amount) BY <2>2 DEF Transfer, TransferType
  <2> DEFINE from == t.from
             to == t.to
             amount == t.amount
  <2>5. Paid(b, from, to, amount, c)
    <3>1. Pays(b, <<t>>, c) BY <2>1
    <3> QED BY <3>1, <2>4 DEF Paid
  <2>6. /\ from \in Holder /\ to \in Holder /\ amount \in Nat
        /\ from \notin Account \cup {LendPoolAddr, UTokenAddr}
        /\ to \notin {LendPoolAddr, UTokenAddr}
    BY <2>3
  <2>7. \A a : Got(a, refund) = IF to = a THEN amount ELSE 0
    BY <1>3, <2>1 DEF Got
  <2> HIDE DEF from, to, amount
  <2>8. /\ c \in Balances
        /\ \A h \in Holder : c[h] = b[h] + Flow(h, from, to, amount)
    BY <2>5, <2>6, PayFlow
  <2> QED BY <1>0, <1>1, <2>6, <2>7, <2>8 DEF Flow
<1> QED BY <1>2, <1>3

-----------------------------------------------------------------------------
(* The sums over the loan book, when one record changes.                   *)

\* What a record contributes to the escrow, to the debt of a user and to the
\* bids of an account.
EscrowOf(loan) == IF loan.state = "Auction" THEN loan.bidPrice ELSE 0

OwedBy(user, loan) ==
  IF loan.state \in LiveStates /\ loan.borrower = user THEN loan.scaledAmount ELSE 0

BidBy(account, loan) ==
  IF loan.state = "Auction" /\ loan.bidderAddress = account THEN loan.bidPrice ELSE 0

\* The sums have values.
LEMMA LedgerTypes ==
  ASSUME LoanTypeOK
  PROVE  /\ \A S \in SUBSET LoanIds : IsFiniteSet(S)
         /\ \A id \in LoanIds : BidPrices[id] \in Nat /\ ScaledAmounts[id] \in Nat
         /\ \A S \in SUBSET LoanIds : /\ SumOver(BidPrices, S) \in Nat
                                      /\ SumOver(ScaledAmounts, S) \in Nat
<1>1. ASSUME NEW S \in SUBSET LoanIds PROVE IsFiniteSet(S)
  BY LoanIdsFinite, FS_Subset
<1>2. \A id \in LoanIds : BidPrices[id] \in Nat /\ ScaledAmounts[id] \in Nat
  BY LoanAssumption DEF LoanTypeOK, LoanData, BidPrices, ScaledAmounts
<1>3. ASSUME NEW S \in SUBSET LoanIds
      PROVE  SumOver(BidPrices, S) \in Nat /\ SumOver(ScaledAmounts, S) \in Nat
  <2>1. IsFiniteSet(S) /\ \A x \in S : /\ BidPrices[x] \in Nat
                                       /\ ScaledAmounts[x] \in Nat
    BY <1>1, <1>2
  <2> HIDE DEF BidPrices, ScaledAmounts
  <2> QED BY <2>1, SumNat
<1> QED BY <1>1, <1>2, <1>3

\* When one record changes, each sum changes by what that record contributes.
LEMMA LedgerChange ==
  ASSUME LoanTypeOK, LoanTypeOK', NEW id \in LoanIds, OthersKept(id)
  PROVE  /\ EscrowOf(loans[id]) \in Nat /\ EscrowOf(loans'[id]) \in Nat
         /\ EscrowOf(loans[id]) <= SumOver(BidPrices, Auctions)
         /\ SumOver(BidPrices', Auctions')
              = SumOver(BidPrices, Auctions) - EscrowOf(loans[id])
                  + EscrowOf(loans'[id])
<1>1. /\ \A j \in LoanIds : j # id => loans'[j] = loans[j]
      /\ Auctions \in SUBSET LoanIds /\ Auctions' \in SUBSET LoanIds
  BY DEF OthersKept, Auctions
<1>2. /\ Auctions \ {id} = Auctions' \ {id}
      /\ \A j \in Auctions \ {id} : BidPrices[j] = BidPrices'[j]
  BY <1>1 DEF Auctions, BidPrices
<1>3. /\ IsFiniteSet(Auctions) /\ \A j \in Auctions : BidPrices[j] \in Nat
      /\ IsFiniteSet(Auctions') /\ \A j \in Auctions' : BidPrices'[j] \in Nat
  <2>1. \A j \in LoanIds : BidPrices[j] \in Nat /\ BidPrices'[j] \in Nat
    BY LoanAssumption DEF LoanTypeOK, LoanData, BidPrices
  <2> QED BY <1>1, <2>1, LoanIdsFinite, FS_Subset
<1>4. /\ Share(BidPrices, Auctions, id) = EscrowOf(loans[id])
      /\ Share(BidPrices', Auctions', id) = EscrowOf(loans'[id])
  BY DEF Share, BidPrices, Auctions, EscrowOf
<1> DEFINE f == BidPrices
           S == Auctions
           g == BidPrices'
           T == Auctions'
<1>5. /\ IsFiniteSet(S) /\ \A j \in S : f[j] \in Nat
      /\ IsFiniteSet(T) /\ \A j \in T : g[j] \in Nat
      /\ S \ {id} = T \ {id} /\ \A j \in S \ {id} : f[j] = g[j]
      /\ Share(f, S, id) = EscrowOf(loans[id])
      /\ Share(g, T, id) = EscrowOf(loans'[id])
  BY <1>2, <1>3, <1>4
<1> HIDE DEF f, S, g, T
<1>6. /\ SumOver(g, T) = SumOver(f, S) - EscrowOf(loans[id]) + EscrowOf(loans'[id])
      /\ EscrowOf(loans[id]) \in Nat /\ EscrowOf(loans'[id]) \in Nat
      /\ EscrowOf(loans[id]) <= SumOver(f, S)
  BY <1>5, SumChange
<1> QED BY <1>6 DEF f, S, g, T

LEMMA LedgerDebtChange ==
  ASSUME LoanTypeOK, LoanTypeOK', NEW id \in LoanIds, OthersKept(id),
         NEW user
  PROVE  /\ OwedBy(user, loans[id]) \in Nat /\ OwedBy(user, loans'[id]) \in Nat
         /\ OwedBy(user, loans[id]) <= SumOver(ScaledAmounts, LoansOf(user))
         /\ SumOver(ScaledAmounts', LoansOf(user)')
              = SumOver(ScaledAmounts, LoansOf(user)) - OwedBy(user, loans[id])
                  + OwedBy(user, loans'[id])
<1> DEFINE f == ScaledAmounts
           S == LoansOf(user)
           g == ScaledAmounts'
           T == LoansOf(user)'
<1>1. /\ \A j \in LoanIds : j # id => loans'[j] = loans[j]
      /\ S \in SUBSET LoanIds /\ T \in SUBSET LoanIds
  BY DEF OthersKept, LoansOf
<1>2. /\ S \ {id} = T \ {id}
      /\ \A j \in S \ {id} : f[j] = g[j]
  BY <1>1 DEF LoansOf, Live, ScaledAmounts
<1>3. /\ IsFiniteSet(S) /\ \A j \in S : f[j] \in Nat
      /\ IsFiniteSet(T) /\ \A j \in T : g[j] \in Nat
  <2>1. \A j \in LoanIds : f[j] \in Nat /\ g[j] \in Nat
    BY LoanAssumption DEF LoanTypeOK, LoanData, ScaledAmounts
  <2>2. IsFiniteSet(S) /\ IsFiniteSet(T) BY <1>1, LoanIdsFinite, FS_Subset
  <2> QED BY <1>1, <2>1, <2>2
<1>4. /\ Share(f, S, id) = OwedBy(user, loans[id])
      /\ Share(g, T, id) = OwedBy(user, loans'[id])
  BY DEF Share, ScaledAmounts, LoansOf, Live, OwedBy
<1> DEFINE d == OwedBy(user, loans[id])
           e == OwedBy(user, loans'[id])
<1>5. Share(f, S, id) = d /\ Share(g, T, id) = e BY <1>4
<1> HIDE DEF f, S, g, T, d, e
<1>6. /\ SumOver(g, T) = SumOver(f, S) - d + e
      /\ d \in Nat /\ e \in Nat
      /\ d <= SumOver(f, S)
  BY <1>2, <1>3, <1>5, SumChange
<1> QED BY <1>6 DEF f, S, g, T, d, e

LEMMA LedgerBidChange ==
  ASSUME LoanTypeOK, LoanTypeOK', NEW id \in LoanIds, OthersKept(id),
         NEW account
  PROVE  /\ BidBy(account, loans[id]) \in Nat /\ BidBy(account, loans'[id]) \in Nat
         /\ BidBy(account, loans[id]) <= SumOver(BidPrices, BestBidsOf(account))
         /\ SumOver(BidPrices', BestBidsOf(account)')
              = SumOver(BidPrices, BestBidsOf(account)) - BidBy(account, loans[id])
                  + BidBy(account, loans'[id])
<1> DEFINE f == BidPrices
           S == BestBidsOf(account)
           g == BidPrices'
           T == BestBidsOf(account)'
<1>1. /\ \A j \in LoanIds : j # id => loans'[j] = loans[j]
      /\ S \in SUBSET LoanIds /\ T \in SUBSET LoanIds
  BY DEF OthersKept, BestBidsOf, Auctions
<1>2. /\ S \ {id} = T \ {id}
      /\ \A j \in S \ {id} : f[j] = g[j]
  BY <1>1 DEF BestBidsOf, Auctions, BidPrices
<1>3. /\ IsFiniteSet(S) /\ \A j \in S : f[j] \in Nat
      /\ IsFiniteSet(T) /\ \A j \in T : g[j] \in Nat
  <2>1. \A j \in LoanIds : f[j] \in Nat /\ g[j] \in Nat
    BY LoanAssumption DEF LoanTypeOK, LoanData, BidPrices
  <2>2. IsFiniteSet(S) /\ IsFiniteSet(T) BY <1>1, LoanIdsFinite, FS_Subset
  <2> QED BY <1>1, <2>1, <2>2
<1>4. /\ Share(f, S, id) = BidBy(account, loans[id])
      /\ Share(g, T, id) = BidBy(account, loans'[id])
  BY DEF Share, BidPrices, BestBidsOf, Auctions, BidBy
<1> DEFINE d == BidBy(account, loans[id])
           e == BidBy(account, loans'[id])
<1>5. Share(f, S, id) = d /\ Share(g, T, id) = e BY <1>4
<1> HIDE DEF f, S, g, T, d, e
<1>6. /\ SumOver(g, T) = SumOver(f, S) - d + e
      /\ d \in Nat /\ e \in Nat
      /\ d <= SumOver(f, S)
  BY <1>2, <1>3, <1>5, SumChange
<1> QED BY <1>6 DEF f, S, g, T, d, e

-----------------------------------------------------------------------------
(* The invariant.                                                          *)

\* Besides the loan book's invariant: the escrow and the debt tokens are what
\* the loan book says, the index never fell below where it started, so that a
\* scaled debt is found again from its amount (ScaleRoundTrip), and a pause
\* does not start in the future.
PoolInv ==
  /\ LoanInv
  /\ PoolTypeOK
  /\ borrowIndex >= RAY
  /\ pauseStartTime <= now
  /\ BidsInEscrow
  /\ DebtTokensMatchLoans

\* The initial state.
LEMMA PoolInitInv == PoolInit => PoolInv
<1> SUFFICES ASSUME PoolInit PROVE PoolInv OBVIOUS
<1>1. LoanInv BY LoanInitInv DEF PoolInit
<1>2. PoolTypeOK
  <2>1. RAY \in Nat \ {0} /\ MaxTime \in Nat \ {0} /\ 1 \in 1 .. MaxTime
    BY UnitsAssumption, PoolAssumption
  <2> QED BY <1>1, <2>1, PoolAssumption DEF PoolInit, PoolTypeOK, LoanInv
<1>3. /\ borrowIndex >= RAY
      /\ pauseStartTime <= now
  BY UnitsAssumption DEF PoolInit
<1>4. \A id \in LoanIds : loans[id].state = "None"
  BY DEF PoolInit, LoanInit, NoLoan
<1>5. BidsInEscrow
  <2>1. Auctions = {} BY <1>4 DEF Auctions
  <2>2. weth[LendPoolAddr] = 0 BY PoolAssumption DEF PoolInit
  <2> QED BY <2>1, <2>2, SumEmpty DEF BidsInEscrow
<1>6. DebtTokensMatchLoans
  <2>1. ASSUME NEW user \in Account
        PROVE  debtToken[user] = SumOver(ScaledAmounts, LoansOf(user))
    <3>1. LoansOf(user) = {} BY <1>4 DEF LoansOf, Live, LiveStates
    <3>2. debtToken[user] = 0 BY DEF PoolInit
    <3> QED BY <3>1, <3>2, SumEmpty
  <2> QED BY <2>1 DEF DebtTokensMatchLoans
<1> QED BY <1>1, <1>2, <1>3, <1>5, <1>6 DEF PoolInv

\* An operation on one loan keeps the invariant when it moves into or out of
\* the escrow, and mints or burns, what the change of the record demands.
LEMMA LoanStepInv ==
  ASSUME PoolInv, LoanInv', NEW id \in LoanIds, OthersKept(id),
         weth' \in Balances,
         weth'[LendPoolAddr]
           = weth[LendPoolAddr] - EscrowOf(loans[id]) + EscrowOf(loans'[id]),
         debtToken' \in [Account -> Nat],
         \A user \in Account :
           debtToken'[user] = debtToken[user] - OwedBy(user, loans[id])
                                + OwedBy(user, loans'[id]),
         borrowAllowances' \in [Account -> [Account -> Nat]],
         UNCHANGED <<marketVars, pauseVars>>
  PROVE  PoolInv'
<1>1. LoanTypeOK /\ LoanTypeOK' BY DEF PoolInv, LoanInv
<1>2. PoolTypeOK'
  BY <1>1 DEF PoolInv, PoolTypeOK, Balances, marketVars, pauseVars
<1>3. borrowIndex' >= RAY /\ pauseStartTime' <= now'
  BY DEF PoolInv, marketVars, pauseVars
<1>4. BidsInEscrow'
  <2>1. weth[LendPoolAddr] = SumOver(BidPrices, Auctions)
    BY DEF PoolInv, BidsInEscrow
  <2>2. weth'[LendPoolAddr] = SumOver(BidPrices', Auctions')
    BY <1>1, <2>1, LedgerChange
  <2> QED BY <2>2 DEF BidsInEscrow
<1>5. DebtTokensMatchLoans'
  <2>1. ASSUME NEW user \in Account
        PROVE  debtToken'[user] = SumOver(ScaledAmounts', LoansOf(user)')
    <3>1. debtToken[user] = SumOver(ScaledAmounts, LoansOf(user))
      BY DEF PoolInv, DebtTokensMatchLoans
    <3> QED BY <1>1, <3>1, LedgerDebtChange
  <2> QED BY <2>1 DEF DebtTokensMatchLoans
<1> QED BY <1>2, <1>3, <1>4, <1>5 DEF PoolInv

\* ... and then every account's wealth changes by what it is paid and by its
\* bid on that loan.
LEMMA LoanStepWealth ==
  ASSUME PoolInv, LoanInv', NEW id \in LoanIds, OthersKept(id),
         weth' \in Balances, NEW account \in Account
  PROVE  /\ Wealth(account)' - Wealth(account)
              = (weth'[account] - weth[account])
                + (BidBy(account, loans'[id]) - BidBy(account, loans[id]))
         /\ Wealth(account) \in Nat /\ Wealth(account)' \in Nat
<1>1. LoanTypeOK /\ LoanTypeOK' BY DEF PoolInv, LoanInv
<1>2. /\ Account \subseteq Holder
      /\ weth[account] \in Nat /\ weth'[account] \in Nat
  BY PoolAssumption DEF PoolInv, PoolTypeOK, Balances
<1> DEFINE before == SumOver(BidPrices, BestBidsOf(account))
           after == SumOver(BidPrices', BestBidsOf(account)')
<1>3. Wealth(account) = weth[account] + before
  BY DEF Wealth
<1>4. Wealth(account)' = weth'[account] + after
  BY DEF Wealth
<1>5. before \in Nat
  BY <1>1, LedgerTypes DEF BestBidsOf, Auctions
<1>6. /\ BidBy(account, loans[id]) \in Nat /\ BidBy(account, loans'[id]) \in Nat
      /\ BidBy(account, loans[id]) <= before
      /\ after = before - BidBy(account, loans[id]) + BidBy(account, loans'[id])
  BY <1>1, LedgerBidChange
<1> HIDE DEF before, after
<1> QED BY <1>2, <1>3, <1>4, <1>5, <1>6

\* A step that leaves the loan book's records, the escrow and the debt tokens
\* alone keeps what relates them.
LEMMA FrameStepInv ==
  ASSUME PoolInv, LoanInv', PoolTypeOK', UNCHANGED loans, UNCHANGED debtToken,
         weth'[LendPoolAddr] = weth[LendPoolAddr],
         borrowIndex' >= borrowIndex, pauseStartTime' <= now'
  PROVE  PoolInv'
<1>1. BidPrices' = BidPrices /\ Auctions' = Auctions /\ ScaledAmounts' = ScaledAmounts
  BY DEF BidPrices, Auctions, ScaledAmounts
<1>2. BidsInEscrow'
  BY <1>1 DEF PoolInv, BidsInEscrow
<1>3. DebtTokensMatchLoans'
  <2>1. ASSUME NEW user \in Account
        PROVE  debtToken'[user] = SumOver(ScaledAmounts', LoansOf(user)')
    <3>1. LoansOf(user)' = LoansOf(user) BY DEF LoansOf, Live
    <3>2. debtToken[user] = SumOver(ScaledAmounts, LoansOf(user))
      BY DEF PoolInv, DebtTokensMatchLoans
    <3> QED BY <1>1, <3>1, <3>2
  <2> QED BY <2>1 DEF DebtTokensMatchLoans
<1>4. borrowIndex' >= RAY
  BY UnitsAssumption DEF PoolInv, PoolTypeOK
<1> QED BY <1>2, <1>3, <1>4 DEF PoolInv

\* The amounts of the pool's computations.
LEMMA PoolAmounts ==
  ASSUME PoolInv, NEW nft \in NFT, NEW id \in LoanIds
  PROVE  /\ borrowIndex \in Nat \ {0} /\ weth \in Balances
         /\ debtToken \in [Account -> Nat]
         /\ loans[id] \in LoanData /\ loans[id].scaledAmount \in Nat
         /\ BorrowAmount(id) \in Nat
         /\ RayDiv(BorrowAmount(id), borrowIndex) = loans[id].scaledAmount
         /\ nftPrice[nft] \in Nat
<1>1. /\ borrowIndex \in Nat \ {0} /\ weth \in Balances
      /\ debtToken \in [Account -> Nat]
      /\ loans[id] \in LoanData /\ loans[id].scaledAmount \in Nat
      /\ nftPrice[nft] \in Nat
  BY LoanAssumption DEF PoolInv, PoolTypeOK, LoanTypeOK, LoanData, Balances
<1>2. RAY \in Nat \ {0} /\ borrowIndex >= RAY
  BY UnitsAssumption DEF PoolInv
<1>3. BorrowAmount(id) \in Nat
  BY <1>1, <1>2, UnitMulNat DEF BorrowAmount, RayMul
<1>4. RayDiv(BorrowAmount(id), borrowIndex) = loans[id].scaledAmount
  BY <1>1, <1>2, ScaleRoundTrip DEF BorrowAmount
<1> QED BY <1>1, <1>3, <1>4

\* The bid fine is an amount.
LEMMA BidFineNat ==
  ASSUME PoolInv, NEW id \in LoanIds, loans[id].nft \in NFT
  PROVE  BidFine(id) \in Nat
<1> DEFINE config == nftConfig[loans[id].nft]
           least == PercentMul(WAD, config.minBidFine)
           fine == PercentMul(BorrowAmount(id), config.redeemFine)
<1>1. config.minBidFine \in Nat /\ config.redeemFine \in Nat
  BY DEF PoolInv, PoolTypeOK, NftConfig
<1>2. PERCENTAGE_FACTOR \in Nat \ {0} /\ WAD \in Nat BY UnitsAssumption
<1>3. least \in Nat BY <1>1, <1>2, UnitMulNat DEF PercentMul
<1>4. fine \in Nat BY <1>1, <1>2, PoolAmounts, UnitMulNat DEF PercentMul
<1> HIDE DEF config, least, fine
<1>5. BidFine(id) = IF loans[id].bidPrice = 0 THEN 0
                    ELSE IF fine < least THEN least ELSE fine
  BY DEF BidFine, config, least, fine
<1> QED BY <1>3, <1>4, <1>5

\* The price of a buyout is an amount that covers the debt.
LEMMA BuyoutPriceCovers ==
  ASSUME PoolInv, NEW nft \in NFT, NEW account, NEW debt \in Nat
  PROVE  BuyoutPrice(account, nft, debt) \in Nat
           /\ BuyoutPrice(account, nft, debt) >= debt
<1>1. nftPrice[nft] \in Nat BY DEF PoolInv, PoolTypeOK
<1>2. PERCENTAGE_FACTOR \in Nat \ {0} /\ LockeyDiscount \in Nat
  BY UnitsAssumption, PoolAssumption
<1> DEFINE discounted == PercentMul(nftPrice[nft], LockeyDiscount)
<1>3. discounted \in Nat BY <1>1, <1>2, UnitMulNat DEF PercentMul
<1> HIDE DEF discounted
<1>4. BuyoutPrice(account, nft, debt) =
        IF discounted > debt /\ account \in LockeyHolders THEN discounted
        ELSE IF debt > nftPrice[nft] THEN debt ELSE nftPrice[nft]
  BY DEF BuyoutPrice, discounted
<1> QED BY <1>1, <1>3, <1>4

-----------------------------------------------------------------------------
(* What every step does for the lenders and the accounts.                  *)

\* A loan that ends is paid to the lenders.
EndedPaid ==
  \A id \in LoanIds :
    Live(id) /\ ~Live(id)' => weth'[UTokenAddr] = weth[UTokenAddr] + BorrowAmount(id)

\* Nobody but the payer is poorer, unless he wins an auction: he has all that
\* he had and what he got meanwhile.
PaidOnlyBy(payer, refund) ==
  \A a \in Account : a # payer =>
    \/ Wealth(a)' >= Wealth(a) + Got(a, refund)
    \/ \E id \in LoanIds : WinsAuction(a, id)

\* Nobody owes more than before.
NoNewDebts == \A user \in Account : debtToken'[user] <= debtToken[user]

\* All of this is shown for the one loan an operation is about.
LEMMA LoanStep ==
  ASSUME PoolInv, LoanInv', NEW id \in LoanIds, OthersKept(id),
         weth' \in Balances,
         weth'[LendPoolAddr]
           = weth[LendPoolAddr] - EscrowOf(loans[id]) + EscrowOf(loans'[id]),
         debtToken' \in [Account -> Nat],
         \A user \in Account :
           debtToken'[user] = debtToken[user] - OwedBy(user, loans[id])
                                + OwedBy(user, loans'[id]),
         borrowAllowances' \in [Account -> [Account -> Nat]],
         UNCHANGED <<marketVars, pauseVars>>,
         Live(id) /\ loans'[id].state \notin LiveStates
           => weth'[UTokenAddr] = weth[UTokenAddr] + BorrowAmount(id),
         NEW payer, NEW refund, refund \in Refunds,
         \A a \in Account : a # payer =>
           \/ WinsAuction(a, id)
           \/ weth'[a] + BidBy(a, loans'[id]) >= weth[a] + Got(a, refund) + BidBy(a, loans[id])
  PROVE  PoolInv' /\ EndedPaid /\ PaidOnlyBy(payer, refund)
<1>1. PoolInv' BY LoanStepInv
<1>2. EndedPaid
  <2>1. ASSUME NEW j \in LoanIds, Live(j), ~Live(j)'
        PROVE  weth'[UTokenAddr] = weth[UTokenAddr] + BorrowAmount(j)
    <3>1. loans'[j].state \notin LiveStates /\ loans[j].state \in LiveStates
      BY <2>1 DEF Live
    <3>2. j = id BY <3>1 DEF OthersKept
    <3> QED BY <2>1, <3>1, <3>2
  <2> QED BY <2>1 DEF EndedPaid
<1>3. ASSUME NEW a \in Account, a # payer
      PROVE  \/ Wealth(a)' >= Wealth(a) + Got(a, refund)
             \/ \E j \in LoanIds : WinsAuction(a, j)
  <2>1. CASE WinsAuction(a, id) BY <2>1
  <2>2. CASE weth'[a] + BidBy(a, loans'[id]) >= weth[a] + Got(a, refund) + BidBy(a, loans[id])
    <3>1. LoanTypeOK /\ LoanTypeOK' BY DEF PoolInv, LoanInv
    <3>2. BidBy(a, loans[id]) \in Nat /\ BidBy(a, loans'[id]) \in Nat
      BY <3>1, LedgerBidChange
    <3>3. weth[a] \in Nat /\ weth'[a] \in Nat
      BY PoolAssumption DEF PoolInv, PoolTypeOK, Balances
    <3>4. /\ Wealth(a)' - Wealth(a)
               = (weth'[a] - weth[a]) + (BidBy(a, loans'[id]) - BidBy(a, loans[id]))
          /\ Wealth(a) \in Nat /\ Wealth(a)' \in Nat
      BY LoanStepWealth
    <3>5. Got(a, refund) \in Nat BY GotNat
    <3> QED BY <2>2, <3>2, <3>3, <3>4, <3>5
  <2> QED BY <1>3, <2>1, <2>2
<1>4. PaidOnlyBy(payer, refund) BY <1>3 DEF PaidOnlyBy
<1> QED BY <1>1, <1>2, <1>4

\* Burning debt tokens.
LEMMA BurnEffect ==
  ASSUME PoolInv, NEW user \in Account, NEW amount \in Nat,
         BurnDebt(user, amount)
  PROVE  /\ RayDiv(amount, borrowIndex) \in Nat
         /\ debtToken' \in [Account -> Nat]
         /\ \A u \in Account :
              debtToken'[u] = debtToken[u] - (IF u = user
                                              THEN RayDiv(amount, borrowIndex) ELSE 0)
         /\ borrowAllowances' \in [Account -> [Account -> Nat]]
         /\ NoNewDebts
<1> DEFINE burned == RayDiv(amount, borrowIndex)
<1>1. /\ borrowIndex \in Nat \ {0} /\ debtToken \in [Account -> Nat]
      /\ borrowAllowances \in [Account -> [Account -> Nat]]
  BY DEF PoolInv, PoolTypeOK
<1>2. burned \in Nat BY <1>1, RayDivNat
<1>3. /\ debtToken[user] >= burned
      /\ debtToken' = [debtToken EXCEPT ![user] = debtToken[user] - burned]
      /\ borrowAllowances' = borrowAllowances
  BY <1>1 DEF BurnDebt
<1> HIDE DEF burned
<1>4. /\ debtToken' \in [Account -> Nat]
      /\ \A u \in Account :
           debtToken'[u] = debtToken[u] - (IF u = user THEN burned ELSE 0)
  BY <1>1, <1>2, <1>3
<1>5. NoNewDebts BY <1>1, <1>2, <1>4 DEF NoNewDebts
<1> QED BY <1>1, <1>2, <1>3, <1>4, <1>5 DEF burned

\* Minting debt tokens: on the initiator's own name or on his allowance.
LEMMA MintEffect ==
  ASSUME PoolInv, NEW initiator \in Account, NEW user \in Account,
         NEW amount \in Nat, MintDebt(initiator, user, amount)
  PROVE  /\ RayDiv(amount, borrowIndex) \in Nat
         /\ debtToken' \in [Account -> Nat]
         /\ \A u \in Account :
              debtToken'[u] = debtToken[u] + (IF u = user
                                              THEN RayDiv(amount, borrowIndex) ELSE 0)
         /\ borrowAllowances' \in [Account -> [Account -> Nat]]
         /\ initiator # user =>
              borrowAllowances[user][initiator]
                - borrowAllowances'[user][initiator] = amount
<1> DEFINE minted == RayDiv(amount, borrowIndex)
<1>1. /\ borrowIndex \in Nat \ {0} /\ debtToken \in [Account -> Nat]
      /\ borrowAllowances \in [Account -> [Account -> Nat]]
  BY DEF PoolInv, PoolTypeOK
<1>2. minted \in Nat BY <1>1, RayDivNat
<1>3. debtToken' = [debtToken EXCEPT ![user] = debtToken[user] + minted]
  BY <1>1 DEF MintDebt
<1>4. /\ initiator = user => borrowAllowances' = borrowAllowances
      /\ initiator # user =>
           /\ borrowAllowances[user][initiator] >= amount
           /\ borrowAllowances' =
                [borrowAllowances EXCEPT
                   ![user] = [borrowAllowances[user] EXCEPT
                                ![initiator] = borrowAllowances[user][initiator] - amount]]
  BY <1>1 DEF MintDebt
<1> HIDE DEF minted
<1>5. /\ debtToken' \in [Account -> Nat]
      /\ \A u \in Account :
           debtToken'[u] = debtToken[u] + (IF u = user THEN minted ELSE 0)
  BY <1>1, <1>2, <1>3
<1>6. /\ borrowAllowances' \in [Account -> [Account -> Nat]]
      /\ initiator # user =>
           borrowAllowances[user][initiator]
             - borrowAllowances'[user][initiator] = amount
  BY <1>1, <1>4
<1> QED BY <1>2, <1>5, <1>6 DEF minted

\* A refund and then transfers: the refund has kept what matters.
LEMMA RefundThenPays ==
  ASSUME weth \in Balances, NEW refund \in Refunds, NEW s \in Seq(TransferType),
         NEW c, Pays(weth, refund \o s, c)
  PROVE  \E b \in Balances :
           /\ b[LendPoolAddr] = weth[LendPoolAddr]
           /\ b[UTokenAddr] = weth[UTokenAddr]
           /\ \A a \in Account :
              Got(a, refund) \in Nat /\ b[a] = weth[a] + Got(a, refund)
           /\ Pays(b, s, c)
<1>1. PICK b \in Balances : Pays(weth, refund, b) /\ Pays(b, s, c)
  BY RefundsSeq, PayParts
<1>2. /\ b[LendPoolAddr] = weth[LendPoolAddr]
      /\ b[UTokenAddr] = weth[UTokenAddr]
      /\ \A a \in Account :
              Got(a, refund) \in Nat /\ b[a] = weth[a] + Got(a, refund)
  BY <1>1, RefundsKeep, GotNat
<1> QED BY <1>1, <1>2

-----------------------------------------------------------------------------
(* The operations, one by one.                                             *)

\* repay
LEMMA RepayKeeps ==
  ASSUME PoolInv, NEW initiator \in Account, NEW nft \in NFT,
         NEW amount \in Nat, NEW refund \in Refunds,
         Repay(initiator, nft, amount, refund)
  PROVE  PoolInv' /\ EndedPaid /\ PaidOnlyBy(initiator, refund) /\ NoNewDebts
<1> DEFINE id == nftToLoanIds[nft]
           loan == loans[id]
           debt == BorrowAmount(id)
           paid == IF amount < debt THEN amount ELSE debt
           burned == RayDiv(paid, borrowIndex)
<1>1. /\ id # 0
      /\ IF amount < debt THEN DecreaseLoan(id, paid, borrowIndex) ELSE RepayLoan(id)
      /\ BurnDebt(loan.borrower, paid)
      /\ Transfers(refund \o <<Transfer(initiator, UTokenAddr, paid)>>)
      /\ UNCHANGED <<marketVars, pauseVars>>
  BY DEF Repay
<1>2. /\ id \in LoanIds /\ Live(id) /\ loan \in LoanData
      /\ loan.borrower \in Account /\ AuctionFieldsAgree(loan)
  BY <1>1, FoundLoan DEF PoolInv
<1>3. /\ borrowIndex \in Nat \ {0} /\ weth \in Balances
      /\ debtToken \in [Account -> Nat]
      /\ loan.scaledAmount \in Nat /\ debt \in Nat
      /\ RayDiv(debt, borrowIndex) = loan.scaledAmount
  BY <1>2, PoolAmounts
<1>4. paid \in Nat BY <1>3
<1>5. /\ burned \in Nat
      /\ debtToken' \in [Account -> Nat]
      /\ \A u \in Account :
           debtToken'[u] = debtToken[u] - (IF u = loan.borrower THEN burned ELSE 0)
      /\ borrowAllowances' \in [Account -> [Account -> Nat]]
      /\ NoNewDebts
  BY <1>1, <1>2, <1>4, BurnEffect
\* The record: smaller by what is burned, or closed when all of it is.
<1>6. /\ LoanInv' /\ OthersKept(id) /\ loan.state = "Active"
      /\ \/ /\ loans'[id] = [loan EXCEPT !.scaledAmount = loan.scaledAmount - burned]
         \/ /\ loans'[id] = [loan EXCEPT !.state = "Repaid"]
            /\ burned = loan.scaledAmount /\ paid = debt
  <2>1. CASE amount < debt
    <3>1. DecreaseLoan(id, paid, borrowIndex) BY <1>1, <2>1
    <3>2. /\ LoanInv' /\ loan.state = "Active"
          /\ OnlyRecordWritten(id, [loan EXCEPT !.scaledAmount =
                                      loan.scaledAmount - burned])
      BY <1>1, <1>3, <1>4, <3>1, DecreaseInv DEF PoolInv
    <3> QED BY <3>2 DEF OnlyRecordWritten
  <2>2. CASE ~(amount < debt)
    <3>1. RepayLoan(id) BY <1>1, <2>2
    <3>2. /\ LoanInv' /\ loan.state = "Active"
          /\ RecordClosed(id, [loan EXCEPT !.state = "Repaid"], loan.borrower)
      BY <1>1, <3>1, RepayInv DEF PoolInv
    <3> QED BY <1>3, <2>2, <3>2 DEF RecordClosed
  <2> QED BY <2>1, <2>2
\* The money: to the lenders, from the initiator.
<1>7. /\ weth' \in Balances
      /\ weth'[LendPoolAddr] = weth[LendPoolAddr]
      /\ weth'[UTokenAddr] = weth[UTokenAddr] + paid
      /\ \A a \in Account : a # initiator => weth'[a] >= weth[a] + Got(a, refund)
  <2>1. /\ initiator \in Holder /\ UTokenAddr \in Holder /\ LendPoolAddr \in Holder
        /\ Account \subseteq Holder /\ UTokenAddr # LendPoolAddr
        /\ UTokenAddr \notin Account /\ LendPoolAddr \notin Account
    BY PoolAssumption
  <2> HIDE DEF paid
  <2> DEFINE s == <<Transfer(initiator, UTokenAddr, paid)>>
  <2>2. s \in Seq(TransferType) BY <1>4, <2>1, TransferSeq
  <2>3. refund \o s \in Seq(TransferType) BY <2>2, RefundsSeq, ConcatProperties
  <2>4. PICK c \in Balances : weth' = c /\ Pays(weth, refund \o s, c)
    BY <1>1, <1>3, <2>3, TransfersPay
  <2>5. PICK b \in Balances :
          /\ b[LendPoolAddr] = weth[LendPoolAddr]
          /\ b[UTokenAddr] = weth[UTokenAddr]
          /\ \A a \in Account :
              Got(a, refund) \in Nat /\ b[a] = weth[a] + Got(a, refund)
          /\ Pays(b, s, c)
    BY <1>3, <2>2, <2>4, RefundThenPays
  <2>6. \A h \in Holder : c[h] = b[h] + Flow(h, initiator, UTokenAddr, paid)
    <3>1. Paid(b, initiator, UTokenAddr, paid, c) BY <2>5 DEF Paid
    <3> QED BY <1>4, <2>1, <3>1, PayFlow
  <2>7. \A h \in Holder : weth[h] \in Nat /\ b[h] \in Nat BY <1>3 DEF Balances
  <2> QED BY <1>4, <2>1, <2>4, <2>5, <2>6, <2>7 DEF Flow
<1>8. /\ weth'[LendPoolAddr]
           = weth[LendPoolAddr] - EscrowOf(loans[id]) + EscrowOf(loans'[id])
      /\ \A user \in Account :
           debtToken'[user] = debtToken[user] - OwedBy(user, loans[id])
                                + OwedBy(user, loans'[id])
      /\ Live(id) /\ loans'[id].state \notin LiveStates
           => weth'[UTokenAddr] = weth[UTokenAddr] + BorrowAmount(id)
      /\ \A a \in Account : a # initiator =>
           weth'[a] + BidBy(a, loans'[id]) >= weth[a] + Got(a, refund) + BidBy(a, loans[id])
  <2>1. weth[LendPoolAddr] \in Nat /\ \A a \in Account : weth[a] \in Nat /\ weth'[a] \in Nat
    BY <1>3, <1>7, PoolAssumption DEF Balances
  <2>2. \A user \in Account : debtToken[user] \in Nat BY <1>3
  <2>3. /\ loans'[id].borrower = loan.borrower
        /\ loans'[id].state \in {"Active", "Repaid"}
        /\ loans'[id].state = "Active" =>
             loans'[id].scaledAmount = loan.scaledAmount - burned
        /\ loans'[id].state = "Repaid" => burned = loan.scaledAmount /\ paid = debt
    BY <1>2, <1>6 DEF LoanData
  <2> HIDE DEF paid, burned, debt
  <2>4. /\ EscrowOf(loans[id]) = 0 /\ EscrowOf(loans'[id]) = 0
        /\ \A a \in Account : BidBy(a, loans[id]) = 0 /\ BidBy(a, loans'[id]) = 0
    BY <1>6, <2>3 DEF EscrowOf, BidBy
  <2>5. \A user \in Account :
           debtToken'[user] = debtToken[user] - OwedBy(user, loans[id])
                                + OwedBy(user, loans'[id])
    BY <1>3, <1>5, <1>6, <2>2, <2>3 DEF OwedBy, LiveStates
  <2>6. loans'[id].state \notin LiveStates => weth'[UTokenAddr] = weth[UTokenAddr] + debt
    BY <1>7, <2>3 DEF LiveStates
  <2>7. \A a \in Account : Got(a, refund) \in Nat BY GotNat
  <2> QED BY <1>7, <2>1, <2>4, <2>5, <2>6, <2>7 DEF debt
<1> HIDE DEF id
<1> QED BY <1>1, <1>2, <1>5, <1>6, <1>7, <1>8, LoanStep

\* The addresses are apart.
LEMMA Addresses ==
  /\ LendPoolAddr \in Holder /\ UTokenAddr \in Holder /\ Account \subseteq Holder
  /\ LendPoolAddr # UTokenAddr
  /\ LendPoolAddr \notin Account /\ UTokenAddr \notin Account
BY PoolAssumption

\* What a record whose auction fields agree keeps in escrow, and for whom.
LEMMA RecordEscrow ==
  ASSUME NEW loan, loan \in LoanData, AuctionFieldsAgree(loan)
  PROVE  /\ loan.bidPrice \in Nat
         /\ EscrowOf(loan) = loan.bidPrice
         /\ \A a \in Account :
              BidBy(a, loan) = IF a = loan.bidderAddress THEN loan.bidPrice ELSE 0
BY DEF LoanData, AuctionFieldsAgree, EscrowOf, BidBy

\* auction
LEMMA AuctionKeeps ==
  ASSUME PoolInv, NEW initiator \in Account, NEW onBehalfOf \in Account,
         NEW nft \in NFT, NEW price \in Nat \ {0},
         Auction(initiator, onBehalfOf, nft, price)
  PROVE  PoolInv' /\ EndedPaid /\ PaidOnlyBy(initiator, <<>>) /\ NoNewDebts
<1> DEFINE id == nftToLoanIds[nft]
           loan == loans[id]
           debt == BorrowAmount(id)
<1>1. /\ id # 0
      /\ \/ OpenAuction(id, onBehalfOf, price, debt, now)
         \/ OutbidAuction(id, onBehalfOf, price, debt)
      /\ Transfers(<<Transfer(initiator, LendPoolAddr, price)>> \o RefundBid(loan))
      /\ UNCHANGED <<debtVars, marketVars, pauseVars>>
  BY DEF Auction
<1>2. /\ id \in LoanIds /\ Live(id) /\ loan \in LoanData
      /\ loan.borrower \in Account /\ AuctionFieldsAgree(loan)
  BY <1>1, FoundLoan DEF PoolInv
<1>3. /\ weth \in Balances /\ debtToken \in [Account -> Nat]
      /\ borrowAllowances \in [Account -> [Account -> Nat]]
      /\ loan.scaledAmount \in Nat /\ debt \in Nat
      /\ now \in Nat \ {0}
  BY <1>2, PoolAmounts, PoolAssumption DEF PoolInv, PoolTypeOK
\* The record: in auction, with this bid.
<1>4. /\ LoanInv' /\ OthersKept(id)
      /\ loans'[id].state = "Auction" /\ loans'[id].bidPrice = price
      /\ loans'[id].bidderAddress = onBehalfOf
      /\ loans'[id].borrower = loan.borrower
      /\ loans'[id].scaledAmount = loan.scaledAmount
  <2> HIDE DEF debt
  <2>1. CASE OpenAuction(id, onBehalfOf, price, debt, now)
    <3>1. /\ LoanInv'
          /\ OnlyRecordWritten(id, [loan EXCEPT
               !.state = "Auction", !.bidStartTimestamp = now,
               !.firstBidderAddress = onBehalfOf, !.bidBorrowAmount = debt,
               !.bidderAddress = onBehalfOf, !.bidPrice = price])
      BY <1>1, <1>3, <2>1, OpenAuctionInv DEF PoolInv
    <3> QED BY <1>2, <3>1 DEF OnlyRecordWritten, LoanData
  <2>2. CASE OutbidAuction(id, onBehalfOf, price, debt)
    <3>1. /\ LoanInv' /\ loan.state = "Auction"
          /\ OnlyRecordWritten(id, [loan EXCEPT
               !.bidBorrowAmount = debt, !.bidderAddress = onBehalfOf,
               !.bidPrice = price])
      BY <1>1, <1>3, <2>2, OutbidInv DEF PoolInv
    <3> QED BY <1>2, <3>1 DEF OnlyRecordWritten, LoanData
  <2> QED BY <1>1, <2>1, <2>2
\* The money: the bid into the escrow, the earlier bid out of it.
<1>5. PICK b \in Balances, c \in Balances :
        /\ weth' = c
        /\ Paid(weth, initiator, LendPoolAddr, price, b)
        /\ Pays(b, RefundBid(loan), c)
  <2> DEFINE s == <<Transfer(initiator, LendPoolAddr, price)>>
             t == RefundBid(loan)
  <2>1. s \in Seq(TransferType) BY Addresses, TransferSeq
  <2>2. t \in Seq(TransferType) BY <1>2, RefundBidSeq
  <2> HIDE DEF s, t
  <2>3. s \o t \in Seq(TransferType) BY <2>1, <2>2, ConcatProperties
  <2>4. PICK c \in Balances : weth' = c /\ Pays(weth, s \o t, c)
    BY <1>1, <1>3, <2>3, TransfersPay DEF s, t
  <2>5. PICK b \in Balances : Pays(weth, s, b) /\ Pays(b, t, c)
    BY <2>1, <2>2, <2>4, PayParts
  <2> QED BY <2>4, <2>5 DEF s, t, Paid
<1>6. \A h \in Holder : /\ weth[h] \in Nat /\ b[h] \in Nat /\ c[h] \in Nat
                        /\ b[h] = weth[h] + Flow(h, initiator, LendPoolAddr, price)
                        /\ c[h] = b[h] + Flow(h, LendPoolAddr, loan.bidderAddress,
                                              loan.bidPrice)
  <2>1. \A h \in Holder : b[h] = weth[h] + Flow(h, initiator, LendPoolAddr, price)
    BY <1>5, Addresses, PayFlow
  <2>2. \A h \in Holder : c[h] = b[h] + Flow(h, LendPoolAddr, loan.bidderAddress,
                                             loan.bidPrice)
    BY <1>2, <1>5, RefundBidFlow
  <2> QED BY <1>3, <2>1, <2>2 DEF Balances
<1>7. /\ loan.bidPrice \in Nat
      /\ loan.bidderAddress \in Account \cup {NullAddress}
      /\ loan.bidderAddress = NullAddress => loan.bidPrice = 0
      /\ EscrowOf(loan) = loan.bidPrice
      /\ \A a \in Account :
           BidBy(a, loan) = IF a = loan.bidderAddress THEN loan.bidPrice ELSE 0
  BY <1>2, RecordEscrow, RefundBidSeq DEF LoanData
<1>8. /\ weth'[LendPoolAddr]
           = weth[LendPoolAddr] - EscrowOf(loans[id]) + EscrowOf(loans'[id])
      /\ \A a \in Account : a # initiator =>
           weth'[a] + BidBy(a, loans'[id]) >= weth[a] + Got(a, <<>>) + BidBy(a, loans[id])
  <2>1. EscrowOf(loans'[id]) = price BY <1>4 DEF EscrowOf
  <2>2. \A a \in Account : BidBy(a, loans'[id]) \in Nat BY <1>4 DEF BidBy
  <2>3. weth'[LendPoolAddr] = weth[LendPoolAddr] - loan.bidPrice + price
    BY <1>5, <1>6, <1>7, Addresses DEF Flow
  <2>4. ASSUME NEW a \in Account, a # initiator
        PROVE  weth'[a] = weth[a] + BidBy(a, loan)
    BY <1>5, <1>6, <1>7, <2>4, Addresses DEF Flow
  <2>5. \A a \in Account : weth[a] \in Nat BY <1>6, Addresses
  <2>6. \A a \in Account : Got(a, <<>>) = 0 BY DEF Got
  <2> QED BY <1>7, <2>1, <2>2, <2>3, <2>4, <2>5, <2>6
<1>9. /\ debtToken' = debtToken /\ borrowAllowances' = borrowAllowances
      /\ \A user \in Account :
           debtToken'[user] = debtToken[user] - OwedBy(user, loans[id])
                                + OwedBy(user, loans'[id])
      /\ NoNewDebts
      /\ loans'[id].state \in LiveStates
  <2>1. debtToken' = debtToken /\ borrowAllowances' = borrowAllowances
    BY <1>1 DEF debtVars
  <2>2. \A user \in Account : /\ OwedBy(user, loans'[id]) = OwedBy(user, loans[id])
                              /\ OwedBy(user, loans[id]) \in Nat
    BY <1>2, <1>3, <1>4 DEF OwedBy, Live, LiveStates
  <2>3. \A user \in Account : debtToken[user] \in Nat BY <1>3
  <2> QED BY <1>4, <2>1, <2>2, <2>3 DEF NoNewDebts, LiveStates
<1> HIDE DEF id, loan
<1>10. weth' \in Balances /\ UNCHANGED <<marketVars, pauseVars>> BY <1>1, <1>5
<1>11. <<>> \in Refunds BY DEF Refunds
<1> QED BY <1>2, <1>3, <1>4, <1>8, <1>9, <1>10, <1>11, LoanStep

\* redeem
LEMMA RedeemKeeps ==
  ASSUME PoolInv, NEW initiator \in Account, NEW nft \in NFT,
         NEW amount \in Nat, NEW fineLimit, NEW refund \in Refunds,
         RedeemAuction(initiator, nft, amount, fineLimit, refund)
  PROVE  PoolInv' /\ EndedPaid /\ PaidOnlyBy(initiator, refund) /\ NoNewDebts
<1> DEFINE id == nftToLoanIds[nft]
           loan == loans[id]
           first == loan.firstBidderAddress
           fine == BidFine(id)
           burned == RayDiv(amount, borrowIndex)
<1>1. /\ id # 0
      /\ RedeemLoan(id, amount, borrowIndex)
      /\ BurnDebt(loan.borrower, amount)
      /\ Transfers(refund \o <<Transfer(initiator, UTokenAddr, amount)>>
                   \o RefundBid(loan) \o <<Transfer(initiator, first, fine)>>)
      /\ UNCHANGED <<marketVars, pauseVars>>
  BY DEF RedeemAuction, MayRedeem
<1>2. /\ id \in LoanIds /\ Live(id) /\ loan \in LoanData /\ loan.nft = nft
      /\ loan.borrower \in Account /\ AuctionFieldsAgree(loan)
  BY <1>1, FoundLoan DEF PoolInv
<1>3. /\ borrowIndex \in Nat \ {0} /\ weth \in Balances
      /\ debtToken \in [Account -> Nat] /\ loan.scaledAmount \in Nat
  BY <1>2, PoolAmounts
<1>4. fine \in Nat BY <1>2, BidFineNat
<1>5. /\ burned \in Nat
      /\ debtToken' \in [Account -> Nat]
      /\ \A u \in Account :
           debtToken'[u] = debtToken[u] - (IF u = loan.borrower THEN burned ELSE 0)
      /\ borrowAllowances' \in [Account -> [Account -> Nat]]
      /\ NoNewDebts
  BY <1>1, <1>2, BurnEffect
\* The record: out of the auction, with the smaller debt.
<1>6. /\ LoanInv' /\ OthersKept(id) /\ loan.state = "Auction"
      /\ loans'[id].state = "Active" /\ loans'[id].borrower = loan.borrower
      /\ loans'[id].scaledAmount = loan.scaledAmount - burned
  <2>1. /\ LoanInv' /\ loan.state = "Auction"
        /\ OnlyRecordWritten(id, [CalledOff(loan) EXCEPT
             !.scaledAmount = loan.scaledAmount - burned])
    BY <1>1, <1>3, RedeemInv DEF PoolInv
  <2> QED BY <1>2, <2>1 DEF OnlyRecordWritten, LoanData, CalledOff
<1>7. first \in Account BY <1>2, <1>6 DEF AuctionFieldsAgree
\* The money: the repayment, the best bid out of the escrow, the fine.
<1>8. PICK b \in Balances, c \in Balances, d \in Balances, e \in Balances :
        /\ weth' = e
        /\ b[LendPoolAddr] = weth[LendPoolAddr]
        /\ \A a \in Account :
              Got(a, refund) \in Nat /\ b[a] = weth[a] + Got(a, refund)
        /\ Paid(b, initiator, UTokenAddr, amount, c)
        /\ Pays(c, RefundBid(loan), d)
        /\ Paid(d, initiator, first, fine, e)
  <2> DEFINE r == <<Transfer(initiator, UTokenAddr, amount)>>
             s == RefundBid(loan)
             t == <<Transfer(initiator, first, fine)>>
  <2>1. r \in Seq(TransferType) BY Addresses, TransferSeq
  <2>2. s \in Seq(TransferType) BY <1>2, RefundBidSeq
  <2>3. t \in Seq(TransferType) BY <1>4, <1>7, Addresses, TransferSeq
  <2>4. Transfers(refund \o r \o s \o t) BY <1>1
  <2> HIDE DEF r, s, t
  <2>5. refund \o r \in Seq(TransferType) BY <2>1, RefundsSeq, ConcatProperties
  <2>6. refund \o r \o s \in Seq(TransferType) BY <2>2, <2>5, ConcatProperties
  <2>7. refund \o r \o s \o t \in Seq(TransferType) BY <2>3, <2>6, ConcatProperties
  <2>8. PICK e \in Balances : weth' = e /\ Pays(weth, refund \o r \o s \o t, e)
    BY <1>3, <2>4, <2>7, TransfersPay
  <2>9. PICK d \in Balances : Pays(weth, refund \o r \o s, d) /\ Pays(d, t, e)
    BY <2>3, <2>6, <2>8, PayParts
  <2>10. PICK c \in Balances : Pays(weth, refund \o r, c) /\ Pays(c, s, d)
    BY <2>2, <2>5, <2>9, PayParts
  <2>11. PICK b \in Balances :
           /\ b[LendPoolAddr] = weth[LendPoolAddr]
           /\ \A a \in Account :
              Got(a, refund) \in Nat /\ b[a] = weth[a] + Got(a, refund)
           /\ Pays(b, r, c)
    BY <1>3, <2>1, <2>10, RefundThenPays
  <2> QED BY <2>8, <2>9, <2>10, <2>11 DEF r, s, t, Paid
<1>9. \A h \in Holder :
        /\ weth[h] \in Nat /\ b[h] \in Nat /\ c[h] \in Nat /\ d[h] \in Nat
        /\ e[h] \in Nat
        /\ c[h] = b[h] + Flow(h, initiator, UTokenAddr, amount)
        /\ d[h] = c[h] + Flow(h, LendPoolAddr, loan.bidderAddress, loan.bidPrice)
        /\ e[h] = d[h] + Flow(h, initiator, first, fine)
  <2>1. \A h \in Holder : c[h] = b[h] + Flow(h, initiator, UTokenAddr, amount)
    BY <1>8, Addresses, PayFlow
  <2>2. \A h \in Holder : d[h] = c[h] + Flow(h, LendPoolAddr, loan.bidderAddress,
                                             loan.bidPrice)
    BY <1>2, <1>8, RefundBidFlow
  <2>3. \A h \in Holder : e[h] = d[h] + Flow(h, initiator, first, fine)
    BY <1>4, <1>7, <1>8, Addresses, PayFlow
  <2> QED BY <1>3, <2>1, <2>2, <2>3 DEF Balances
<1>10. /\ loan.bidPrice \in Nat
       /\ loan.bidderAddress \in Account \cup {NullAddress}
       /\ loan.bidderAddress = NullAddress => loan.bidPrice = 0
       /\ EscrowOf(loan) = loan.bidPrice
       /\ \A a \in Account :
            BidBy(a, loan) = IF a = loan.bidderAddress THEN loan.bidPrice ELSE 0
  BY <1>2, RecordEscrow, RefundBidSeq DEF LoanData
<1>11. /\ weth'[LendPoolAddr]
            = weth[LendPoolAddr] - EscrowOf(loans[id]) + EscrowOf(loans'[id])
       /\ \A a \in Account : a # initiator =>
            weth'[a] + BidBy(a, loans'[id]) >= weth[a] + Got(a, refund) + BidBy(a, loans[id])
  <2>1. EscrowOf(loans'[id]) = 0 BY <1>6 DEF EscrowOf
  <2>2. \A a \in Account : BidBy(a, loans'[id]) = 0 BY <1>6 DEF BidBy
  <2> HIDE DEF first, fine
  <2>3. weth'[LendPoolAddr] = weth[LendPoolAddr] - loan.bidPrice
    BY <1>4, <1>7, <1>8, <1>9, <1>10, Addresses DEF Flow
  <2>4. ASSUME NEW a \in Account, a # initiator
        PROVE  weth'[a] >= weth[a] + Got(a, refund) + BidBy(a, loan)
    BY <1>4, <1>7, <1>8, <1>9, <1>10, <2>4, Addresses DEF Flow
  <2>5. \A h \in Holder : weth[h] \in Nat /\ weth'[h] \in Nat BY <1>8, <1>9
  <2> QED BY <1>10, <2>1, <2>2, <2>3, <2>4, <2>5, Addresses
<1>12. /\ \A user \in Account :
            debtToken'[user] = debtToken[user] - OwedBy(user, loans[id])
                                 + OwedBy(user, loans'[id])
       /\ loans'[id].state \in LiveStates
  <2> HIDE DEF burned
  <2>1. \A user \in Account : debtToken[user] \in Nat BY <1>3
  <2> QED BY <1>3, <1>5, <1>6, <2>1 DEF OwedBy, LiveStates
<1> HIDE DEF id, loan
<1>13. weth' \in Balances BY <1>8
<1> QED BY <1>1, <1>2, <1>5, <1>6, <1>11, <1>12, <1>13, LoanStep

\* Whoever is sent an NFT, an account gets it.
LEMMA ReceiverAccount ==
  ASSUME NEW account \in Account
  PROVE  Receiver(account) \in Account
BY PoolAssumption DEF Receiver

\* liquidate
LEMMA LiquidateKeeps ==
  ASSUME PoolInv, NEW initiator \in Account, NEW nft \in NFT,
         NEW amount, NEW refund \in Refunds,
         Liquidate(initiator, nft, amount, refund)
  PROVE  PoolInv' /\ EndedPaid /\ PaidOnlyBy(initiator, refund) /\ NoNewDebts
<1> DEFINE id == nftToLoanIds[nft]
           loan == loans[id]
           debt == BorrowAmount(id)
           winner == loan.bidderAddress
           extra == ExtraDebt(loan, debt)
           rest == IF loan.bidPrice > debt THEN loan.bidPrice - debt ELSE 0
           burned == RayDiv(debt, borrowIndex)
<1>1. /\ id # 0
      /\ LiquidateLoan(id, debt, Receiver(winner))
      /\ BurnDebt(loan.borrower, debt)
      /\ Transfers(refund \o (TransferAny(initiator, LendPoolAddr, extra)
                              \o <<Transfer(LendPoolAddr, UTokenAddr, debt)>>
                              \o TransferAny(LendPoolAddr, loan.borrower, rest)))
      /\ UNCHANGED <<marketVars, pauseVars>>
  BY DEF Liquidate, LiquidationTransfers
<1>2. /\ id \in LoanIds /\ Live(id) /\ loan \in LoanData /\ loan.nft = nft
      /\ loan.borrower \in Account /\ AuctionFieldsAgree(loan)
      /\ loan.state = "Auction" /\ winner \in Account
  <2>1. loan.state = "Auction" BY <1>1 DEF LiquidateLoan
  <2>2. /\ id \in LoanIds /\ Live(id) /\ loan \in LoanData /\ loan.nft = nft
        /\ loan.borrower \in Account /\ AuctionFieldsAgree(loan)
    BY <1>1, FoundLoan DEF PoolInv
  <2> QED BY <2>1, <2>2 DEF AuctionFieldsAgree
<1>3. /\ borrowIndex \in Nat \ {0} /\ weth \in Balances
      /\ debtToken \in [Account -> Nat] /\ loan.scaledAmount \in Nat
      /\ debt \in Nat /\ burned = loan.scaledAmount
  BY <1>2, PoolAmounts
<1>4. /\ loan.bidPrice \in Nat
      /\ EscrowOf(loan) = loan.bidPrice
      /\ \A a \in Account : BidBy(a, loan) = IF a = winner THEN loan.bidPrice ELSE 0
  BY <1>2, RecordEscrow
<1>5. /\ extra \in Nat /\ rest \in Nat
      /\ extra - debt - rest = 0 - loan.bidPrice
  <2> HIDE DEF debt
  <2> QED BY <1>3, <1>4 DEF ExtraDebt
<1>6. /\ debtToken' \in [Account -> Nat]
      /\ \A u \in Account :
           debtToken'[u] = debtToken[u] - (IF u = loan.borrower
                                           THEN loan.scaledAmount ELSE 0)
      /\ borrowAllowances' \in [Account -> [Account -> Nat]]
      /\ NoNewDebts
  <2>1. /\ debtToken' \in [Account -> Nat]
        /\ \A u \in Account :
             debtToken'[u] = debtToken[u] - (IF u = loan.borrower THEN burned ELSE 0)
        /\ borrowAllowances' \in [Account -> [Account -> Nat]]
        /\ NoNewDebts
    BY <1>1, <1>2, <1>3, BurnEffect
  <2> HIDE DEF burned
  <2> QED BY <1>3, <2>1
\* The record: closed; the NFT is the winner's.
<1>7. /\ LoanInv' /\ OthersKept(id)
      /\ loans'[id].state = "Defaulted"
      /\ nftOwner'[nft] = Receiver(winner)
  <2>1. Receiver(winner) \in Account BY <1>2, ReceiverAccount
  <2> HIDE DEF debt
  <2>2. /\ LoanInv'
        /\ RecordClosed(id, [loan EXCEPT !.state = "Defaulted",
                                         !.bidBorrowAmount = debt], Receiver(winner))
    BY <1>1, <1>3, <2>1, SeizeInv DEF PoolInv
  <2>3. nftOwner \in [NFT -> Account \cup {UNFTVault}]
    BY DEF PoolInv, LoanInv, LoanTypeOK
  <2> QED BY <1>2, <2>2, <2>3 DEF RecordClosed, LoanData
\* The money: the bid and what it lacks to the lenders, the rest of it to the
\* borrower.
<1>8. PICK b \in Balances, c \in Balances, d \in Balances, e \in Balances :
        /\ weth' = e
        /\ b[LendPoolAddr] = weth[LendPoolAddr]
        /\ b[UTokenAddr] = weth[UTokenAddr]
        /\ \A a \in Account :
              Got(a, refund) \in Nat /\ b[a] = weth[a] + Got(a, refund)
        /\ Pays(b, TransferAny(initiator, LendPoolAddr, extra), c)
        /\ Paid(c, LendPoolAddr, UTokenAddr, debt, d)
        /\ Pays(d, TransferAny(LendPoolAddr, loan.borrower, rest), e)
  <2> DEFINE r == TransferAny(initiator, LendPoolAddr, extra)
             s == <<Transfer(LendPoolAddr, UTokenAddr, debt)>>
             t == TransferAny(LendPoolAddr, loan.borrower, rest)
  <2>1. /\ r \in Seq(TransferType) /\ s \in Seq(TransferType)
        /\ t \in Seq(TransferType)
    <3> HIDE DEF extra, rest, debt
    <3> QED BY <1>2, <1>3, <1>5, Addresses, TransferSeq, TransferAnySeq
  <2>2. Transfers(refund \o (r \o s \o t)) BY <1>1
  <2> HIDE DEF r, s, t
  <2>3. r \o s \in Seq(TransferType) BY <2>1, ConcatProperties
  <2>4. r \o s \o t \in Seq(TransferType) BY <2>1, <2>3, ConcatProperties
  <2>5. refund \o (r \o s \o t) \in Seq(TransferType)
    BY <2>4, RefundsSeq, ConcatProperties
  <2>6. PICK e \in Balances : weth' = e /\ Pays(weth, refund \o (r \o s \o t), e)
    BY <1>3, <2>2, <2>5, TransfersPay
  <2>7. PICK b \in Balances :
          /\ b[LendPoolAddr] = weth[LendPoolAddr]
          /\ b[UTokenAddr] = weth[UTokenAddr]
          /\ \A a \in Account :
              Got(a, refund) \in Nat /\ b[a] = weth[a] + Got(a, refund)
          /\ Pays(b, r \o s \o t, e)
    BY <1>3, <2>4, <2>6, RefundThenPays
  <2>8. PICK d \in Balances : Pays(b, r \o s, d) /\ Pays(d, t, e)
    BY <2>1, <2>3, <2>7, PayParts
  <2>9. PICK c \in Balances : Pays(b, r, c) /\ Pays(c, s, d)
    BY <2>1, <2>8, PayParts
  <2> QED BY <2>6, <2>7, <2>8, <2>9 DEF r, s, t, Paid
<1> HIDE DEF extra, rest, debt
<1>9. \A h \in Holder :
        /\ weth[h] \in Nat /\ b[h] \in Nat /\ c[h] \in Nat /\ d[h] \in Nat
        /\ e[h] \in Nat
        /\ c[h] = b[h] + Flow(h, initiator, LendPoolAddr, extra)
        /\ d[h] = c[h] + Flow(h, LendPoolAddr, UTokenAddr, debt)
        /\ e[h] = d[h] + Flow(h, LendPoolAddr, loan.borrower, rest)
  <2>1. \A h \in Holder : c[h] = b[h] + Flow(h, initiator, LendPoolAddr, extra)
    BY <1>5, <1>8, Addresses, PayAnyFlow
  <2>2. \A h \in Holder : d[h] = c[h] + Flow(h, LendPoolAddr, UTokenAddr, debt)
    BY <1>3, <1>8, Addresses, PayFlow
  <2>3. \A h \in Holder : e[h] = d[h] + Flow(h, LendPoolAddr, loan.borrower, rest)
    BY <1>2, <1>5, <1>8, Addresses, PayAnyFlow
  <2> QED BY <1>3, <2>1, <2>2, <2>3 DEF Balances
<1>10. /\ weth'[LendPoolAddr] = weth[LendPoolAddr] - loan.bidPrice
       /\ weth'[UTokenAddr] = weth[UTokenAddr] + debt
       /\ \A a \in Account : a # initiator => weth'[a] >= weth[a] + Got(a, refund)
  <2>1. weth'[LendPoolAddr] = weth[LendPoolAddr] - loan.bidPrice
    BY <1>2, <1>3, <1>4, <1>5, <1>8, <1>9, Addresses DEF Flow
  <2>2. weth'[UTokenAddr] = weth[UTokenAddr] + debt
    <3>1. /\ Flow(UTokenAddr, initiator, LendPoolAddr, extra) = 0
          /\ Flow(UTokenAddr, LendPoolAddr, UTokenAddr, debt) = debt
          /\ Flow(UTokenAddr, LendPoolAddr, loan.borrower, rest) = 0
      BY <1>2, <1>3, <1>5, Addresses DEF Flow
    <3>2. e[UTokenAddr] = b[UTokenAddr] + debt
      BY <1>3, <1>9, <3>1, Addresses
    <3> QED BY <1>8, <3>2
  <2>3. \A a \in Account : a # initiator => weth'[a] >= weth[a] + Got(a, refund)
    BY <1>2, <1>3, <1>4, <1>5, <1>8, <1>9, Addresses DEF Flow
  <2> QED BY <2>1, <2>2, <2>3
<1>11. weth' \in Balances BY <1>8
<1>12. ASSUME NEW a \in Account, a # initiator
       PROVE  \/ WinsAuction(a, id)
              \/ weth'[a] + BidBy(a, loans'[id]) >= weth[a] + Got(a, refund) + BidBy(a, loans[id])
  <2>1. BidBy(a, loans'[id]) = 0 BY <1>7 DEF BidBy
  <2>2. weth[a] \in Nat /\ weth'[a] \in Nat /\ Got(a, refund) \in Nat
        /\ weth'[a] >= weth[a] + Got(a, refund)
    BY <1>8, <1>9, <1>10, <1>12, Addresses, GotNat
  <2>3. CASE a = winner
    <3>1. /\ Wealth(a)' - Wealth(a)
               = (weth'[a] - weth[a]) + (BidBy(a, loans'[id]) - BidBy(a, loans[id]))
          /\ Wealth(a) \in Nat /\ Wealth(a)' \in Nat
      BY <1>2, <1>7, <1>11, LoanStepWealth
    <3>2. BidBy(a, loans[id]) = loan.bidPrice BY <1>4, <2>3
    <3>3. Wealth(a)' >= Wealth(a) - loans[id].bidPrice
      BY <1>4, <2>1, <2>2, <3>1, <3>2
    <3> QED BY <1>2, <1>7, <2>3, <3>3 DEF WinsAuction
  <2>4. CASE a # winner
    <3>1. BidBy(a, loans[id]) = 0 BY <1>4, <2>4
    <3> QED BY <2>1, <2>2, <3>1
  <2> QED BY <2>3, <2>4
<1>13. /\ EscrowOf(loans'[id]) = 0
       /\ \A user \in Account :
            debtToken'[user] = debtToken[user] - OwedBy(user, loans[id])
                                 + OwedBy(user, loans'[id])
  <2>1. \A user \in Account : debtToken[user] \in Nat BY <1>3
  <2> QED BY <1>2, <1>3, <1>6, <1>7, <2>1 DEF OwedBy, EscrowOf, LiveStates
<1>14. weth'[LendPoolAddr]
         = weth[LendPoolAddr] - EscrowOf(loans[id]) + EscrowOf(loans'[id])
  BY <1>4, <1>9, <1>10, <1>13, Addresses
<1>15. weth'[UTokenAddr] = weth[UTokenAddr] + BorrowAmount(id)
  BY <1>10 DEF debt
<1> HIDE DEF id, loan
<1> QED BY <1>1, <1>2, <1>6, <1>7, <1>11, <1>12, <1>13, <1>14, <1>15, LoanStep

\* buyout
LEMMA BuyoutKeeps ==
  ASSUME PoolInv, NEW initiator \in Account, NEW onBehalfOf \in Account,
         NEW nft \in NFT, NEW refund \in Refunds,
         Buyout(initiator, onBehalfOf, nft, refund)
  PROVE  PoolInv' /\ EndedPaid /\ PaidOnlyBy(initiator, refund) /\ NoNewDebts
<1> DEFINE id == nftToLoanIds[nft]
           loan == loans[id]
           first == loan.firstBidderAddress
           debt == BorrowAmount(id)
           price == BuyoutPrice(onBehalfOf, nft, debt)
           bidFine == BidFine(id)
           rest == price - debt
           fine == IF loan.bidderAddress = NullAddress THEN 0
                   ELSE IF rest >= bidFine THEN bidFine ELSE rest
           left == rest - fine
           burned == RayDiv(debt, borrowIndex)
<1>1. /\ id # 0
      /\ BuyoutLoan(id, debt, Receiver(onBehalfOf))
      /\ BurnDebt(loan.borrower, debt)
      /\ Transfers(refund \o BuyoutTransfers(initiator, loan, price, debt, bidFine))
      /\ UNCHANGED <<marketVars, pauseVars>>
  BY DEF Buyout
<1>2. /\ id \in LoanIds /\ Live(id) /\ loan \in LoanData /\ loan.nft = nft
      /\ loan.borrower \in Account /\ AuctionFieldsAgree(loan)
  BY <1>1, FoundLoan DEF PoolInv
<1>3. /\ borrowIndex \in Nat \ {0} /\ weth \in Balances
      /\ debtToken \in [Account -> Nat] /\ loan.scaledAmount \in Nat
      /\ debt \in Nat /\ burned = loan.scaledAmount
  BY <1>2, PoolAmounts
<1>4. /\ loan.bidPrice \in Nat
      /\ loan.bidderAddress \in Account \cup {NullAddress}
      /\ loan.bidderAddress = NullAddress => loan.bidPrice = 0
      /\ loan.bidderAddress # NullAddress => first \in Account
      /\ EscrowOf(loan) = loan.bidPrice
      /\ \A a \in Account :
           BidBy(a, loan) = IF a = loan.bidderAddress THEN loan.bidPrice ELSE 0
  BY <1>2, RecordEscrow, RefundBidSeq, LoanAssumption
  DEF LoanData, AuctionFieldsAgree
<1>5. /\ price \in Nat /\ fine \in Nat /\ left \in Nat
      /\ fine # 0 => first \in Account
      /\ price - debt - fine - left = 0
  <2>1. price \in Nat /\ price >= debt BY <1>3, BuyoutPriceCovers
  <2>2. bidFine \in Nat BY <1>2, BidFineNat
  <2> HIDE DEF price, bidFine, debt, first
  <2> QED BY <1>3, <1>4, <2>1, <2>2
<1>6. /\ debtToken' \in [Account -> Nat]
      /\ \A u \in Account :
           debtToken'[u] = debtToken[u] - (IF u = loan.borrower
                                           THEN loan.scaledAmount ELSE 0)
      /\ borrowAllowances' \in [Account -> [Account -> Nat]]
      /\ NoNewDebts
  <2>1. /\ debtToken' \in [Account -> Nat]
        /\ \A u \in Account :
             debtToken'[u] = debtToken[u] - (IF u = loan.borrower THEN burned ELSE 0)
        /\ borrowAllowances' \in [Account -> [Account -> Nat]]
        /\ NoNewDebts
    BY <1>1, <1>2, <1>3, BurnEffect
  <2> HIDE DEF burned
  <2> QED BY <1>3, <2>1
\* The record: closed.
<1>7. LoanInv' /\ OthersKept(id) /\ loans'[id].state = "Defaulted"
  <2>1. Receiver(onBehalfOf) \in Account BY ReceiverAccount
  <2> HIDE DEF debt
  <2>2. /\ LoanInv'
        /\ RecordClosed(id, [loan EXCEPT !.state = "Defaulted",
                                         !.bidBorrowAmount = debt],
                        Receiver(onBehalfOf))
    BY <1>1, <1>3, <2>1, SeizeInv DEF PoolInv
  <2> QED BY <1>2, <2>2 DEF RecordClosed, LoanData
\* The money: the price in; the debt, the best bid, the fine and what is left
\* out.
<1>8. PICK b \in Balances, c \in Balances, d \in Balances, e \in Balances,
           f \in Balances, g \in Balances :
        /\ weth' = g
        /\ b[LendPoolAddr] = weth[LendPoolAddr]
        /\ b[UTokenAddr] = weth[UTokenAddr]
        /\ \A a \in Account :
              Got(a, refund) \in Nat /\ b[a] = weth[a] + Got(a, refund)
        /\ Paid(b, initiator, LendPoolAddr, price, c)
        /\ Paid(c, LendPoolAddr, UTokenAddr, debt, d)
        /\ Pays(d, RefundBid(loan), e)
        /\ Pays(e, TransferAny(LendPoolAddr, first, fine), f)
        /\ Pays(f, TransferAny(LendPoolAddr, loan.borrower, left), g)
  <2> DEFINE q == <<Transfer(initiator, LendPoolAddr, price)>>
             r == <<Transfer(LendPoolAddr, UTokenAddr, debt)>>
             s == RefundBid(loan)
             t == TransferAny(LendPoolAddr, first, fine)
             u == TransferAny(LendPoolAddr, loan.borrower, left)
  <2>1. Transfers(refund \o (q \o r \o s \o t \o u))
    <3>1. <<Transfer(initiator, LendPoolAddr, price),
            Transfer(LendPoolAddr, UTokenAddr, debt)>> = q \o r
      OBVIOUS
    <3> QED BY <1>1, <3>1, Zenon DEF BuyoutTransfers
  <2>2. /\ q \in Seq(TransferType) /\ r \in Seq(TransferType)
        /\ s \in Seq(TransferType) /\ t \in Seq(TransferType)
        /\ u \in Seq(TransferType)
    <3> HIDE DEF price, fine, left, debt, first
    <3>1. s \in Seq(TransferType) BY <1>2, RefundBidSeq
    <3> QED BY <1>2, <1>3, <1>5, <3>1, Addresses, TransferSeq, TransferAnySeq
  <2> HIDE DEF q, r, s, t, u
  <2>3. q \o r \in Seq(TransferType) BY <2>2, ConcatProperties
  <2>4. q \o r \o s \in Seq(TransferType) BY <2>2, <2>3, ConcatProperties
  <2>5. q \o r \o s \o t \in Seq(TransferType) BY <2>2, <2>4, ConcatProperties
  <2>6. q \o r \o s \o t \o u \in Seq(TransferType) BY <2>2, <2>5, ConcatProperties
  <2>7. refund \o (q \o r \o s \o t \o u) \in Seq(TransferType)
    BY <2>6, RefundsSeq, ConcatProperties
  <2>8. PICK g \in Balances :
          weth' = g /\ Pays(weth, refund \o (q \o r \o s \o t \o u), g)
    BY <1>3, <2>1, <2>7, TransfersPay
  <2>9. PICK b \in Balances :
          /\ b[LendPoolAddr] = weth[LendPoolAddr]
          /\ b[UTokenAddr] = weth[UTokenAddr]
          /\ \A a \in Account :
              Got(a, refund) \in Nat /\ b[a] = weth[a] + Got(a, refund)
          /\ Pays(b, q \o r \o s \o t \o u, g)
    BY <1>3, <2>6, <2>8, RefundThenPays
  <2>10. PICK f \in Balances : Pays(b, q \o r \o s \o t, f) /\ Pays(f, u, g)
    BY <2>2, <2>5, <2>9, PayParts
  <2>11. PICK e \in Balances : Pays(b, q \o r \o s, e) /\ Pays(e, t, f)
    BY <2>2, <2>4, <2>10, PayParts
  <2>12. PICK d \in Balances : Pays(b, q \o r, d) /\ Pays(d, s, e)
    BY <2>2, <2>3, <2>11, PayParts
  <2>13. PICK c \in Balances : Pays(b, q, c) /\ Pays(c, r, d)
    BY <2>2, <2>12, PayParts
  <2> QED BY <2>8, <2>9, <2>10, <2>11, <2>12, <2>13 DEF q, r, s, t, u, Paid
<1> HIDE DEF price, fine, left, debt, first
<1>9. \A h \in Holder :
        /\ weth[h] \in Nat /\ b[h] \in Nat /\ c[h] \in Nat /\ d[h] \in Nat
        /\ e[h] \in Nat /\ f[h] \in Nat /\ g[h] \in Nat
        /\ c[h] = b[h] + Flow(h, initiator, LendPoolAddr, price)
        /\ d[h] = c[h] + Flow(h, LendPoolAddr, UTokenAddr, debt)
        /\ e[h] = d[h] + Flow(h, LendPoolAddr, loan.bidderAddress, loan.bidPrice)
        /\ f[h] = e[h] + Flow(h, LendPoolAddr, first, fine)
        /\ g[h] = f[h] + Flow(h, LendPoolAddr, loan.borrower, left)
  <2>1. \A h \in Holder : c[h] = b[h] + Flow(h, initiator, LendPoolAddr, price)
    BY <1>5, <1>8, Addresses, PayFlow
  <2>2. \A h \in Holder : d[h] = c[h] + Flow(h, LendPoolAddr, UTokenAddr, debt)
    BY <1>3, <1>8, Addresses, PayFlow
  <2>3. \A h \in Holder : e[h] = d[h] + Flow(h, LendPoolAddr, loan.bidderAddress,
                                             loan.bidPrice)
    BY <1>2, <1>8, RefundBidFlow
  <2>4. \A h \in Holder : f[h] = e[h] + Flow(h, LendPoolAddr, first, fine)
    BY <1>5, <1>8, Addresses, PayAnyFlow
  <2>5. \A h \in Holder : g[h] = f[h] + Flow(h, LendPoolAddr, loan.borrower, left)
    BY <1>2, <1>5, <1>8, Addresses, PayAnyFlow
  <2> QED BY <1>3, <2>1, <2>2, <2>3, <2>4, <2>5 DEF Balances
<1>10. /\ weth'[LendPoolAddr] = weth[LendPoolAddr] - loan.bidPrice
       /\ weth'[UTokenAddr] = weth[UTokenAddr] + debt
       /\ \A a \in Account : a # initiator => weth'[a] >= weth[a] + Got(a, refund) + BidBy(a, loan)
  <2>1. weth'[LendPoolAddr] = weth[LendPoolAddr] - loan.bidPrice
    <3>1. /\ Flow(LendPoolAddr, initiator, LendPoolAddr, price) = price
          /\ Flow(LendPoolAddr, LendPoolAddr, UTokenAddr, debt) = 0 - debt
          /\ Flow(LendPoolAddr, LendPoolAddr, loan.bidderAddress, loan.bidPrice)
               = 0 - loan.bidPrice
          /\ Flow(LendPoolAddr, LendPoolAddr, first, fine) = 0 - fine
          /\ Flow(LendPoolAddr, LendPoolAddr, loan.borrower, left) = 0 - left
      BY <1>2, <1>3, <1>4, <1>5, Addresses DEF Flow
    <3>2. g[LendPoolAddr] = b[LendPoolAddr] + price - debt - loan.bidPrice - fine - left
      BY <1>3, <1>4, <1>5, <1>9, <3>1, Addresses
    <3> QED BY <1>3, <1>4, <1>5, <1>8, <1>9, <3>2, Addresses
  <2>2. weth'[UTokenAddr] = weth[UTokenAddr] + debt
    <3>1. /\ Flow(UTokenAddr, initiator, LendPoolAddr, price) = 0
          /\ Flow(UTokenAddr, LendPoolAddr, UTokenAddr, debt) = debt
          /\ Flow(UTokenAddr, LendPoolAddr, loan.bidderAddress, loan.bidPrice) = 0
          /\ Flow(UTokenAddr, LendPoolAddr, first, fine) = 0
          /\ Flow(UTokenAddr, LendPoolAddr, loan.borrower, left) = 0
      BY <1>2, <1>3, <1>4, <1>5, Addresses DEF Flow
    <3>2. g[UTokenAddr] = b[UTokenAddr] + debt
      BY <1>3, <1>9, <3>1, Addresses
    <3> QED BY <1>8, <3>2
  <2>3. \A a \in Account : a # initiator => weth'[a] >= weth[a] + Got(a, refund) + BidBy(a, loan)
    BY <1>2, <1>3, <1>4, <1>5, <1>8, <1>9, Addresses DEF Flow
  <2> QED BY <2>1, <2>2, <2>3
<1>11. /\ weth'[LendPoolAddr]
            = weth[LendPoolAddr] - EscrowOf(loans[id]) + EscrowOf(loans'[id])
       /\ \A user \in Account :
            debtToken'[user] = debtToken[user] - OwedBy(user, loans[id])
                                 + OwedBy(user, loans'[id])
       /\ \A a \in Account : a # initiator =>
            weth'[a] + BidBy(a, loans'[id]) >= weth[a] + Got(a, refund) + BidBy(a, loans[id])
  <2>1. \A user \in Account : debtToken[user] \in Nat BY <1>3
  <2>2. EscrowOf(loans'[id]) = 0 /\ \A a \in Account : BidBy(a, loans'[id]) = 0
    BY <1>7 DEF EscrowOf, BidBy
  <2>3. \A h \in Holder : weth[h] \in Nat /\ weth'[h] \in Nat BY <1>8, <1>9
  <2>4. \A user \in Account :
          /\ OwedBy(user, loans'[id]) = 0
          /\ OwedBy(user, loans[id]) = IF user = loan.borrower
                                       THEN loan.scaledAmount ELSE 0
    BY <1>2, <1>7 DEF OwedBy, Live, LiveStates
  <2>5. \A user \in Account :
          debtToken'[user] = debtToken[user] - OwedBy(user, loans[id])
                               + OwedBy(user, loans'[id])
    BY <1>3, <1>6, <2>1, <2>4
  <2>6. weth'[LendPoolAddr]
          = weth[LendPoolAddr] - EscrowOf(loans[id]) + EscrowOf(loans'[id])
    BY <1>4, <1>10, <2>2, <2>3, Addresses
  <2>7. \A a \in Account : a # initiator =>
          weth'[a] + BidBy(a, loans'[id]) >= weth[a] + Got(a, refund) + BidBy(a, loans[id])
    BY <1>4, <1>10, <2>2, <2>3, Addresses
  <2> QED BY <2>5, <2>6, <2>7
<1>12. weth' \in Balances BY <1>8
<1>13. weth'[UTokenAddr] = weth[UTokenAddr] + BorrowAmount(id)
  BY <1>10 DEF debt
<1> HIDE DEF id, loan
<1>14. /\ UNCHANGED <<marketVars, pauseVars>> /\ id \in LoanIds
       /\ debtToken' \in [Account -> Nat]
       /\ borrowAllowances' \in [Account -> [Account -> Nat]]
  BY <1>1, <1>2, <1>6
<1>15. PoolInv' /\ EndedPaid /\ PaidOnlyBy(initiator, refund)
  BY <1>7, <1>11, <1>12, <1>13, <1>14, LoanStep
<1> QED BY <1>6, <1>15

\* What DebtNeedsConsent says of a step.
Consented ==
  \A user \in Account :
    debtToken'[user] > debtToken[user] =>
      \/ weth'[user] > weth[user]
      \/ \E delegatee \in Account :
           /\ weth'[delegatee] > weth[delegatee]
           /\ borrowAllowances[user][delegatee]
                - borrowAllowances'[user][delegatee]
                = weth'[delegatee] - weth[delegatee]

LEMMA NoNewDebtsConsented ==
  ASSUME PoolInv, NoNewDebts, debtToken' \in [Account -> Nat]
  PROVE  Consented
<1>1. \A user \in Account : debtToken[user] \in Nat /\ debtToken'[user] \in Nat
  BY DEF PoolInv, PoolTypeOK
<1> QED BY <1>1 DEF NoNewDebts, Consented

\* borrow
LEMMA BorrowKeeps ==
  ASSUME PoolInv, NEW initiator \in Account, NEW onBehalfOf \in Account,
         NEW nft \in NFT, NEW amount \in Nat \ {0}, NEW refund \in Refunds,
         Borrow(initiator, onBehalfOf, nft, amount, refund)
  PROVE  /\ PoolInv' /\ EndedPaid /\ PaidOnlyBy(initiator, refund)
         /\ refund = <<>> => Consented
<1> DEFINE found == nftToLoanIds[nft]
           id == IF found = 0 THEN loanIdTracker ELSE found
           loan == loans[id]
           added == RayDiv(amount, borrowIndex)
<1>1. /\ IF found = 0
         THEN CreateLoan(initiator, onBehalfOf, nft, amount, borrowIndex)
         ELSE /\ onBehalfOf = loans[found].borrower
              /\ IncreaseLoan(found, amount, borrowIndex)
      /\ MintDebt(initiator, onBehalfOf, amount)
      /\ Transfers(refund \o <<Transfer(UTokenAddr, initiator, amount)>>)
      /\ UNCHANGED <<marketVars, pauseVars>>
  BY DEF Borrow
<1>2. /\ borrowIndex \in Nat \ {0} /\ weth \in Balances
      /\ debtToken \in [Account -> Nat]
  BY DEF PoolInv, PoolTypeOK, Balances
<1>3. /\ added \in Nat
      /\ debtToken' \in [Account -> Nat]
      /\ \A u \in Account :
           debtToken'[u] = debtToken[u] + (IF u = onBehalfOf THEN added ELSE 0)
      /\ borrowAllowances' \in [Account -> [Account -> Nat]]
      /\ initiator # onBehalfOf =>
           borrowAllowances[onBehalfOf][initiator]
             - borrowAllowances'[onBehalfOf][initiator] = amount
  BY <1>1, MintEffect
\* The record: a new one, or a greater debt.
<1>4. /\ id \in LoanIds /\ LoanInv' /\ OthersKept(id)
      /\ loan \in LoanData
      /\ loans'[id].state = "Active" /\ loans'[id].borrower = onBehalfOf
      /\ loan.state # "Auction"
      /\ \/ loan.state = "None" /\ loans'[id].scaledAmount = added
         \/ /\ loan.state = "Active" /\ loan.borrower = onBehalfOf
            /\ loans'[id].scaledAmount = loan.scaledAmount + added
  <2>1. CASE found = 0
    <3>1. CreateLoan(initiator, onBehalfOf, nft, amount, borrowIndex)
      BY <1>1, <2>1
    <3>2. LoanInv' BY <1>2, <3>1, CreateLoanInv DEF PoolInv
    <3>3. /\ id = loanIdTracker /\ id \in LoanIds /\ loans \in [LoanIds -> LoanData]
          /\ loan.state = "None"
      <4>1. id = loanIdTracker /\ id \in LoanIds BY <2>1, <3>1 DEF CreateLoan
      <4>2. loans \in [LoanIds -> LoanData] /\ id \in Nat
        BY <4>1, LoanAssumption DEF PoolInv, LoanInv, LoanTypeOK, LoanIds
      <4>3. id >= loanIdTracker BY <4>1, <4>2
      <4> QED BY <4>1, <4>2, <4>3 DEF PoolInv, LoanInv, FreshLoanIds
    <3>4. /\ OthersKept(id)
          /\ loans'[id] = [NoLoan EXCEPT !.state = "Active", !.borrower = onBehalfOf,
                                         !.nft = nft, !.scaledAmount = added]
      BY <3>1, <3>3 DEF CreateLoan, OthersKept
    <3>5. /\ loans'[id].state = "Active" /\ loans'[id].borrower = onBehalfOf
          /\ loans'[id].scaledAmount = added
      BY <3>4 DEF NoLoan
    <3> QED BY <3>2, <3>3, <3>4, <3>5
  <2>2. CASE found # 0
    <3>1. onBehalfOf = loans[found].borrower /\ IncreaseLoan(found, amount, borrowIndex)
      BY <1>1, <2>2
    <3>2. found \in LoanIds /\ loans[found] \in LoanData
      BY <2>2, FoundLoan DEF PoolInv
    <3>3. /\ LoanInv' /\ loans[found].state = "Active"
          /\ OnlyRecordWritten(found, [loans[found] EXCEPT
               !.scaledAmount = loans[found].scaledAmount + added])
      BY <1>2, <2>2, <3>1, IncreaseInv DEF PoolInv
    <3> QED BY <2>2, <3>1, <3>2, <3>3 DEF OnlyRecordWritten, LoanData
  <2> QED BY <2>1, <2>2
\* The money: from the lenders to the initiator.
<1>5. PICK b \in Balances, c \in Balances :
        /\ weth' = c
        /\ Pays(weth, refund, b)
        /\ b[LendPoolAddr] = weth[LendPoolAddr]
        /\ \A a \in Account :
              Got(a, refund) \in Nat /\ b[a] = weth[a] + Got(a, refund)
        /\ Paid(b, UTokenAddr, initiator, amount, c)
  <2> DEFINE s == <<Transfer(UTokenAddr, initiator, amount)>>
  <2>1. s \in Seq(TransferType) BY Addresses, TransferSeq
  <2>2. Transfers(refund \o s) BY <1>1
  <2> HIDE DEF s
  <2>3. refund \o s \in Seq(TransferType) BY <2>1, RefundsSeq, ConcatProperties
  <2>4. PICK c \in Balances : weth' = c /\ Pays(weth, refund \o s, c)
    BY <1>2, <2>2, <2>3, TransfersPay
  <2>5. PICK b \in Balances : Pays(weth, refund, b) /\ Pays(b, s, c)
    BY <2>1, <2>4, RefundsSeq, PayParts
  <2>6. b[LendPoolAddr] = weth[LendPoolAddr] /\ \A a \in Account :
              Got(a, refund) \in Nat /\ b[a] = weth[a] + Got(a, refund)
    BY <1>2, <2>5, RefundsKeep, GotNat
  <2> QED BY <2>4, <2>5, <2>6 DEF s, Paid
<1>6. \A h \in Holder : /\ weth[h] \in Nat /\ b[h] \in Nat /\ c[h] \in Nat
                        /\ c[h] = b[h] + Flow(h, UTokenAddr, initiator, amount)
  <2>1. \A h \in Holder : c[h] = b[h] + Flow(h, UTokenAddr, initiator, amount)
    BY <1>5, Addresses, PayFlow
  <2> QED BY <1>2, <2>1 DEF Balances
<1>7. /\ weth'[LendPoolAddr] = weth[LendPoolAddr]
      /\ \A a \in Account : weth'[a] >= weth[a] + Got(a, refund)
      /\ weth'[initiator] = b[initiator] + amount
  BY <1>5, <1>6, Addresses DEF Flow
<1>8. refund = <<>> => Consented
  <2> SUFFICES ASSUME refund = <<>>, NEW user \in Account,
                      debtToken'[user] > debtToken[user]
               PROVE  \/ weth'[user] > weth[user]
                      \/ \E delegatee \in Account :
                           /\ weth'[delegatee] > weth[delegatee]
                           /\ borrowAllowances[user][delegatee]
                                - borrowAllowances'[user][delegatee]
                                = weth'[delegatee] - weth[delegatee]
    BY DEF Consented
  <2>1. b = weth BY <1>5, PayNothing
  <2>2. /\ weth'[initiator] > weth[initiator]
        /\ weth'[initiator] - weth[initiator] = amount
    BY <1>6, <1>7, <2>1, Addresses
  <2>3. user = onBehalfOf
    <3>1. debtToken[user] \in Nat BY <1>2
    <3> HIDE DEF added
    <3> QED BY <1>3, <3>1
  <2>4. CASE initiator = user BY <2>2, <2>4
  <2>5. CASE initiator # user BY <1>3, <2>2, <2>3, <2>5
  <2> QED BY <2>4, <2>5
<1> HIDE DEF found, id, loan, added
<1>9. /\ EscrowOf(loans[id]) = 0 /\ EscrowOf(loans'[id]) = 0
      /\ \A a \in Account : BidBy(a, loans[id]) = 0 /\ BidBy(a, loans'[id]) = 0
      /\ \A user \in Account :
           debtToken'[user] = debtToken[user] - OwedBy(user, loans[id])
                                + OwedBy(user, loans'[id])
      /\ loans'[id].state \in LiveStates
  <2>1. loans[id].state # "Auction" /\ loans'[id].state = "Active" BY <1>4 DEF loan
  <2>2. \A user \in Account : debtToken[user] \in Nat BY <1>2
  <2>3. loan.scaledAmount \in Nat BY <1>4, LoanAssumption DEF LoanData
  <2>4. \A user \in Account :
           debtToken'[user] = debtToken[user] - OwedBy(user, loans[id])
                                + OwedBy(user, loans'[id])
    BY <1>3, <1>4, <2>2, <2>3 DEF OwedBy, LiveStates, loan
  <2> QED BY <2>1, <2>4 DEF EscrowOf, BidBy, LiveStates
<1>10. /\ weth'[LendPoolAddr]
            = weth[LendPoolAddr] - EscrowOf(loans[id]) + EscrowOf(loans'[id])
       /\ \A a \in Account : a # initiator =>
            weth'[a] + BidBy(a, loans'[id]) >= weth[a] + Got(a, refund) + BidBy(a, loans[id])
       /\ weth' \in Balances
  <2>1. \A h \in Holder : weth[h] \in Nat /\ weth'[h] \in Nat BY <1>5, <1>6
  <2> QED BY <1>5, <1>7, <1>9, <2>1, Addresses
<1> QED BY <1>1, <1>3, <1>4, <1>8, <1>9, <1>10, LoanStep

-----------------------------------------------------------------------------
(* The other steps.                                                        *)

LEMMA WealthNat == PoolInv => \A a \in Account : Wealth(a) \in Nat
<1> SUFFICES ASSUME PoolInv, NEW a \in Account PROVE Wealth(a) \in Nat
  OBVIOUS
<1>1. weth[a] \in Nat BY Addresses DEF PoolInv, PoolTypeOK
<1>2. SumOver(BidPrices, BestBidsOf(a)) \in Nat
  BY LedgerTypes DEF PoolInv, LoanInv, BestBidsOf, Auctions
<1> QED BY <1>1, <1>2 DEF Wealth

\* A step that changes nobody's loans, debts or wealth for the worse, but for
\* the payer's.
LEMMA FrameEffects ==
  ASSUME PoolInv, UNCHANGED <<loans, debtToken>>, weth' \in Balances,
         NEW payer, \A a \in Account : a # payer => weth'[a] >= weth[a]
  PROVE  EndedPaid /\ PaidOnlyBy(payer, <<>>) /\ Consented
<1>0. \A a \in Account : Wealth(a) \in Nat BY WealthNat
<1>1. EndedPaid BY DEF EndedPaid, Live
<1>2. ASSUME NEW a \in Account, a # payer
      PROVE  Wealth(a)' >= Wealth(a)
  <2> DEFINE bids == SumOver(BidPrices, BestBidsOf(a))
  <2>1. bids \in Nat BY LedgerTypes DEF PoolInv, LoanInv, BestBidsOf, Auctions
  <2>2. BidPrices' = BidPrices /\ BestBidsOf(a)' = BestBidsOf(a)
    BY DEF BidPrices, BestBidsOf, Auctions
  <2>3. Wealth(a) = weth[a] + bids BY DEF Wealth
  <2>4. Wealth(a)' = weth'[a] + bids BY <2>2 DEF Wealth
  <2>5. weth[a] \in Nat /\ weth'[a] \in Nat /\ weth'[a] >= weth[a]
    BY <1>2, Addresses DEF PoolInv, PoolTypeOK, Balances
  <2> HIDE DEF bids
  <2> QED BY <2>1, <2>3, <2>4, <2>5
<1>3. PaidOnlyBy(payer, <<>>)
  <2>1. \A a \in Account : Got(a, <<>>) = 0 BY DEF Got
  <2>2. \A a \in Account : a # payer => Wealth(a)' >= Wealth(a) + Got(a, <<>>)
    BY <1>0, <1>2, <2>1
  <2> QED BY <2>2 DEF PaidOnlyBy
<1>4. Consented
  <2>1. NoNewDebts /\ debtToken' \in [Account -> Nat]
    BY DEF PoolInv, PoolTypeOK, NoNewDebts
  <2> QED BY <2>1, NoNewDebtsConsented
<1> QED BY <1>1, <1>3, <1>4

\* deposit and withdraw
LEMMA LenderStepKeeps ==
  ASSUME PoolInv, LenderStep
  PROVE  PoolInv' /\ EndedPaid /\ Consented
           /\ \E payer \in Account : PaidOnlyBy(payer, <<>>)
<1>1. PICK lender \in Lenders, amount \in Amounts :
        Deposit(lender, amount) \/ Withdraw(lender, amount)
  BY DEF LenderStep
<1>2. /\ lender \in Account /\ amount \in Nat /\ weth \in Balances
      /\ lender \in Holder
  BY PoolAssumption, LoanAssumption DEF PoolInv, PoolTypeOK, Balances
<1>3. UNCHANGED <<loanVars, debtVars, marketVars, pauseVars>>
  BY <1>1 DEF Deposit, Withdraw
<1>4. PICK from \in Holder, to \in Holder :
        /\ {from, to} = {lender, UTokenAddr}
        /\ Transfers(<<Transfer(from, to, amount)>>)
  BY <1>1, <1>2, Addresses DEF Deposit, Withdraw
<1>5. PICK c \in Balances :
        weth' = c /\ \A h \in Holder : c[h] = weth[h] + Flow(h, from, to, amount)
  <2>1. <<Transfer(from, to, amount)>> \in Seq(TransferType) BY <1>2, TransferSeq
  <2> DEFINE s == <<Transfer(from, to, amount)>>
  <2>2. s \in Seq(TransferType) /\ Transfers(s) BY <1>4, <2>1
  <2> HIDE DEF s
  <2>3. PICK c \in Balances : weth' = c /\ Pays(weth, s, c)
    BY <1>2, <2>2, TransfersPay
  <2>4. Paid(weth, from, to, amount, c) BY <2>3 DEF s, Paid
  <2>5. \A h \in Holder : c[h] = weth[h] + Flow(h, from, to, amount)
    BY <1>2, <1>4, <2>4, PayFlow
  <2> QED BY <2>3, <2>5
<1>6. /\ weth' \in Balances /\ weth'[LendPoolAddr] = weth[LendPoolAddr]
      /\ \A a \in Account : a # lender => weth'[a] >= weth[a]
  <2>1. \A h \in Holder : weth[h] \in Nat BY <1>2 DEF Balances
  <2>2. LendPoolAddr \notin {from, to} /\ \A a \in Account : a # lender => a \notin {from, to}
    BY <1>2, <1>4, Addresses
  <2> QED BY <1>2, <1>5, <2>1, <2>2, Addresses DEF Flow
<1>7. UNCHANGED <<loans, debtToken>> BY <1>3 DEF loanVars, bookVars, debtVars
<1>8. PoolInv'
  <2>1. LoanInv'
    <3>1. UNCHANGED <<bookVars, custodyVars>> /\ UNCHANGED <<marketAdapters, approvedNfts>>
      BY <1>3 DEF loanVars
    <3>2. LoanTypeOK'
      BY <3>1 DEF PoolInv, LoanInv, LoanTypeOK, bookVars, custodyVars
    <3> QED BY <3>1, <3>2, FrameInv DEF PoolInv, LoanInv
  <2>2. PoolTypeOK'
    BY <1>3, <1>6, <2>1
    DEF PoolInv, PoolTypeOK, LoanInv, Balances, debtVars, marketVars, pauseVars
  <2>3. borrowIndex' >= borrowIndex /\ pauseStartTime' <= now'
    BY <1>3 DEF PoolInv, PoolTypeOK, marketVars, pauseVars
  <2> QED BY <1>6, <1>7, <2>1, <2>2, <2>3, FrameStepInv
<1>9. EndedPaid /\ PaidOnlyBy(lender, <<>>) /\ Consented BY <1>6, <1>7, FrameEffects
<1> QED BY <1>2, <1>8, <1>9

\* Delegations, the administrators, sales of NFTs elsewhere and the time.
LEMMA QuietStepKeeps ==
  ASSUME PoolInv,
         \/ Delegate \/ Configure \/ Elsewhere \/ Tick
         \/ \E val \in Switches : SetPause(val)
  PROVE  /\ PoolInv' /\ UNCHANGED <<loans, weth, debtToken>>
<1>1. /\ PoolTypeOK /\ LoanInv /\ borrowIndex \in Nat /\ now \in Nat
      /\ pauseStartTime \in Nat /\ pauseStartTime <= now
  BY DEF PoolInv, PoolTypeOK
<1>2. ASSUME UNCHANGED loanVars PROVE LoanInv'
  <2>1. UNCHANGED <<bookVars, custodyVars>> /\ UNCHANGED <<marketAdapters, approvedNfts>>
    BY <1>2 DEF loanVars
  <2>2. LoanTypeOK'
    BY <1>1, <2>1 DEF LoanInv, LoanTypeOK, bookVars, custodyVars
  <2> QED BY <1>1, <2>1, <2>2, FrameInv DEF LoanInv
<1>3. CASE Delegate
  <2>1. PICK delegator \in Account, delegatee \in Account, amount \in Allowances :
          ApproveDelegation(delegator, delegatee, amount)
    BY <1>3 DEF Delegate
  <2>2. /\ UNCHANGED <<loanVars, weth, debtToken, marketVars, pauseVars>>
        /\ amount \in Nat
        /\ borrowAllowances' = [borrowAllowances EXCEPT
             ![delegator] = [borrowAllowances[delegator] EXCEPT ![delegatee] = amount]]
    BY <2>1, PoolAssumption DEF ApproveDelegation
  <2>3. LoanInv' /\ UNCHANGED <<loans, weth, debtToken>>
    BY <1>2, <2>2 DEF loanVars, bookVars
  <2>4. borrowAllowances' \in [Account -> [Account -> Nat]]
    BY <1>1, <2>2 DEF PoolTypeOK
  <2>5. PoolTypeOK'
    BY <1>1, <2>2, <2>3, <2>4 DEF PoolTypeOK, LoanInv, marketVars, pauseVars
  <2>6. borrowIndex' >= borrowIndex /\ pauseStartTime' <= now'
    BY <1>1, <2>2 DEF marketVars, pauseVars
  <2> QED BY <2>3, <2>5, <2>6, FrameStepInv
<1>4. CASE Configure
  <2>1. /\ UNCHANGED <<loanVars, weth, debtVars, borrowIndex, now, pauseVars>>
        /\ nftPrice' \in [NFT -> Nat] /\ nftConfig' \in [NFT -> NftConfig]
    <3>1. PICK nft \in NFT :
            \/ \E config \in NftConfigs :
                 \/ \E price \in Prices : ConfigureNftAsCollateral(nft, config, price)
                 \/ ConfigureNftAsAuction(nft, config)
            \/ \E flag \in Switches :
                 SetActiveFlagOnNft(nft, flag) \/ SetFreezeFlagOnNft(nft, flag)
            \/ \E price \in Prices : SetNFTPrice(nft, price)
      BY <1>4 DEF Configure
    <3>2. /\ nftPrice \in [NFT -> Nat] /\ nftConfig \in [NFT -> NftConfig]
          /\ NftConfigs \subseteq NftConfig /\ Prices \subseteq Nat
          /\ Switches \subseteq BOOLEAN
      BY <1>1, PoolAssumption DEF PoolTypeOK
    <3>3. CASE \E config \in NftConfigs, price \in Prices :
                 ConfigureNftAsCollateral(nft, config, price)
      <4>1. PICK config \in NftConfigs, price \in Prices :
              ConfigureNftAsCollateral(nft, config, price)
        BY <3>3
      <4>2. [config EXCEPT !.active = TRUE, !.frozen = FALSE,
                           !.configTimestamp = now] \in NftConfig
        <5>1. config \in NftConfig BY <3>2
        <5> QED BY <1>1, <5>1 DEF NftConfig
      <4> QED BY <3>2, <4>1, <4>2 DEF ConfigureNftAsCollateral
    <3>4. CASE \E config \in NftConfigs : ConfigureNftAsAuction(nft, config)
      <4>1. PICK config \in NftConfigs : ConfigureNftAsAuction(nft, config)
        BY <3>4
      <4>2. /\ nftConfig' = [nftConfig EXCEPT ![nft] =
                 [nftConfig[nft] EXCEPT !.redeemDuration = config.redeemDuration,
                                        !.auctionDuration = config.auctionDuration,
                                        !.redeemFine = config.redeemFine]]
            /\ UNCHANGED <<loanVars, weth, debtVars, borrowIndex, nftPrice, now,
                           pauseVars>>
        BY <3>2, <4>1 DEF ConfigureNftAsAuction
      <4>3. [nftConfig[nft] EXCEPT !.redeemDuration = config.redeemDuration,
                                   !.auctionDuration = config.auctionDuration,
                                   !.redeemFine = config.redeemFine] \in NftConfig
        <5>1. config \in NftConfig /\ nftConfig[nft] \in NftConfig BY <3>2
        <5> QED BY <5>1 DEF NftConfig
      <4> QED BY <3>2, <4>2, <4>3
    <3>5. CASE \E flag \in Switches :
                 SetActiveFlagOnNft(nft, flag) \/ SetFreezeFlagOnNft(nft, flag)
      <4>1. PICK flag \in Switches :
              SetActiveFlagOnNft(nft, flag) \/ SetFreezeFlagOnNft(nft, flag)
        BY <3>5
      <4>2. /\ \/ nftConfig' = [nftConfig EXCEPT ![nft] =
                                  [nftConfig[nft] EXCEPT !.active = flag]]
               \/ nftConfig' = [nftConfig EXCEPT ![nft] =
                                  [nftConfig[nft] EXCEPT !.frozen = flag]]
            /\ UNCHANGED <<loanVars, weth, debtVars, borrowIndex, nftPrice, now,
                           pauseVars>>
        BY <3>2, <4>1 DEF SetActiveFlagOnNft, SetFreezeFlagOnNft
      <4>3. /\ [nftConfig[nft] EXCEPT !.active = flag] \in NftConfig
            /\ [nftConfig[nft] EXCEPT !.frozen = flag] \in NftConfig
        <5>1. nftConfig[nft] \in NftConfig /\ flag \in BOOLEAN BY <3>2
        <5> QED BY <5>1 DEF NftConfig
      <4> QED BY <3>2, <4>2, <4>3
    <3>6. CASE \E price \in Prices : SetNFTPrice(nft, price)
      <4>1. PICK price \in Prices : SetNFTPrice(nft, price) BY <3>6
      <4> QED BY <3>2, <4>1 DEF SetNFTPrice
    <3> QED BY <3>1, <3>3, <3>4, <3>5, <3>6
  <2>2. LoanInv' /\ UNCHANGED <<loans, weth, debtToken>>
    BY <1>2, <2>1 DEF loanVars, bookVars, debtVars
  <2>3. PoolTypeOK'
    BY <1>1, <2>1, <2>2 DEF PoolTypeOK, LoanInv, debtVars, pauseVars
  <2>4. borrowIndex' >= borrowIndex /\ pauseStartTime' <= now'
    BY <1>1, <2>1 DEF pauseVars
  <2> QED BY <2>2, <2>3, <2>4, FrameStepInv
<1>5. CASE Elsewhere
  <2>1. /\ Trade \/ Administer
        /\ UNCHANGED <<weth, debtVars, marketVars, pauseVars>>
    BY <1>5 DEF Elsewhere, Administer
  <2>2. LoanInv' /\ UNCHANGED loans
    <3>1. LoanInv' BY <1>1, <2>1, TradeInv, AdministerInv
    <3>2. UNCHANGED loans
      BY <2>1 DEF Trade, TransferNft, Administer, InitNft, UpdateMarketAdapters,
                  bookVars
    <3> QED BY <3>1, <3>2
  <2>3. UNCHANGED debtToken BY <2>1 DEF debtVars
  <2>4. PoolTypeOK'
    BY <1>1, <2>1, <2>2 DEF PoolTypeOK, LoanInv, debtVars, marketVars, pauseVars
  <2>5. borrowIndex' >= borrowIndex /\ pauseStartTime' <= now'
    BY <1>1, <2>1 DEF marketVars, pauseVars
  <2> QED BY <2>1, <2>2, <2>3, <2>4, <2>5, FrameStepInv
<1>6. CASE Tick
  <2>1. /\ now < MaxTime /\ now' = now + 1
        /\ borrowIndex' \in BorrowIndexes /\ borrowIndex' >= borrowIndex
        /\ UNCHANGED <<loanVars, weth, debtVars, nftPrice, nftConfig, pauseVars>>
    BY <1>6 DEF Tick
  <2>2. LoanInv' /\ UNCHANGED <<loans, weth, debtToken>>
    BY <1>2, <2>1 DEF loanVars, bookVars, debtVars
  <2>3. /\ now' \in 1 .. MaxTime /\ borrowIndex' \in Nat \ {0}
        /\ pauseStartTime' <= now'
    BY <1>1, <2>1, PoolAssumption, LoanAssumption DEF PoolTypeOK, pauseVars
  <2>4. PoolTypeOK'
    BY <1>1, <2>1, <2>2, <2>3 DEF PoolTypeOK, LoanInv, debtVars, pauseVars
  <2> QED BY <2>1, <2>2, <2>3, <2>4, FrameStepInv
<1>7. CASE \E val \in Switches : SetPause(val)
  <2>1. PICK val \in Switches : SetPause(val) BY <1>7
  <2>2. /\ paused' = val /\ val \in BOOLEAN
        /\ pauseStartTime' \in Nat /\ pauseStartTime' <= now
        /\ pauseDurationTime' \in Nat
        /\ UNCHANGED <<loanVars, weth, debtVars, marketVars>>
    <3>1. pauseDurationTime \in Nat BY <1>1 DEF PoolTypeOK
    <3> QED BY <1>1, <2>1, <3>1, PoolAssumption DEF SetPause
  <2>3. LoanInv' /\ UNCHANGED <<loans, weth, debtToken>>
    BY <1>2, <2>2 DEF loanVars, bookVars, debtVars
  <2>4. PoolTypeOK'
    BY <1>1, <2>2, <2>3 DEF PoolTypeOK, LoanInv, debtVars, marketVars
  <2>5. borrowIndex' >= borrowIndex /\ pauseStartTime' <= now'
    BY <1>1, <2>2 DEF marketVars
  <2> QED BY <2>3, <2>4, <2>5, FrameStepInv
<1> QED BY <1>3, <1>4, <1>5, <1>6, <1>7

-----------------------------------------------------------------------------
(* The pool and its users.                                                 *)

LEMMA UserStepKeeps ==
  ASSUME PoolInv, UserStep
  PROVE  PoolInv' /\ EndedPaid /\ Consented
           /\ \E payer \in Account : PaidOnlyBy(payer, <<>>)
<1>1. PICK initiator \in Account, nft \in NFT :
        \/ \E onBehalfOf \in Account :
             \/ \E amount \in Amounts :
                  Borrow(initiator, onBehalfOf, nft, amount, <<>>)
             \/ \E bid \in Bids : Auction(initiator, onBehalfOf, nft, bid)
             \/ Buyout(initiator, onBehalfOf, nft, <<>>)
        \/ \E amount \in Amounts :
             \/ Repay(initiator, nft, amount, <<>>)
             \/ Liquidate(initiator, nft, amount, <<>>)
             \/ \E fineLimit \in Amounts :
                  RedeemAuction(initiator, nft, amount, fineLimit, <<>>)
  BY DEF UserStep
<1>2. Amounts \subseteq Nat \ {0} /\ Bids \subseteq Nat \ {0}
  BY LoanAssumption, PoolAssumption
<1>3. <<>> \in Refunds BY DEF Refunds
<1>4. CASE \E onBehalfOf \in Account, amount \in Amounts :
             Borrow(initiator, onBehalfOf, nft, amount, <<>>)
  <2>1. PICK onBehalfOf \in Account, amount \in Nat \ {0} :
          Borrow(initiator, onBehalfOf, nft, amount, <<>>)
    BY <1>2, <1>4
  <2>2. /\ PoolInv' /\ EndedPaid /\ PaidOnlyBy(initiator, <<>>)
        /\ <<>> = <<>> => Consented
    BY <1>3, <2>1, BorrowKeeps
  <2> QED BY <2>2
<1>5. ASSUME PoolInv' /\ EndedPaid /\ PaidOnlyBy(initiator, <<>>) /\ NoNewDebts
      PROVE  PoolInv' /\ EndedPaid /\ Consented /\ PaidOnlyBy(initiator, <<>>)
  <2>1. debtToken' \in [Account -> Nat] BY <1>5 DEF PoolInv, PoolTypeOK
  <2> QED BY <1>5, <2>1, NoNewDebtsConsented
<1>6. CASE \E onBehalfOf \in Account, bid \in Bids :
             Auction(initiator, onBehalfOf, nft, bid)
  <2>1. PICK onBehalfOf \in Account, bid \in Nat \ {0} :
          Auction(initiator, onBehalfOf, nft, bid)
    BY <1>2, <1>6
  <2> QED BY <1>5, <2>1, AuctionKeeps
<1>7. CASE \E onBehalfOf \in Account : Buyout(initiator, onBehalfOf, nft, <<>>)
  <2>1. PICK onBehalfOf \in Account : Buyout(initiator, onBehalfOf, nft, <<>>)
    BY <1>7
  <2> QED BY <1>3, <1>5, <2>1, BuyoutKeeps
<1>8. CASE \E amount \in Amounts : Repay(initiator, nft, amount, <<>>)
  <2>1. PICK amount \in Nat : Repay(initiator, nft, amount, <<>>)
    BY <1>2, <1>8
  <2> QED BY <1>3, <1>5, <2>1, RepayKeeps
<1>9. CASE \E amount \in Amounts : Liquidate(initiator, nft, amount, <<>>)
  <2>1. PICK amount \in Amounts : Liquidate(initiator, nft, amount, <<>>)
    BY <1>9
  <2> QED BY <1>3, <1>5, <2>1, LiquidateKeeps
<1>10. CASE \E amount, fineLimit \in Amounts :
              RedeemAuction(initiator, nft, amount, fineLimit, <<>>)
  <2>1. PICK amount \in Nat, fineLimit \in Amounts :
          RedeemAuction(initiator, nft, amount, fineLimit, <<>>)
    BY <1>2, <1>10
  <2> QED BY <1>3, <1>5, <2>1, RedeemKeeps
<1> QED BY <1>1, <1>4, <1>6, <1>7, <1>8, <1>9, <1>10

\* Whatever step is taken: the invariant is kept, an ended loan is paid, a new
\* debt is consented to, and one account alone may pay.
LEMMA PoolNextKeeps ==
  ASSUME PoolInv, [PoolNext]_poolVars
  PROVE  PoolInv' /\ EndedPaid /\ Consented
           /\ \E payer \in Account : PaidOnlyBy(payer, <<>>)
<1>1. Treasury \in Account BY PoolAssumption
<1>2. CASE UserStep BY <1>2, UserStepKeeps
<1>3. CASE LenderStep BY <1>3, LenderStepKeeps
<1>4. ASSUME PoolInv', UNCHANGED <<loans, weth, debtToken>>
      PROVE  PoolInv' /\ EndedPaid /\ Consented /\ PaidOnlyBy(Treasury, <<>>)
  <2>1. weth \in Balances BY DEF PoolInv, PoolTypeOK, Balances
  <2>2. weth' \in Balances /\ \A a \in Account : weth'[a] >= weth[a]
    BY <1>4, <2>1, Addresses DEF Balances
  <2> QED BY <1>4, <2>2, FrameEffects
<1>5. CASE \/ Delegate \/ Configure \/ Elsewhere \/ Tick
           \/ \E val \in Switches : SetPause(val)
  <2>1. PoolInv' /\ UNCHANGED <<loans, weth, debtToken>> BY <1>5, QuietStepKeeps
  <2> QED BY <1>1, <1>4, <2>1
<1>6. CASE UNCHANGED poolVars
  <2>1. /\ UNCHANGED <<bookVars, custodyVars, marketAdapters, approvedNfts>>
        /\ UNCHANGED <<weth, debtVars, marketVars, pauseVars>>
    BY <1>6 DEF poolVars, loanVars
  <2>2. UNCHANGED <<loans, weth, debtToken>>
    BY <2>1 DEF bookVars, debtVars
  <2>3. LoanInv'
    <3>1. LoanTypeOK'
      BY <2>1 DEF PoolInv, LoanInv, LoanTypeOK, bookVars, custodyVars
    <3> QED BY <2>1, <3>1, FrameInv DEF PoolInv, LoanInv
  <2>4. PoolTypeOK'
    BY <2>1, <2>3
    DEF PoolInv, PoolTypeOK, LoanInv, debtVars, marketVars, pauseVars
  <2>5. borrowIndex' >= borrowIndex /\ pauseStartTime' <= now'
    BY <2>1 DEF PoolInv, PoolTypeOK, marketVars, pauseVars
  <2>6. PoolInv' BY <2>2, <2>3, <2>4, <2>5, FrameStepInv
  <2> QED BY <1>1, <1>4, <2>2, <2>6
<1> QED BY <1>2, <1>3, <1>5, <1>6 DEF PoolNext

\* The pool's inductive invariant: the loan book's, with the types, the escrow
\* and the debt tokens, an index of at least one and a pause that has begun.
THEOREM PoolInvariant == PoolSpec => []PoolInv
<1>1. PoolInit => PoolInv BY PoolInitInv
<1>2. PoolInv /\ [PoolNext]_poolVars => PoolInv' BY PoolNextKeeps
<1> QED BY <1>1, <1>2, PTL DEF PoolSpec

\* The variables of the pool stay in their types: no balance, debt or allowance
\* becomes negative, after any history.
THEOREM PoolTypes == PoolSpec => []PoolTypeOK
<1>1. PoolInv => PoolTypeOK BY DEF PoolInv
<1> QED BY <1>1, PoolInvariant, PTL

\* The pool's WETH is exactly the best bids of the running auctions, although
\* auction, redeem, liquidate and buyout each move it in their own order.
THEOREM EscrowExact == PoolSpec => []BidsInEscrow
<1>1. PoolInv => BidsInEscrow BY DEF PoolInv
<1> QED BY <1>1, PoolInvariant, PTL

\* DebtToken's balances and LendPoolLoan's scaled debts, which are computed
\* apart, agree: burn never fails for want of debt tokens.
THEOREM DebtTokensExact == PoolSpec => []DebtTokensMatchLoans
<1>1. PoolInv => DebtTokensMatchLoans BY DEF PoolInv
<1> QED BY <1>1, PoolInvariant, PTL

\* The loan book keeps its invariant in the pool's hands too: the operations
\* of the pool are those the book was proved for, with any amounts.
THEOREM PoolKeepsBook == PoolSpec => []LoanInv
<1>1. PoolInv => LoanInv BY DEF PoolInv
<1> QED BY <1>1, PoolInvariant, PTL

\* However a loan ends, by repay, liquidate or buyout, the lenders receive its
\* whole debt, also when the winning bid has fallen behind it.
THEOREM EndedLoansPaid == PoolSpec => EndedLoansArePaid
<1>1. PoolInv /\ [PoolNext]_poolVars => EndedPaid BY PoolNextKeeps
<1>2. PoolInv /\ [PoolNext]_poolVars =>
        [\A id \in LoanIds : Live(id) /\ ~Live(id)' =>
           weth'[UTokenAddr] = weth[UTokenAddr] + BorrowAmount(id)]_poolVars
  BY <1>1 DEF EndedPaid
<1> QED BY <1>2, PoolInvariant, PTL DEF PoolSpec, EndedLoansArePaid

\* No operation takes WETH, in the wallet or in escrow, from anybody but one
\* account: a borrower, an outbid bidder or a first bidder never pays for what
\* another does.  Who wins an auction pays the bid he made.
THEOREM OnlySenderPays == PoolSpec => OnlyOneAccountPays
<1> DEFINE OnePays ==
      \A a, b \in Account :
        /\ Wealth(a)' < Wealth(a)
        /\ Wealth(b)' < Wealth(b)
        => \/ a = b
           \/ \E id \in LoanIds : WinsAuction(a, id) \/ WinsAuction(b, id)
<1>0. (PoolInv => \A a \in Account : Wealth(a) \in Nat)' BY WealthNat, PTL
<1>1. ASSUME PoolInv, [PoolNext]_poolVars
      PROVE  OnePays
  <2>1. PoolInv' BY <1>1, PoolNextKeeps
  <2>2. PICK payer \in Account : PaidOnlyBy(payer, <<>>) BY <1>1, PoolNextKeeps
  <2>3. \A a \in Account : Wealth(a) \in Nat /\ Wealth(a)' \in Nat
    BY <1>1, <2>1, <1>0, WealthNat
  <2>4. ASSUME NEW a \in Account, Wealth(a)' < Wealth(a), a # payer
        PROVE  \E id \in LoanIds : WinsAuction(a, id)
    BY <2>2, <2>3, <2>4 DEF PaidOnlyBy, Got
  <2> QED BY <2>4
<1> HIDE DEF OnePays
<1>2. PoolInv /\ [PoolNext]_poolVars => [OnePays]_poolVars BY <1>1
<1>3. PoolSpec => [][OnePays]_poolVars BY <1>2, PoolInvariant, PTL DEF PoolSpec
<1> QED BY <1>3 DEF OnlyOneAccountPays, OnePays

\* Debt tokens are minted to who receives the loan or on the allowance he gave
\* and which is spent for exactly what the receiver gets.
THEOREM DebtsConsented == PoolSpec => DebtNeedsConsent
<1>1. PoolInv /\ [PoolNext]_poolVars => [Consented]_poolVars BY PoolNextKeeps
<1>2. PoolSpec => [][Consented]_poolVars BY <1>1, PoolInvariant, PTL DEF PoolSpec
<1> QED BY <1>2 DEF DebtNeedsConsent, Consented

-----------------------------------------------------------------------------
(* Where auctions start.                                                   *)

\* A record that is in auction after a step was so before, with the same
\* start and the same debt, or its auction starts now, not in a pause, with a
\* debt and on an NFT that has a price.
StartKept(before, after) ==
  after.state = "Auction" =>
    /\ after.nft = before.nft
    /\ after.scaledAmount = before.scaledAmount
    /\ \/ /\ before.state = "Auction"
          /\ after.bidStartTimestamp = before.bidStartTimestamp
       \/ /\ before.state # "Auction"
          /\ after.bidStartTimestamp = now
          /\ ~paused
          /\ after.scaledAmount # 0
          /\ PriceKnown(after.nft)

StartsKept == \A id \in LoanIds : StartKept(loans[id], loans'[id])

\* It is enough to look at the loan an operation writes.
LEMMA OneStart ==
  ASSUME LoanInv, NEW id \in LoanIds, NEW loan,
         loans' = [loans EXCEPT ![id] = loan], StartKept(loans[id], loan)
  PROVE  StartsKept
<1>1. loans \in [LoanIds -> LoanData] BY DEF LoanInv, LoanTypeOK
<1> QED BY <1>1 DEF StartsKept, StartKept

\* A new loan, a changed debt and an ended loan are not in auction.
LEMMA BookStarts ==
  ASSUME LoanInv, NEW nft \in NFT, NEW id, id = nftToLoanIds[nft], id # 0,
         NEW amount \in Nat, NEW index \in Nat \ {0},
         \/ IncreaseLoan(id, amount, index) \/ DecreaseLoan(id, amount, index)
         \/ RepayLoan(id) \/ RedeemLoan(id, amount, index)
  PROVE  StartsKept
<1>1. id \in LoanIds /\ loans[id] \in LoanData BY FoundLoan
<1>2. PICK debt : \/ /\ loans[id].state = "Active"
                     /\ loans' = [loans EXCEPT ![id] =
                                    [loans[id] EXCEPT !.scaledAmount = debt]]
                  \/ loans' = [loans EXCEPT ![id] =
                                 [loans[id] EXCEPT !.state = "Repaid"]]
                  \/ loans' = [loans EXCEPT ![id] =
                        [CalledOff(loans[id]) EXCEPT !.scaledAmount = debt]]
  BY DEF IncreaseLoan, DecreaseLoan, RepayLoan, RedeemLoan
<1> DEFINE old == loans[id]
<1>3. /\ old.state = "Active" =>
           [old EXCEPT !.scaledAmount = debt].state = "Active"
      /\ [old EXCEPT !.state = "Repaid"].state = "Repaid"
      /\ [CalledOff(old) EXCEPT !.scaledAmount = debt].state = "Active"
  BY <1>1 DEF LoanData, CalledOff
<1> QED BY <1>1, <1>2, <1>3, OneStart DEF StartKept

LEMMA SeizureStarts ==
  ASSUME LoanInv, NEW nft \in NFT, NEW id, id = nftToLoanIds[nft], id # 0,
         NEW debt, NEW to, BuyoutLoan(id, debt, to) \/ LiquidateLoan(id, debt, to)
  PROVE  StartsKept
<1> DEFINE loan == [loans[id] EXCEPT !.state = "Defaulted", !.bidBorrowAmount = debt]
<1>1. id \in LoanIds /\ loans[id] \in LoanData BY FoundLoan
<1>2. loans' = [loans EXCEPT ![id] = loan] BY DEF BuyoutLoan, LiquidateLoan
<1>3. loan.state = "Defaulted" BY <1>1 DEF LoanData
<1> HIDE DEF loan
<1> QED BY <1>1, <1>2, <1>3, OneStart DEF StartKept

LEMMA CreationStarts ==
  ASSUME LoanInv, NEW initiator, NEW onBehalfOf, NEW nft, NEW amount, NEW index,
         CreateLoan(initiator, onBehalfOf, nft, amount, index)
  PROVE  StartsKept
<1> DEFINE loan == [NoLoan EXCEPT !.state = "Active", !.borrower = onBehalfOf,
                      !.nft = nft, !.scaledAmount = RayDiv(amount, index)]
<1>1. /\ loanIdTracker \in LoanIds
      /\ loans' = [loans EXCEPT ![loanIdTracker] = loan]
  BY DEF CreateLoan
<1>2. loan.state = "Active" BY DEF NoLoan
<1> HIDE DEF loan
<1> QED BY <1>1, <1>2, OneStart DEF StartKept

\* Nothing is owed on a scaled amount of 0.
LEMMA NothingOwed ==
  ASSUME NEW index \in Nat
  PROVE  RayMul(0, index) = 0
<1>1. RAY \in Nat /\ RAY > 0 BY UnitsAssumption
<1>2. RAY \div 2 \in Nat /\ RAY \div 2 < RAY BY <1>1
<1>3. 0 * index + (RAY \div 2) = RAY \div 2 BY <1>2
<1> DEFINE h == RAY \div 2
<1> HIDE DEF h
<1>4. h \in Nat /\ h < RAY BY <1>2 DEF h
<1>5. h \div RAY = 0 BY <1>1, <1>4, DivUnique
<1> QED BY <1>3, <1>5 DEF h, RayMul, UnitMul

\* The first bid starts the auction, of a loan that owes something; a later one
\* does not start it again.
LEMMA BidStarts ==
  ASSUME PoolInv, NEW nft \in NFT, NEW initiator, NEW onBehalfOf, NEW bid,
         Auction(initiator, onBehalfOf, nft, bid)
  PROVE  StartsKept
<1> DEFINE id == nftToLoanIds[nft]
           old == loans[id]
           debt == BorrowAmount(id)
           first == [old EXCEPT !.state = "Auction", !.bidStartTimestamp = now,
                       !.firstBidderAddress = onBehalfOf, !.bidBorrowAmount = debt,
                       !.bidderAddress = onBehalfOf, !.bidPrice = bid]
           later == [old EXCEPT !.bidBorrowAmount = debt,
                       !.bidderAddress = onBehalfOf, !.bidPrice = bid]
<1>1. /\ id # 0 /\ ~paused /\ PriceKnown(nft)
      /\ \/ /\ old.state = "Active" /\ loans' = [loans EXCEPT ![id] = first]
            /\ debt > ThresholdPrice(nft)
         \/ old.state = "Auction" /\ loans' = [loans EXCEPT ![id] = later]
  BY DEF Auction, OpenAuction, OutbidAuction
<1>2. id \in LoanIds /\ old \in LoanData /\ old.nft = nft
  BY <1>1, FoundLoan DEF PoolInv
<1>3. old.state = "Active" => old.scaledAmount # 0
  <2>1. ThresholdPrice(nft) \in Nat /\ debt \in Nat
    <3>1. nftPrice[nft] \in Nat /\ nftConfig[nft].liquidationThreshold \in Nat
      BY DEF PoolInv, PoolTypeOK, NftConfig
    <3>2. PERCENTAGE_FACTOR \in Nat \ {0} BY UnitsAssumption
    <3>3. ThresholdPrice(nft) \in Nat
      BY <3>1, <3>2, UnitMulNat DEF ThresholdPrice, PercentMul
    <3> QED BY <1>2, <3>3, PoolAmounts
  <2>2. old.scaledAmount = 0 => debt = 0
    <3>1. borrowIndex \in Nat BY DEF PoolInv, PoolTypeOK
    <3> QED BY <3>1, NothingOwed DEF BorrowAmount
  <2> HIDE DEF debt
  <2>3. debt > ThresholdPrice(nft) => debt # 0 BY <2>1
  <2> QED BY <1>1, <2>2, <2>3
<1> HIDE DEF id, old, debt
<1>4. /\ first.bidStartTimestamp = now /\ first.nft = old.nft
      /\ first.scaledAmount = old.scaledAmount
      /\ later.state = old.state /\ later.bidStartTimestamp = old.bidStartTimestamp
      /\ later.nft = old.nft /\ later.scaledAmount = old.scaledAmount
  BY <1>2 DEF LoanData
<1> HIDE DEF first, later
<1>5. StartKept(old, first) \/ old.state # "Active"
  BY <1>1, <1>2, <1>3, <1>4 DEF StartKept
<1>6. StartKept(old, later) BY <1>4 DEF StartKept
<1>7. LoanInv BY DEF PoolInv
<1> QED BY <1>1, <1>2, <1>5, <1>6, <1>7, OneStart DEF old, id

\* An operation of a user, with whatever it has refunded before its transfers.
UserOperation(initiator, nft, refund) ==
  \/ \E onBehalfOf \in Account :
       \/ \E amount \in Amounts : Borrow(initiator, onBehalfOf, nft, amount, refund)
       \/ \E bid \in Bids : Auction(initiator, onBehalfOf, nft, bid)
       \/ Buyout(initiator, onBehalfOf, nft, refund)
  \/ \E amount \in Amounts :
       \/ Repay(initiator, nft, amount, refund)
       \/ Liquidate(initiator, nft, amount, refund)
       \/ \E fineLimit \in Amounts :
            RedeemAuction(initiator, nft, amount, fineLimit, refund)

LEMMA UserStarts ==
  ASSUME PoolInv, NEW initiator \in Account, NEW nft \in NFT, NEW refund,
         UserOperation(initiator, nft, refund)
  PROVE  StartsKept /\ UNCHANGED <<now, nftPrice, pauseVars>>
<1> USE DEF PoolInv, UserOperation
<1>2. /\ \A amount \in Amounts : amount \in Nat
      /\ borrowIndex \in Nat \ {0}
  BY LoanAssumption DEF PoolTypeOK
<1> DEFINE id == nftToLoanIds[nft]
<1>3. UNCHANGED <<now, nftPrice, pauseVars>>
  BY DEF Borrow, Auction, Buyout, Repay, Liquidate, RedeemAuction, marketVars
<1>4. CASE \E onBehalfOf \in Account, amount \in Amounts :
             Borrow(initiator, onBehalfOf, nft, amount, refund)
  <2>1. PICK onBehalfOf \in Account, amount \in Amounts :
          IF id = 0
          THEN CreateLoan(initiator, onBehalfOf, nft, amount, borrowIndex)
          ELSE IncreaseLoan(id, amount, borrowIndex)
    BY <1>4 DEF Borrow
  <2> QED BY <1>2, <1>3, <2>1, CreationStarts, BookStarts
<1>5. CASE \E onBehalfOf \in Account, bid \in Bids :
             Auction(initiator, onBehalfOf, nft, bid)
  BY <1>3, <1>5, BidStarts
<1>6. CASE \E onBehalfOf \in Account : Buyout(initiator, onBehalfOf, nft, refund)
  BY <1>3, <1>6, SeizureStarts DEF Buyout
<1>7. CASE \E amount \in Amounts : Repay(initiator, nft, amount, refund)
  <2>1. PICK amount \in Amounts : Repay(initiator, nft, amount, refund) BY <1>7
  <2>2. PICK part : part = IF amount < BorrowAmount(id) THEN amount ELSE BorrowAmount(id)
    OBVIOUS
  <2>3. /\ id # 0
        /\ \/ amount < BorrowAmount(id) /\ DecreaseLoan(id, part, borrowIndex)
           \/ RepayLoan(id)
    BY <2>1, <2>2 DEF Repay
  <2>4. \/ DecreaseLoan(id, amount, borrowIndex) \/ RepayLoan(id)
    BY <2>2, <2>3
  <2> QED BY <1>2, <1>3, <2>3, <2>4, BookStarts
<1>8. CASE \E amount \in Amounts : Liquidate(initiator, nft, amount, refund)
  BY <1>3, <1>8, SeizureStarts DEF Liquidate
<1>9. CASE \E amount, fineLimit \in Amounts :
             RedeemAuction(initiator, nft, amount, fineLimit, refund)
  <2>1. PICK amount \in Amounts : id # 0 /\ RedeemLoan(id, amount, borrowIndex)
    BY <1>9 DEF RedeemAuction, MayRedeem
  <2> QED BY <1>2, <1>3, <2>1, BookStarts
<1> QED BY <1>3, <1>4, <1>5, <1>6, <1>7, <1>8, <1>9

\* A price that is known is never forgotten.
PricesStay == \A nft \in NFT : PriceKnown(nft) => PriceKnown(nft)'

\* The steps of lenders, administrators and of sales elsewhere start nothing.
LEMMA QuietStarts ==
  ASSUME PoolInv, LenderStep \/ Delegate \/ Configure \/ Elsewhere
  PROVE  PricesStay /\ UNCHANGED <<loans, now, pauseVars>>
<1>2. UNCHANGED nftPrice => PricesStay BY DEF PricesStay, PriceKnown
<1>4. CASE LenderStep \/ Delegate
  BY <1>2, <1>4 DEF LenderStep, Deposit, Withdraw, Delegate,
                    ApproveDelegation, loanVars, bookVars, marketVars
<1>5. CASE Configure
  <2>1. /\ UNCHANGED <<loans, now, pauseVars>>
        /\ \/ UNCHANGED nftPrice
           \/ \E nft \in NFT, price \in Prices :
                nftPrice' = [nftPrice EXCEPT ![nft] = price]
    BY <1>5
    DEF Configure, ConfigureNftAsCollateral, ConfigureNftAsAuction, SetNFTPrice,
        SetActiveFlagOnNft, SetFreezeFlagOnNft, loanVars, bookVars
  <2>2. nftPrice \in [NFT -> Nat] /\ \A price \in Prices : price # 0
    BY PoolAssumption DEF PoolInv, PoolTypeOK
  <2>3. PricesStay BY <1>2, <2>1, <2>2 DEF PricesStay, PriceKnown
  <2> QED BY <2>1, <2>3
<1>6. CASE Elsewhere
  BY <1>2, <1>6 DEF Elsewhere, Trade, TransferNft, InitNft, bookVars, marketVars
<1> QED BY <1>4, <1>5, <1>6

\* A step of the pool starts auctions as above, pauses, resumes, or lets the
\* time pass.
LEMMA StepOfPool ==
  ASSUME PoolInv, PoolNext
  PROVE  /\ PricesStay
         /\ \/ StartsKept /\ UNCHANGED <<now, pauseVars>>
            \/ UNCHANGED <<loans, pauseVars>> /\ now' = now + 1
            \/ UNCHANGED <<loans, now>> /\ \E val \in Switches : SetPause(val)
<1>1. UNCHANGED loans => StartsKept BY DEF StartsKept, StartKept
<1>2. UNCHANGED nftPrice => PricesStay BY DEF PricesStay, PriceKnown
<1>3. CASE UserStep
  <2>1. \E initiator \in Account, nft \in NFT : UserOperation(initiator, nft, <<>>)
    BY <1>3 DEF UserStep, UserOperation
  <2> QED BY <1>2, <2>1, UserStarts
<1>4. CASE LenderStep \/ Delegate \/ Configure \/ Elsewhere
  BY <1>1, <1>4, QuietStarts
<1>5. CASE Tick
  BY <1>2, <1>5 DEF Tick, loanVars, bookVars
<1>6. CASE \E val \in Switches : SetPause(val)
  BY <1>2, <1>6 DEF SetPause, loanVars, bookVars, marketVars
<1> QED BY <1>3, <1>4, <1>5, <1>6 DEF PoolNext

-----------------------------------------------------------------------------
(* Auctions that are due can be settled.                                   *)

\* An auctioned loan owes something, on an NFT with a price: the debt token's
\* burn refuses an amount of 0, and the oracle a token it does not know.
AuctionsOwe ==
  \A id \in Auctions :
    loans[id].scaledAmount # 0 /\ PriceKnown(loans[id].nft)

LEMMA AuctionsOweInit == PoolInit => AuctionsOwe
BY DEF PoolInit, LoanInit, NoLoan, Auctions, AuctionsOwe

\* What an auction owes is kept while it runs.
LEMMA OweKept ==
  ASSUME LoanInv', AuctionsOwe, StartsKept, PricesStay
  PROVE  AuctionsOwe'
<1> SUFFICES ASSUME NEW id \in LoanIds, loans'[id].state = "Auction"
             PROVE  loans'[id].scaledAmount # 0 /\ nftPrice'[loans'[id].nft] # 0
  BY DEF AuctionsOwe, Auctions, PriceKnown
<1>1. StartKept(loans[id], loans'[id]) BY DEF StartsKept
<1>2. loans'[id].nft \in NFT
  BY DEF LoanInv, OneOpenLoanPerNFT, Live, LiveStates
<1>3. CASE loans[id].state = "Auction"
  <2>1. loans[id].scaledAmount # 0 /\ nftPrice[loans[id].nft] # 0
    BY <1>3 DEF AuctionsOwe, Auctions, PriceKnown
  <2>2. loans'[id].nft = loans[id].nft
        /\ loans'[id].scaledAmount = loans[id].scaledAmount
    BY <1>1 DEF StartKept
  <2> QED BY <1>2, <2>1, <2>2 DEF PricesStay, PriceKnown
<1>4. CASE loans[id].state # "Auction"
  <2>1. loans'[id].scaledAmount # 0 /\ nftPrice[loans'[id].nft] # 0
    BY <1>1, <1>4 DEF StartKept, PriceKnown
  <2> QED BY <1>2, <2>1 DEF PricesStay, PriceKnown
<1> QED BY <1>3, <1>4

LEMMA AuctionsOweStep ==
  ASSUME PoolInv, AuctionsOwe, [PoolNext]_poolVars
  PROVE  AuctionsOwe'
<1>1. LoanInv' BY PoolNextKeeps DEF PoolInv
<1>2. UNCHANGED loans => StartsKept BY DEF StartsKept, StartKept
<1>3. StartsKept /\ PricesStay
  <2>1. CASE PoolNext
    <3>1. PricesStay /\ (StartsKept \/ UNCHANGED loans) BY <2>1, StepOfPool
    <3> QED BY <1>2, <3>1
  <2>2. CASE UNCHANGED poolVars
    <3>1. UNCHANGED <<loans, nftPrice>>
      BY <2>2 DEF poolVars, loanVars, bookVars, marketVars
    <3> QED BY <1>2, <3>1 DEF PricesStay, PriceKnown
  <2> QED BY <2>1, <2>2
<1> QED BY <1>1, <1>3, OweKept

\* Every auctioned loan has a debt and a collateral with a price, to the end.
THEOREM AuctionedLoansOwe == PoolSpec => []AuctionsOwe
BY AuctionsOweInit, AuctionsOweStep, PoolInvariant, PTL DEF PoolSpec

-----------------------------------------------------------------------------

\* Every transfer of the sequence is covered by the balance the ones before it
\* leave: what Transfers demands of the state.
CanPay(transfers) ==
  \A k \in 1 .. Len(transfers) :
    BalancesAfter(transfers)[k - 1][transfers[k].from] >= transfers[k].amount

\* What BurnDebt, BurnUNFT and ReleaseCollateral demand.
CanBurn(user, amount) ==
  LET amountScaled == RayDiv(amount, borrowIndex) IN
  amountScaled # 0 /\ debtToken[user] >= amountScaled

CanRelease(id) ==
  LET loan == loans[id] IN
  /\ userNftCollateral[loan.borrower][Collection[loan.nft]] >= 1
  /\ nftTotalCollateral[Collection[loan.nft]] >= 1
  /\ unftOwner[loan.nft] # NullAddress
  /\ nftOwner[loan.nft] = UNFTVault

\* All that liquidate demands of the state,
LiquidationAllowed(initiator, nft, amount, refund) ==
  LET id == nftToLoanIds[nft]
      loan == loans[id]
      debt == BorrowAmount(id)
  IN
  /\ ~paused
  /\ id # 0
  /\ nftConfig[nft].active
  /\ now > AuctionEnd(id) + ClaimDelay
  /\ PriceKnown(nft)
  /\ amount >= ExtraDebt(loan, debt)
  /\ loan.state = "Auction"
  /\ CanRelease(id)
  /\ CanBurn(loan.borrower, debt)
  /\ CanPay(refund \o LiquidationTransfers(initiator, loan, debt))

\* and all that it does: it gives each variable its next value.
LiquidationEffect(initiator, nft, refund) ==
  LET id == nftToLoanIds[nft]
      loan == loans[id]
      debt == BorrowAmount(id)
      transfers == refund \o LiquidationTransfers(initiator, loan, debt)
  IN
  /\ loans' = [loans EXCEPT ![id] =
                 [@ EXCEPT !.state = "Defaulted", !.bidBorrowAmount = debt]]
  /\ nftToLoanIds' = [nftToLoanIds EXCEPT ![loan.nft] = 0]
  /\ userNftCollateral' =
       [userNftCollateral EXCEPT ![loan.borrower][Collection[loan.nft]] = @ - 1]
  /\ nftTotalCollateral' =
       [nftTotalCollateral EXCEPT ![Collection[loan.nft]] = @ - 1]
  /\ nftOwner' = [nftOwner EXCEPT ![loan.nft] = Receiver(loan.bidderAddress)]
  /\ unftOwner' = [unftOwner EXCEPT ![loan.nft] = NullAddress]
  /\ debtToken' =
       [debtToken EXCEPT ![loan.borrower] = @ - RayDiv(debt, borrowIndex)]
  /\ weth' = BalancesAfter(transfers)[Len(transfers)]
  /\ UNCHANGED <<loanIdTracker, marketAdapters, approvedNfts, borrowAllowances,
                 marketVars, pauseVars>>

\* So liquidate is possible exactly when it is allowed.
LEMMA LiquidationSplit ==
  ASSUME NEW initiator, NEW nft, NEW amount, NEW refund
  PROVE  Liquidate(initiator, nft, amount, refund)
           <=> /\ LiquidationAllowed(initiator, nft, amount, refund)
               /\ LiquidationEffect(initiator, nft, refund)
BY DEF Liquidate, LiquidateLoan, ReleaseCollateral, BurnUNFT, BurnDebt, Transfers,
       LiquidationAllowed, LiquidationEffect, CanRelease, CanBurn, CanPay

\* Up to three transfers, one after the other.
LEMMA CanPaySteps ==
  ASSUME NEW s, Len(s) \in 0 .. 3,
         Len(s) >= 1 => weth[s[1].from] >= s[1].amount,
         Len(s) >= 2 => Moved(weth, s[1])[s[2].from] >= s[2].amount,
         Len(s) >= 3 => Moved(Moved(weth, s[1]), s[2])[s[3].from] >= s[3].amount
  PROVE  CanPay(s)
<1> DEFINE after == BalancesAfter(s)
<1>1. after = [k \in 0 .. Len(s) |-> IF k = 0 THEN weth ELSE Moved(after[k - 1], s[k])]
  BY BalancesAfterDef
<1> HIDE DEF after
<1>2. after[0] = weth BY <1>1
<1>3. Len(s) >= 1 => after[1] = Moved(weth, s[1]) BY <1>1, <1>2
<1>4. Len(s) >= 2 => after[2] = Moved(Moved(weth, s[1]), s[2])
  <2>1. Len(s) >= 2 => after[2] = Moved(after[1], s[2]) BY <1>1
  <2> QED BY <1>3, <2>1
<1>5. ASSUME NEW k \in 1 .. Len(s) PROVE after[k - 1][s[k].from] >= s[k].amount
  <2>1. CASE k = 1 BY <1>2, <2>1
  <2>2. CASE k = 2 BY <1>3, <2>2
  <2>3. CASE k = 3 BY <1>4, <2>3
  <2> QED BY <2>1, <2>2, <2>3
<1> QED BY <1>5 DEF CanPay, after

\* One transfer, or two, that b covers.
Payable(b, s) ==
  /\ Len(s) \in 1 .. 2
  /\ b[s[1].from] >= s[1].amount
  /\ Len(s) = 2 => Moved(b, s[1])[s[2].from] >= s[2].amount

LEMMA PayableOne ==
  ASSUME NEW b, NEW t, b[t.from] >= t.amount
  PROVE  Payable(b, <<t>>)
<1> DEFINE s == <<t>>
<1>1. Len(s) = 1 /\ s[1] = t OBVIOUS
<1> HIDE DEF s
<1>2. Payable(b, s) BY <1>1 DEF Payable
<1> QED BY <1>2 DEF s

LEMMA PayableTwo ==
  ASSUME NEW b, NEW t, NEW u, b[t.from] >= t.amount,
         Moved(b, t)[u.from] >= u.amount
  PROVE  Payable(b, <<t, u>>)
<1> DEFINE s == <<t, u>>
<1>1. Len(s) = 2 /\ s[1] = t /\ s[2] = u OBVIOUS
<1> HIDE DEF s
<1>2. Payable(b, s) BY <1>1 DEF Payable
<1> QED BY <1>2 DEF s

\* They can be paid alone, or after one transfer out of the balances.
LEMMA PayableNow ==
  ASSUME NEW s, Payable(weth, s)
  PROVE  CanPay(s)
<1>1. Len(s) \in 1 .. 2 BY DEF Payable
<1>2. Len(s) \in 0 .. 3 /\ ~(Len(s) >= 3) /\ (Len(s) >= 2 => Len(s) = 2)
  <2> DEFINE n == Len(s)
  <2> HIDE DEF n
  <2>1. n \in 1 .. 2 BY <1>1 DEF n
  <2>2. n \in 0 .. 3 /\ ~(n >= 3) /\ (n >= 2 => n = 2) BY <2>1
  <2> QED BY <2>2 DEF n
<1>3. weth[s[1].from] >= s[1].amount
      /\ (Len(s) = 2 => Moved(weth, s[1])[s[2].from] >= s[2].amount)
  BY Zenon DEF Payable
<1> QED BY <1>2, <1>3, CanPaySteps

LEMMA PayableAfter ==
  ASSUME NEW t \in TransferType, NEW s \in Seq(TransferType),
         weth[t.from] >= t.amount, Payable(Moved(weth, t), s)
  PROVE  CanPay(<<t>> \o s)
<1> DEFINE first == <<t>>
           all == first \o s
<1>1. first \in Seq(TransferType) /\ Len(first) = 1 /\ first[1] = t OBVIOUS
<1> HIDE DEF first
<1>2. /\ Len(all) = Len(first) + Len(s)
      /\ \A i \in 1 .. Len(first) + Len(s) :
           all[i] = IF i <= Len(first) THEN first[i] ELSE s[i - Len(first)]
  BY <1>1, ConcatProperties, Zenon
<1> HIDE DEF all
<1>3. Len(s) \in 1 .. 2 BY DEF Payable
<1>4. Len(all) = 1 + Len(s) /\ all[1] = t /\ all[2] = s[1]
      /\ (Len(s) = 2 => all[3] = s[2])
  BY <1>1, <1>2, <1>3
<1>5. /\ Moved(weth, t)[s[1].from] >= s[1].amount
      /\ Len(s) = 2 => Moved(Moved(weth, t), s[1])[s[2].from] >= s[2].amount
  BY Zenon DEF Payable
<1>6. Len(all) \in 0 .. 3 /\ (Len(all) >= 3 => Len(s) = 2)
  <2> DEFINE n == Len(s)
             m == Len(all)
  <2> HIDE DEF n, m
  <2>1. n \in 1 .. 2 /\ m = 1 + n BY <1>3, <1>4 DEF n, m
  <2>2. m \in 0 .. 3 /\ (m >= 3 => n = 2) BY <2>1
  <2> QED BY <2>2 DEF n, m
<1>7. /\ weth[all[1].from] >= all[1].amount
      /\ Moved(weth, all[1])[all[2].from] >= all[2].amount
      /\ Len(all) >= 3 =>
           Moved(Moved(weth, all[1]), all[2])[all[3].from] >= all[3].amount
  BY <1>4, <1>5, <1>6, Zenon
<1>8. CanPay(all) BY <1>6, <1>7, CanPaySteps
<1> QED BY <1>8 DEF all, first

\* Joining short sequences.
LEMMA ShortSequences ==
  ASSUME NEW t, NEW u
  PROVE  /\ <<>> \o <<t>> \o <<>> = <<t>>
         /\ <<t>> \o <<u>> \o <<>> = <<t, u>>
         /\ <<>> \o <<t>> \o <<u>> = <<t, u>>
         /\ <<t>> \o <<u>> = <<t, u>>
<1> DEFINE a == <<t>>
           b == <<u>>
           c == <<t, u>>
<1>1. a \in Seq({t, u}) /\ b \in Seq({t, u}) /\ c \in Seq({t, u}) OBVIOUS
<1>2. a \o b = c
  <2>1. /\ Len(a) = 1 /\ Len(b) = 1 /\ Len(c) = 2
        /\ a[1] = t /\ b[1] = u /\ c[1] = t /\ c[2] = u
    OBVIOUS
  <2> HIDE DEF a, b, c
  <2>2. /\ a \o b \in Seq({t, u}) /\ Len(a \o b) = 2
        /\ (a \o b)[1] = t /\ (a \o b)[2] = u
    <3>1. /\ a \o b \in Seq({t, u}) /\ Len(a \o b) = Len(a) + Len(b)
          /\ \A i \in 1 .. Len(a) + Len(b) :
               (a \o b)[i] = IF i <= Len(a) THEN a[i] ELSE b[i - Len(a)]
      BY <1>1, ConcatProperties, Zenon
    <3>2. \A i \in 1 .. 2 : (a \o b)[i] = IF i <= 1 THEN a[i] ELSE b[i - 1]
      BY <2>1, <3>1
    <3> QED BY <2>1, <3>1, <3>2
  <2>3. \A i \in 1 .. 2 : (a \o b)[i] = c[i] BY <2>1, <2>2
  <2> DEFINE d == a \o b
  <2> HIDE DEF d
  <2>4. d = c
    BY <1>1, <2>1, <2>2, <2>3, SeqEqual DEF d
  <2> QED BY <2>4 DEF d
<1> HIDE DEF a, b, c
<1>3. <<>> \o a = a /\ a \o <<>> = a /\ c \o <<>> = c BY <1>1
<1> QED BY <1>2, <1>3 DEF a, b, c

\* The balance of a holder after one transfer.
LEMMA MovedFlow ==
  ASSUME NEW b \in Balances, NEW from \in Holder, NEW to \in Holder,
         NEW amount \in Nat, NEW h \in Holder
  PROVE  Moved(b, Transfer(from, to, amount))[h] = b[h] + Flow(h, from, to, amount)
<1> DEFINE t == Transfer(from, to, amount)
<1>1. t.from = from /\ t.to = to /\ t.amount = amount BY DEF Transfer
<1> HIDE DEF t
<1>2. Moved(b, t) = [[b EXCEPT ![from] = b[from] - amount]
                       EXCEPT ![to] = [b EXCEPT ![from] = b[from] - amount][to] + amount]
  BY <1>1 DEF Moved, Balances
<1>3. \A x \in Holder : b[x] \in Nat BY DEF Balances
<1> QED BY <1>2, <1>3 DEF Flow, Balances, t

\* The transfers of a liquidation are well formed.
LEMMA LiquidationSeq ==
  ASSUME PoolInv, NEW initiator \in Account, NEW id \in LoanIds,
         loans[id].state = "Auction"
  PROVE  /\ LiquidationTransfers(initiator, loans[id], BorrowAmount(id))
              \in Seq(TransferType)
         /\ ExtraDebt(loans[id], BorrowAmount(id)) \in Nat
<1> DEFINE loan == loans[id]
           debt == BorrowAmount(id)
           extra == ExtraDebt(loan, debt)
           rest == IF loan.bidPrice > debt THEN loan.bidPrice - debt ELSE 0
           r == TransferAny(initiator, LendPoolAddr, extra)
           s == <<Transfer(LendPoolAddr, UTokenAddr, debt)>>
           t == TransferAny(LendPoolAddr, loan.borrower, rest)
<1>1. loan.borrower \in Account /\ loan.bidPrice \in Nat /\ debt \in Nat
  <2>1. loan.nft \in NFT /\ nftToLoanIds[loan.nft] = id /\ id # 0
    BY DEF PoolInv, LoanInv, OneOpenLoanPerNFT, Live, LiveStates, LoanIds
  <2>2. loan \in LoanData /\ loan.borrower \in Account
    BY <2>1, FoundLoan DEF PoolInv
  <2> QED BY <2>1, <2>2, PoolAmounts DEF LoanData
<1>2. extra \in Nat /\ rest \in Nat
  <2> HIDE DEF debt
  <2> QED BY <1>1 DEF ExtraDebt
<1> HIDE DEF extra, rest, debt
<1>3. r \in Seq(TransferType) /\ s \in Seq(TransferType) /\ t \in Seq(TransferType)
  BY <1>1, <1>2, Addresses, TransferSeq, TransferAnySeq
<1>4. LiquidationTransfers(initiator, loan, debt) = r \o s \o t
  BY DEF LiquidationTransfers, extra, rest
<1> HIDE DEF r, s, t
<1>5. r \o s \in Seq(TransferType) BY <1>3, ConcatProperties
<1>6. r \o s \o t \in Seq(TransferType) BY <1>3, <1>5, ConcatProperties
<1> QED BY <1>2, <1>4, <1>6 DEF extra, debt

\* The best bid of an auction is in escrow.
LEMMA BidCovered ==
  ASSUME PoolInv, NEW id \in LoanIds, loans[id].state = "Auction"
  PROVE  /\ loans[id] \in LoanData /\ loans[id].borrower \in Account
         /\ loans[id].bidPrice \in Nat /\ BorrowAmount(id) \in Nat
         /\ weth \in Balances /\ weth[LendPoolAddr] >= loans[id].bidPrice
<1> DEFINE loan == loans[id]
<1>1. /\ loan \in LoanData /\ loan.borrower \in Account /\ loan.bidPrice \in Nat
      /\ BorrowAmount(id) \in Nat /\ weth \in Balances
  <2>1. loan.nft \in NFT /\ nftToLoanIds[loan.nft] = id
    BY DEF PoolInv, LoanInv, OneOpenLoanPerNFT, Live, LiveStates
  <2>2. id # 0 BY DEF LoanIds
  <2>3. loan \in LoanData /\ loan.borrower \in Account
    BY <2>1, <2>2, FoundLoan DEF PoolInv
  <2> QED BY <2>1, <2>3, PoolAmounts DEF LoanData
<1>2. weth[LendPoolAddr] = SumOver(BidPrices, Auctions)
  BY DEF PoolInv, BidsInEscrow
<1>3. /\ IsFiniteSet(Auctions) /\ \A x \in Auctions : BidPrices[x] \in Nat
      /\ SumOver(BidPrices, Auctions) \in Nat
  BY LedgerTypes DEF PoolInv, LoanInv, Auctions
<1>4. Share(BidPrices, Auctions, id) = loan.bidPrice
  BY DEF Share, BidPrices, Auctions
<1>5. /\ SumOver(BidPrices, Auctions)
           = SumOver(BidPrices, Auctions \ {id}) + Share(BidPrices, Auctions, id)
      /\ SumOver(BidPrices, Auctions \ {id}) \in Nat
  BY <1>3, SumSplit
<1> QED BY <1>1, <1>2, <1>4, <1>5

\* The bid in escrow and what the initiator adds to it cover the debt, and the
\* bid alone what is left of it for the borrower.
LEMMA LiquidationPayable ==
  ASSUME PoolInv, NEW initiator \in Account, NEW id \in LoanIds,
         loans[id].state = "Auction",
         NEW b \in Balances, b[LendPoolAddr] = weth[LendPoolAddr],
         b[initiator] >= ExtraDebt(loans[id], BorrowAmount(id))
  PROVE  Payable(b, LiquidationTransfers(initiator, loans[id], BorrowAmount(id)))
<1> DEFINE loan == loans[id]
           debt == BorrowAmount(id)
           extra == ExtraDebt(loan, debt)
           rest == IF loan.bidPrice > debt THEN loan.bidPrice - debt ELSE 0
           s == LiquidationTransfers(initiator, loan, debt)
           topUp == Transfer(initiator, LendPoolAddr, extra)
           repayment == Transfer(LendPoolAddr, UTokenAddr, debt)
           remainder == Transfer(LendPoolAddr, loan.borrower, rest)
<1>1. /\ loan \in LoanData /\ loan.borrower \in Account /\ loan.bidPrice \in Nat
      /\ debt \in Nat /\ weth[LendPoolAddr] >= loan.bidPrice
  BY BidCovered
<1>2. /\ b[LendPoolAddr] \in Nat /\ b[initiator] \in Nat
      /\ b[LendPoolAddr] >= loan.bidPrice
  BY <1>1, Addresses DEF Balances
<1>3. /\ extra \in Nat /\ rest \in Nat /\ b[initiator] >= extra
      /\ extra # 0 => rest = 0 /\ extra + loan.bidPrice = debt
      /\ rest # 0 => debt + rest = loan.bidPrice
      /\ extra = 0 => debt <= loan.bidPrice
  <2>1. extra = IF loan.bidPrice < debt THEN debt - loan.bidPrice ELSE 0
    BY DEF ExtraDebt
  <2>2. b[initiator] >= extra OBVIOUS
  <2> HIDE DEF loan, debt, extra
  <2> QED BY <1>1, <2>1, <2>2
<1>4. /\ s = TransferAny(initiator, LendPoolAddr, extra) \o <<repayment>>
               \o TransferAny(LendPoolAddr, loan.borrower, rest)
      /\ TransferAny(initiator, LendPoolAddr, extra)
           = IF extra = 0 THEN <<>> ELSE <<topUp>>
      /\ TransferAny(LendPoolAddr, loan.borrower, rest)
           = IF rest = 0 THEN <<>> ELSE <<remainder>>
  BY DEF LiquidationTransfers, TransferAny
<1>5. /\ topUp.from = initiator /\ topUp.amount = extra
      /\ repayment.from = LendPoolAddr /\ repayment.amount = debt
      /\ remainder.from = LendPoolAddr /\ remainder.amount = rest
  BY DEF Transfer
<1>6. /\ Moved(b, topUp)[LendPoolAddr] = b[LendPoolAddr] + extra
      /\ Moved(b, repayment)[LendPoolAddr] = b[LendPoolAddr] - debt
  <2> HIDE DEF extra, debt
  <2>1. Moved(b, topUp)[LendPoolAddr]
          = b[LendPoolAddr] + Flow(LendPoolAddr, initiator, LendPoolAddr, extra)
    BY <1>1, <1>3, Addresses, MovedFlow
  <2>2. Moved(b, repayment)[LendPoolAddr]
          = b[LendPoolAddr] + Flow(LendPoolAddr, LendPoolAddr, UTokenAddr, debt)
    BY <1>1, Addresses, MovedFlow
  <2>3. initiator # LendPoolAddr BY Addresses
  <2> QED BY <1>1, <1>2, <1>3, <2>1, <2>2, <2>3, Addresses DEF Flow
<1> HIDE DEF s, topUp, repayment, remainder, extra, rest, debt
<1>7. CASE extra # 0
  <2>1. s = <<topUp>> \o <<repayment>> \o <<>> BY <1>3, <1>4, <1>7, Zenon
  <2>2. s = <<topUp, repayment>> BY <2>1, ShortSequences, Zenon
  <2>3. b[topUp.from] >= topUp.amount BY <1>3, <1>5
  <2>4. Moved(b, topUp)[repayment.from] >= repayment.amount
    BY <1>1, <1>2, <1>3, <1>5, <1>6, <1>7
  <2>5. Payable(b, s) BY <2>2, <2>3, <2>4, PayableTwo
  <2> QED BY <2>5 DEF s, debt
<1>8. CASE extra = 0 /\ rest = 0
  <2>1. s = <<>> \o <<repayment>> \o <<>> BY <1>4, <1>8, Zenon
  <2>2. s = <<repayment>> BY <2>1, ShortSequences, Zenon
  <2>3. b[repayment.from] >= repayment.amount BY <1>1, <1>2, <1>3, <1>5, <1>8
  <2>4. Payable(b, s) BY <2>2, <2>3, PayableOne
  <2> QED BY <2>4 DEF s, debt
<1>9. CASE extra = 0 /\ rest # 0
  <2>1. s = <<>> \o <<repayment>> \o <<remainder>> BY <1>4, <1>9, Zenon
  <2>2. s = <<repayment, remainder>> BY <2>1, ShortSequences, Zenon
  <2>3. b[repayment.from] >= repayment.amount BY <1>1, <1>2, <1>3, <1>5, <1>9
  <2>4. Moved(b, repayment)[remainder.from] >= remainder.amount
    BY <1>1, <1>2, <1>3, <1>5, <1>6, <1>9
  <2>5. Payable(b, s) BY <2>2, <2>3, <2>4, PayableTwo
  <2> QED BY <2>5 DEF s, debt
<1> QED BY <1>7, <1>8, <1>9

\* The counters, the custody and the debt tokens let an open loan that owes
\* something end.
LEMMA LoanCanEnd ==
  ASSUME PoolInv, NEW id \in LoanIds, Live(id), loans[id].scaledAmount # 0
  PROVE  CanRelease(id) /\ CanBurn(loans[id].borrower, BorrowAmount(id))
<1> DEFINE loan == loans[id]
           c == Collection[loan.nft]
<1>1. id # 0 /\ loan.nft \in NFT /\ nftToLoanIds[loan.nft] = id
  BY DEF PoolInv, LoanInv, OneOpenLoanPerNFT, LoanIds
<1>2. loan \in LoanData /\ loan.borrower \in Account
      /\ unftOwner[loan.nft] = loan.borrower
  BY <1>1, FoundLoan DEF PoolInv
<1>3. nftOwner[loan.nft] = UNFTVault
  BY <1>1 DEF PoolInv, LoanInv, CollateralInCustody
<1>4. unftOwner[loan.nft] # NullAddress BY <1>2, LoanAssumption
<1>5. c \in Collections BY <1>1 DEF Collections
<1>6. nftTotalCollateral[c] >= 1
  <2>1. id \in OpenLoansIn(c) /\ OpenLoansIn(c) \in SUBSET LoanIds
    BY DEF OpenLoansIn
  <2>2. Cardinality(OpenLoansIn(c)) >= 1 BY <2>1, CountOneLess
  <2>3. nftTotalCollateral[c] = Cardinality(OpenLoansIn(c))
    BY <1>5 DEF PoolInv, LoanInv, CountersCountOpenLoans
  <2> QED BY <2>2, <2>3
<1>7. userNftCollateral[loan.borrower][c] >= 1
  <2> DEFINE S == OpenLoansOf(loan.borrower, c)
  <2>1. id \in S /\ S \in SUBSET LoanIds
    BY DEF OpenLoansOf
  <2>2. userNftCollateral[loan.borrower][c] = Cardinality(S)
    BY <1>2, <1>5 DEF PoolInv, LoanInv, CountersCountOpenLoans
  <2> HIDE DEF S
  <2>3. Cardinality(S) >= 1 BY <2>1, CountOneLess
  <2> QED BY <2>2, <2>3
<1>8. CanRelease(id) BY <1>3, <1>4, <1>6, <1>7 DEF CanRelease
<1>9. CanBurn(loan.borrower, BorrowAmount(id))
  <2> DEFINE user == loan.borrower
  <2>1. RayDiv(BorrowAmount(id), borrowIndex) = loan.scaledAmount
        /\ loan.scaledAmount \in Nat
    BY <1>1, PoolAmounts
  <2>2. debtToken[user] = SumOver(ScaledAmounts, LoansOf(user))
    BY <1>2 DEF PoolInv, DebtTokensMatchLoans
  <2>3. Share(ScaledAmounts, LoansOf(user), id) = loan.scaledAmount
    BY DEF Share, ScaledAmounts, LoansOf
  <2>4. IsFiniteSet(LoansOf(user)) /\ \A x \in LoansOf(user) : ScaledAmounts[x] \in Nat
    BY LedgerTypes DEF PoolInv, LoanInv, LoansOf
  <2>5. /\ SumOver(ScaledAmounts, LoansOf(user))
             = SumOver(ScaledAmounts, LoansOf(user) \ {id})
                 + Share(ScaledAmounts, LoansOf(user), id)
        /\ SumOver(ScaledAmounts, LoansOf(user) \ {id}) \in Nat
    BY <2>4, SumSplit
  <2>6. debtToken[user] >= loan.scaledAmount
    BY <2>1, <2>2, <2>3, <2>5
  <2> QED BY <2>1, <2>6 DEF CanBurn
<1> QED BY <1>8, <1>9

\* A liquidation that is due is allowed when its transfers can be paid: neither
\* the debt tokens, the counters nor the custody of the NFT can stand in its way.
LEMMA DueIsAllowed ==
  ASSUME PoolInv, AuctionsOwe, NEW id \in Auctions, NEW initiator \in Account,
         NEW refund,
         ~paused, nftConfig[loans[id].nft].active,
         now > AuctionEnd(id) + ClaimDelay,
         CanPay(refund \o LiquidationTransfers(initiator, loans[id], BorrowAmount(id)))
  PROVE  LiquidationAllowed(initiator, loans[id].nft,
                            ExtraDebt(loans[id], BorrowAmount(id)), refund)
<1> DEFINE nft == loans[id].nft
           extra == ExtraDebt(loans[id], BorrowAmount(id))
<1>1. id \in LoanIds /\ loans[id].state = "Auction" /\ Live(id) /\ id # 0
  BY DEF Auctions, Live, LiveStates, LoanIds
<1>2. nft \in NFT /\ nftToLoanIds[nft] = id
  BY <1>1 DEF PoolInv, LoanInv, OneOpenLoanPerNFT
<1>3. PriceKnown(nft) /\ loans[id].scaledAmount # 0 BY DEF AuctionsOwe
<1>4. CanRelease(id) /\ CanBurn(loans[id].borrower, BorrowAmount(id))
  BY <1>1, <1>3, LoanCanEnd
<1>5. extra >= extra
  <2>1. extra \in Nat BY <1>1, LiquidationSeq
  <2> HIDE DEF extra
  <2> QED BY <2>1
<1> QED BY <1>1, <1>2, <1>3, <1>4, <1>5 DEF LiquidationAllowed

\* They can, when nothing is refunded and the initiator has what the bid lacks.
LEMMA DueIsPayable ==
  ASSUME PoolInv, NEW id \in Auctions, NEW initiator \in Account,
         weth[initiator] >= ExtraDebt(loans[id], BorrowAmount(id))
  PROVE  CanPay(<<>> \o LiquidationTransfers(initiator, loans[id], BorrowAmount(id)))
<1> DEFINE s == LiquidationTransfers(initiator, loans[id], BorrowAmount(id))
<1>1. id \in LoanIds /\ loans[id].state = "Auction" /\ weth \in Balances
  BY DEF Auctions, PoolInv, PoolTypeOK, Balances
<1>2. s \in Seq(TransferType) BY <1>1, LiquidationSeq
<1>3. Payable(weth, s) BY <1>1, LiquidationPayable
<1> HIDE DEF s
<1>4. <<>> \o s = s BY <1>2
<1>5. CanPay(<<>> \o s) BY <1>3, <1>4, PayableNow
<1> QED BY <1>5 DEF s

\* DueAuctionsSettle, with what liquidate demands of the state for ENABLED.
DueAuctionsAllowed ==
  \A id \in Auctions :
    LET nft == loans[id].nft
        extraDebt == ExtraDebt(loans[id], BorrowAmount(id))
    IN
    /\ ~paused /\ nftConfig[nft].active
    /\ now > AuctionEnd(id) + ClaimDelay
    => \A initiator \in Account : weth[initiator] >= extraDebt =>
         LiquidationAllowed(initiator, nft, extraDebt, <<>>)

\* No auction gets stuck: from every reachable state in which one is due, any
\* account that has what the best bid lacks may liquidate it.
THEOREM DueLiquidationsAllowed == PoolSpec => []DueAuctionsAllowed
<1>1. ASSUME PoolInv, AuctionsOwe PROVE DueAuctionsAllowed
  BY <1>1, DueIsPayable, DueIsAllowed DEF DueAuctionsAllowed
<1> QED BY <1>1, PoolInvariant, AuctionedLoansOwe, PTL

-----------------------------------------------------------------------------
(* What a redeemed loan still owes.                                        *)

\* A loan is taken out of its auction.
TakenOut(before, after) == before.state = "Auction" /\ after.state = "Active"

NoneTakenOut == \A id \in LoanIds : ~TakenOut(loans[id], loans'[id])

LEMMA OneNotTakenOut ==
  ASSUME LoanInv, NEW id \in LoanIds, NEW loan,
         loans' = [loans EXCEPT ![id] = loan], ~TakenOut(loans[id], loan)
  PROVE  NoneTakenOut
<1>1. loans \in [LoanIds -> LoanData] BY DEF LoanInv, LoanTypeOK
<1> QED BY <1>1 DEF NoneTakenOut, TakenOut

\* The operations on the loan book other than redeemLoan leave every auction
\* running, or end its loan.
LEMMA BookTakesNoneOut ==
  ASSUME LoanInv, NEW nft \in NFT, NEW id, id = nftToLoanIds[nft], id # 0,
         NEW amount, NEW index, NEW debt, NEW to,
         \/ IncreaseLoan(id, amount, index) \/ DecreaseLoan(id, amount, index)
         \/ RepayLoan(id) \/ BuyoutLoan(id, debt, to) \/ LiquidateLoan(id, debt, to)
  PROVE  NoneTakenOut
<1>1. id \in LoanIds /\ loans[id] \in LoanData BY FoundLoan
<1> DEFINE old == loans[id]
<1>2. CASE old.state = "Active"
  <2>1. PICK loan : loans' = [loans EXCEPT ![id] = loan]
    BY DEF IncreaseLoan, DecreaseLoan, RepayLoan, BuyoutLoan, LiquidateLoan
  <2> QED BY <1>1, <1>2, <2>1, OneNotTakenOut DEF TakenOut
<1>3. CASE old.state # "Active"
  <2>1. \/ loans' = [loans EXCEPT ![id] = [old EXCEPT !.state = "Repaid"]]
        \/ loans' = [loans EXCEPT ![id] = [old EXCEPT !.state = "Defaulted",
                                             !.bidBorrowAmount = debt]]
    BY <1>3 DEF IncreaseLoan, DecreaseLoan, RepayLoan, BuyoutLoan, LiquidateLoan
  <2>2. /\ [old EXCEPT !.state = "Repaid"].state = "Repaid"
        /\ [old EXCEPT !.state = "Defaulted", !.bidBorrowAmount = debt].state
             = "Defaulted"
    BY <1>1 DEF LoanData
  <2> QED BY <1>1, <2>1, <2>2, OneNotTakenOut DEF TakenOut
<1> QED BY <1>2, <1>3

\* The record of a new loan was not in auction.
LEMMA CreationTakesNoneOut ==
  ASSUME LoanInv, NEW initiator, NEW onBehalfOf, NEW nft, NEW amount, NEW index,
         CreateLoan(initiator, onBehalfOf, nft, amount, index)
  PROVE  NoneTakenOut
<1>1. PICK loan : /\ loanIdTracker \in LoanIds
                  /\ loans' = [loans EXCEPT ![loanIdTracker] = loan]
  BY DEF CreateLoan
<1>2. loans[loanIdTracker].state = "None"
  BY <1>1 DEF LoanInv, FreshLoanIds, LoanIds
<1> QED BY <1>1, <1>2, OneNotTakenOut DEF TakenOut

LEMMA BidTakesNoneOut ==
  ASSUME LoanInv, NEW nft \in NFT, NEW initiator, NEW onBehalfOf, NEW bid,
         Auction(initiator, onBehalfOf, nft, bid)
  PROVE  NoneTakenOut
<1> DEFINE id == nftToLoanIds[nft]
           debt == BorrowAmount(id)
           later == [loans[id] EXCEPT !.bidBorrowAmount = debt,
                       !.bidderAddress = onBehalfOf, !.bidPrice = bid]
<1>1. /\ id # 0
      /\ \/ /\ loans[id].state = "Active"
            /\ \E loan : loans' = [loans EXCEPT ![id] = loan]
         \/ loans[id].state = "Auction" /\ loans' = [loans EXCEPT ![id] = later]
  BY DEF Auction, OpenAuction, OutbidAuction
<1>2. id \in LoanIds /\ loans[id] \in LoanData BY <1>1, FoundLoan
<1>3. later.state = loans[id].state BY <1>2 DEF LoanData
<1> HIDE DEF id, debt, later
<1> QED BY <1>1, <1>2, <1>3, OneNotTakenOut DEF TakenOut

\* Among the operations of users only redeem takes a loan out of its auction.
LEMMA UserTakesOut ==
  ASSUME PoolInv, NEW initiator \in Account, NEW nft \in NFT, NEW refund,
         UserOperation(initiator, nft, refund), ~NoneTakenOut
  PROVE  \E amount, fineLimit \in Amounts :
           RedeemAuction(initiator, nft, amount, fineLimit, refund)
<1> USE DEF PoolInv, UserOperation
<1> DEFINE id == nftToLoanIds[nft]
<1>1. CASE \E onBehalfOf \in Account, amount \in Amounts :
             Borrow(initiator, onBehalfOf, nft, amount, refund)
  <2>1. PICK onBehalfOf \in Account, amount \in Amounts :
          IF id = 0
          THEN CreateLoan(initiator, onBehalfOf, nft, amount, borrowIndex)
          ELSE IncreaseLoan(id, amount, borrowIndex)
    BY <1>1 DEF Borrow
  <2> QED BY <2>1, CreationTakesNoneOut, BookTakesNoneOut
<1>2. CASE \E onBehalfOf \in Account, bid \in Bids :
             Auction(initiator, onBehalfOf, nft, bid)
  BY <1>2, BidTakesNoneOut
<1>3. CASE \E onBehalfOf \in Account : Buyout(initiator, onBehalfOf, nft, refund)
  BY <1>3, BookTakesNoneOut DEF Buyout
<1>4. CASE \E amount \in Amounts : Repay(initiator, nft, amount, refund)
  <2>1. PICK amount \in Amounts : Repay(initiator, nft, amount, refund) BY <1>4
  <2>2. PICK part : part = IF amount < BorrowAmount(id) THEN amount ELSE BorrowAmount(id)
    OBVIOUS
  <2>3. id # 0 /\ (DecreaseLoan(id, part, borrowIndex) \/ RepayLoan(id))
    BY <2>1, <2>2 DEF Repay
  <2> QED BY <2>3, BookTakesNoneOut
<1>5. CASE \E amount \in Amounts : Liquidate(initiator, nft, amount, refund)
  BY <1>5, BookTakesNoneOut DEF Liquidate
<1> QED BY <1>1, <1>2, <1>3, <1>4, <1>5

\* And so it is among the steps of the pool.
LEMMA OnlyRedeemTakesOut ==
  ASSUME PoolInv, [PoolNext]_poolVars, ~NoneTakenOut
  PROVE  \E initiator \in Account, nft \in NFT, amount, fineLimit \in Amounts :
           RedeemAuction(initiator, nft, amount, fineLimit, <<>>)
<1>1. UNCHANGED loans => NoneTakenOut BY DEF NoneTakenOut, TakenOut
<1>2. UserStep
  <2>1. CASE LenderStep \/ Delegate \/ Configure \/ Elsewhere
    BY <1>1, <2>1, QuietStarts
  <2>2. CASE Tick BY <1>1, <2>2 DEF Tick, loanVars, bookVars
  <2>3. CASE \E val \in Switches : SetPause(val)
    BY <1>1, <2>3 DEF SetPause, loanVars, bookVars
  <2>4. CASE UNCHANGED poolVars BY <1>1, <2>4 DEF poolVars, loanVars, bookVars
  <2> QED BY <2>1, <2>2, <2>3, <2>4 DEF PoolNext
<1>3. PICK initiator \in Account, nft \in NFT : UserOperation(initiator, nft, <<>>)
  BY <1>2 DEF UserStep, UserOperation
<1> QED BY <1>3, UserTakesOut

\* What the collateral safely covers, and the dust of a repayment.
LEMMA SafeAmounts ==
  ASSUME PoolInv, NEW nft \in NFT
  PROVE  /\ ThresholdPrice(nft) \in Nat /\ SafeDebt(nft) \in Nat
         /\ borrowIndex \div RAY \in Nat
<1>1. /\ nftPrice[nft] \in Nat /\ nftConfig[nft].liquidationThreshold \in Nat
      /\ borrowIndex \in Nat
  BY DEF PoolInv, PoolTypeOK, NftConfig
<1>2. PERCENTAGE_FACTOR \in Nat \ {0} /\ WAD \in Nat /\ RAY \in Nat \ {0}
  BY UnitsAssumption
<1>3. ThresholdPrice(nft) \in Nat
  BY <1>1, <1>2, UnitMulNat DEF ThresholdPrice, PercentMul
<1>4. SafeHealthFactor \in Nat \ {0} BY PoolAssumption
<1>5. SafeDebt(nft) \in Nat
  BY <1>2, <1>3, <1>4, UnitDivNat DEF SafeDebt, WadDiv
<1> QED BY <1>1, <1>2, <1>3, <1>5, DivBounds

\* What redeem leaves of a debt: no more than what the collateral safely
\* covers, but for the rounding of the repayment to scaled units.
LEMMA RedeemLeaves ==
  ASSUME PoolInv, NEW initiator \in Account, NEW nft \in NFT, NEW amount \in Nat,
         NEW fineLimit, NEW refund,
         RedeemAuction(initiator, nft, amount, fineLimit, refund),
         NEW id, id = nftToLoanIds[nft],
         nftPrice[nft] >= BorrowAmount(id) - SafeDebt(nft)
  PROVE  /\ id \in LoanIds
         /\ OnlyRecordWritten(id, loans'[id])
         /\ BorrowAmount(id)' \in Nat
         /\ BorrowAmount(id)' <= SafeDebt(nft) + (borrowIndex \div RAY)
         /\ UNCHANGED <<nftPrice, nftConfig, borrowIndex>>
<1> DEFINE old == loans[id]
           burned == RayDiv(amount, borrowIndex)
           debt == BorrowAmount(id)
           safe == SafeDebt(nft)
<1>1. /\ id # 0 /\ RedeemLoan(id, amount, borrowIndex)
      /\ amount >= MinRedeemValue(nft, debt)
      /\ UNCHANGED <<nftPrice, nftConfig, borrowIndex>>
  BY DEF RedeemAuction, MayRedeem, marketVars
<1>2. /\ id \in LoanIds /\ old \in LoanData /\ old.nft = nft
      /\ borrowIndex \in Nat \ {0} /\ borrowIndex >= RAY
      /\ old.scaledAmount \in Nat /\ debt \in Nat /\ nftPrice[nft] \in Nat
  BY <1>1, FoundLoan, PoolAmounts DEF PoolInv
<1>3. safe \in Nat BY SafeAmounts
<1>4. /\ burned \in Nat /\ burned <= old.scaledAmount
      /\ OnlyRecordWritten(id, [CalledOff(old) EXCEPT
                                  !.scaledAmount = old.scaledAmount - burned])
  BY <1>1, <1>2, RedeemInv DEF PoolInv
<1>5. loans'[id].scaledAmount = old.scaledAmount - burned
  BY <1>2, <1>4 DEF OnlyRecordWritten, LoanData, CalledOff
<1>6. OnlyRecordWritten(id, loans'[id])
  BY <1>2, <1>4 DEF OnlyRecordWritten, PoolInv, LoanInv, LoanTypeOK
<1>7. amount >= debt - safe
  <2>1. MinRedeemValue(nft, debt) = debt - safe
    <3>1. nftPrice[nft] >= debt - safe OBVIOUS
    <3>2. MinRedeemValue(nft, debt) = IF nftPrice[nft] < debt - safe
                                      THEN nftPrice[nft] ELSE debt - safe
      BY DEF MinRedeemValue
    <3> HIDE DEF debt, safe
    <3> QED BY <1>2, <1>3, <3>1, <3>2
  <2> QED BY <1>1, <2>1
<1> DEFINE left == RayMul(old.scaledAmount - burned, borrowIndex)
           dust == borrowIndex \div RAY
<1>8. left + amount <= debt + dust
  BY <1>2, <1>4, PartialRepayment DEF BorrowAmount
<1>9. left \in Nat /\ dust \in Nat
  <2>1. RAY \in Nat \ {0} BY UnitsAssumption
  <2>2. old.scaledAmount - burned \in Nat BY <1>2, <1>4
  <2>3. left \in Nat BY <1>2, <2>1, <2>2, UnitMulNat DEF RayMul
  <2> QED BY <2>3, SafeAmounts
<1>10. BorrowAmount(id)' = left BY <1>1, <1>5 DEF BorrowAmount
<1> HIDE DEF left, dust, debt, safe
<1>11. left <= safe + dust BY <1>2, <1>3, <1>7, <1>8, <1>9
<1> QED BY <1>1, <1>2, <1>6, <1>9, <1>10, <1>11 DEF safe, dust

\* The loan a redemption takes out of its auction is that of its NFT.
RedeemedFrom(nft, id) == id = nftToLoanIds[nft] /\ loans[id].nft = nft

LEMMA TakenFrom ==
  ASSUME PoolInv, NEW initiator, NEW nft \in NFT, NEW amount, NEW fineLimit,
         NEW refund, RedeemAuction(initiator, nft, amount, fineLimit, refund),
         NEW id \in LoanIds, TakenOut(loans[id], loans'[id])
  PROVE  RedeemedFrom(nft, id)
<1> DEFINE taken == nftToLoanIds[nft]
<1>1. /\ taken \in LoanIds /\ loans[taken].nft = nft
      /\ RedeemLoan(taken, amount, borrowIndex)
  BY FoundLoan DEF RedeemAuction, MayRedeem, PoolInv
<1>2. \A other \in LoanIds \ {taken} : loans'[other] = loans[other]
  BY <1>1 DEF RedeemLoan
<1>3. id = taken BY <1>2 DEF TakenOut
<1> QED BY <1>1, <1>3 DEF RedeemedFrom

\* RedeemRestoresHealth for every constant: the debt of a redeemed loan is at
\* most what its collateral safely covers and one unit for each ray of the
\* index; where that is within the threshold, the loan cannot be auctioned.
RedeemLeavesSafeDebt ==
  [][\A id \in LoanIds :
       LET nft == loans[id].nft
           safe == SafeDebt(nft) + (borrowIndex \div RAY)
       IN
       /\ TakenOut(loans[id], loans'[id])
       /\ nftPrice[nft] >= BorrowAmount(id) - SafeDebt(nft)
       => /\ BorrowAmount(id)' <= safe
          /\ safe <= ThresholdPrice(nft) =>
               BorrowAmount(id)' <= ThresholdPrice(nft)]_poolVars

\* What redeem leaves of a debt, whichever loan it takes out of its auction.
THEOREM RedeemedDebtIsSafe == PoolSpec => RedeemLeavesSafeDebt
<1> DEFINE Left ==
      \A id \in LoanIds :
        LET nft == loans[id].nft
            safe == SafeDebt(nft) + (borrowIndex \div RAY)
        IN
        /\ TakenOut(loans[id], loans'[id])
        /\ nftPrice[nft] >= BorrowAmount(id) - SafeDebt(nft)
        => /\ BorrowAmount(id)' <= safe
           /\ safe <= ThresholdPrice(nft) =>
                BorrowAmount(id)' <= ThresholdPrice(nft)
<1>1. ASSUME PoolInv, [PoolNext]_poolVars, NEW id \in LoanIds,
             TakenOut(loans[id], loans'[id]),
             nftPrice[loans[id].nft] >= BorrowAmount(id) - SafeDebt(loans[id].nft)
      PROVE  LET nft == loans[id].nft
                 safe == SafeDebt(nft) + (borrowIndex \div RAY)
             IN  /\ BorrowAmount(id)' <= safe
                 /\ safe <= ThresholdPrice(nft) =>
                      BorrowAmount(id)' <= ThresholdPrice(nft)
  <2>1. ~NoneTakenOut BY <1>1 DEF NoneTakenOut
  <2>2. PICK initiator \in Account, nft \in NFT, amount, fineLimit \in Amounts :
          RedeemAuction(initiator, nft, amount, fineLimit, <<>>)
    BY <1>1, <2>1, OnlyRedeemTakesOut
  <2>3. amount \in Nat BY LoanAssumption
  <2>4. id = nftToLoanIds[nft] /\ loans[id].nft = nft
    BY <1>1, <2>2, TakenFrom DEF RedeemedFrom
  <2>6. /\ BorrowAmount(id)' \in Nat
        /\ BorrowAmount(id)' <= SafeDebt(nft) + (borrowIndex \div RAY)
    BY <1>1, <2>2, <2>3, <2>4, RedeemLeaves
  <2>7. /\ SafeDebt(nft) \in Nat /\ ThresholdPrice(nft) \in Nat
        /\ borrowIndex \div RAY \in Nat
    BY <1>1, SafeAmounts
  <2> DEFINE safe == SafeDebt(nft) + (borrowIndex \div RAY)
             left == BorrowAmount(id)'
             bound == ThresholdPrice(nft)
  <2>9. left \in Nat /\ left <= safe /\ safe \in Nat /\ bound \in Nat
    BY <2>6, <2>7
  <2>10. left <= safe /\ (safe <= bound => left <= bound)
    <3> HIDE DEF left, safe, bound
    <3> QED BY <2>9
  <2> QED BY <2>4, <2>10
<1>2. PoolInv /\ [PoolNext]_poolVars => [Left]_poolVars BY <1>1
<1>3. PoolSpec => [][Left]_poolVars BY <1>2, PoolInvariant, PTL DEF PoolSpec
<1> QED BY <1>3 DEF RedeemLeavesSafeDebt

\* The margin of SafeHealthFactor covers the dust of a repayment, for every
\* loan that is in auction.
MarginCoversDust ==
  \A id \in Auctions :
    LET nft == loans[id].nft IN
    SafeDebt(nft) + (borrowIndex \div RAY) <= ThresholdPrice(nft)

\* redeem gives a loan back with its health restored, for every value of the
\* constants and as long as the collateral of the auctioned loans is worth more
\* than some units of dust: a loan of so little is the only one that rounding
\* may leave unhealthy.
THEOREM RedemptionsRestoreHealth ==
  PoolSpec /\ []MarginCoversDust => RedeemRestoresHealth
<1> DEFINE Left ==
      \A id \in LoanIds :
        LET nft == loans[id].nft
            safe == SafeDebt(nft) + (borrowIndex \div RAY)
        IN
        /\ TakenOut(loans[id], loans'[id])
        /\ nftPrice[nft] >= BorrowAmount(id) - SafeDebt(nft)
        => /\ BorrowAmount(id)' <= safe
           /\ safe <= ThresholdPrice(nft) =>
                BorrowAmount(id)' <= ThresholdPrice(nft)
           Restored ==
      \A id \in LoanIds :
        LET nft == loans[id].nft IN
        /\ loans[id].state = "Auction"
        /\ loans'[id].state = "Active"
        /\ nftPrice[nft] >= BorrowAmount(id) - SafeDebt(nft)
        => BorrowAmount(id)' <= ThresholdPrice(nft)
<1>1. MarginCoversDust /\ Left => Restored
  BY DEF MarginCoversDust, Auctions, TakenOut
<1>2. PoolSpec => [][Left]_poolVars
  BY RedeemedDebtIsSafe DEF RedeemLeavesSafeDebt
<1> HIDE DEF Left, Restored
<1>3. MarginCoversDust /\ [Left]_poolVars => [Restored]_poolVars BY <1>1
<1>4. PoolSpec /\ []MarginCoversDust => [][Restored]_poolVars BY <1>2, <1>3, PTL
<1> QED BY <1>4 DEF Restored, RedeemRestoresHealth

-----------------------------------------------------------------------------
(* The pool as a caller of the loan book.                                  *)

\* Each operation of a user calls one operation of the loan book, on the loan
\* of the NFT it is about: with the amount he gives, the debt, the index and
\* the time of that moment, a bid from Bids, and accounts as receivers.
LEMMA UserCallsBook ==
  ASSUME PoolInv, NEW initiator \in Account, NEW nft \in NFT, NEW refund,
         UserOperation(initiator, nft, refund)
  PROVE  BookNext(Bids)
<1> DEFINE id == nftToLoanIds[nft]
           debt == BorrowAmount(id)
<1>1. /\ \A amount \in Amounts : amount \in Nat
      /\ borrowIndex \in Nat \ {0} /\ now \in Nat \ {0} /\ LoanInv
  BY LoanAssumption DEF PoolInv, PoolTypeOK
<1>2. id # 0 => /\ debt \in Nat /\ id \in LoanIds
                /\ loans[id].state = "Auction" => loans[id].bidderAddress \in Account
  <2>1. id # 0 => id \in LoanIds /\ AuctionFieldsAgree(loans[id])
    BY <1>1, FoundLoan
  <2> QED BY <2>1, PoolAmounts DEF AuctionFieldsAgree
<1> HIDE DEF debt
<1>3. BookOperation(nft, Bids) => BookNext(Bids) BY DEF BookNext
<1>4. CASE \E onBehalfOf \in Account, amount \in Amounts :
             Borrow(initiator, onBehalfOf, nft, amount, refund)
  <2>1. PICK onBehalfOf \in Account, amount \in Amounts :
          IF id = 0
          THEN CreateLoan(initiator, onBehalfOf, nft, amount, borrowIndex)
          ELSE IncreaseLoan(id, amount, borrowIndex)
    BY <1>4 DEF Borrow
  <2>2. CASE id = 0 BY <1>1, <2>1, <2>2 DEF BookNext
  <2>3. CASE id # 0 BY <1>1, <1>3, <2>1, <2>3 DEF BookOperation
  <2> QED BY <2>2, <2>3
<1>5. CASE \E onBehalfOf \in Account, bid \in Bids :
             Auction(initiator, onBehalfOf, nft, bid)
  <2>1. PICK onBehalfOf \in Account, bid \in Bids :
          /\ id # 0
          /\ \/ OpenAuction(id, onBehalfOf, bid, debt, now)
             \/ OutbidAuction(id, onBehalfOf, bid, debt)
    BY <1>5 DEF Auction, debt
  <2> QED BY <1>1, <1>2, <1>3, <2>1 DEF BookOperation
<1>6. CASE \E onBehalfOf \in Account : Buyout(initiator, onBehalfOf, nft, refund)
  <2>1. PICK onBehalfOf \in Account :
          id # 0 /\ BuyoutLoan(id, debt, Receiver(onBehalfOf))
    BY <1>6 DEF Buyout, debt
  <2>2. Receiver(onBehalfOf) \in Account BY ReceiverAccount
  <2> QED BY <1>2, <1>3, <2>1, <2>2 DEF BookOperation
<1>7. CASE \E amount \in Amounts : Repay(initiator, nft, amount, refund)
  <2>1. PICK amount \in Amounts : Repay(initiator, nft, amount, refund) BY <1>7
  <2>2. PICK part : part = IF amount < BorrowAmount(id) THEN amount ELSE BorrowAmount(id)
    OBVIOUS
  <2>3. /\ id # 0
        /\ \/ amount < BorrowAmount(id) /\ DecreaseLoan(id, part, borrowIndex)
           \/ RepayLoan(id)
    BY <2>1, <2>2 DEF Repay
  <2>4. DecreaseLoan(id, amount, borrowIndex) \/ RepayLoan(id) BY <2>2, <2>3
  <2> QED BY <1>1, <1>3, <2>3, <2>4 DEF BookOperation
<1>8. CASE \E amount \in Amounts : Liquidate(initiator, nft, amount, refund)
  <2>1. /\ id # 0
        /\ LiquidateLoan(id, debt, Receiver(loans[id].bidderAddress))
    BY <1>8 DEF Liquidate, debt
  <2>2. loans[id].state = "Auction" BY <2>1 DEF LiquidateLoan
  <2>3. Receiver(loans[id].bidderAddress) \in Account
    BY <1>2, <2>1, <2>2, ReceiverAccount
  <2> QED BY <1>2, <1>3, <2>1, <2>3 DEF BookOperation
<1>9. CASE \E amount, fineLimit \in Amounts :
             RedeemAuction(initiator, nft, amount, fineLimit, refund)
  <2>1. PICK amount \in Amounts : id # 0 /\ RedeemLoan(id, amount, borrowIndex)
    BY <1>9 DEF RedeemAuction, MayRedeem
  <2> QED BY <1>1, <1>3, <2>1 DEF BookOperation
<1> QED BY <1>4, <1>5, <1>6, <1>7, <1>8, <1>9 DEF UserOperation

\* The other steps of the pool leave the loan book alone, or are NFTs changing
\* hands and collections being added.
LEMMA OthersCallBook ==
  ASSUME \/ LenderStep \/ Delegate \/ Configure \/ Elsewhere \/ Tick
         \/ \E val \in Switches : SetPause(val)
         \/ UNCHANGED poolVars
  PROVE  [BookNext(Bids)]_loanVars
<1>1. CASE Elsewhere
  BY <1>1 DEF Elsewhere, BookNext, Administer
<1>2. CASE LenderStep \/ Delegate
  BY <1>2 DEF LenderStep, Deposit, Withdraw, Delegate, ApproveDelegation
<1>3. CASE Configure
  BY <1>3
  DEF Configure, ConfigureNftAsCollateral, ConfigureNftAsAuction, SetNFTPrice,
      SetActiveFlagOnNft, SetFreezeFlagOnNft
<1>4. CASE Tick \/ \E val \in Switches : SetPause(val)
  BY <1>4 DEF Tick, SetPause
<1>5. CASE UNCHANGED poolVars BY <1>5 DEF poolVars
<1> QED BY <1>1, <1>2, <1>3, <1>4, <1>5

\* So the pool is a caller of the loan book.
LEMMA PoolCallsBook ==
  ASSUME PoolInv, [PoolNext]_poolVars
  PROVE  [BookNext(Bids)]_loanVars
<1>1. CASE UserStep
  <2>1. PICK initiator \in Account, nft \in NFT : UserOperation(initiator, nft, <<>>)
    BY <1>1 DEF UserStep, UserOperation
  <2> QED BY <2>1, UserCallsBook
<1> QED BY <1>1, OthersCallBook DEF PoolNext

\* A repaid, liquidated or bought out loan is never changed again by the pool,
\* with the amounts, indexes and receivers it really calls the book with.
THEOREM PoolKeepsClosedLoans == PoolSpec => ClosedLoansStayClosed
<1>1. PoolInv /\ [PoolNext]_poolVars => [ClosedKept]_loanVars
  BY PoolCallsBook, BookKeepsClosed DEF PoolInv
<1>2. PoolSpec => [][ClosedKept]_loanVars
  BY <1>1, PoolInvariant, PTL DEF PoolSpec
<1> QED BY <1>2 DEF ClosedLoansStayClosed, ClosedKept

\* No operation of the pool restarts an auction, changes its first bidder or
\* its debt, or lowers its bid.
THEOREM PoolAuctionsRise == PoolSpec => AuctionsOnlyRise
<1>1. Bids \in SUBSET (Nat \ {0}) BY PoolAssumption
<1>2. PoolInv /\ [PoolNext]_poolVars => [AuctionsRising]_loanVars
  BY <1>1, PoolCallsBook, BookRises DEF PoolInv
<1>3. PoolSpec => [][AuctionsRising]_loanVars
  BY <1>2, PoolInvariant, PTL DEF PoolSpec
<1> QED BY <1>3 DEF AuctionsOnlyRise, AuctionsRising, StillRises

\* The whole pool, with its money, prices, pauses and interest, implements the
\* abstract pawn shop for every value of the constants: a debt or a bid changes,
\* and an NFT leaves custody, only as the shop allows.
THEOREM PoolImplementsPawn == PoolSpec => ShopOf(Bids)!Spec
<1>1. PoolInit => ShopOf(Bids)!Init
  BY BookStartsFree DEF PoolInit
<1>2. PoolInv /\ [PoolNext]_poolVars => [ShopOf(Bids)!Next]_Tickets
  <2>1. Bids \in SUBSET (Nat \ {0}) BY PoolAssumption
  <2> QED BY <2>1, PoolCallsBook, BookIsShop DEF PoolInv
<1> QED BY <1>1, <1>2, PoolInvariant, PTL DEF PoolSpec, ShopOf!Spec

=============================================================================
