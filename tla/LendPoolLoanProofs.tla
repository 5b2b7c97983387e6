------------------------- MODULE LendPoolLoanProofs -------------------------
(***************************************************************************)
(* Proofs about the loan book, for every set of accounts, NFTs, adapters,  *)
(* amounts, indexes and timestamps and every number of loans.              *)
(*                                                                         *)
(* The inductive invariant is the conjunction of the state properties of   *)
(* LendPoolLoan.  None of them is inductive alone: the counters need the   *)
(* exact map to know that the loan an operation ends was open, the map     *)
(* needs the identifiers above the tracker to be unused, and a loan can    *)
(* only be released when its collateral is in custody.                     *)
(***************************************************************************)
EXTENDS LendPoolLoan, FiniteSetTheorems, TLAPS

LoanInv ==
  /\ LoanTypeOK
  /\ OneOpenLoanPerNFT
  /\ FreshLoanIds
  /\ CollateralInCustody
  /\ CountersCountOpenLoans
  /\ AuctionFieldsInStep

-----------------------------------------------------------------------------
(* Arithmetic and counting.                                                *)

\* A ray quotient of an amount by an index is a natural number.
LEMMA RayDivNat ==
  ASSUME NEW amount \in Nat, NEW index \in Nat \ {0}
  PROVE  RayDiv(amount, index) \in Nat
<1>1. RAY \in Nat BY UnitsAssumption
<1>2. amount * RAY \in Nat BY <1>1
<1>3. index \div 2 \in Nat OBVIOUS
<1> DEFINE n == amount * RAY + (index \div 2)
<1>4. n \in Nat BY <1>2, <1>3
<1> HIDE DEF n
<1>5. n \div index \in Nat BY <1>4
<1> QED BY <1>5 DEF RayDiv, UnitDiv, n

\* There are finitely many loan identifiers.
LEMMA LoanIdsFinite == IsFiniteSet(LoanIds)
<1>1. 1 \in Int /\ MaxLoans \in Int BY LoanAssumption
<1>2. IsFiniteSet(1 .. MaxLoans) BY <1>1, FS_Interval, Zenon
<1> QED BY <1>2 DEF LoanIds

\* Adding a new loan to a set of loans counts one more.
LEMMA CountOneMore ==
  ASSUME NEW S \in SUBSET LoanIds, NEW id \in LoanIds, id \notin S
  PROVE  Cardinality(S \cup {id}) = Cardinality(S) + 1
<1>2. IsFiniteSet(S) BY LoanIdsFinite, FS_Subset
<1> QED BY <1>2, FS_AddElement

\* Removing a loan from a set of loans counts one less.
LEMMA CountOneLess ==
  ASSUME NEW S \in SUBSET LoanIds, NEW id \in S
  PROVE  /\ Cardinality(S \ {id}) = Cardinality(S) - 1
         /\ Cardinality(S) \in Nat
         /\ Cardinality(S) >= 1
<1>2. IsFiniteSet(S) BY LoanIdsFinite, FS_Subset
<1>3. Cardinality(S \ {id}) = Cardinality(S) - 1 BY <1>2, FS_RemoveElement
<1>4. Cardinality(S) \in Nat /\ Cardinality(S \ {id}) \in Nat
  BY <1>2, FS_RemoveElement, FS_CardinalityType
<1> QED BY <1>3, <1>4

-----------------------------------------------------------------------------
(* The initial states.                                                     *)

\* The deployed contract satisfies the invariant.
LEMMA LoanInitInv == LoanInit => LoanInv
<1> SUFFICES ASSUME LoanInit PROVE LoanInv OBVIOUS
<1> USE DEF LoanInit
<1>1. NoLoan \in LoanData
  BY LoanAssumption DEF NoLoan, LoanData, LoanState
<1>2. LoanTypeOK
  BY <1>1, LoanAssumption DEF LoanTypeOK
<1>3. \A id \in LoanIds : loans[id] = NoLoan /\ ~Live(id)
  BY DEF NoLoan, Live, LiveStates
<1>4. OneOpenLoanPerNFT BY <1>3 DEF OneOpenLoanPerNFT
<1>5. FreshLoanIds BY <1>3 DEF FreshLoanIds, NoLoan, LoanIds
<1>6. CollateralInCustody BY DEF CollateralInCustody
<1>7. \A c, u : OpenLoansIn(c) = {} /\ OpenLoansOf(u, c) = {}
  BY <1>3 DEF OpenLoansIn, OpenLoansOf
<1>8. CountersCountOpenLoans
  BY <1>7, FS_EmptySet DEF CountersCountOpenLoans
<1>9. AuctionFieldsInStep BY <1>3 DEF AuctionFieldsInStep
<1> QED BY <1>2, <1>4, <1>5, <1>6, <1>8, <1>9 DEF LoanInv


-----------------------------------------------------------------------------
(* The operations that change one open loan and nothing else.              *)

\* An open loan may be replaced by another open one for the same NFT and
\* borrower whose auction fields agree with its state.
LEMMA TouchLoan ==
  ASSUME LoanInv, NEW id \in LoanIds, Live(id), NEW loan \in LoanData,
         loan.state \in LiveStates,
         loan.nft = loans[id].nft, loan.borrower = loans[id].borrower,
         AuctionFieldsAgree(loan),
         loans' = [loans EXCEPT ![id] = loan],
         UNCHANGED <<loanIdTracker, nftToLoanIds, nftTotalCollateral,
                     userNftCollateral, marketAdapters, approvedNfts,
                     custodyVars>>
  PROVE  LoanInv'
<1> USE DEF LoanInv
<1>0. loans \in [LoanIds -> LoanData] BY DEF LoanTypeOK
<1>1. /\ loans'[id] = loan
      /\ \A j \in LoanIds : j # id => loans'[j] = loans[j]
  BY <1>0
<1>2. \A j \in LoanIds : /\ loans'[j].nft = loans[j].nft
                         /\ loans'[j].borrower = loans[j].borrower
                         /\ Live(j)' <=> Live(j)
  BY <1>1 DEF Live
<1>3. LoanTypeOK' BY <1>0 DEF LoanTypeOK, custodyVars
<1>4. OneOpenLoanPerNFT' 
  BY <1>2, <1>3 DEF OneOpenLoanPerNFT, LoanTypeOK
<1>5. FreshLoanIds'
  BY <1>1 DEF FreshLoanIds, Live, LiveStates
<1>6. CollateralInCustody'
  BY <1>2 DEF CollateralInCustody, custodyVars, LoanTypeOK
<1>7. \A c, u : /\ OpenLoansIn(c)' = OpenLoansIn(c)
                /\ OpenLoansOf(u, c)' = OpenLoansOf(u, c)
  BY <1>2 DEF OpenLoansIn, OpenLoansOf
<1>8. CountersCountOpenLoans'
  BY <1>7 DEF CountersCountOpenLoans
<1>9. AuctionFieldsInStep'
  BY <1>1, <1>2 DEF AuctionFieldsInStep
<1> QED BY <1>3, <1>4, <1>5, <1>6, <1>8, <1>9


-----------------------------------------------------------------------------
(* The operations that end a loan.                                         *)

\* An open loan may be closed together with the release of its collateral to
\* an account.
LEMMA EndLoan ==
  ASSUME LoanInv, NEW id \in LoanIds, Live(id), NEW loan \in LoanData,
         loan.state \in {"Repaid", "Defaulted"},
         loan.nft = loans[id].nft, loan.borrower = loans[id].borrower,
         NEW to \in Account,
         loans' = [loans EXCEPT ![id] = loan],
         ReleaseCollateral(id, to)
  PROVE  LoanInv'
<1> USE DEF LoanInv
<1> DEFINE nft == loans[id].nft
           borrower == loans[id].borrower
           collection == Collection[nft]
<1>0. loans \in [LoanIds -> LoanData] BY DEF LoanTypeOK
<1>1. /\ loans'[id] = loan
      /\ \A j \in LoanIds : j # id => loans'[j] = loans[j]
  BY <1>0
<1>2. /\ ~Live(id)'
      /\ \A j \in LoanIds : j # id => (Live(j)' <=> Live(j))
  BY <1>1 DEF Live, LiveStates
<1>3. /\ nft \in NFT
      /\ nftToLoanIds[nft] = id
      /\ id # 0
      /\ collection \in Collections
  BY DEF OneOpenLoanPerNFT, LoanIds, Collections
<1>4. borrower \in Account
  BY <1>3 DEF CollateralInCustody
<1>5. /\ nftToLoanIds' = [nftToLoanIds EXCEPT ![nft] = 0]
      /\ userNftCollateral' =
           [userNftCollateral EXCEPT ![borrower][collection] = @ - 1]
      /\ nftTotalCollateral' = [nftTotalCollateral EXCEPT ![collection] = @ - 1]
      /\ nftOwner' = [nftOwner EXCEPT ![nft] = to]
      /\ unftOwner' = [unftOwner EXCEPT ![nft] = NullAddress]
      /\ userNftCollateral[borrower][collection] >= 1
      /\ nftTotalCollateral[collection] >= 1
      /\ UNCHANGED <<loanIdTracker, marketAdapters, approvedNfts>>
  BY DEF ReleaseCollateral, BurnUNFT
<1> HIDE DEF nft, borrower, collection
<1>6. LoanTypeOK'
  <2>1. loans' \in [LoanIds -> LoanData] BY <1>0
  <2>2. nftTotalCollateral' \in [Collections -> Nat]
    BY <1>3, <1>5 DEF LoanTypeOK
  <2>3. userNftCollateral' \in [Account -> [Collections -> Nat]]
    BY <1>3, <1>4, <1>5 DEF LoanTypeOK
  <2>4. nftOwner' \in [NFT -> Account \cup {UNFTVault}]
    BY <1>3, <1>5 DEF LoanTypeOK
  <2> QED BY <2>1, <2>2, <2>3, <2>4, <1>3, <1>5 DEF LoanTypeOK
<1>7. \A j \in LoanIds : j # id /\ Live(j) => loans[j].nft # nft
  BY <1>3 DEF OneOpenLoanPerNFT
<1>8. \A m \in NFT : /\ nftToLoanIds'[m] = IF m = nft THEN 0 ELSE nftToLoanIds[m]
                     /\ m # nft => nftToLoanIds[m] # id
  BY <1>3, <1>5 DEF LoanTypeOK, OneOpenLoanPerNFT, nft
<1>9. OneOpenLoanPerNFT'
  <2>1. ASSUME NEW m \in NFT, nftToLoanIds'[m] # 0
        PROVE  /\ loans'[nftToLoanIds'[m]].state \in LiveStates
               /\ loans'[nftToLoanIds'[m]].nft = m
    <3>1. /\ m # nft
          /\ nftToLoanIds'[m] = nftToLoanIds[m]
          /\ nftToLoanIds[m] # id
      BY <2>1, <1>8
    <3>2. nftToLoanIds[m] \in LoanIds BY <2>1, <3>1 DEF LoanTypeOK
    <3>3. Live(nftToLoanIds[m]) /\ loans[nftToLoanIds[m]].nft = m
      BY <2>1, <3>1 DEF OneOpenLoanPerNFT
    <3>4. loans'[nftToLoanIds[m]] = loans[nftToLoanIds[m]]
      BY <3>1, <3>2, <1>1
    <3> QED BY <3>1, <3>3, <3>4 DEF Live
  <2>2. ASSUME NEW j \in LoanIds, Live(j)'
        PROVE  loans'[j].nft \in NFT /\ nftToLoanIds'[loans'[j].nft] = j
    <3>1. j # id /\ Live(j) /\ loans'[j] = loans[j] BY <2>2, <1>1, <1>2
    <3> QED BY <3>1, <1>7, <1>8 DEF OneOpenLoanPerNFT
  <2> QED BY <2>1, <2>2 DEF OneOpenLoanPerNFT, Live
<1>10. FreshLoanIds'
  BY <1>1, <1>5 DEF FreshLoanIds, Live, LiveStates
<1>11. CollateralInCustody'
  <2> SUFFICES ASSUME NEW m \in NFT
               PROVE  LET i == nftToLoanIds'[m] IN
                      IF i = 0
                      THEN nftOwner'[m] \in Account /\ unftOwner'[m] = NullAddress
                      ELSE /\ nftOwner'[m] = UNFTVault
                           /\ loans'[i].borrower \in Account
                           /\ unftOwner'[m] = loans'[i].borrower
    BY DEF CollateralInCustody
  <2>1. CASE m = nft
    BY <2>1, <1>5, <1>8 DEF LoanTypeOK
  <2>2. CASE m # nft
    BY <2>2, <1>1, <1>5, <1>8 DEF CollateralInCustody, LoanTypeOK
  <2> QED BY <2>1, <2>2
<1>12. \A c : OpenLoansIn(c)' = IF c = collection THEN OpenLoansIn(c) \ {id}
                                                  ELSE OpenLoansIn(c)
  BY <1>1, <1>2 DEF OpenLoansIn, collection, nft
<1>13. \A c, u : OpenLoansOf(u, c)' =
                   IF c = collection /\ u = borrower
                   THEN OpenLoansOf(u, c) \ {id} ELSE OpenLoansOf(u, c)
  BY <1>1, <1>2 DEF OpenLoansOf, collection, nft, borrower
<1>14. /\ id \in OpenLoansIn(collection)
       /\ id \in OpenLoansOf(borrower, collection)
  BY DEF OpenLoansIn, OpenLoansOf, collection, nft, borrower
<1>15. CountersCountOpenLoans'
  <2> SUFFICES ASSUME NEW c \in Collections
               PROVE  /\ nftTotalCollateral'[c] = Cardinality(OpenLoansIn(c)')
                      /\ \A u \in Account :
                           userNftCollateral'[u][c]
                             = Cardinality(OpenLoansOf(u, c)')
    BY DEF CountersCountOpenLoans
  <2>1. nftTotalCollateral'[c] = Cardinality(OpenLoansIn(c)')
    <3>1. CASE c = collection
      <4>1. OpenLoansIn(c) \in SUBSET LoanIds BY DEF OpenLoansIn
      <4>2. Cardinality(OpenLoansIn(c) \ {id}) = Cardinality(OpenLoansIn(c)) - 1
        BY <3>1, <4>1, <1>14, CountOneLess
      <4>3. nftTotalCollateral'[c] = nftTotalCollateral[c] - 1
        BY <3>1, <1>5 DEF LoanTypeOK
      <4> QED BY <3>1, <4>2, <4>3, <1>12 DEF CountersCountOpenLoans
    <3>2. CASE c # collection
      BY <3>2, <1>5, <1>12 DEF CountersCountOpenLoans, LoanTypeOK
    <3> QED BY <3>1, <3>2
  <2>2. ASSUME NEW u \in Account
        PROVE  userNftCollateral'[u][c] = Cardinality(OpenLoansOf(u, c)')
    <3>1. CASE c = collection /\ u = borrower
      <4>1. OpenLoansOf(u, c) \in SUBSET LoanIds BY DEF OpenLoansOf
      <4>2. Cardinality(OpenLoansOf(u, c) \ {id})
              = Cardinality(OpenLoansOf(u, c)) - 1
        BY <3>1, <4>1, <1>14, CountOneLess
      <4>3. userNftCollateral'[u][c] = userNftCollateral[u][c] - 1
        BY <3>1, <1>5 DEF LoanTypeOK
      <4> QED BY <3>1, <4>2, <4>3, <1>13 DEF CountersCountOpenLoans
    <3>2. CASE ~(c = collection /\ u = borrower)
      <4>1. userNftCollateral'[u][c] = userNftCollateral[u][c]
        BY <3>2, <1>4, <1>5 DEF LoanTypeOK
      <4> QED BY <3>2, <4>1, <1>13 DEF CountersCountOpenLoans
    <3> QED BY <3>1, <3>2
  <2> QED BY <2>1, <2>2
<1>16. AuctionFieldsInStep'
  BY <1>1, <1>2 DEF AuctionFieldsInStep
<1> QED BY <1>6, <1>9, <1>10, <1>11, <1>15, <1>16


-----------------------------------------------------------------------------
(* The operation that opens a loan.                                        *)

\* createLoan takes the next identifier, which no loan uses, for an NFT that
\* secures no other loan.
LEMMA CreateLoanInv ==
  ASSUME LoanInv, NEW initiator \in Account, NEW onBehalfOf \in Account,
         NEW nft \in NFT, NEW amount \in Nat, NEW index \in Nat \ {0},
         CreateLoan(initiator, onBehalfOf, nft, amount, index)
  PROVE  LoanInv'
<1> USE DEF LoanInv
<1> PICK id : id = loanIdTracker OBVIOUS
<1> DEFINE scaled == RayDiv(amount, index)
           loan == [NoLoan EXCEPT !.state = "Active", !.borrower = onBehalfOf,
                                  !.nft = nft, !.scaledAmount = scaled]
           collection == Collection[nft]
<1>0. loans \in [LoanIds -> LoanData] BY DEF LoanTypeOK
<1>1. /\ id \in LoanIds
      /\ nftToLoanIds[nft] = 0
      /\ scaled <= MaxScaledAmount
      /\ loans' = [loans EXCEPT ![id] = loan]
      /\ loanIdTracker = id /\ loanIdTracker' = id + 1
      /\ nftToLoanIds' = [nftToLoanIds EXCEPT ![nft] = id]
      /\ userNftCollateral' =
           [userNftCollateral EXCEPT ![onBehalfOf][collection] = @ + 1]
      /\ nftTotalCollateral' = [nftTotalCollateral EXCEPT ![collection] = @ + 1]
      /\ nftOwner' = [nftOwner EXCEPT ![nft] = UNFTVault]
      /\ unftOwner' = [unftOwner EXCEPT ![nft] = onBehalfOf]
      /\ UNCHANGED <<marketAdapters, approvedNfts>>
  BY DEF CreateLoan, MintUNFT
<1>2. scaled \in 0 .. MaxScaledAmount
  <2>1. scaled \in Nat BY RayDivNat
  <2> QED BY <2>1, <1>1, LoanAssumption
<1> HIDE DEF scaled
<1>3. /\ loan \in LoanData
      /\ loan.state = "Active" /\ loan.nft = nft /\ loan.borrower = onBehalfOf
      /\ loan.bidStartTimestamp = 0
      /\ loan.bidderAddress = NullAddress
      /\ loan.firstBidderAddress = NullAddress
      /\ loan.bidPrice = 0
  BY <1>2 DEF NoLoan, LoanData, LoanState
<1>4. collection \in Collections BY DEF Collections
<1> HIDE DEF loan, collection
<1>5. /\ loans'[id] = loan
      /\ \A j \in LoanIds : j # id => loans'[j] = loans[j]
  BY <1>0, <1>1
<1>6. ~Live(id) /\ id # 0
  BY <1>1 DEF FreshLoanIds, Live, LiveStates, LoanIds
<1>7. /\ Live(id)'
      /\ \A j \in LoanIds : j # id => (Live(j)' <=> Live(j))
  BY <1>1, <1>3, <1>5 DEF Live, LiveStates
<1>8. LoanTypeOK'
  <2>1. loans' \in [LoanIds -> LoanData] BY <1>0, <1>1, <1>3
  <2>2. loanIdTracker' \in 1 .. MaxLoans + 1
    BY <1>1, LoanAssumption DEF LoanIds
  <2>3. nftToLoanIds' \in [NFT -> {0} \cup LoanIds]
    BY <1>1 DEF LoanTypeOK
  <2>4. nftTotalCollateral' \in [Collections -> Nat]
    BY <1>1, <1>4 DEF LoanTypeOK
  <2>5. userNftCollateral' \in [Account -> [Collections -> Nat]]
    BY <1>1, <1>4 DEF LoanTypeOK
  <2>6. /\ nftOwner' \in [NFT -> Account \cup {UNFTVault}]
        /\ unftOwner' \in [NFT -> Account \cup {NullAddress}]
    BY <1>1 DEF LoanTypeOK
  <2> QED BY <2>1, <2>2, <2>3, <2>4, <2>5, <2>6, <1>1 DEF LoanTypeOK
<1>9. \A m \in NFT : nftToLoanIds'[m] = IF m = nft THEN id ELSE nftToLoanIds[m]
  BY <1>1 DEF LoanTypeOK
<1>10. \A m \in NFT : nftToLoanIds[m] # id
  BY <1>6 DEF OneOpenLoanPerNFT
<1>11. OneOpenLoanPerNFT'
  <2>1. ASSUME NEW m \in NFT, nftToLoanIds'[m] # 0
        PROVE  /\ loans'[nftToLoanIds'[m]].state \in LiveStates
               /\ loans'[nftToLoanIds'[m]].nft = m
    <3>1. CASE m = nft
      BY <3>1, <1>3, <1>5, <1>9 DEF LiveStates
    <3>2. CASE m # nft
      <4>1. /\ nftToLoanIds'[m] = nftToLoanIds[m]
            /\ nftToLoanIds[m] # 0 /\ nftToLoanIds[m] # id
        BY <2>1, <3>2, <1>9, <1>10
      <4>2. nftToLoanIds[m] \in LoanIds BY <4>1 DEF LoanTypeOK
      <4>3. loans'[nftToLoanIds[m]] = loans[nftToLoanIds[m]]
        BY <4>1, <4>2, <1>5
      <4> QED BY <4>1, <4>3 DEF OneOpenLoanPerNFT, Live
    <3> QED BY <3>1, <3>2
  <2>2. ASSUME NEW j \in LoanIds, Live(j)'
        PROVE  loans'[j].nft \in NFT /\ nftToLoanIds'[loans'[j].nft] = j
    <3>1. CASE j = id
      BY <3>1, <1>3, <1>5, <1>9
    <3>2. CASE j # id
      <4>1. Live(j) /\ loans'[j] = loans[j] BY <2>2, <3>2, <1>5, <1>7
      <4>2. /\ loans[j].nft \in NFT
            /\ nftToLoanIds[loans[j].nft] = j
            /\ j # 0
        BY <4>1 DEF OneOpenLoanPerNFT, LoanIds
      <4> QED BY <4>1, <4>2, <1>1, <1>9
    <3> QED BY <3>1, <3>2
  <2> QED BY <2>1, <2>2 DEF OneOpenLoanPerNFT, Live
<1>12. FreshLoanIds'
  <2> SUFFICES ASSUME NEW j \in LoanIds
               PROVE  j >= id + 1 <=> loans'[j].state = "None"
    BY <1>1 DEF FreshLoanIds
  <2>1. CASE j = id BY <2>1, <1>3, <1>5 DEF LoanIds
  <2>2. CASE j # id
    BY <2>2, <1>1, <1>5 DEF FreshLoanIds, LoanIds
  <2> QED BY <2>1, <2>2
<1>13. CollateralInCustody'
  <2> SUFFICES ASSUME NEW m \in NFT
               PROVE  LET i == nftToLoanIds'[m] IN
                      IF i = 0
                      THEN nftOwner'[m] \in Account /\ unftOwner'[m] = NullAddress
                      ELSE /\ nftOwner'[m] = UNFTVault
                           /\ loans'[i].borrower \in Account
                           /\ unftOwner'[m] = loans'[i].borrower
    BY DEF CollateralInCustody
  <2>1. CASE m = nft
    BY <2>1, <1>1, <1>3, <1>5, <1>6, <1>9 DEF LoanTypeOK
  <2>2. CASE m # nft
    BY <2>2, <1>1, <1>5, <1>9, <1>10 DEF CollateralInCustody, LoanTypeOK
  <2> QED BY <2>1, <2>2
<1>14. \A c : /\ OpenLoansIn(c)' = IF c = collection THEN OpenLoansIn(c) \cup {id}
                                                     ELSE OpenLoansIn(c)
              /\ OpenLoansIn(c) \in SUBSET LoanIds
              /\ id \notin OpenLoansIn(c)
  BY <1>1, <1>3, <1>5, <1>6, <1>7 DEF OpenLoansIn, collection
<1>15. \A c, u : /\ OpenLoansOf(u, c)' =
                      IF c = collection /\ u = onBehalfOf
                      THEN OpenLoansOf(u, c) \cup {id} ELSE OpenLoansOf(u, c)
                 /\ OpenLoansOf(u, c) \in SUBSET LoanIds
                 /\ id \notin OpenLoansOf(u, c)
  BY <1>1, <1>3, <1>5, <1>6, <1>7 DEF OpenLoansOf, collection
<1>16. CountersCountOpenLoans'
  <2> SUFFICES ASSUME NEW c \in Collections
               PROVE  /\ nftTotalCollateral'[c] = Cardinality(OpenLoansIn(c)')
                      /\ \A u \in Account :
                           userNftCollateral'[u][c]
                             = Cardinality(OpenLoansOf(u, c)')
    BY DEF CountersCountOpenLoans
  <2>1. nftTotalCollateral'[c] = Cardinality(OpenLoansIn(c)')
    <3>1. Cardinality(OpenLoansIn(c) \cup {id}) = Cardinality(OpenLoansIn(c)) + 1
      BY <1>1, <1>14, CountOneMore
    <3>2. nftTotalCollateral'[c] = IF c = collection
                                   THEN nftTotalCollateral[c] + 1
                                   ELSE nftTotalCollateral[c]
      BY <1>1 DEF LoanTypeOK
    <3> QED BY <3>1, <3>2, <1>14 DEF CountersCountOpenLoans
  <2>2. ASSUME NEW u \in Account
        PROVE  userNftCollateral'[u][c] = Cardinality(OpenLoansOf(u, c)')
    <3>1. Cardinality(OpenLoansOf(u, c) \cup {id})
            = Cardinality(OpenLoansOf(u, c)) + 1
      BY <1>1, <1>15, CountOneMore
    <3>2. userNftCollateral'[u][c] = IF c = collection /\ u = onBehalfOf
                                     THEN userNftCollateral[u][c] + 1
                                     ELSE userNftCollateral[u][c]
      BY <1>1, <1>4 DEF LoanTypeOK
    <3> QED BY <3>1, <3>2, <1>15 DEF CountersCountOpenLoans
  <2> QED BY <2>1, <2>2
<1>17. AuctionFieldsInStep'
  BY <1>3, <1>5, <1>7 DEF AuctionFieldsInStep, AuctionFieldsAgree
<1> QED BY <1>8, <1>11, <1>12, <1>13, <1>16, <1>17

-----------------------------------------------------------------------------
(* The operation that moves an open loan to another borrower.              *)

\* reMintUNFT, called with the borrower the loan names, moves the loan, its
\* receipt and one unit of both borrowers' counters together.
LEMMA ReMintInv ==
  ASSUME LoanInv, NEW nft \in NFT, NEW new \in Account,
         nftToLoanIds[nft] # 0,
         ReMintUNFT(nft, loans[nftToLoanIds[nft]].borrower, new)
  PROVE  LoanInv'
<1> USE DEF LoanInv
<1> PICK id : id = nftToLoanIds[nft] OBVIOUS
<1> PICK old : old = loans[id].borrower OBVIOUS
<1> DEFINE collection == Collection[nft]
<1>1. /\ id \in LoanIds
      /\ Live(id)
      /\ loans[id].nft = nft
      /\ old \in Account
      /\ unftOwner[nft] = old
      /\ nftOwner[nft] = UNFTVault
  BY DEF LoanTypeOK, OneOpenLoanPerNFT, CollateralInCustody
<1>2. /\ userNftCollateral[old][collection] >= 1
      /\ userNftCollateral' =
           [u \in Account |->
              [userNftCollateral[u] EXCEPT ![collection] =
                 @ - (IF u = old THEN 1 ELSE 0) + (IF u = new THEN 1 ELSE 0)]]
      /\ loans' = [loans EXCEPT ![id].borrower = new]
      /\ unftOwner' = [unftOwner EXCEPT ![nft] = new]
      /\ UNCHANGED <<loanIdTracker, nftToLoanIds, nftTotalCollateral,
                     marketAdapters, approvedNfts, nftOwner>>
  BY DEF ReMintUNFT, MovedCount
<1>3. collection \in Collections BY DEF Collections
<1> HIDE DEF collection
<1>4. loans \in [LoanIds -> LoanData] BY DEF LoanTypeOK
<1>5. /\ loans'[id] = [loans[id] EXCEPT !.borrower = new]
      /\ loans'[id].borrower = new
      /\ \A j \in LoanIds : j # id => loans'[j] = loans[j]
      /\ \A j \in LoanIds : /\ loans'[j].nft = loans[j].nft
                            /\ loans'[j].state = loans[j].state
                            /\ loans'[j].bidStartTimestamp = loans[j].bidStartTimestamp
                            /\ loans'[j].bidderAddress = loans[j].bidderAddress
                            /\ loans'[j].firstBidderAddress = loans[j].firstBidderAddress
                            /\ loans'[j].bidPrice = loans[j].bidPrice
                            /\ Live(j)' <=> Live(j)
  BY <1>1, <1>2, <1>4 DEF LoanData, Live
<1>6. LoanTypeOK'
  <2>1. [loans[id] EXCEPT !.borrower = new] \in LoanData
    BY <1>1, <1>4 DEF LoanData
  <2>2. loans' \in [LoanIds -> LoanData] BY <2>1, <1>1, <1>2, <1>4
  <2>3. ASSUME NEW u \in Account
        PROVE  userNftCollateral'[u] \in [Collections -> Nat]
    <3>1. userNftCollateral[u] \in [Collections -> Nat] BY DEF LoanTypeOK
    <3>2. u = old => userNftCollateral[u][collection] >= 1 BY <1>2
    <3> DEFINE n == userNftCollateral[u][collection]
                      - (IF u = old THEN 1 ELSE 0) + (IF u = new THEN 1 ELSE 0)
    <3>3. n \in Nat BY <3>1, <3>2, <1>3
    <3>4. userNftCollateral'[u] = [userNftCollateral[u] EXCEPT ![collection] = n]
      BY <1>2
    <3> HIDE DEF n
    <3> QED BY <3>1, <3>3, <3>4
  <2>4. userNftCollateral' \in [Account -> [Collections -> Nat]]
    BY <2>3, <1>2
  <2>5. unftOwner' \in [NFT -> Account \cup {NullAddress}]
    BY <1>2 DEF LoanTypeOK
  <2> QED BY <2>2, <2>4, <2>5, <1>2 DEF LoanTypeOK
<1>7. OneOpenLoanPerNFT'
  BY <1>2, <1>5 DEF OneOpenLoanPerNFT, LoanTypeOK, Live
<1>8. FreshLoanIds'
  BY <1>2, <1>5 DEF FreshLoanIds
<1>9. \A m \in NFT : m # nft => nftToLoanIds[m] # id
  BY <1>1 DEF OneOpenLoanPerNFT, LoanIds
<1>10. CollateralInCustody'
  <2> SUFFICES ASSUME NEW m \in NFT
               PROVE  LET i == nftToLoanIds'[m] IN
                      IF i = 0
                      THEN nftOwner'[m] \in Account /\ unftOwner'[m] = NullAddress
                      ELSE /\ nftOwner'[m] = UNFTVault
                           /\ loans'[i].borrower \in Account
                           /\ unftOwner'[m] = loans'[i].borrower
    BY DEF CollateralInCustody
  <2>1. CASE m = nft
    BY <2>1, <1>1, <1>2, <1>5 DEF LoanTypeOK, LoanIds
  <2>2. CASE m # nft
    BY <2>2, <1>2, <1>5, <1>9 DEF CollateralInCustody, LoanTypeOK
  <2> QED BY <2>1, <2>2
<1>11. \A c : OpenLoansIn(c)' = OpenLoansIn(c)
  BY <1>5 DEF OpenLoansIn
<1>12. /\ \A c, u : c # collection \/ (u # old /\ u # new)
                     => OpenLoansOf(u, c)' = OpenLoansOf(u, c)
       /\ OpenLoansOf(new, collection)' = OpenLoansOf(new, collection) \cup {id}
       /\ old # new => OpenLoansOf(old, collection)'
                         = OpenLoansOf(old, collection) \ {id}
  <2>1. \A c, u : c # collection \/ (u # old /\ u # new)
                     => OpenLoansOf(u, c)' = OpenLoansOf(u, c)
    <3> SUFFICES ASSUME NEW c, NEW u,
                        c # collection \/ (u # old /\ u # new)
                 PROVE  \A j : j \in OpenLoansOf(u, c)' <=> j \in OpenLoansOf(u, c)
      OBVIOUS
    <3> TAKE j
    <3>1. CASE j = id
      BY <3>1, <1>1, <1>5 DEF OpenLoansOf, collection
    <3>2. CASE j # id
      BY <3>2, <1>5 DEF OpenLoansOf
    <3> QED BY <3>1, <3>2
  <2>2. OpenLoansOf(new, collection)' = OpenLoansOf(new, collection) \cup {id}
    BY <1>1, <1>5 DEF OpenLoansOf, collection
  <2>3. old # new => OpenLoansOf(old, collection)'
                       = OpenLoansOf(old, collection) \ {id}
    BY <1>1, <1>5 DEF OpenLoansOf, collection
  <2> QED BY <2>1, <2>2, <2>3
<1>13. \A u : (id \in OpenLoansOf(u, collection)) <=> u = old
  BY <1>1 DEF OpenLoansOf, collection
<1>14. CountersCountOpenLoans'
  <2> SUFFICES ASSUME NEW c \in Collections
               PROVE  /\ nftTotalCollateral'[c] = Cardinality(OpenLoansIn(c)')
                      /\ \A u \in Account :
                           userNftCollateral'[u][c]
                             = Cardinality(OpenLoansOf(u, c)')
    BY DEF CountersCountOpenLoans
  <2>1. nftTotalCollateral'[c] = Cardinality(OpenLoansIn(c)')
    BY <1>2, <1>11 DEF CountersCountOpenLoans
  <2>2. ASSUME NEW u \in Account
        PROVE  userNftCollateral'[u][c] = Cardinality(OpenLoansOf(u, c)')
    <3>1. userNftCollateral[u][c] = Cardinality(OpenLoansOf(u, c))
      BY DEF CountersCountOpenLoans
    <3>2. userNftCollateral[u][c] \in Nat BY DEF LoanTypeOK
    <3>3. OpenLoansOf(u, c) \in SUBSET LoanIds BY DEF OpenLoansOf
    <3>4. userNftCollateral'[u][c] =
            IF c = collection
            THEN userNftCollateral[u][c] - (IF u = old THEN 1 ELSE 0)
                                         + (IF u = new THEN 1 ELSE 0)
            ELSE userNftCollateral[u][c]
      BY <1>2, <1>3 DEF LoanTypeOK
    <3>5. CASE c # collection \/ (u # old /\ u # new)
      BY <3>1, <3>2, <3>4, <3>5, <1>12
    <3>6. CASE c = collection /\ u = new /\ u # old
      <4>1. Cardinality(OpenLoansOf(u, c) \cup {id})
              = Cardinality(OpenLoansOf(u, c)) + 1
        BY <3>3, <3>6, <1>1, <1>13, CountOneMore
      <4> QED BY <4>1, <3>1, <3>2, <3>4, <3>6, <1>12
    <3>7. CASE c = collection /\ u = new /\ u = old
      <4>1. OpenLoansOf(u, c) \cup {id} = OpenLoansOf(u, c)
        BY <3>7, <1>13
      <4> QED BY <4>1, <3>1, <3>2, <3>4, <3>7, <1>12
    <3>8. CASE c = collection /\ u # new /\ u = old
      <4>1. Cardinality(OpenLoansOf(u, c) \ {id})
              = Cardinality(OpenLoansOf(u, c)) - 1
        BY <3>3, <3>8, <1>13, CountOneLess
      <4>2. userNftCollateral'[u][c] = userNftCollateral[u][c] - 1
        BY <3>2, <3>4, <3>8
      <4> QED BY <4>1, <4>2, <3>1, <3>8, <1>12
    <3> QED BY <3>5, <3>6, <3>7, <3>8
  <2> QED BY <2>1, <2>2
<1>15. AuctionFieldsInStep'
  BY <1>5 DEF AuctionFieldsInStep, AuctionFieldsAgree
<1> QED BY <1>6, <1>7, <1>8, <1>10, <1>14, <1>15

-----------------------------------------------------------------------------
(* Every step preserves the invariant.                                     *)

\* The loan an operation finds through the map is open.
LEMMA FoundLoan ==
  ASSUME LoanInv, NEW nft \in NFT, nftToLoanIds[nft] # 0
  PROVE  /\ nftToLoanIds[nft] \in LoanIds
         /\ Live(nftToLoanIds[nft])
         /\ loans[nftToLoanIds[nft]] \in LoanData
         /\ loans[nftToLoanIds[nft]].nft = nft
         /\ loans[nftToLoanIds[nft]].borrower \in Account
         /\ unftOwner[nft] = loans[nftToLoanIds[nft]].borrower
         /\ AuctionFieldsAgree(loans[nftToLoanIds[nft]])
<1> USE DEF LoanInv
<1>1. nftToLoanIds[nft] \in LoanIds BY DEF LoanTypeOK
<1> QED
  BY <1>1 DEF LoanTypeOK, OneOpenLoanPerNFT, CollateralInCustody,
              AuctionFieldsInStep

\* What an operation on the loan id leaves alone besides other loans.
OthersKept(id) == \A j \in LoanIds : j # id => loans'[j] = loans[j]

\* An operation that keeps a loan open writes one record and nothing else.
OnlyRecordWritten(id, loan) ==
  /\ OthersKept(id)
  /\ loans'[id] = loan
  /\ UNCHANGED <<loanIdTracker, nftToLoanIds, nftTotalCollateral,
                 userNftCollateral, marketAdapters, approvedNfts, custodyVars>>

\* An operation that ends a loan also forgets it in the map and gives its NFT
\* to an account.
RecordClosed(id, loan, to) ==
  /\ OthersKept(id)
  /\ loans'[id] = loan
  /\ nftToLoanIds' = [nftToLoanIds EXCEPT ![loan.nft] = 0]
  /\ nftOwner' = [nftOwner EXCEPT ![loan.nft] = to]
  /\ unftOwner' = [unftOwner EXCEPT ![loan.nft] = NullAddress]

\* TouchLoan for the loan found through the map.
LEMMA TouchFound ==
  ASSUME LoanInv, NEW nft \in NFT, NEW id, id = nftToLoanIds[nft], id # 0,
         NEW loan \in LoanData, loan.state \in LiveStates,
         loan.nft = nft, loan.borrower = loans[id].borrower,
         AuctionFieldsAgree(loan),
         loans' = [loans EXCEPT ![id] = loan],
         UNCHANGED <<loanIdTracker, nftToLoanIds, nftTotalCollateral,
                     userNftCollateral, marketAdapters, approvedNfts,
                     custodyVars>>
  PROVE  LoanInv' /\ OnlyRecordWritten(id, loan)
<1>1. id \in LoanIds /\ Live(id) /\ loans[id].nft = nft BY FoundLoan
<1>2. LoanInv' BY <1>1, TouchLoan
<1>3. loans \in [LoanIds -> LoanData] BY DEF LoanInv, LoanTypeOK
<1> QED BY <1>1, <1>2, <1>3 DEF OnlyRecordWritten, OthersKept

\* EndLoan for the loan found through the map.
LEMMA EndFound ==
  ASSUME LoanInv, NEW nft \in NFT, NEW id, id = nftToLoanIds[nft], id # 0,
         NEW loan \in LoanData, loan.state \in {"Repaid", "Defaulted"},
         loan.nft = nft, loan.borrower = loans[id].borrower,
         NEW to \in Account,
         loans' = [loans EXCEPT ![id] = loan],
         ReleaseCollateral(id, to)
  PROVE  LoanInv' /\ RecordClosed(id, loan, to)
<1>1. id \in LoanIds /\ Live(id) /\ loans[id].nft = nft BY FoundLoan
<1>2. LoanInv' BY <1>1, EndLoan
<1>3. loans \in [LoanIds -> LoanData] BY DEF LoanInv, LoanTypeOK
<1> QED
  BY <1>1, <1>2, <1>3 DEF RecordClosed, OthersKept, ReleaseCollateral, BurnUNFT

\* updateLoan, more debt.
LEMMA IncreaseInv ==
  ASSUME LoanInv, NEW nft \in NFT, NEW id, id = nftToLoanIds[nft], id # 0,
         NEW amount \in Nat, NEW index \in Nat \ {0},
         IncreaseLoan(id, amount, index)
  PROVE  /\ LoanInv'
         /\ loans[id].state = "Active"
         /\ RayDiv(amount, index) \in Nat \ {0}
         /\ OnlyRecordWritten(id, [loans[id] EXCEPT
              !.scaledAmount = loans[id].scaledAmount + RayDiv(amount, index)])
<1> DEFINE old == loans[id]
           added == RayDiv(amount, index)
           loan == [old EXCEPT !.scaledAmount = old.scaledAmount + added]
<1>1. /\ id \in LoanIds /\ old \in LoanData /\ old.nft = nft
      /\ AuctionFieldsAgree(old)
  BY FoundLoan
<1>2. added \in Nat BY RayDivNat
<1>3. /\ old.state = "Active" /\ added # 0
      /\ old.scaledAmount + added <= MaxScaledAmount
      /\ loans' = [loans EXCEPT ![id] = loan]
      /\ UNCHANGED <<loanIdTracker, nftToLoanIds, nftTotalCollateral,
                     userNftCollateral, marketAdapters, approvedNfts,
                     custodyVars>>
  BY DEF IncreaseLoan
<1> HIDE DEF added, old
<1>4. loan \in LoanData BY <1>1, <1>2, <1>3, LoanAssumption DEF LoanData
<1>5. /\ loan.state = old.state /\ loan.nft = old.nft
      /\ loan.borrower = old.borrower
      /\ AuctionFieldsAgree(loan)
  BY <1>1 DEF LoanData, AuctionFieldsAgree
<1> HIDE DEF loan
<1>6. LoanInv' /\ OnlyRecordWritten(id, loan)
  BY <1>1, <1>3, <1>4, <1>5, TouchFound DEF LiveStates, old
<1> QED BY <1>2, <1>3, <1>6 DEF loan, old, added

\* updateLoan, part of the debt repaid.
LEMMA DecreaseInv ==
  ASSUME LoanInv, NEW nft \in NFT, NEW id, id = nftToLoanIds[nft], id # 0,
         NEW amount \in Nat, NEW index \in Nat \ {0},
         DecreaseLoan(id, amount, index)
  PROVE  /\ LoanInv'
         /\ loans[id].state = "Active"
         /\ RayDiv(amount, index) \in Nat \ {0}
         /\ loans[id].scaledAmount >= RayDiv(amount, index)
         /\ OnlyRecordWritten(id, [loans[id] EXCEPT
              !.scaledAmount = loans[id].scaledAmount - RayDiv(amount, index)])
<1> DEFINE old == loans[id]
           taken == RayDiv(amount, index)
           loan == [old EXCEPT !.scaledAmount = old.scaledAmount - taken]
<1>1. /\ id \in LoanIds /\ old \in LoanData /\ old.nft = nft
      /\ AuctionFieldsAgree(old)
  BY FoundLoan
<1>2. taken \in Nat BY RayDivNat
<1>3. /\ old.state = "Active" /\ taken # 0
      /\ old.scaledAmount >= taken
      /\ loans' = [loans EXCEPT ![id] = loan]
      /\ UNCHANGED <<loanIdTracker, nftToLoanIds, nftTotalCollateral,
                     userNftCollateral, marketAdapters, approvedNfts,
                     custodyVars>>
  BY DEF DecreaseLoan
<1> HIDE DEF taken, old
<1>4. loan \in LoanData BY <1>1, <1>2, <1>3, LoanAssumption DEF LoanData
<1>5. /\ loan.state = old.state /\ loan.nft = old.nft
      /\ loan.borrower = old.borrower
      /\ AuctionFieldsAgree(loan)
  BY <1>1 DEF LoanData, AuctionFieldsAgree
<1> HIDE DEF loan
<1>6. LoanInv' /\ OnlyRecordWritten(id, loan)
  BY <1>1, <1>3, <1>4, <1>5, TouchFound DEF LiveStates, old
<1> QED BY <1>2, <1>3, <1>6 DEF loan, old, taken

\* repayLoan
LEMMA RepayInv ==
  ASSUME LoanInv, NEW nft \in NFT, NEW id, id = nftToLoanIds[nft], id # 0,
         RepayLoan(id)
  PROVE  /\ LoanInv'
         /\ loans[id].state = "Active"
         /\ RecordClosed(id, [loans[id] EXCEPT !.state = "Repaid"],
                         loans[id].borrower)
<1> DEFINE old == loans[id]
           loan == [old EXCEPT !.state = "Repaid"]
<1>1. /\ id \in LoanIds /\ old \in LoanData /\ old.nft = nft
      /\ old.borrower \in Account
  BY FoundLoan
<1>2. /\ old.state = "Active"
      /\ loans' = [loans EXCEPT ![id] = loan]
      /\ ReleaseCollateral(id, old.borrower)
  BY DEF RepayLoan
<1> HIDE DEF old
<1>3. /\ loan \in LoanData /\ loan.state = "Repaid"
      /\ loan.nft = old.nft /\ loan.borrower = old.borrower
  BY <1>1 DEF LoanData, LoanState
<1> HIDE DEF loan
<1>4. LoanInv' /\ RecordClosed(id, loan, old.borrower)
  BY <1>1, <1>2, <1>3, EndFound DEF old
<1> QED BY <1>2, <1>4 DEF loan, old

\* auctionLoan, the first bid.
LEMMA OpenAuctionInv ==
  ASSUME LoanInv, NEW nft \in NFT, NEW id, id = nftToLoanIds[nft], id # 0,
         NEW bidder \in Account, NEW price \in Nat \ {0}, NEW debt \in Nat,
         NEW time \in Nat \ {0},
         OpenAuction(id, bidder, price, debt, time)
  PROVE  /\ LoanInv'
         /\ loans[id].state = "Active"
         /\ OnlyRecordWritten(id, [loans[id] EXCEPT
              !.state = "Auction", !.bidStartTimestamp = time,
              !.firstBidderAddress = bidder, !.bidBorrowAmount = debt,
              !.bidderAddress = bidder, !.bidPrice = price])
<1> DEFINE old == loans[id]
           loan == [old EXCEPT !.state = "Auction", !.bidStartTimestamp = time,
                      !.firstBidderAddress = bidder, !.bidBorrowAmount = debt,
                      !.bidderAddress = bidder, !.bidPrice = price]
<1>1. id \in LoanIds /\ old \in LoanData /\ old.nft = nft BY FoundLoan
<1>2. /\ old.state = "Active"
      /\ loans' = [loans EXCEPT ![id] = loan]
      /\ UNCHANGED <<loanIdTracker, nftToLoanIds, nftTotalCollateral,
                     userNftCollateral, marketAdapters, approvedNfts,
                     custodyVars>>
  BY DEF OpenAuction
<1> HIDE DEF old
<1>3. /\ loan \in LoanData /\ loan.state = "Auction"
      /\ loan.nft = old.nft /\ loan.borrower = old.borrower
  BY <1>1 DEF LoanData, LoanState
<1>4. AuctionFieldsAgree(loan) BY <1>1 DEF LoanData, AuctionFieldsAgree
<1> HIDE DEF loan
<1>5. LoanInv' /\ OnlyRecordWritten(id, loan)
  BY <1>1, <1>2, <1>3, <1>4, TouchFound DEF LiveStates, old
<1> QED BY <1>2, <1>5 DEF loan, old

\* auctionLoan, a later bid.
LEMMA OutbidInv ==
  ASSUME LoanInv, NEW nft \in NFT, NEW id, id = nftToLoanIds[nft], id # 0,
         NEW bidder \in Account, NEW price \in Nat \ {0}, NEW debt \in Nat,
         OutbidAuction(id, bidder, price, debt)
  PROVE  /\ LoanInv'
         /\ loans[id].state = "Auction"
         /\ price > loans[id].bidPrice
         /\ OnlyRecordWritten(id, [loans[id] EXCEPT
              !.bidBorrowAmount = debt, !.bidderAddress = bidder,
              !.bidPrice = price])
<1> DEFINE old == loans[id]
           loan == [old EXCEPT !.bidBorrowAmount = debt,
                      !.bidderAddress = bidder, !.bidPrice = price]
<1>1. /\ id \in LoanIds /\ old \in LoanData /\ old.nft = nft
      /\ AuctionFieldsAgree(old)
  BY FoundLoan
<1>2. /\ old.state = "Auction" /\ price > old.bidPrice
      /\ loans' = [loans EXCEPT ![id] = loan]
      /\ UNCHANGED <<loanIdTracker, nftToLoanIds, nftTotalCollateral,
                     userNftCollateral, marketAdapters, approvedNfts,
                     custodyVars>>
  BY DEF OutbidAuction
<1> HIDE DEF old
<1>3. /\ loan \in LoanData /\ loan.state = "Auction"
      /\ loan.nft = old.nft /\ loan.borrower = old.borrower
  BY <1>1, <1>2 DEF LoanData
<1>4. AuctionFieldsAgree(loan) BY <1>1, <1>2 DEF LoanData, AuctionFieldsAgree
<1> HIDE DEF loan
<1>5. LoanInv' /\ OnlyRecordWritten(id, loan)
  BY <1>1, <1>2, <1>3, <1>4, TouchFound DEF LiveStates, old
<1> QED BY <1>2, <1>5 DEF loan, old

\* redeemLoan
LEMMA RedeemInv ==
  ASSUME LoanInv, NEW nft \in NFT, NEW id, id = nftToLoanIds[nft], id # 0,
         NEW amount \in Nat, NEW index \in Nat \ {0},
         RedeemLoan(id, amount, index)
  PROVE  /\ LoanInv'
         /\ loans[id].state = "Auction"
         /\ RayDiv(amount, index) \in Nat \ {0}
         /\ loans[id].scaledAmount >= RayDiv(amount, index)
         /\ OnlyRecordWritten(id, [CalledOff(loans[id]) EXCEPT
              !.scaledAmount = loans[id].scaledAmount - RayDiv(amount, index)])
<1> DEFINE old == loans[id]
           taken == RayDiv(amount, index)
           left == old.scaledAmount - taken
           loan == [CalledOff(old) EXCEPT !.scaledAmount = left]
<1>1. /\ id \in LoanIds /\ old \in LoanData /\ old.nft = nft
  BY FoundLoan
<1>2. taken \in Nat BY RayDivNat
<1>3. /\ old.state = "Auction" /\ taken # 0
      /\ old.scaledAmount >= taken
      /\ loans' = [loans EXCEPT ![id] = loan]
      /\ UNCHANGED <<loanIdTracker, nftToLoanIds, nftTotalCollateral,
                     userNftCollateral, marketAdapters, approvedNfts,
                     custodyVars>>
  BY DEF RedeemLoan
<1> HIDE DEF taken, old
<1>4. left \in 0 .. MaxScaledAmount
  BY <1>1, <1>2, <1>3, LoanAssumption DEF LoanData
<1> HIDE DEF left
<1>5. loan \in LoanData BY <1>1, <1>4 DEF LoanData, LoanState, CalledOff
<1>6. /\ loan.state = "Active" /\ loan.nft = old.nft
      /\ loan.borrower = old.borrower
      /\ AuctionFieldsAgree(loan)
  BY <1>1 DEF LoanData, AuctionFieldsAgree, CalledOff
<1> HIDE DEF loan
<1>7. LoanInv' /\ OnlyRecordWritten(id, loan)
  BY <1>1, <1>3, <1>5, <1>6, TouchFound DEF LiveStates, old
<1> QED BY <1>2, <1>3, <1>7 DEF loan, left, old, taken

\* buyoutLoan and liquidateLoan.
LEMMA SeizeInv ==
  ASSUME LoanInv, NEW nft \in NFT, NEW id, id = nftToLoanIds[nft], id # 0,
         NEW debt \in Nat, NEW to \in Account,
         BuyoutLoan(id, debt, to) \/ LiquidateLoan(id, debt, to)
  PROVE  /\ LoanInv'
         /\ RecordClosed(id, [loans[id] EXCEPT !.state = "Defaulted",
                                               !.bidBorrowAmount = debt], to)
<1> DEFINE old == loans[id]
           loan == [old EXCEPT !.state = "Defaulted", !.bidBorrowAmount = debt]
<1>1. id \in LoanIds /\ old \in LoanData /\ old.nft = nft BY FoundLoan
<1>2. /\ loans' = [loans EXCEPT ![id] = loan]
      /\ ReleaseCollateral(id, to)
  BY DEF BuyoutLoan, LiquidateLoan
<1> HIDE DEF old
<1>3. /\ loan \in LoanData /\ loan.state = "Defaulted"
      /\ loan.nft = old.nft /\ loan.borrower = old.borrower
  BY <1>1 DEF LoanData, LoanState
<1> HIDE DEF loan
<1>4. LoanInv' /\ RecordClosed(id, loan, to)
  BY <1>1, <1>2, <1>3, EndFound DEF old
<1> QED BY <1>4 DEF loan, old

\* liquidateLoanMarket
LEMMA MarketSaleInv ==
  ASSUME LoanInv, NEW nft \in NFT, NEW id, id = nftToLoanIds[nft], id # 0,
         NEW adapter, NEW to \in Account, LiquidateLoanMarket(adapter, id, to)
  PROVE  /\ LoanInv'
         /\ RecordClosed(id, [loans[id] EXCEPT !.state = "Defaulted"], to)
<1> DEFINE old == loans[id]
           loan == [old EXCEPT !.state = "Defaulted"]
<1>1. id \in LoanIds /\ old \in LoanData /\ old.nft = nft BY FoundLoan
<1>2. /\ loans' = [loans EXCEPT ![id] = loan]
      /\ ReleaseCollateral(id, to)
  BY DEF LiquidateLoanMarket
<1> HIDE DEF old
<1>3. /\ loan \in LoanData /\ loan.state = "Defaulted"
      /\ loan.nft = old.nft /\ loan.borrower = old.borrower
  BY <1>1 DEF LoanData, LoanState
<1> HIDE DEF loan
<1>4. LoanInv' /\ RecordClosed(id, loan, to)
  BY <1>1, <1>2, <1>3, EndFound DEF old
<1> QED BY <1>4 DEF loan, old

\* A call of an operation on the open loan of an NFT: with any amount, debt,
\* index and time, from whatever account, and a bid the caller may choose.
BookOperation(nft, bids) ==
  LET id == nftToLoanIds[nft] IN
  /\ id # 0
  /\ \/ \E amount \in Nat, index \in Nat \ {0} :
          \/ IncreaseLoan(id, amount, index)
          \/ DecreaseLoan(id, amount, index)
          \/ RedeemLoan(id, amount, index)
     \/ RepayLoan(id)
     \/ \E bidder \in Account, price \in bids, debt \in Nat :
          \/ \E time \in Nat \ {0} : OpenAuction(id, bidder, price, debt, time)
          \/ OutbidAuction(id, bidder, price, debt)
     \/ \E debt \in Nat, to \in Account :
          BuyoutLoan(id, debt, to) \/ LiquidateLoan(id, debt, to)
     \/ MarketSale(id)
     \/ SellDebt(nft)

\* The loan book under any caller: LoanNext without its bounds.  What is shown
\* of it holds wherever LendPool and DebtMarket call the book.
BookNext(bids) ==
  \/ \E initiator, onBehalfOf \in Account, nft \in NFT, amount \in Nat,
        index \in Nat \ {0} : CreateLoan(initiator, onBehalfOf, nft, amount, index)
  \/ \E nft \in NFT : BookOperation(nft, bids)
  \/ Administer
  \/ Trade

\* The client TLC runs is one of them.
LEMMA LoanNextIsBook ==
  ASSUME LoanNext
  PROVE  BookNext(Amounts)
<1>1. /\ \A amount \in Amounts : amount \in Nat
      /\ \A index \in BorrowIndexes : index \in Nat \ {0}
      /\ \A time \in Timestamps : time \in Nat \ {0}
  BY LoanAssumption
<1>2. CASE Create BY <1>1, <1>2 DEF Create, BookNext
<1>3. CASE OnOpenLoan
  <2>1. PICK nft \in NFT :
          /\ nftToLoanIds[nft] # 0
          /\ \/ Increase(nftToLoanIds[nft]) \/ Decrease(nftToLoanIds[nft])
             \/ RepayLoan(nftToLoanIds[nft]) \/ Bid(nftToLoanIds[nft])
             \/ Redeem(nftToLoanIds[nft]) \/ Seize(nftToLoanIds[nft])
             \/ MarketSale(nftToLoanIds[nft]) \/ SellDebt(nft)
    BY <1>3 DEF OnOpenLoan
  <2> SUFFICES BookOperation(nft, Amounts) BY DEF BookNext
  <2>2. CASE \/ Increase(nftToLoanIds[nft]) \/ Decrease(nftToLoanIds[nft])
             \/ Redeem(nftToLoanIds[nft])
    BY <1>1, <2>1, <2>2 DEF Increase, Decrease, Redeem, BookOperation
  <2>3. CASE Bid(nftToLoanIds[nft])
    BY <1>1, <2>1, <2>3 DEF Bid, BookOperation
  <2>4. CASE Seize(nftToLoanIds[nft])
    BY <1>1, <2>1, <2>4 DEF Seize, BookOperation
  <2>5. CASE \/ RepayLoan(nftToLoanIds[nft]) \/ MarketSale(nftToLoanIds[nft])
             \/ SellDebt(nft)
    BY <2>1, <2>5 DEF BookOperation
  <2> QED BY <2>1, <2>2, <2>3, <2>4, <2>5
<1>4. CASE Administer \/ Trade BY <1>4 DEF BookNext
<1> QED BY <1>2, <1>3, <1>4 DEF LoanNext

\* Each operation on an open loan keeps the invariant, whoever calls it.
LEMMA BookOperationInv ==
  ASSUME LoanInv, NEW bids \in SUBSET (Nat \ {0}), NEW nft \in NFT,
         BookOperation(nft, bids)
  PROVE  LoanInv'
<1>1. PICK id : id = nftToLoanIds[nft] /\ id # 0 BY DEF BookOperation
<1>2. ASSUME NEW amount \in Nat, NEW index \in Nat \ {0},
             \/ IncreaseLoan(id, amount, index) \/ DecreaseLoan(id, amount, index)
             \/ RedeemLoan(id, amount, index)
      PROVE  LoanInv'
  <2>1. CASE IncreaseLoan(id, amount, index) BY <2>1, <1>1, IncreaseInv
  <2>2. CASE DecreaseLoan(id, amount, index) BY <2>2, <1>1, DecreaseInv
  <2>3. CASE RedeemLoan(id, amount, index) BY <2>3, <1>1, RedeemInv
  <2> QED BY <1>2, <2>1, <2>2, <2>3
<1>3. CASE RepayLoan(id) BY <1>1, <1>3, RepayInv
<1>4. ASSUME NEW bidder \in Account, NEW price \in bids, NEW debt \in Nat,
             \/ \E time \in Nat \ {0} : OpenAuction(id, bidder, price, debt, time)
             \/ OutbidAuction(id, bidder, price, debt)
      PROVE  LoanInv'
  <2>1. price \in Nat \ {0} OBVIOUS
  <2>2. CASE OutbidAuction(id, bidder, price, debt)
    BY <2>1, <2>2, <1>1, OutbidInv
  <2>3. ASSUME NEW time \in Nat \ {0}, OpenAuction(id, bidder, price, debt, time)
        PROVE  LoanInv'
    BY <2>1, <2>3, <1>1, OpenAuctionInv
  <2> QED BY <1>4, <2>2, <2>3
<1>5. ASSUME NEW debt \in Nat, NEW to \in Account,
             BuyoutLoan(id, debt, to) \/ LiquidateLoan(id, debt, to)
      PROVE  LoanInv'
  BY <1>1, <1>5, SeizeInv
<1>6. CASE MarketSale(id) BY <1>1, <1>6, MarketSaleInv DEF MarketSale
<1>7. CASE SellDebt(nft) BY <1>1, <1>7, ReMintInv DEF SellDebt
<1> QED BY <1>1, <1>2, <1>3, <1>4, <1>5, <1>6, <1>7 DEF BookOperation

\* Steps that leave the loans and their custody alone keep what depends on
\* them alone.
LEMMA FrameInv ==
  ASSUME LoanInv, UNCHANGED <<bookVars, custodyVars>>
  PROVE  /\ OneOpenLoanPerNFT' /\ FreshLoanIds' /\ CollateralInCustody'
         /\ CountersCountOpenLoans' /\ AuctionFieldsInStep'
<1>1. \A j : Live(j)' <=> Live(j) BY DEF Live, bookVars
<1>2. \A c, u : /\ OpenLoansIn(c)' = OpenLoansIn(c)
                /\ OpenLoansOf(u, c)' = OpenLoansOf(u, c)
  BY <1>1 DEF OpenLoansIn, OpenLoansOf, bookVars
<1>3. OneOpenLoanPerNFT'
  BY <1>1 DEF LoanInv, OneOpenLoanPerNFT, bookVars, Live
<1>4. FreshLoanIds' BY DEF LoanInv, FreshLoanIds, bookVars
<1>5. CollateralInCustody'
  BY DEF LoanInv, CollateralInCustody, bookVars, custodyVars
<1>6. CountersCountOpenLoans'
  BY <1>2 DEF LoanInv, CountersCountOpenLoans, bookVars
<1>7. AuctionFieldsInStep'
  BY <1>1 DEF LoanInv, AuctionFieldsInStep, bookVars
<1> QED BY <1>3, <1>4, <1>5, <1>6, <1>7

\* initNft and updateMarketAdapters.
LEMMA AdministerInv ==
  ASSUME LoanInv, Administer
  PROVE  LoanInv'
<1>1. /\ UNCHANGED <<bookVars, custodyVars>>
      /\ marketAdapters' \subseteq Adapter
      /\ approvedNfts' \subseteq Collections
  <2>1. CASE \E c \in Collections : InitNft(c)
    BY <2>1 DEF InitNft, LoanInv, LoanTypeOK
  <2>2. CASE \E adapters \in SUBSET Adapter, flag \in BOOLEAN :
               UpdateMarketAdapters(adapters, flag)
    BY <2>2 DEF UpdateMarketAdapters, LoanInv, LoanTypeOK
  <2> QED BY <2>1, <2>2 DEF Administer
<1>2. LoanTypeOK'
  BY <1>1 DEF LoanInv, LoanTypeOK, bookVars, custodyVars
<1> QED BY <1>1, <1>2, FrameInv DEF LoanInv

\* A pledged NFT is not with an account, so its owner cannot trade it.
LEMMA TradeInv ==
  ASSUME LoanInv, Trade
  PROVE  LoanInv'
<1>1. PICK from \in Account, to \in Account, nft \in NFT :
        TransferNft(from, to, nft)
  BY DEF Trade
<1>2. /\ nftOwner[nft] = from
      /\ nftOwner' = [nftOwner EXCEPT ![nft] = to]
      /\ UNCHANGED <<bookVars, marketAdapters, approvedNfts, unftOwner>>
  BY <1>1 DEF TransferNft
<1>3. nftToLoanIds[nft] = 0
  BY <1>2, LoanAssumption DEF LoanInv, CollateralInCustody
<1>4. LoanTypeOK'
  BY <1>2 DEF LoanInv, LoanTypeOK, bookVars
<1>5. CollateralInCustody'
  BY <1>2, <1>3 DEF LoanInv, LoanTypeOK, CollateralInCustody, bookVars
<1>6. \A j : Live(j)' <=> Live(j) BY <1>2 DEF Live, bookVars
<1>7. \A c, u : /\ OpenLoansIn(c)' = OpenLoansIn(c)
                /\ OpenLoansOf(u, c)' = OpenLoansOf(u, c)
  BY <1>2, <1>6 DEF OpenLoansIn, OpenLoansOf, bookVars
<1>8. OneOpenLoanPerNFT'
  BY <1>2, <1>6 DEF LoanInv, OneOpenLoanPerNFT, bookVars, Live
<1>9. FreshLoanIds' BY <1>2 DEF LoanInv, FreshLoanIds, bookVars
<1>10. CountersCountOpenLoans'
  BY <1>2, <1>7 DEF LoanInv, CountersCountOpenLoans, bookVars
<1>11. AuctionFieldsInStep'
  BY <1>2, <1>6 DEF LoanInv, AuctionFieldsInStep, bookVars
<1> QED BY <1>4, <1>5, <1>8, <1>9, <1>10, <1>11 DEF LoanInv

\* The invariant is inductive, whoever calls the book.
LEMMA BookNextInv ==
  ASSUME LoanInv, NEW bids \in SUBSET (Nat \ {0}), [BookNext(bids)]_loanVars
  PROVE  LoanInv'
<1>1. ASSUME NEW initiator \in Account, NEW onBehalfOf \in Account, NEW nft \in NFT,
             NEW amount \in Nat, NEW index \in Nat \ {0},
             CreateLoan(initiator, onBehalfOf, nft, amount, index)
      PROVE  LoanInv'
  BY <1>1, CreateLoanInv
<1>2. ASSUME NEW nft \in NFT, BookOperation(nft, bids) PROVE LoanInv'
  BY <1>2, BookOperationInv
<1>3. CASE Administer BY <1>3, AdministerInv
<1>4. CASE Trade BY <1>4, TradeInv
<1>5. CASE UNCHANGED loanVars
  <2>1. UNCHANGED <<bookVars, marketAdapters, approvedNfts, custodyVars>>
    BY <1>5 DEF loanVars
  <2>2. LoanTypeOK'
    BY <2>1 DEF LoanInv, LoanTypeOK, bookVars, custodyVars
  <2> QED BY <2>1, <2>2, FrameInv DEF LoanInv
<1> QED BY <1>1, <1>2, <1>3, <1>4, <1>5 DEF BookNext

\* ... and so for LoanNext.
LEMMA LoanNextInv ==
  ASSUME LoanInv, [LoanNext]_loanVars
  PROVE  LoanInv'
<1>1. Amounts \in SUBSET (Nat \ {0}) BY LoanAssumption
<1>2. [BookNext(Amounts)]_loanVars BY LoanNextIsBook
<1> QED BY <1>1, <1>2, BookNextInv

-----------------------------------------------------------------------------
(* The state properties, for every instance.                               *)

\* The invariant holds in every reachable state.
THEOREM LoanBookInvariant == LoanSpec => []LoanInv
<1>1. LoanInit => LoanInv BY LoanInitInv
<1>2. LoanInv /\ [LoanNext]_loanVars => LoanInv' BY LoanNextInv
<1> QED BY <1>1, <1>2, PTL DEF LoanSpec

\* Every variable of the loan book keeps its type.
THEOREM LoanBookTypes == LoanSpec => []LoanTypeOK
<1>1. LoanInv => LoanTypeOK BY DEF LoanInv
<1> QED BY <1>1, LoanBookInvariant, PTL

\* The map from NFTs to open loans is exact.
THEOREM LoanMapExact == LoanSpec => []OneOpenLoanPerNFT
<1>1. LoanInv => OneOpenLoanPerNFT BY DEF LoanInv
<1> QED BY <1>1, LoanBookInvariant, PTL

\* The collateral of an open loan is in the vault and its receipt with the
\* borrower.
THEOREM CustodyHolds == LoanSpec => []CollateralInCustody
<1>1. LoanInv => CollateralInCustody BY DEF LoanInv
<1> QED BY <1>1, LoanBookInvariant, PTL

\* The collateral counters count the open loans.
THEOREM CountersExact == LoanSpec => []CountersCountOpenLoans
<1>1. LoanInv => CountersCountOpenLoans BY DEF LoanInv
<1> QED BY <1>1, LoanBookInvariant, PTL

\* The auction fields of an open loan agree with its state.
THEOREM AuctionFieldsExact == LoanSpec => []AuctionFieldsInStep
<1>1. LoanInv => AuctionFieldsInStep BY DEF LoanInv
<1> QED BY <1>1, LoanBookInvariant, PTL

\* Identifiers are handed out in order and never again: a loan exists exactly
\* below the tracker.
THEOREM FreshIdsHold == LoanSpec => []FreshLoanIds
<1>1. LoanInv => FreshLoanIds BY DEF LoanInv
<1> QED BY <1>1, LoanBookInvariant, PTL

-----------------------------------------------------------------------------
(* The action properties, for every instance.                              *)

\* An operation on the open loan of an NFT writes no other loan record.
LEMMA BookOperationWrites ==
  ASSUME LoanInv, NEW bids, NEW nft \in NFT, BookOperation(nft, bids)
  PROVE  \A j \in LoanIds : j # nftToLoanIds[nft] => loans'[j] = loans[j]
<1>1. loans \in [LoanIds -> LoanData] BY DEF LoanInv, LoanTypeOK
<1> DEFINE id == nftToLoanIds[nft]
           Written == \E loan : loans' = [loans EXCEPT ![id] = loan]
<1>2. Written
  <2>1. \A amount, index : IncreaseLoan(id, amount, index) => Written BY DEF IncreaseLoan
  <2>2. \A amount, index : DecreaseLoan(id, amount, index) => Written BY DEF DecreaseLoan
  <2>3. \A amount, index : RedeemLoan(id, amount, index) => Written BY DEF RedeemLoan
  <2>4. RepayLoan(id) => Written BY DEF RepayLoan
  <2>5. \A bidder, price, debt, time : OpenAuction(id, bidder, price, debt, time) => Written
    BY DEF OpenAuction
  <2>6. \A bidder, price, debt : OutbidAuction(id, bidder, price, debt) => Written
    BY DEF OutbidAuction
  <2>7. \A debt, to : BuyoutLoan(id, debt, to) \/ LiquidateLoan(id, debt, to) => Written
    BY DEF BuyoutLoan, LiquidateLoan
  <2>8. MarketSale(id) => Written BY DEF MarketSale, LiquidateLoanMarket
  <2>9. SellDebt(nft) => Written BY DEF SellDebt, ReMintUNFT
  <2> HIDE DEF Written
  <2> QED BY <2>1, <2>2, <2>3, <2>4, <2>5, <2>6, <2>7, <2>8, <2>9 DEF BookOperation
<1> QED BY <1>1, <1>2

\* createLoan writes the record of the next identifier, which is unused, and
\* no other; what is not a loan operation writes none.
LEMMA OtherBookWrites ==
  ASSUME LoanInv, NEW bids, [BookNext(bids)]_loanVars,
         \A nft \in NFT : ~BookOperation(nft, bids), NEW id \in LoanIds
  PROVE  loans'[id] = loans[id] \/ loans[id].state = "None"
<1>1. ASSUME NEW initiator \in Account, NEW onBehalfOf \in Account, NEW nft \in NFT,
             NEW amount \in Nat, NEW index \in Nat \ {0},
             CreateLoan(initiator, onBehalfOf, nft, amount, index)
      PROVE  loans'[id] = loans[id] \/ loans[id].state = "None"
  <2>1. id # loanIdTracker => loans'[id] = loans[id]
    BY <1>1 DEF CreateLoan, LoanInv, LoanTypeOK
  <2>2. id = loanIdTracker => loans[id].state = "None"
    BY DEF LoanInv, FreshLoanIds, LoanIds
  <2> QED BY <2>1, <2>2
<1>2. CASE Administer
  BY <1>2 DEF Administer, InitNft, UpdateMarketAdapters, bookVars
<1>3. CASE Trade BY <1>3 DEF Trade, TransferNft, bookVars
<1>4. CASE UNCHANGED loanVars BY <1>4 DEF loanVars, bookVars
<1> QED BY <1>1, <1>2, <1>3, <1>4 DEF BookNext

\* What ClosedLoansStayClosed says of one step.
ClosedKept == \A id \in LoanIds :
                loans[id].state \in {"Repaid", "Defaulted"} => loans'[id] = loans[id]

\* No caller of the book changes a loan that has ended.
LEMMA BookKeepsClosed ==
  ASSUME LoanInv, NEW bids, [BookNext(bids)]_loanVars
  PROVE  ClosedKept
<1>1. ASSUME NEW nft \in NFT, BookOperation(nft, bids) PROVE ClosedKept
  <2>1. \A j \in LoanIds : j # nftToLoanIds[nft] => loans'[j] = loans[j]
    BY <1>1, BookOperationWrites
  <2>2. nftToLoanIds[nft] # 0 BY <1>1 DEF BookOperation
  <2>3. loans[nftToLoanIds[nft]].state \in LiveStates BY <2>2, FoundLoan DEF Live
  <2> QED BY <2>1, <2>3 DEF ClosedKept, LiveStates
<1>2. CASE \A nft \in NFT : ~BookOperation(nft, bids)
  BY <1>2, OtherBookWrites DEF ClosedKept
<1> QED BY <1>1, <1>2

\* Repaid and Defaulted are terminal, for every instance.
THEOREM ClosedLoansFrozen == LoanSpec => ClosedLoansStayClosed
<1>1. LoanInv /\ [LoanNext]_loanVars => [ClosedKept]_loanVars
  BY LoanNextIsBook, BookKeepsClosed
<1>2. LoanSpec => [][ClosedKept]_loanVars
  BY <1>1, LoanBookInvariant, PTL DEF LoanSpec
<1> QED BY <1>2 DEF ClosedLoansStayClosed, ClosedKept

\* The record of one loan after a step, when it was and stays in auction.
StillRises(before, after) ==
  before.state = "Auction" /\ after.state = "Auction" =>
    /\ after.bidStartTimestamp = before.bidStartTimestamp
    /\ after.firstBidderAddress = before.firstBidderAddress
    /\ after.scaledAmount = before.scaledAmount
    /\ after.bidPrice >= before.bidPrice
    /\ after.bidderAddress # before.bidderAddress
         => after.bidPrice > before.bidPrice

\* What AuctionsOnlyRise says of one step.
AuctionsRising == \A id \in LoanIds : StillRises(loans[id], loans'[id])

\* An operation on the open loan of nft leaves its auction, if it goes on, as
\* it was, or raises the bid.
LEMMA BookOperationRises ==
  ASSUME LoanInv, NEW bids \in SUBSET (Nat \ {0}), NEW nft \in NFT,
         BookOperation(nft, bids)
  PROVE  StillRises(loans[nftToLoanIds[nft]], loans'[nftToLoanIds[nft]])
<1>0. PICK id : id = nftToLoanIds[nft] /\ id # 0 BY DEF BookOperation
<1>1. id \in LoanIds /\ loans \in [LoanIds -> LoanData]
  BY <1>0 DEF LoanInv, LoanTypeOK
<1>2. loans[id] \in LoanData BY <1>1
<1>3. loans[id].bidPrice \in Nat BY <1>2 DEF LoanData
<1> SUFFICES StillRises(loans[id], loans'[id]) BY <1>0
<1>4. ASSUME NEW amount \in Nat, NEW index \in Nat \ {0},
             \/ IncreaseLoan(id, amount, index) \/ DecreaseLoan(id, amount, index)
      PROVE  StillRises(loans[id], loans'[id])
  BY <1>1, <1>4 DEF IncreaseLoan, DecreaseLoan, StillRises
<1>5. CASE RepayLoan(id)
  BY <1>1, <1>2, <1>5 DEF RepayLoan, StillRises, LoanData
<1>6. ASSUME NEW bidder \in Account, NEW price \in bids, NEW debt \in Nat,
             \/ \E time \in Nat \ {0} : OpenAuction(id, bidder, price, debt, time)
             \/ OutbidAuction(id, bidder, price, debt)
      PROVE  StillRises(loans[id], loans'[id])
  <2>1. CASE \E time \in Nat \ {0} : OpenAuction(id, bidder, price, debt, time)
    BY <2>1 DEF OpenAuction, StillRises
  <2>2. CASE OutbidAuction(id, bidder, price, debt)
    <3>1. /\ price > loans[id].bidPrice
          /\ loans'[id] = [loans[id] EXCEPT !.bidBorrowAmount = debt,
                                           !.bidderAddress = bidder,
                                           !.bidPrice = price]
      BY <1>1, <2>2 DEF OutbidAuction
    <3>2. price \in Nat OBVIOUS
    <3> QED BY <1>2, <1>3, <3>1, <3>2 DEF StillRises, LoanData
  <2> QED BY <1>6, <2>1, <2>2
<1>7. ASSUME NEW amount \in Nat, NEW index \in Nat \ {0},
             RedeemLoan(id, amount, index)
      PROVE  StillRises(loans[id], loans'[id])
  <2>1. PICK debt : loans' = [loans EXCEPT ![id] =
                       [CalledOff(loans[id]) EXCEPT !.scaledAmount = debt]]
    BY <1>7 DEF RedeemLoan
  <2>2. loans'[id].state = "Active" BY <1>1, <1>2, <2>1 DEF CalledOff, LoanData
  <2> QED BY <2>2 DEF StillRises
<1>8. ASSUME NEW debt \in Nat, NEW to \in Account,
             BuyoutLoan(id, debt, to) \/ LiquidateLoan(id, debt, to)
      PROVE  StillRises(loans[id], loans'[id])
  <2>1. loans' = [loans EXCEPT ![id] =
           [loans[id] EXCEPT !.state = "Defaulted", !.bidBorrowAmount = debt]]
    BY <1>8 DEF BuyoutLoan, LiquidateLoan
  <2>2. loans'[id].state = "Defaulted" BY <1>1, <1>2, <2>1 DEF LoanData
  <2> QED BY <2>2 DEF StillRises
<1>9. CASE MarketSale(id)
  BY <1>1, <1>2, <1>9 DEF MarketSale, LiquidateLoanMarket, StillRises, LoanData
<1>10. CASE SellDebt(nft)
  <2>1. PICK buyer \in Account : loans'[id] = [loans[id] EXCEPT !.borrower = buyer]
    BY <1>0, <1>1, <1>10 DEF SellDebt, ReMintUNFT
  <2> QED BY <1>2, <1>3, <2>1 DEF StillRises, LoanData
<1> QED BY <1>0, <1>4, <1>5, <1>6, <1>7, <1>8, <1>9, <1>10 DEF BookOperation

\* No caller of the book restarts or lowers a running auction.
LEMMA BookRises ==
  ASSUME LoanInv, NEW bids \in SUBSET (Nat \ {0}), [BookNext(bids)]_loanVars
  PROVE  AuctionsRising
<1>1. ASSUME NEW id \in LoanIds, loans'[id] = loans[id] \/ loans[id].state = "None"
      PROVE  StillRises(loans[id], loans'[id])
  <2>1. loans[id].bidPrice \in Nat BY DEF LoanInv, LoanTypeOK, LoanData
  <2> QED BY <1>1, <2>1 DEF StillRises
<1>2. ASSUME NEW nft \in NFT, BookOperation(nft, bids) PROVE AuctionsRising
  <2>1. \A j \in LoanIds : j # nftToLoanIds[nft] => loans'[j] = loans[j]
    BY <1>2, BookOperationWrites
  <2>2. StillRises(loans[nftToLoanIds[nft]], loans'[nftToLoanIds[nft]])
    BY <1>2, BookOperationRises
  <2> QED BY <1>1, <2>1, <2>2 DEF AuctionsRising
<1>3. CASE \A nft \in NFT : ~BookOperation(nft, bids)
  BY <1>1, <1>3, OtherBookWrites DEF AuctionsRising
<1> QED BY <1>2, <1>3

\* A running auction is never restarted, and its bid only rises, for every
\* instance: whoever repays, redeems or sells the debt meanwhile.
THEOREM AuctionsRise == LoanSpec => AuctionsOnlyRise
<1>1. Amounts \in SUBSET (Nat \ {0}) BY LoanAssumption
<1>2. LoanInv /\ [LoanNext]_loanVars => [AuctionsRising]_loanVars
  BY <1>1, LoanNextIsBook, BookRises
<1>3. LoanSpec => [][AuctionsRising]_loanVars
  BY <1>2, LoanBookInvariant, PTL DEF LoanSpec
<1> QED BY <1>3 DEF AuctionsOnlyRise, AuctionsRising, StillRises

-----------------------------------------------------------------------------
(* The loan book implements the pawn shop.                                 *)

\* The pawn shop that takes the given bids, with the tickets of the loan book.
ShopOf(bids) ==
  INSTANCE Pawn WITH Item <- NFT, Party <- Account, Nobody <- NullAddress,
                     Debt <- 0 .. MaxScaledAmount, Price <- bids, ticket <- Tickets

\* The ticket of a record.
RecordTicket(loan) ==
  [status |-> IF loan.state = "Auction" THEN "auctioned" ELSE "pledged",
   holder |-> loan.borrower, owed |-> loan.scaledAmount,
   bid |-> loan.bidPrice, bidder |-> loan.bidderAddress]

\* The ticket of a pledged NFT is that of its loan, of a free one its owner's.
LEMMA TicketValue ==
  ASSUME LoanInv, NEW bids, NEW nft \in NFT
  PROVE  /\ nftToLoanIds[nft] # 0 =>
              Ticket(nft) = RecordTicket(loans[nftToLoanIds[nft]])
         /\ nftToLoanIds[nft] = 0 =>
              nftOwner[nft] \in Account /\ Ticket(nft) = ShopOf(bids)!Free(nftOwner[nft])
         /\ Tickets[nft] = Ticket(nft)
<1>1. nftToLoanIds[nft] # 0 =>
        unftOwner[nft] = loans[nftToLoanIds[nft]].borrower
  BY FoundLoan
<1>2. nftToLoanIds[nft] = 0 => nftOwner[nft] \in Account
  BY DEF LoanInv, CollateralInCustody
<1> QED BY <1>1, <1>2 DEF Ticket, Tickets, RecordTicket, ShopOf!Free

\* A step that leaves the loans and owners of the other NFTs alone changes one
\* ticket alone.
LEMMA OneTicket ==
  ASSUME LoanInv, NEW nft \in NFT, NEW ticket, Ticket(nft)' = ticket,
         \A n \in NFT : n # nft =>
           /\ nftToLoanIds'[n] = nftToLoanIds[n]
           /\ nftOwner'[n] = nftOwner[n] /\ unftOwner'[n] = unftOwner[n]
           /\ nftToLoanIds[n] # 0 =>
                loans'[nftToLoanIds[n]] = loans[nftToLoanIds[n]]
  PROVE  Tickets' = [Tickets EXCEPT ![nft] = ticket]
<1>1. \A n \in NFT : n # nft => Ticket(n)' = Ticket(n) BY DEF Ticket
<1> QED BY <1>1 DEF Tickets

\* The open loans of two NFTs are two records.
LEMMA OtherRecord ==
  ASSUME LoanInv, NEW nft \in NFT, NEW n \in NFT, n # nft,
         nftToLoanIds[nft] # 0, nftToLoanIds[n] # 0, OthersKept(nftToLoanIds[nft])
  PROVE  loans'[nftToLoanIds[n]] = loans[nftToLoanIds[n]]
<1>1. /\ nftToLoanIds[n] \in LoanIds /\ loans[nftToLoanIds[n]].nft = n
      /\ loans[nftToLoanIds[nft]].nft = nft
  BY FoundLoan
<1> QED BY <1>1 DEF OthersKept

\* The tickets after an operation that writes the record of an open loan, and
\* after one that ends it.
LEMMA WrittenTicket ==
  ASSUME LoanInv, NEW nft \in NFT, NEW id, id = nftToLoanIds[nft], id # 0,
         NEW loan, OnlyRecordWritten(id, loan), loan.borrower = loans[id].borrower
  PROVE  Tickets' = [Tickets EXCEPT ![nft] = RecordTicket(loan)]
<1>1. /\ OthersKept(id) /\ loans'[id] = loan
      /\ UNCHANGED <<nftToLoanIds, nftOwner, unftOwner>>
  BY DEF OnlyRecordWritten, custodyVars
<1>2. unftOwner[nft] = loans[id].borrower BY FoundLoan
<1>3. Ticket(nft)' = RecordTicket(loan)
  BY <1>1, <1>2 DEF Ticket, RecordTicket
<1>4. \A n \in NFT : n # nft /\ nftToLoanIds[n] # 0 =>
        loans'[nftToLoanIds[n]] = loans[nftToLoanIds[n]]
  BY <1>1, OtherRecord
<1> QED BY <1>1, <1>3, <1>4, OneTicket

LEMMA ClosedTicket ==
  ASSUME LoanInv, NEW bids, NEW nft \in NFT, NEW id, id = nftToLoanIds[nft], id # 0,
         NEW loan, NEW to \in Account, RecordClosed(id, loan, to), loan.nft = nft
  PROVE  Tickets' = [Tickets EXCEPT ![nft] = ShopOf(bids)!Free(to)]
<1>1. /\ OthersKept(id)
      /\ nftToLoanIds' = [nftToLoanIds EXCEPT ![nft] = 0]
      /\ nftOwner' = [nftOwner EXCEPT ![nft] = to]
      /\ unftOwner' = [unftOwner EXCEPT ![nft] = NullAddress]
  BY DEF RecordClosed
<1>2. /\ nftToLoanIds \in [NFT -> {0} \cup LoanIds]
      /\ nftOwner \in [NFT -> Account \cup {UNFTVault}]
      /\ unftOwner \in [NFT -> Account \cup {NullAddress}]
  BY DEF LoanInv, LoanTypeOK
<1>3. Ticket(nft)' = ShopOf(bids)!Free(to) BY <1>1, <1>2 DEF Ticket, ShopOf!Free
<1>4. \A n \in NFT : n # nft =>
        /\ nftToLoanIds'[n] = nftToLoanIds[n]
        /\ nftOwner'[n] = nftOwner[n] /\ unftOwner'[n] = unftOwner[n]
        /\ nftToLoanIds[n] # 0 => loans'[nftToLoanIds[n]] = loans[nftToLoanIds[n]]
  BY <1>1, <1>2, OtherRecord
<1> QED BY <1>3, <1>4, OneTicket

\* createLoan: a free NFT is pledged.
LEMMA CreatePledges ==
  ASSUME LoanInv, NEW bids, NEW initiator \in Account, NEW onBehalfOf \in Account,
         NEW nft \in NFT, NEW amount \in Nat, NEW index \in Nat \ {0},
         CreateLoan(initiator, onBehalfOf, nft, amount, index)
  PROVE  ShopOf(bids)!Next
<1> DEFINE scaled == RayDiv(amount, index)
           id == loanIdTracker
           loan == [NoLoan EXCEPT !.state = "Active", !.borrower = onBehalfOf,
                                  !.nft = nft, !.scaledAmount = scaled]
<1>1. /\ id \in LoanIds /\ nftToLoanIds[nft] = 0 /\ scaled <= MaxScaledAmount
      /\ loans' = [loans EXCEPT ![id] = loan]
      /\ nftToLoanIds' = [nftToLoanIds EXCEPT ![nft] = id]
      /\ nftOwner' = [nftOwner EXCEPT ![nft] = UNFTVault]
      /\ unftOwner' = [unftOwner EXCEPT ![nft] = onBehalfOf]
  BY DEF CreateLoan, MintUNFT
<1>2. scaled \in 0 .. MaxScaledAmount
  <2>1. scaled \in Nat BY RayDivNat
  <2> QED BY <1>1, <2>1, LoanAssumption
<1> HIDE DEF scaled
<1>3. /\ loans \in [LoanIds -> LoanData]
      /\ nftToLoanIds \in [NFT -> {0} \cup LoanIds]
      /\ nftOwner \in [NFT -> Account \cup {UNFTVault}]
      /\ unftOwner \in [NFT -> Account \cup {NullAddress}]
  BY DEF LoanInv, LoanTypeOK
<1> DEFINE ticket == ShopOf(bids)!Pledged(onBehalfOf, scaled)
<1>4. Ticket(nft)' = ticket
  <2>1. nftToLoanIds'[nft] = id /\ id # 0 BY <1>1, <1>3 DEF LoanIds
  <2>2. loans'[id] = loan /\ unftOwner'[nft] = onBehalfOf BY <1>1, <1>3
  <2>3. /\ loan.state = "Active" /\ loan.scaledAmount = scaled
        /\ loan.bidPrice = 0 /\ loan.bidderAddress = NullAddress
    BY DEF NoLoan
  <2> HIDE DEF loan, id
  <2> QED BY <2>1, <2>2, <2>3 DEF Ticket, ShopOf!Pledged
<1>5. \A n \in NFT : n # nft =>
        /\ nftToLoanIds'[n] = nftToLoanIds[n]
        /\ nftOwner'[n] = nftOwner[n] /\ unftOwner'[n] = unftOwner[n]
        /\ nftToLoanIds[n] # 0 => loans'[nftToLoanIds[n]] = loans[nftToLoanIds[n]]
  <2>1. \A n \in NFT : nftToLoanIds[n] # 0 => nftToLoanIds[n] # id
    <3>1. loans[id].state = "None" BY <1>1 DEF LoanInv, FreshLoanIds, LoanIds
    <3> QED BY <3>1, FoundLoan DEF Live, LiveStates
  <2> QED BY <1>1, <1>3, <2>1
<1> HIDE DEF ticket
<1>6. Tickets' = [Tickets EXCEPT ![nft] = ticket] BY <1>4, <1>5, OneTicket
<1>7. Tickets[nft].status = "free" BY <1>1, TicketValue DEF ShopOf!Free
<1> QED BY <1>2, <1>6, <1>7 DEF ShopOf!Next, ShopOf!Pledge, ShopOf!Rewrite, ticket

\* The owner of an NFT that is not pledged sells it.
LEMMA TradeSells ==
  ASSUME LoanInv, NEW bids, Trade
  PROVE  ShopOf(bids)!Next
<1>1. PICK from \in Account, to \in Account, nft \in NFT :
        TransferNft(from, to, nft)
  BY DEF Trade
<1>2. /\ nftOwner[nft] = from
      /\ nftOwner' = [nftOwner EXCEPT ![nft] = to]
      /\ UNCHANGED <<bookVars, unftOwner>>
  BY <1>1 DEF TransferNft
<1>3. nftToLoanIds[nft] = 0
  BY <1>2, LoanAssumption DEF LoanInv, CollateralInCustody
<1>4. nftOwner \in [NFT -> Account \cup {UNFTVault}]
  BY DEF LoanInv, LoanTypeOK
<1>5. Ticket(nft)' = ShopOf(bids)!Free(to)
  BY <1>2, <1>3, <1>4 DEF Ticket, ShopOf!Free, bookVars
<1>6. Tickets' = [Tickets EXCEPT ![nft] = ShopOf(bids)!Free(to)]
  BY <1>2, <1>4, <1>5, OneTicket DEF bookVars
<1>7. Tickets[nft].status = "free" BY <1>3, TicketValue DEF ShopOf!Free
<1> QED BY <1>6, <1>7 DEF ShopOf!Next, ShopOf!Sell, ShopOf!Rewrite


\* The ticket of an open loan is a pledge or an auction.
LEMMA TicketKinds ==
  ASSUME NEW bids, NEW loan, AuctionFieldsAgree(loan)
  PROVE  /\ loan.state = "Active" =>
              RecordTicket(loan) = ShopOf(bids)!Pledged(loan.borrower, loan.scaledAmount)
         /\ loan.state = "Auction" =>
              RecordTicket(loan) = ShopOf(bids)!Auctioned(loan.borrower, loan.scaledAmount,
                                                  loan.bidPrice, loan.bidderAddress)
BY DEF AuctionFieldsAgree, RecordTicket, ShopOf!Pledged, ShopOf!Auctioned

\* What is known of the tickets before and after an operation that writes the
\* record of an open loan.
LEMMA WrittenShop ==
  ASSUME LoanInv, NEW bids, LoanInv', NEW nft \in NFT, NEW id, id = nftToLoanIds[nft],
         id # 0, NEW loan, OnlyRecordWritten(id, loan),
         loan.borrower = loans[id].borrower, loan.state \in LiveStates
  PROVE  /\ loans[id] \in LoanData /\ loan \in LoanData
         /\ Tickets[nft].holder = loans[id].borrower
         /\ Tickets[nft].owed = loans[id].scaledAmount
         /\ Tickets[nft].bid = loans[id].bidPrice
         /\ loans[id].state = "Active" => Tickets[nft].status = "pledged"
         /\ loans[id].state = "Auction" => Tickets[nft].status = "auctioned"
         /\ loan.state = "Active" =>
              ShopOf(bids)!Rewrite(nft, ShopOf(bids)!Pledged(loan.borrower, loan.scaledAmount))
         /\ loan.state = "Auction" =>
              ShopOf(bids)!Rewrite(nft, ShopOf(bids)!Auctioned(loan.borrower, loan.scaledAmount,
                                               loan.bidPrice, loan.bidderAddress))
<1>1. id \in LoanIds /\ loans[id] \in LoanData BY FoundLoan
<1>2. loans'[id] = loan BY DEF OnlyRecordWritten
<1>3. loan \in LoanData BY <1>1, <1>2 DEF LoanInv, LoanTypeOK
<1>4. AuctionFieldsAgree(loan)
  <2>1. loans'[id].state \in LiveStates => AuctionFieldsAgree(loans'[id])
    BY <1>1 DEF LoanInv, AuctionFieldsInStep, Live
  <2> QED BY <2>1, <1>2
<1>5. Tickets' = [Tickets EXCEPT ![nft] = RecordTicket(loan)] BY WrittenTicket
<1>6. Tickets[nft] = RecordTicket(loans[id]) BY TicketValue
<1>7. /\ Tickets[nft].holder = loans[id].borrower
      /\ Tickets[nft].owed = loans[id].scaledAmount
      /\ Tickets[nft].bid = loans[id].bidPrice
      /\ loans[id].state = "Active" => Tickets[nft].status = "pledged"
      /\ loans[id].state = "Auction" => Tickets[nft].status = "auctioned"
  BY <1>6 DEF RecordTicket
<1> QED BY <1>1, <1>3, <1>4, <1>5, <1>7, TicketKinds DEF ShopOf!Rewrite

\* updateLoan: the debt of a pledged NFT changes.
LEMMA IncreaseAmends ==
  ASSUME LoanInv, NEW bids, NEW nft \in NFT, NEW id, id = nftToLoanIds[nft], id # 0,
         NEW amount \in Nat, NEW index \in Nat \ {0},
         IncreaseLoan(id, amount, index)
  PROVE  ShopOf(bids)!Amend(nft)
<1> DEFINE old == loans[id]
           debt == old.scaledAmount + RayDiv(amount, index)
           loan == [old EXCEPT !.scaledAmount = debt]
<1>1. /\ LoanInv' /\ old.state = "Active" /\ RayDiv(amount, index) \in Nat \ {0}
      /\ OnlyRecordWritten(id, loan)
  BY IncreaseInv
<1>2. old \in LoanData BY FoundLoan
<1>3. old.scaledAmount \in Nat /\ debt # old.scaledAmount
  BY <1>1, <1>2 DEF LoanData
<1> HIDE DEF debt, old
<1>4. /\ loan.state = old.state /\ loan.borrower = old.borrower
      /\ loan.scaledAmount = debt
  BY <1>2 DEF LoanData
<1> HIDE DEF loan
<1>5. /\ loan \in LoanData
      /\ Tickets[nft].holder = old.borrower /\ Tickets[nft].owed = old.scaledAmount
      /\ Tickets[nft].status = "pledged"
      /\ ShopOf(bids)!Rewrite(nft, ShopOf(bids)!Pledged(loan.borrower, loan.scaledAmount))
  BY <1>1, <1>4, WrittenShop DEF LiveStates, old
<1>6. debt \in 0 .. MaxScaledAmount \ {Tickets[nft].owed}
  BY <1>3, <1>4, <1>5 DEF LoanData
<1> QED BY <1>4, <1>5, <1>6 DEF ShopOf!Amend

LEMMA DecreaseAmends ==
  ASSUME LoanInv, NEW bids, NEW nft \in NFT, NEW id, id = nftToLoanIds[nft], id # 0,
         NEW amount \in Nat, NEW index \in Nat \ {0},
         DecreaseLoan(id, amount, index)
  PROVE  ShopOf(bids)!Amend(nft)
<1> DEFINE old == loans[id]
           debt == old.scaledAmount - RayDiv(amount, index)
           loan == [old EXCEPT !.scaledAmount = debt]
<1>1. /\ LoanInv' /\ old.state = "Active" /\ RayDiv(amount, index) \in Nat \ {0}
      /\ OnlyRecordWritten(id, loan)
  BY DecreaseInv
<1>2. old \in LoanData BY FoundLoan
<1>3. old.scaledAmount \in Nat /\ debt # old.scaledAmount
  BY <1>1, <1>2 DEF LoanData
<1> HIDE DEF debt, old
<1>4. /\ loan.state = old.state /\ loan.borrower = old.borrower
      /\ loan.scaledAmount = debt
  BY <1>2 DEF LoanData
<1> HIDE DEF loan
<1>5. /\ loan \in LoanData
      /\ Tickets[nft].holder = old.borrower /\ Tickets[nft].owed = old.scaledAmount
      /\ Tickets[nft].status = "pledged"
      /\ ShopOf(bids)!Rewrite(nft, ShopOf(bids)!Pledged(loan.borrower, loan.scaledAmount))
  BY <1>1, <1>4, WrittenShop DEF LiveStates, old
<1>6. debt \in 0 .. MaxScaledAmount \ {Tickets[nft].owed}
  BY <1>3, <1>4, <1>5 DEF LoanData
<1> QED BY <1>4, <1>5, <1>6 DEF ShopOf!Amend

\* auctionLoan: the first bid offers the NFT, a later one is higher.
LEMMA OpenAuctionOffers ==
  ASSUME LoanInv, NEW bids \in SUBSET (Nat \ {0}), NEW nft \in NFT,
         NEW id, id = nftToLoanIds[nft], id # 0,
         NEW bidder \in Account, NEW price \in bids, NEW debt \in Nat,
         NEW time \in Nat \ {0}, OpenAuction(id, bidder, price, debt, time)
  PROVE  ShopOf(bids)!Offer(nft)
<1> DEFINE old == loans[id]
           loan == [old EXCEPT !.state = "Auction", !.bidStartTimestamp = time,
                      !.firstBidderAddress = bidder, !.bidBorrowAmount = debt,
                      !.bidderAddress = bidder, !.bidPrice = price]
<1>1. price \in Nat \ {0} OBVIOUS
<1>2. LoanInv' /\ old.state = "Active" /\ OnlyRecordWritten(id, loan)
  BY <1>1, OpenAuctionInv
<1>3. old \in LoanData BY FoundLoan
<1> HIDE DEF old
<1>4. /\ loan.state = "Auction" /\ loan.borrower = old.borrower
      /\ loan.scaledAmount = old.scaledAmount
      /\ loan.bidPrice = price /\ loan.bidderAddress = bidder
  BY <1>3 DEF LoanData
<1> HIDE DEF loan
<1>5. /\ Tickets[nft].holder = old.borrower /\ Tickets[nft].owed = old.scaledAmount
      /\ Tickets[nft].status = "pledged"
      /\ ShopOf(bids)!Rewrite(nft, ShopOf(bids)!Auctioned(loan.borrower, loan.scaledAmount,
                                          loan.bidPrice, loan.bidderAddress))
  BY <1>2, <1>4, WrittenShop DEF LiveStates, old
<1> QED BY <1>4, <1>5 DEF ShopOf!Offer

LEMMA OutbidRaises ==
  ASSUME LoanInv, NEW bids \in SUBSET (Nat \ {0}), NEW nft \in NFT,
         NEW id, id = nftToLoanIds[nft], id # 0,
         NEW bidder \in Account, NEW price \in bids, NEW debt \in Nat,
         OutbidAuction(id, bidder, price, debt)
  PROVE  ShopOf(bids)!Outbid(nft)
<1> DEFINE old == loans[id]
           loan == [old EXCEPT !.bidBorrowAmount = debt,
                      !.bidderAddress = bidder, !.bidPrice = price]
<1>1. price \in Nat \ {0} OBVIOUS
<1>2. /\ LoanInv' /\ old.state = "Auction" /\ price > old.bidPrice
      /\ OnlyRecordWritten(id, loan)
  BY <1>1, OutbidInv
<1>3. old \in LoanData BY FoundLoan
<1> HIDE DEF old
<1>4. /\ loan.state = old.state /\ loan.borrower = old.borrower
      /\ loan.scaledAmount = old.scaledAmount
      /\ loan.bidPrice = price /\ loan.bidderAddress = bidder
  BY <1>3 DEF LoanData
<1> HIDE DEF loan
<1>5. /\ Tickets[nft].holder = old.borrower /\ Tickets[nft].owed = old.scaledAmount
      /\ Tickets[nft].bid = old.bidPrice
      /\ Tickets[nft].status = "auctioned"
      /\ ShopOf(bids)!Rewrite(nft, ShopOf(bids)!Auctioned(loan.borrower, loan.scaledAmount,
                                          loan.bidPrice, loan.bidderAddress))
  BY <1>2, <1>4, WrittenShop DEF LiveStates, old
<1> QED BY <1>2, <1>4, <1>5 DEF ShopOf!Outbid

\* redeemLoan: part of the debt is paid and the auction called off.
LEMMA RedeemCallsOff ==
  ASSUME LoanInv, NEW bids, NEW nft \in NFT, NEW id, id = nftToLoanIds[nft], id # 0,
         NEW amount \in Nat, NEW index \in Nat \ {0},
         RedeemLoan(id, amount, index)
  PROVE  ShopOf(bids)!CallOff(nft)
<1> DEFINE old == loans[id]
           debt == old.scaledAmount - RayDiv(amount, index)
           loan == [CalledOff(old) EXCEPT !.scaledAmount = debt]
<1>1. /\ LoanInv' /\ old.state = "Auction" /\ RayDiv(amount, index) \in Nat \ {0}
      /\ OnlyRecordWritten(id, loan)
  BY RedeemInv
<1>2. old \in LoanData BY FoundLoan
<1>3. old.scaledAmount \in Nat /\ debt < old.scaledAmount
  BY <1>1, <1>2 DEF LoanData
<1> HIDE DEF debt, old
<1>4. /\ loan.state = "Active" /\ loan.borrower = old.borrower
      /\ loan.scaledAmount = debt
  BY <1>2 DEF LoanData, CalledOff
<1> HIDE DEF loan
<1>5. /\ loan \in LoanData
      /\ Tickets[nft].holder = old.borrower /\ Tickets[nft].owed = old.scaledAmount
      /\ Tickets[nft].status = "auctioned"
      /\ ShopOf(bids)!Rewrite(nft, ShopOf(bids)!Pledged(loan.borrower, loan.scaledAmount))
  BY <1>1, <1>4, WrittenShop DEF LiveStates, old
<1>6. debt \in 0 .. MaxScaledAmount BY <1>4, <1>5 DEF LoanData
<1> QED BY <1>3, <1>4, <1>5, <1>6 DEF ShopOf!CallOff


\* repayLoan gives the NFT back; a seizure or a market sale gives it away.
LEMMA RepayReturns ==
  ASSUME LoanInv, NEW bids, NEW nft \in NFT, NEW id, id = nftToLoanIds[nft], id # 0,
         RepayLoan(id)
  PROVE  ShopOf(bids)!Return(nft)
<1> DEFINE old == loans[id]
           loan == [old EXCEPT !.state = "Repaid"]
<1>1. old.state = "Active" /\ RecordClosed(id, loan, old.borrower) BY RepayInv
<1>2. old \in LoanData /\ old.nft = nft /\ old.borrower \in Account
  BY FoundLoan
<1>3. Tickets[nft] = RecordTicket(old) BY TicketValue
<1> HIDE DEF old
<1>4. loan.nft = nft BY <1>2 DEF LoanData
<1> HIDE DEF loan
<1>5. Tickets' = [Tickets EXCEPT ![nft] = ShopOf(bids)!Free(old.borrower)]
  BY <1>1, <1>2, <1>4, ClosedTicket
<1> QED BY <1>1, <1>3, <1>5 DEF ShopOf!Return, ShopOf!Rewrite, RecordTicket

LEMMA ClosingForfeits ==
  ASSUME LoanInv, NEW bids, NEW nft \in NFT, NEW id, id = nftToLoanIds[nft], id # 0,
         NEW loan, NEW to \in Account, RecordClosed(id, loan, to), loan.nft = nft
  PROVE  ShopOf(bids)!Forfeit(nft)
<1>1. Tickets[nft].status # "free" BY TicketValue DEF RecordTicket
<1>2. Tickets' = [Tickets EXCEPT ![nft] = ShopOf(bids)!Free(to)] BY ClosedTicket
<1> QED BY <1>1, <1>2 DEF ShopOf!Forfeit, ShopOf!Rewrite

LEMMA SeizeForfeits ==
  ASSUME LoanInv, NEW bids, NEW nft \in NFT, NEW id, id = nftToLoanIds[nft], id # 0,
         NEW debt \in Nat, NEW to \in Account,
         BuyoutLoan(id, debt, to) \/ LiquidateLoan(id, debt, to)
  PROVE  ShopOf(bids)!Forfeit(nft)
<1> DEFINE loan == [loans[id] EXCEPT !.state = "Defaulted", !.bidBorrowAmount = debt]
<1>1. RecordClosed(id, loan, to) BY SeizeInv
<1>2. loan.nft = nft BY FoundLoan DEF LoanData
<1> HIDE DEF loan
<1> QED BY <1>1, <1>2, ClosingForfeits

LEMMA MarketSaleForfeits ==
  ASSUME LoanInv, NEW bids, NEW nft \in NFT, NEW id, id = nftToLoanIds[nft], id # 0,
         NEW adapter, NEW to \in Account, LiquidateLoanMarket(adapter, id, to)
  PROVE  ShopOf(bids)!Forfeit(nft)
<1> DEFINE loan == [loans[id] EXCEPT !.state = "Defaulted"]
<1>1. RecordClosed(id, loan, to) BY MarketSaleInv
<1>2. loan.nft = nft BY FoundLoan DEF LoanData
<1> HIDE DEF loan
<1> QED BY <1>1, <1>2, ClosingForfeits

\* reMintUNFT: the debt passes to another account, also while the NFT is
\* auctioned.
LEMMA ReMintAssigns ==
  ASSUME LoanInv, NEW bids, NEW nft \in NFT, NEW new \in Account, nftToLoanIds[nft] # 0,
         ReMintUNFT(nft, loans[nftToLoanIds[nft]].borrower, new)
  PROVE  ShopOf(bids)!Assign(nft)
<1> PICK id : id = nftToLoanIds[nft] OBVIOUS
<1>1. /\ loans' = [loans EXCEPT ![id].borrower = new]
      /\ unftOwner' = [unftOwner EXCEPT ![nft] = new]
      /\ UNCHANGED <<nftToLoanIds, nftOwner>>
  BY DEF ReMintUNFT
<1>2. id \in LoanIds /\ loans[id] \in LoanData BY FoundLoan
<1>3. /\ loans \in [LoanIds -> LoanData]
      /\ nftToLoanIds \in [NFT -> {0} \cup LoanIds]
      /\ unftOwner \in [NFT -> Account \cup {NullAddress}]
  BY DEF LoanInv, LoanTypeOK
<1>4. OthersKept(id) /\ loans'[id] = [loans[id] EXCEPT !.borrower = new]
  BY <1>1, <1>2, <1>3 DEF OthersKept
<1>5. /\ loans'[id].state = loans[id].state
      /\ loans'[id].scaledAmount = loans[id].scaledAmount
      /\ loans'[id].bidPrice = loans[id].bidPrice
      /\ loans'[id].bidderAddress = loans[id].bidderAddress
  BY <1>2, <1>4 DEF LoanData
<1> DEFINE ticket == [status |-> Tickets[nft].status, holder |-> new,
                      owed |-> Tickets[nft].owed, bid |-> Tickets[nft].bid,
                      bidder |-> Tickets[nft].bidder]
<1>6. Tickets[nft] = RecordTicket(loans[id]) BY TicketValue
<1>7. ticket = [Tickets[nft] EXCEPT !.holder = new]
  BY <1>6 DEF RecordTicket
<1>8. Ticket(nft)' = ticket
  BY <1>1, <1>3, <1>5, <1>6 DEF Ticket, RecordTicket
<1> HIDE DEF ticket
<1>9. \A n \in NFT : n # nft =>
        /\ nftToLoanIds'[n] = nftToLoanIds[n]
        /\ nftOwner'[n] = nftOwner[n] /\ unftOwner'[n] = unftOwner[n]
        /\ nftToLoanIds[n] # 0 => loans'[nftToLoanIds[n]] = loans[nftToLoanIds[n]]
  BY <1>1, <1>3, <1>4, OtherRecord
<1>10. Tickets' = [Tickets EXCEPT ![nft] = ticket] BY <1>8, <1>9, OneTicket
<1>11. Tickets[nft].status # "free" BY <1>6 DEF RecordTicket
<1> QED BY <1>7, <1>10, <1>11 DEF ShopOf!Assign, ShopOf!Rewrite

\* Each operation on an open loan is a step of the shop on its NFT.
LEMMA BookOperationShop ==
  ASSUME LoanInv, NEW bids \in SUBSET (Nat \ {0}), NEW nft \in NFT,
         BookOperation(nft, bids)
  PROVE  ShopOf(bids)!Next
<1>1. PICK id : id = nftToLoanIds[nft] /\ id # 0 BY DEF BookOperation
<1>2. ASSUME NEW amount \in Nat, NEW index \in Nat \ {0},
             \/ IncreaseLoan(id, amount, index) \/ DecreaseLoan(id, amount, index)
             \/ RedeemLoan(id, amount, index)
      PROVE  ShopOf(bids)!Next
  <2>1. \/ ShopOf(bids)!Amend(nft) \/ ShopOf(bids)!CallOff(nft)
    BY <1>1, <1>2, IncreaseAmends, DecreaseAmends, RedeemCallsOff
  <2> QED BY <2>1 DEF ShopOf!Next
<1>3. CASE RepayLoan(id)
  <2>1. ShopOf(bids)!Return(nft) BY <1>1, <1>3, RepayReturns
  <2> QED BY <2>1 DEF ShopOf!Next
<1>4. ASSUME NEW bidder \in Account, NEW price \in bids, NEW debt \in Nat,
             \/ \E time \in Nat \ {0} : OpenAuction(id, bidder, price, debt, time)
             \/ OutbidAuction(id, bidder, price, debt)
      PROVE  ShopOf(bids)!Next
  <2>1. CASE OutbidAuction(id, bidder, price, debt)
    <3>1. ShopOf(bids)!Outbid(nft) BY <2>1, <1>1, OutbidRaises
    <3> QED BY <3>1 DEF ShopOf!Next
  <2>2. ASSUME NEW time \in Nat \ {0}, OpenAuction(id, bidder, price, debt, time)
        PROVE  ShopOf(bids)!Next
    <3>1. ShopOf(bids)!Offer(nft) BY <2>2, <1>1, OpenAuctionOffers
    <3> QED BY <3>1 DEF ShopOf!Next
  <2> QED BY <1>4, <2>1, <2>2
<1>5. ASSUME NEW debt \in Nat, NEW to \in Account,
             BuyoutLoan(id, debt, to) \/ LiquidateLoan(id, debt, to)
      PROVE  ShopOf(bids)!Next
  <2>1. ShopOf(bids)!Forfeit(nft) BY <1>1, <1>5, SeizeForfeits
  <2> QED BY <2>1 DEF ShopOf!Next
<1>6. CASE MarketSale(id)
  <2>1. PICK adapter \in Adapter, to \in Account :
          LiquidateLoanMarket(adapter, id, to)
    BY <1>6 DEF MarketSale
  <2>2. ShopOf(bids)!Forfeit(nft) BY <2>1, <1>1, MarketSaleForfeits
  <2> QED BY <2>2 DEF ShopOf!Next
<1>7. CASE SellDebt(nft)
  <2>1. ShopOf(bids)!Assign(nft) BY <1>1, <1>7, ReMintAssigns DEF SellDebt
  <2> QED BY <2>1 DEF ShopOf!Next
<1> QED BY <1>1, <1>2, <1>3, <1>4, <1>5, <1>6, <1>7 DEF BookOperation

\* Whoever calls the book, each of its steps is one of the shop or unseen by it.
LEMMA BookIsShop ==
  ASSUME LoanInv, NEW bids \in SUBSET (Nat \ {0}), [BookNext(bids)]_loanVars
  PROVE  [ShopOf(bids)!Next]_Tickets
<1>1. ASSUME NEW initiator \in Account, NEW onBehalfOf \in Account, NEW nft \in NFT,
             NEW amount \in Nat, NEW index \in Nat \ {0},
             CreateLoan(initiator, onBehalfOf, nft, amount, index)
      PROVE  ShopOf(bids)!Next
  BY <1>1, CreatePledges
<1>2. ASSUME NEW nft \in NFT, BookOperation(nft, bids) PROVE ShopOf(bids)!Next
  BY <1>2, BookOperationShop
<1>3. CASE Trade
  BY <1>3, TradeSells
<1>4. CASE Administer \/ UNCHANGED loanVars
  <2>1. UNCHANGED <<bookVars, custodyVars>>
    BY <1>4 DEF Administer, InitNft, UpdateMarketAdapters, loanVars
  <2> QED BY <2>1 DEF Tickets, Ticket, bookVars, custodyVars
<1> QED BY <1>1, <1>2, <1>3, <1>4 DEF BookNext

\* At the start every NFT is with its owner.
LEMMA BookStartsFree ==
  ASSUME LoanInit, NEW bids
  PROVE  ShopOf(bids)!Init
<1>1. \A n \in NFT : nftOwner[n] \in Account /\ nftToLoanIds[n] = 0
  BY DEF LoanInit
<1>2. \A n \in NFT : Ticket(n) = ShopOf(bids)!Free(nftOwner[n])
  BY <1>1 DEF Ticket, ShopOf!Free
<1>3. Tickets \in [NFT -> {ShopOf(bids)!Free(p) : p \in Account}]
  BY <1>1, <1>2 DEF Tickets
<1> QED BY <1>3 DEF ShopOf!Init

\* Every behaviour of the loan book is one of the pawn shop, for every
\* instance: an NFT leaves custody only to the borrower of a repaid loan or by
\* default, and whoever calls what, debt and best bid change as the shop lets
\* them.
THEOREM LoanBookImplementsPawn == LoanSpec => ImplementsPawn
<1>1. LoanInit => Shop!Init
  BY BookStartsFree DEF ShopOf!Init, Shop!Init, ShopOf!Free, Shop!Free
<1>2. LoanInv /\ [LoanNext]_loanVars => [Shop!Next]_Tickets
  <2>1. Amounts \in SUBSET (Nat \ {0}) BY LoanAssumption
  <2>2. LoanInv /\ [LoanNext]_loanVars => [ShopOf(Amounts)!Next]_Tickets
    BY <2>1, LoanNextIsBook, BookIsShop
  <2>3. ShopOf(Amounts)!Next => Shop!Next
    BY DEF ShopOf!Next, ShopOf!Sell, ShopOf!Pledge, ShopOf!Amend, ShopOf!Return,
           ShopOf!Offer, ShopOf!Outbid, ShopOf!CallOff, ShopOf!Assign,
           ShopOf!Forfeit, ShopOf!Rewrite, ShopOf!Free, ShopOf!Pledged,
           ShopOf!Auctioned, Shop!Next, Shop!Sell, Shop!Pledge, Shop!Amend,
           Shop!Return, Shop!Offer, Shop!Outbid, Shop!CallOff, Shop!Assign,
           Shop!Forfeit, Shop!Rewrite, Shop!Free, Shop!Pledged, Shop!Auctioned
  <2> QED BY <2>2, <2>3
<1> QED
  BY <1>1, <1>2, LoanBookInvariant, PTL DEF LoanSpec, ImplementsPawn, Shop!Spec

=============================================================================
