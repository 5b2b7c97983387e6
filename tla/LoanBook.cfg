SPECIFICATION LoanSpec
CONSTANTS
  RAY = 2
  WAD = 2
  PERCENTAGE_FACTOR = 10
  ONE_PERCENT = 1
  alice = alice
  bob = bob
  nft1 = nft1
  nft2 = nft2
  apes = apes
  Account = {alice, bob}
  NFT = {nft1, nft2}
  Collection <- MCCollection
  Adapter = {adapter}
  UNFTVault = vault
  NullAddress = null
  Amounts = {1, 2}
  BorrowIndexes = {2, 5}
  Timestamps = {1}
  MaxLoans = 2
  MaxScaledAmount = 1
INVARIANTS
  LoanTypeOK
  OneOpenLoanPerNFT
  CollateralInCustody
  CountersCountOpenLoans
  AuctionFieldsInStep
PROPERTIES
  ClosedLoansStayClosed
  AuctionsOnlyRise
  ImplementsPawn
