SPECIFICATION ClockSpec
CONSTANTS
  RAY = 2
  WAD = 10
  PERCENTAGE_FACTOR = 10
  ONE_PERCENT = 1
  alice = alice
  bob = bob
  nft1 = nft1
  nft2 = nft2
  apes = apes
  Account = {alice, bob}
  NFT = {nft1}
  Collection <- MCCollection
  Adapter = {}
  UNFTVault = vault
  NullAddress = null
  Amounts = {4}
  BorrowIndexes = {2}
  Timestamps = {1}
  MaxLoans = 1
  MaxScaledAmount = 4
  Holder = {alice, bob, pool, utoken}
  LendPoolAddr = pool
  UTokenAddr = utoken
  Treasury = alice
  Rejecting = {bob}
  LockeyHolders = {bob}
  LockeyDiscount = 9
  Lenders = {}
  Bids = {5}
  Allowances = {}
  Prices = {10, 5}
  NftConfigs <- MCConfigs
  BidDelta = 11
  AuctionFee = 1
  SafeHealthFactor = 11
  Timeframe = 2
  ClaimDelay = 1
  Switches = {TRUE, FALSE}
  InitialWeth <- MCWeth
  InitialConfig <- MCUnready
  InitialPrice <- MCUnpriced
  MaxTime = 5
INVARIANTS
  DueAuctionsSettle
  OnePauseIsAdded
