SPECIFICATION MarketSpec
CONSTANTS
  RAY = 2
  WAD = 10
  PERCENTAGE_FACTOR = 10
  ONE_PERCENT = 1
  alice = alice
  bob = bob
  nft1 = nft1
  nft2 = nft2
  apes = apes
  Account = {alice, bob}
  NFT = {nft1}
  Collection <- MCCollection
  Adapter = {}
  UNFTVault = vault
  NullAddress = null
  Amounts = {1, 4}
  BorrowIndexes = {2, 3}
  Timestamps = {1}
  MaxLoans = 1
  MaxScaledAmount = 4
  Holder = {alice, bob, pool, utoken, market}
  LendPoolAddr = pool
  UTokenAddr = utoken
  Treasury = alice
  Rejecting = {bob}
  LockeyHolders = {bob}
  LockeyDiscount = 9
  Lenders = {}
  Bids = {3, 5}
  Allowances = {}
  Prices = {10, 5}
  NftConfigs = {}
  BidDelta = 11
  AuctionFee = 1
  SafeHealthFactor = 11
  Timeframe = 2
  ClaimDelay = 0
  Switches = {}
  InitialWeth <- MCMarketWeth
  InitialConfig <- MCReady
  InitialPrice <- MCPriced
  MaxTime = 3
  DebtMarketAddr = market
  Terms <- MCMixedTerms
  MaxListings = 1
  LockeyDiscountOnMarket = 5
  DeltaBidPercents = {}
  MarketSwitches = {}
  PoolAuthorized = {TRUE}
PROPERTIES
  SellersArePaid
