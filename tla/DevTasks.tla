------------------------------ MODULE DevTasks ------------------------------
(***************************************************************************)
(* The tasks of tasks/dev: a market on a development node, with mock       *)
(* assets from the database instead of configured ones and oracles that    *)
(* are not behind proxies; and the migration of unlockd.dev.ts.            *)
(***************************************************************************)
EXTENDS FullTasks

CONSTANTS MockTokens, MockNfts      \* TokenContractId and NftContractId

MockAddress(symbol) == GetContract(symbol, "token")
MockAddresses(symbols) == [i \in DOMAIN symbols |-> MockAddress(symbols[i])]

-----------------------------------------------------------------------------
(* The mock assets, entered under their symbols. *)

DeployMintableERC20(verify) == Deploy("MintableERC20", "token", "none", verify)
DeployCustomERC721(verify) == Deploy("CustomERC721", "token", "none", verify)
RegisterContractInJsonDb(symbol, r) == Step("put", symbol, r, "none")

DeployAllMockTokens(verify) ==
    LET DeployMock(symbol) ==
          IF symbol = "WETH" THEN DeployWETH9(FALSE) \o RegisterContractInJsonDb(symbol, "weth")
          ELSE DeployMintableERC20(verify) \o RegisterContractInJsonDb(symbol, "token")
    IN  ForEach(MockTokens, DeployMock)

DeployAllMockNfts(verify) ==
    LET DeployMock(symbol) ==
          IF symbol = "WPUNKS"
          THEN DeployCryptoPunksMarket(verify) \o DeployWrappedPunk(verify)
                 \o RegisterContractInJsonDb(symbol, "wpunk")
          ELSE DeployCustomERC721(verify) \o RegisterContractInJsonDb(symbol, "token")
    IN  ForEach(MockNfts, DeployMock)

GetAllMockedTokens == ForEach(MockTokens, MockAddress)
GetAllMockedNfts == ForEach(MockNfts, MockAddress)
GetConfigMockedNfts == ForEach(NftsConfig, MockAddress)

(* The admin of the registry's proxy is an account of the node.            *)
DeployMockUnftRegistry(verify) ==
    GetParamPerNetwork("proxyAdminSigner", "admin")
      \o DeployGenericUNFTImpl(verify) \o DeployUNFTRegistry(verify)
      \o DeployUnlockdUpgradeableProxy("UNFTRegistry", "none", verify)

DeployMockUnftTokens ==
    GetContract("UNFTRegistry", "it") \o GetConfigMockedNfts
      \o EachAddress(MockAddresses(NftsConfig), WaitForTx("uNFT", "it", "token"))

-----------------------------------------------------------------------------
(* The market. *)

DevAddressProvider(verify) ==
    DeployLendPoolAddressesProvider(verify)
      \o GetParamPerNetwork("deploySigner", "account")
      \o SetAddress("PoolAdmin", "account") \o SetAddress("EmergencyAdmin", "account")
      \o DeployLendPoolAddressesProviderRegistry(verify)
      \o WaitForTx("registered", "registry", "provider")

DevLendPool(verify) ==
    GetLendPoolAddressesProvider \o GetContract("UNFTRegistry", "it") \o SetAddress("UNFTRegistry", "it")
      \o DeployUnlockdLibraries(verify)
      \o DeployLendPool(verify) \o SetImpl("LendPool", "proxy")
      \o InsertContractAddressInDb("LendPool", "proxy")
      \o DeployLendPoolConfigurator(verify) \o SetImpl("LendPoolConfigurator", "configurator")
      \o InsertContractAddressInDb("LendPoolConfigurator", "configurator")
      \o DeployLendPoolLoan(verify) \o SetImpl("LendPoolLoan", "proxy")
      \o InsertContractAddressInDb("LendPoolLoan", "proxy")
      \o DeployUTokenImplementations(verify)

(* One aggregator per reserve that has a price, and one for USD.           *)
DeployChainlinkMockAggregator(verify) ==
    DeployMockChainlinkOracle(verify) \o SendTx("answer", "it", "none")
DeployAllReservesMockAggregators(verify) ==
    LET DeployFor(symbol) == DeployChainlinkMockAggregator(verify)
    IN  ForEach(MockTokens, DeployFor) \o DeployChainlinkMockAggregator(FALSE)

SetAggregatorsInReserveOracle ==
    EachAddress(MockAddresses(MockTokens), WaitForTx("aggregator", "impl", "token"))
      \o WaitForTx("aggregator", "impl", "none")

DevOracleReserve(verify) ==
    GetLendPoolAddressesProvider \o GetAllMockedTokens \o DeployAllReservesMockAggregators(verify)
      \o DeployReserveOracle(verify) \o WaitForTx("initialized", "impl", "token")
      \o SetAddress("ReserveOracle", "impl") \o SetAggregatorsInReserveOracle

AddAssetsInNFTOracle ==
    EachAddress(MockAddresses(MockNfts), WaitForTx("collection", "impl", "token"))

SetPricesInNFTOracle ==                 \* one token of each collection
    EachAddress(MockAddresses(MockNfts), WaitForTx("price", "impl", "token"))

DevOracleNft(verify) ==
    GetLendPoolAddressesProvider \o GetAllMockedNfts
      \o GetAddress("LendPoolConfigurator", "configurator")
      \o DeployNFTOracle(verify) \o GetAddress("PoolAdmin", "account")
      \o WaitForTx("initialized", "impl", "configurator")
      \o SendTx("priceManager", "impl", "configurator")
      \o SetAddress("NFTOracle", "impl") \o AddAssetsInNFTOracle \o SetPricesInNFTOracle

DevInitializeLendPool(verify) ==
    GetLendPoolAddressesProvider \o GetAddress("PoolAdmin", "account")
      \o GetParamPerNetwork("ReserveFactorTreasuryAddress", "it") \o NotFalsyOrZeroAddress("it")
      \o DeployUnlockdProtocolDataProvider(verify)
      \o InsertContractAddressInDb("UnlockdProtocolDataProvider", "it")
      \o GetAllMockedTokens
      \o InitReservesByHelper(MockAddresses(ReservesConfig), verify)
      \o ConfigureReservesByHelper(MockAddresses(ReservesConfig))
      \o GetAllMockedNfts
      \o InitNftsByHelper(MockAddresses(NftsConfig))
      \o ConfigureNftsByHelper(MockAddresses(NftsConfig))
      \o GetAddress("ReserveOracle", "found") \o GetAddress("NFTOracle", "oracle")
      \o DeployWalletBalancerProvider(verify) \o DeployUnlockdProtocolDataProvider(verify)
      \o DeployUiPoolDataProvider(verify) \o GetAddress("LendPool", "it")
      \o InitializeGateway

DevAuthorizeGateways == GetAllMockedTokens \o GetAllMockedNfts \o InitializeGateway

-----------------------------------------------------------------------------
(* unlockd:dev *)

Dev(verify) ==
    Task("unlockd:dev", FALSE, IF verify THEN CheckVerification ELSE <<>>)
    \o Task("mock-reserves", FALSE, DeployAllMockTokens(verify))
    \o Task("mock-nfts", FALSE, DeployAllMockNfts(verify))
    \o Task("mock-unft-registry", FALSE, DeployMockUnftRegistry(verify))
    \o Task("mock-unft-tokens", FALSE, DeployMockUnftTokens)
    \o Task("incentives-controller", FALSE, DeployMockIncentivesController(FALSE))
    \o Task("proxy-admin", FALSE, DeployProxyAdmin(verify))
    \o Task("address-provider", FALSE, DevAddressProvider(verify))
    \o Task("lend-pool", FALSE, DevLendPool(verify))
    \o Task("oracle-reserve", FALSE, DevOracleReserve(verify))
    \o Task("oracle-nft", FALSE, DevOracleNft(verify))
    \o Task("weth-gateway", FALSE, DeployWethGateway(verify))
    \o Task("punk-gateway", FALSE, DeployPunkGatewayTask(verify))
    \o Task("initialize-lend-pool", FALSE, DevInitializeLendPool(verify))
=============================================================================
