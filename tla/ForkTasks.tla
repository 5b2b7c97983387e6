----------------------------- MODULE ForkTasks -----------------------------
(***************************************************************************)
(* The tasks of tasks/fork, which deploy to a fork of a network and never  *)
(* verify, and the migration that runs them (unlockd.fork.ts).  Their      *)
(* branches on `testupgrade` are dead: the flag is declared `testUpgrade`, *)
(* so the parameter the tasks read is never set.                           *)
(***************************************************************************)
EXTENDS FullTasks

(* The wrapped punks are the ones this script deployed. *)
ForkNft(asset) == IF asset = "WPUNKS" THEN GetContract("WrappedPunk", "token") ELSE ConfigAddress(asset)
ForkNfts(assets) == [i \in DOMAIN assets |-> ForkNft(assets[i])]

ForkProxyAdmin == DeployProxyAdmin(FALSE)
ForkAddressProvider == DeployAddressProvider(FALSE)
ForkIncentivesController == DeployIncentivesController(FALSE)
ForkOracleReserve == DeployOracleReserve(FALSE)
ForkOracleNft == DeployOracleNft(FALSE, ForkNfts(NftsAssets))
ForkDebtMarket == DeployDebtMarketTask(FALSE)

ForkUnftRegistry == DeployUnftRegistry(FALSE, TRUE, ForkNfts(NftsAssets))

ForkDataProvider(wallet, protocol, ui) == DeployDataProvider(FALSE, wallet, protocol, ui)

(* The pool admin then sets the discounts of the lockey holders. *)
ForkLockeyHolders ==
    DeployLockeyHolders(FALSE)
      \o WaitForTx("discount", "proxy", "none") \o WaitForTx("discount", "proxy", "none")

ForkReservoirAdapter ==
    DeployReservoirAdapter(FALSE) \o GetLendPoolAddressesProvider
      \o SetImpl("RESERVOIR_ADAPTER", "proxy") \o InsertContractAddressInDb("ReservoirAdapter", "proxy")

-----------------------------------------------------------------------------
(* The pool, left paused by the emergency admin.  Errors are swallowed.    *)

ForkLendPool ==
    GetLendPoolAddressesProvider
      \o GetContract("UNFTRegistry", "it") \o SetAddress("UNFTRegistry", "it")
      \o GetContract("MockIncentivesController", "it") \o SetAddress("IncentivesController", "it")
      \o DeployUnlockdLibraries(FALSE)
      \o DeployLendPool(FALSE) \o SetImpl("LendPool", "proxy")
      \o InsertContractAddressInDb("LendPool", "proxy")
      \o DeployLendPoolLoan(FALSE) \o SetImpl("LendPoolLoan", "proxy")
      \o InsertContractAddressInDb("LendPoolLoan", "proxy")
      \o DeployLendPoolConfigurator(FALSE) \o SetImpl("LendPoolConfigurator", "configurator")
      \o InsertContractAddressInDb("LendPoolConfigurator", "configurator")
      \o GetEmergencyAdmin("emergency")
      \o WaitForTx("bidDelta", "configurator", "none")
      \o WaitForTx("paused", "configurator", "none")
      \o DeployUTokenImplementations(FALSE)

(* The migration then lifts the pause it assumes the task left. *)
UnpausePool ==
    GetLendPoolAddressesProvider \o GetAddress("LendPoolConfigurator", "configurator")
      \o GetEmergencyAdmin("emergency")
      \o WaitForTx("unpaused", "configurator", "none") \o WaitForTx("timeframe", "configurator", "none")

(* The address of the strategy is entered before it is known.              *)
ForkInterestRate ==
    GetLendPoolAddressesProvider \o GetLendPoolConfiguratorProxy
      \o ForEachListed(ConfigAddresses(ReservesConfig),
           DeployRateStrategy(FALSE) \o RawInsertContractAddressInDb("rateStrategyWETH", "none")
             \o SendTx("rate", "configurator", "strategy"))

(* Throws when the database holds no vault, so that only an upgrade works. *)
ForkMockYVault ==
    GetLendPoolAddressesProvider \o GetWrappedNativeTokenAddress \o DeployMockYVault(TRUE)
      \o GetProxyAdminPool \o GetContract("MockYVault", "it")
      \o InsertContractAddressInDb("MockYVault", "it") \o UpgradeProxy("it")

ForkInitializeLendPool == InitializeLendPool(FALSE, ForkNfts(NftsConfig))

ForkInitializeGateway == GetContract("WrappedPunk", "token") \o InitializeGateway

-----------------------------------------------------------------------------
(* The gateways. *)

ForkWethGateway == DeployWethGateway(FALSE)

(* The provider is not asked for the gateway it has: it is always replaced. *)
ForkPunkGateway ==
    GetLendPoolAddressesProvider \o GetProxyAdminPool \o NotFalsyOrZeroAddress("admin")
      \o GetContract("WETHGateway", "it")
      \o GetContract("CryptoPunksMarket", "punk") \o GetContract("WrappedPunk", "wpunk")
      \o DeployPunkGateway(FALSE)
      \o DeployUnlockdUpgradeableProxy("PunkGateway", "provider", FALSE)
      \o SetAddress("PUNK_GATEWAY", "proxy")

-----------------------------------------------------------------------------
(* unlockd:fork *)

ForkPunks ==
    DeployCryptoPunksMarket(FALSE) \o DeployWrappedPunk(FALSE) \o WaitForTx("assigned", "punk", "none")

ForkMockOracles ==
    DeployMockReserveOracle(FALSE) \o WaitForTx("initialized", "it", "none")
      \o DeployMockChainlinkOracle(FALSE)

ForkMockNftOracle ==
    GetLendPoolAddressesProvider \o GetAddress("LendPoolConfigurator", "configurator")
      \o DeployMockNFTOracle(FALSE) \o GetAddress("PoolAdmin", "account")
      \o WaitForTx("initialized", "it", "configurator")

Fork ==
    Task("punks", FALSE, ForkPunks)
    \o Task("proxy-admin", FALSE, ForkProxyAdmin)
    \o Task("address-provider", FALSE, ForkAddressProvider)
    \o Task("incentives-controller", FALSE, ForkIncentivesController)
    \o Task("unft-registry", FALSE, ForkUnftRegistry)
    \o Task("lockey-holders", FALSE, ForkLockeyHolders)
    \o Task("lend-pool", TRUE, ForkLendPool)
    \o Task("unpause", FALSE, UnpausePool)
    \o Task("debt-market", FALSE, ForkDebtMarket)
    \o Task("oracle-reserve", TRUE, ForkOracleReserve)
    \o Task("mock-oracles", FALSE, ForkMockOracles)
    \o Task("oracle-nft", FALSE, ForkOracleNft)
    \o Task("mock-oracle-nft", FALSE, ForkMockNftOracle)
    \o Task("initialize-lend-pool", FALSE, ForkInitializeLendPool)
    \o Task("weth-gateway", FALSE, ForkWethGateway)
    \o Task("punk-gateway", FALSE, ForkPunkGateway)
    \o Task("initialize-gateway", FALSE, ForkInitializeGateway)
    \o Task("reservoir-adapter", FALSE, ForkReservoirAdapter)
    \o Task("data-provider", FALSE, ForkDataProvider(FALSE, FALSE, FALSE))
=============================================================================
