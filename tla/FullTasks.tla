----------------------------- MODULE FullTasks -----------------------------
(***************************************************************************)
(* The tasks of tasks/full and the migration to a public network that runs *)
(* them (tasks/migrations/unlockd.mainnet.ts), as sequences of the steps   *)
(* DeployScript executes.  `nfts` finds the address of each collection:    *)
(* the tasks of tasks/fork are the same but for that and for `verify`.     *)
(***************************************************************************)
EXTENDS DeployHelpers

CONSTANTS
    ReserveAssets, ReservesConfig,  \* reserves with an address; with parameters
    NftsAssets, NftsConfig,         \* collections, likewise
    OnFork                          \* FORK is set: the node impersonates anyone

-----------------------------------------------------------------------------
(* The administrators, the provider and its registry. *)

DeployProxyAdmin(verify) ==
    LET Reuse(id) ==
          GetParamPerNetwork(id, "found")
            \o IfUnset("found", DeployUnlockdProxyAdmin(id, verify))
            \o IfSet("found", InsertContractAddressInDb(id, "found"))
    IN  Reuse("UnlockdProxyAdminPool") \o Reuse("UnlockdProxyAdminFund")

DeployAddressProviderRegistry(verify) ==
    GetParamPerNetwork("ProviderRegistry", "found")
      \o IfSet("found", InsertContractAddressInDb("LendPoolAddressesProviderRegistry", "found"))
      \o IfUnset("found", DeployLendPoolAddressesProviderRegistry(verify))

(* Registers the provider in register "provider".  A configured registry   *)
(* must belong to the signer, unless the node impersonates its owner.      *)
AddMarketToRegistry(verify) ==
    GetParamPerNetwork("ProviderRegistry", "known")
      \o GetParamPerNetwork("ProviderRegistry", "registry")
      \o IfUnset("known",
           DeployAddressProviderRegistry(verify)
             \o GetContract("LendPoolAddressesProviderRegistry", "registry"))
      \o IfSet("known",
           GetParamPerNetwork("ProviderRegistryOwner", "owner") \o NotFalsyOrZeroAddress("owner")
             \o IF OnFork THEN <<>> ELSE IsSigner("owner"))
      \o WaitForTx("registered", "registry", "provider")

DeployAddressProvider(verify) ==
    DeployLendPoolAddressesProvider(verify) \o AddMarketToRegistry(FALSE)
      \o GetGenesisPoolAdmin("account") \o SetAddress("PoolAdmin", "account")
      \o GetEmergencyAdmin("account") \o SetAddress("EmergencyAdmin", "account")
      \o GetLendPoolLiquidator("account") \o SetAddress("LendPoolLiquidator", "account")

DeployIncentivesController(verify) ==
    DeployMockIncentivesController(verify) \o GetLendPoolAddressesProvider
      \o SetAddress("IncentivesController", "it")

(* The proxy is read back from the database, and every configured asset    *)
(* gets its receipt token, listed in the pool or not.                      *)
DeployUnftRegistry(verify, createunfts, nfts) ==
    DeployGenericUNFTImpl(verify) \o DeployUNFTRegistry(verify)
      \o GetParamPerNetwork("UnlockdProxyAdminPool", "admin") \o IfUnset("admin", GetProxyAdminPool)
      \o NotFalsyOrZeroAddress("admin")
      \o DeployUnlockdUpgradeableProxy("UNFTRegistry", "none", verify)
      \o GetContract("UNFTRegistry", "it")
      \o GetLendPoolAddressesProvider \o SetAddress("UNFTRegistry", "it")
      \o IF createunfts THEN EachAddress(nfts, WaitForTx("uNFT", "it", "token")) ELSE <<>>

DeployLockeyHolders(verify) ==
    DeployLockeyManager(verify) \o GetLendPoolAddressesProvider
      \o SetImpl("LOCKEY_MANAGER", "proxy") \o InsertContractAddressInDb("LockeyManager", "proxy")
      \o GetParamPerNetwork("LockeyCollection", "it") \o NotFalsyOrZeroAddress("it")
      \o SetAddress("LOCKEY_COLLECTION", "it")

-----------------------------------------------------------------------------
(* The pool, its tokens and its oracles. *)

(* Errors are logged and swallowed.  UToken and DebtToken implementations  *)
(* are not deployed here: that call is commented out.                      *)
DeployFullLendPool(verify) ==
    GetLendPoolAddressesProvider \o NotFalsyOrZeroAddress("provider")
      \o DeployUnlockdLibraries(verify)
      \o DeployLendPool(verify) \o SetImpl("LendPool", "proxy")
      \o InsertContractAddressInDb("LendPool", "proxy")
      \o DeployLendPoolLoan(verify) \o SetImpl("LendPoolLoan", "proxy")
      \o InsertContractAddressInDb("LendPoolLoan", "proxy")
      \o DeployLendPoolConfigurator(verify) \o SetImpl("LendPoolConfigurator", "configurator")
      \o WaitForTx("bidDelta", "configurator", "none")
      \o InsertContractAddressInDb("LendPoolConfigurator", "configurator")

(* One transaction for the implementation of every reserve, not waited for. *)
UpdateTokens(what) ==
    GetAddress("LendPoolConfigurator", "configurator")
      \o ForEachListed(ConfigAddresses(ReserveAssets), SendTx(what, "configurator", "token"))

UpgradeUToken ==
    GetLendPoolAddressesProvider \o DeployGenericUTokenImpl(TRUE) \o UpdateTokens("newUToken")

UpgradeDebtToken ==
    GetLendPoolAddressesProvider \o DeployGenericDebtToken(TRUE) \o UpdateTokens("newDebtToken")

DeployOracleReserve(verify) ==
    GetLendPoolAddressesProvider \o GetParamPerNetwork("ReserveOracle", "found")
      \o GetProxyAdminPool \o GetWrappedNativeTokenAddress
      \o DeployReserveOracle(verify)
      \o IfSet("found", InsertContractAddressInDb("ReserveOracle", "found") \o UpgradeProxy("found"))
      \o IfUnset("found",
           DeployUnlockdUpgradeableProxy("ReserveOracle", "weth", verify)
             \o WaitForTx("aggregators", "proxy", "weth"))
      \o IfSet("found", SetAddress("ReserveOracle", "found"))
      \o IfUnset("found", SetAddress("ReserveOracle", "proxy"))

(* A new oracle makes the configurator its price manager; an oracle that   *)
(* is configured is only upgraded.                                         *)
DeployOracleNft(verify, nfts) ==
    GetParamPerNetwork("NFTOracle", "found") \o GetLendPoolAddressesProvider
      \o GetProxyAdminPool \o NotFalsyOrZeroAddress("admin")
      \o GetGenesisPoolAdmin("account") \o GetAddress("LendPoolConfigurator", "configurator")
      \o DeployNFTOracle(verify)
      \o IfSet("found", InsertContractAddressInDb("NFTOracle", "found") \o UpgradeProxy("found"))
      \o IfUnset("found",
           DeployUnlockdUpgradeableProxy("NFTOracle", "configurator", verify)
             \o SendTx("priceManager", "proxy", "configurator")
             \o EachAddress(nfts, WaitForTx("collection", "proxy", "token")))
      \o GetLendPoolAddressesProvider
      \o IfSet("found", SetAddress("NFTOracle", "found"))
      \o IfUnset("found", SetAddress("NFTOracle", "proxy"))

InitializeLendPool(verify, nfts) ==
    GetLendPoolAddressesProvider \o GetAddress("PoolAdmin", "account")
      \o InitReservesByHelper(ConfigAddresses(ReservesConfig), verify)
      \o ConfigureReservesByHelper(ConfigAddresses(ReservesConfig))
      \o GetYVaultWETHAddress("it") \o NotFalsyOrZeroAddress("it") \o SetAddress("YVAULT_WETH", "it")
      \o InitNftsByHelper(nfts) \o ConfigureNftsByHelper(nfts)

-----------------------------------------------------------------------------
(* The gateways. *)

(* The proxy the provider names is upgraded; without one it is created.    *)
ReuseGateway(id, slot, verify) ==
    GetAddress(slot, "found")
      \o IfSet("found", InsertContractAddressInDb(id, "found") \o UpgradeProxy("found")
                          \o SetAddress(slot, "found"))
      \o IfUnset("found", DeployUnlockdUpgradeableProxy(id, "provider", verify) \o SetAddress(slot, "proxy"))

DeployWethGateway(verify) ==
    GetLendPoolAddressesProvider \o GetProxyAdminPool \o NotFalsyOrZeroAddress("admin")
      \o GetWrappedNativeTokenAddress \o DeployWETHGateway(verify)
      \o ReuseGateway("WETHGateway", "WETH_GATEWAY", verify)
      \o SetAddress("WETH", "weth")

DeployPunkGatewayTask(verify) ==
    GetLendPoolAddressesProvider \o GetProxyAdminPool \o NotFalsyOrZeroAddress("admin")
      \o GetContract("WETHGateway", "it")
      \o GetCryptoPunksMarketAddress \o GetWrappedPunkTokenAddress
      \o DeployPunkGateway(verify)
      \o ReuseGateway("PunkGateway", "PUNK_GATEWAY", verify)

AuthorizeCallerWhitelist(gateway) ==
    GetContract(gateway, "it") \o WaitForTx("authorized", "it", "account")

(* Each gateway approves the pool its provider names for all the assets.   *)
InitializeGateway ==
    GetContract("WETHGateway", "it") \o WaitForTx("approve", "it", "none")
      \o GetContract("PunkGateway", "it") \o WaitForTx("approve", "it", "none")

-----------------------------------------------------------------------------
(* Data providers, the debt market and the collector. *)

DeployDataProvider(verify, wallet, protocol, ui) ==
    LET Chosen(flag, code) == IF flag THEN code ELSE <<>>
    IN  GetLendPoolAddressesProvider
          \o GetAddress("ReserveOracle", "found") \o GetAddress("NFTOracle", "oracle")
          \o Chosen(wallet, DeployWalletBalancerProvider(verify)
                              \o SetAddress("WalletBalanceProvider", "it"))
          \o Chosen(protocol, DeployUnlockdProtocolDataProvider(verify)
                                \o SetAddress("UnlockdDataProvider", "it"))
          \o Chosen(ui, DeployUiPoolDataProvider(verify) \o SetAddress("UIDataProvider", "it"))

DeployDebtMarketTask(verify) ==
    DeployDebtMarket(verify) \o GetLendPoolAddressesProvider \o GetAddress("LendPool", "it")
      \o SetImpl("DEBT_MARKET", "proxy") \o InsertContractAddressInDb("DebtMarket", "proxy")
      \o SetAddress("DEBT_MARKET", "proxy") \o WaitForTx("authorizedPool", "proxy", "it")

GetProxyAdminFund == GetContractById("UnlockdProxyAdminFund", "admin")

DeployUnlockdCollectorTask(verify) ==
    GetProxyAdminFund \o DeployUnlockdCollector(verify)
      \o DeployUnlockdUpgradeableProxy("UnlockdCollector", "none", verify)

(* The proxy is a parameter: `collector` of the configuration.             *)
UpgradeUnlockdCollector(verify) ==
    GetProxyAdminFund \o GetParamPerNetwork("collector", "proxy") \o DeployUnlockdCollector(verify)
      \o InsertContractAddressInDb("UnlockdCollector", "proxy") \o UpgradeProxy("proxy")

ApproveERC20 ==
    GetParamPerNetwork("collector", "proxy") \o WaitForTx("approveERC20", "proxy", "token")

-----------------------------------------------------------------------------
(* Verification after the deployment, from what the database names. *)

VerifyGeneral ==
    LET Find(id) == GetContract(id, "it")
        Verify(id) == Find(id) \o VerifyContract(id)
    IN  Find("LendPoolAddressesProviderRegistry") \o GetLendPoolAddressesProvider
          \o GetAddress("LendPool", "it") \o GetAddress("LendPoolConfigurator", "it")
          \o GetAddress("LendPoolLoan", "it")
          \o ForEach(<<"WETHGateway", "PunkGateway">>, Find)
          \o ForEach(<<"UnlockdProxyAdminFund", "UnlockdProxyAdminPool">>, Verify)
          \o ForEach(<<"UnlockdProtocolDataProvider", "WalletBalanceProvider", "UIPoolDataProvider">>, Find)
          \o ForEach(<<"LendPoolAddressesProviderRegistry", "LendPoolAddressesProvider",
                       "LendPoolImpl", "LendPoolConfiguratorImpl", "LendPoolLoanImpl",
                       "UnlockdProtocolDataProvider", "WalletBalanceProvider", "UIPoolDataProvider",
                       "ReserveOracleImpl", "NFTOracleImpl", "WETHGatewayImpl", "PunkGatewayImpl">>, Verify)

(* Both throw for an asset that has an address and no parameters.          *)
Lacks(assets, config) == \E i \in DOMAIN assets : \A j \in DOMAIN config : config[j] # assets[i]
Parameters(assets, config) ==
    IF Lacks(assets, config) THEN NotFalsyOrZeroAddress("none") ELSE <<>>

VerifyReserves ==
    LET VerifyReserve(asset) ==
          VerifyContract("UToken") \o VerifyContract("DebtToken") \o VerifyContract("InterestRate")
    IN  GetLendPoolAddressesProvider \o GetAddress("LendPool", "it")
          \o GetAddress("LendPoolConfigurator", "configurator")
          \o GetContract("UToken", "uToken") \o VerifyContract("UToken")
          \o GetContract("DebtToken", "debtToken") \o VerifyContract("DebtToken")
          \o Parameters(ReserveAssets, ReservesConfig) \o ForEach(ReserveAssets, VerifyReserve)

VerifyNfts ==
    LET VerifyUNFT(asset) == VerifyContract("UNFT")
    IN  GetLendPoolAddressesProvider \o GetAddress("LendPool", "it") \o GetAddress("UNFTRegistry", "it")
          \o GetContract("UNFTRegistryImpl", "impl")
          \o VerifyContract("UNFTRegistry") \o VerifyContract("UNFT")
          \o Parameters(NftsAssets, NftsConfig) \o ForEach(NftsAssets, VerifyUNFT)

-----------------------------------------------------------------------------
(* unlockd:mainnet.  Most tasks verify whether the flag is given or not.   *)

Mainnet(verify) ==
    Task("unlockd:mainnet", FALSE, IF verify THEN CheckVerification ELSE <<>>)
    \o Task("proxy-admin", FALSE, DeployProxyAdmin(TRUE))
    \o Task("address-provider", FALSE, DeployAddressProvider(TRUE))
    \o Task("incentives-controller", FALSE, DeployIncentivesController(TRUE))
    \o Task("unft-registry", FALSE, DeployUnftRegistry(verify, TRUE, ConfigAddresses(NftsAssets)))
    \o Task("lockey-holders", FALSE, DeployLockeyHolders(FALSE))
    \o Task("lend-pool", TRUE, DeployFullLendPool(TRUE))
    \o Task("upgrade-utoken", TRUE, UpgradeUToken)
    \o Task("oracle-reserve", TRUE, DeployOracleReserve(TRUE))
    \o Task("oracle-nft", FALSE, DeployOracleNft(TRUE, ConfigAddresses(NftsAssets)))
    \o Task("initialize-lend-pool", FALSE, InitializeLendPool(TRUE, ConfigAddresses(NftsConfig)))
    \o Task("weth-gateway", FALSE, DeployWethGateway(TRUE))
    \o Task("punk-gateway", FALSE, DeployPunkGatewayTask(TRUE))
    \o Task("initialize-gateway", FALSE, InitializeGateway)
    \o Task("data-provider", FALSE, DeployDataProvider(verify, FALSE, TRUE, TRUE))
    \o IF verify THEN Task("verify:general", FALSE, VerifyGeneral)
                        \o Task("verify:reserves", FALSE, VerifyReserves)
                        \o Task("verify:nfts", FALSE, VerifyNfts)
       ELSE <<>>
=============================================================================
