---------------------------- MODULE DeployHelpers ----------------------------
(***************************************************************************)
(* The helpers the deployment tasks are written with, as the sequences of  *)
(* steps DeployScript executes.  A helper that returns a contract leaves   *)
(* its address in a register: "impl" for an implementation that is about   *)
(* to go behind a proxy, "proxy" for the proxy, "it" for anything else.    *)
(***************************************************************************)
EXTENDS Naturals, Sequences, SequencesExt

CONSTANT OnMain         \* "main" is in the name of the network

Step(op, x, r, a) ==
    <<[op |-> op, x |-> x, r |-> r, a |-> a, when |-> {}]>>

(* A task of a migration; `catches`: it swallows its errors.               *)
Task(name, catches, code) == <<[task |-> name, catches |-> catches, code |-> code]>>

(* The two branches of `if (address is set)`.  The register tested is not  *)
(* one the branch assigns, except by its last step.                        *)
Guarded(code, guard) == [i \in DOMAIN code |-> [code[i] EXCEPT !.when = @ \union {guard}]]
IfSet(r, code)   == Guarded(code, <<r, TRUE>>)
IfUnset(r, code) == Guarded(code, <<r, FALSE>>)

(* A loop over the entries of a configuration. *)
ForEach(keys, Code(_)) == FlattenSeq([i \in DOMAIN keys |-> Code(keys[i])])

-----------------------------------------------------------------------------
(* Reading and writing the database and the configuration. *)

GetParamPerNetwork(key, r) == Step("config", key, r, "none")
GetContractAddressInDb(id, r) == Step("load", id, r, "none")
InsertContractAddressInDb(id, r) == Step("put", id, r, "none")
RawInsertContractAddressInDb(id, r) == Step("put", id, r, "none")

(* getX() without an address: the entry of the database, or a TypeError.   *)
GetContract(id, r) == Step("load", id, r, "none")
GetContractById(id, r) == Step("load", id, r, "none")
GetLendPoolAddressesProvider == GetContract("LendPoolAddressesProvider", "provider")
GetLendPoolConfiguratorProxy == GetContract("LendPoolConfigurator", "configurator")

NotFalsyOrZeroAddress(r) == Step("need", "address", r, "none")
IsSigner(r) == Step("need", "signer", r, "none")

GetContractAddressWithJsonFallback(id, r) ==
    GetParamPerNetwork(id, r) \o IfUnset(r, GetContractAddressInDb(id, r))

GetProxyAdminPool == GetContractById("UnlockdProxyAdminPool", "admin")

(* The accounts of the configuration, or a signer of the node by its index. *)
GetGenesisPoolAdmin(r) ==
    GetParamPerNetwork("PoolAdmin", r) \o IfUnset(r, GetParamPerNetwork("PoolAdminIndex", r))
GetEmergencyAdmin(r) ==
    GetParamPerNetwork("EmergencyAdmin", r)
      \o IfUnset(r, GetParamPerNetwork("EmergencyAdminIndex", r))
GetLendPoolLiquidator(r) ==
    GetParamPerNetwork("LendPoolLiquidator", r)
      \o IfUnset(r, GetParamPerNetwork("LendPoolLiquidatorIndex", r))
GetYVaultWETHAddress(r) == GetParamPerNetwork("YVaultWETH", r)

(* The address an asset of the configuration has on this network. *)
ConfigAddress(asset) == GetParamPerNetwork(asset, "token")
ConfigAddresses(assets) == [i \in DOMAIN assets |-> ConfigAddress(assets[i])]

-----------------------------------------------------------------------------
(* Creating contracts. *)

New(kind, r, of) == Step("send", kind, r, of)
VerifyContract(id) == Step("verify", id, "none", "none")

(* exit(3) or exit(5) when the source of nothing can be verified.          *)
CheckVerification == Step("need", "etherscan", "none", "none")

WithSaveAndVerify(id, r, verify) ==
    Step("save", id, r, "none") \o (IF verify THEN VerifyContract(id) ELSE <<>>)

Deploy(id, r, of, verify) == New(id, r, of) \o WithSaveAndVerify(id, r, verify)

(* An implementation is entered under a second key before it is mined.     *)
DeployImpl(id, implId, verify) ==
    New(id, "impl", "none") \o InsertContractAddressInDb(implId, "impl")
      \o WithSaveAndVerify(id, "impl", verify)

DeployLendPoolAddressesProviderRegistry(verify) ==
    Deploy("LendPoolAddressesProviderRegistry", "registry", "none", verify)

DeployLendPoolAddressesProvider(verify) ==
    Deploy("LendPoolAddressesProvider", "provider", "none", verify)

DeployLendPoolConfigurator(verify) ==
    GetContractAddressInDb("ConfiguratorLogic", "it")
      \o DeployImpl("LendPoolConfigurator", "LendPoolConfiguratorImpl", verify)

DeployLendPoolLoan(verify) == DeployImpl("LendPoolLoan", "LendPoolLoanImpl", verify)
DeployUNFTRegistry(verify) == DeployImpl("UNFTRegistry", "UNFTRegistryImpl", verify)
DeployLockeyManager(verify) == DeployImpl("LockeyManager", "LockeyManagerImpl", verify)
DeployDebtMarket(verify) == DeployImpl("DebtMarket", "DebtMarketImpl", verify)
DeployReservoirAdapter(verify) == DeployImpl("ReservoirAdapter", "ReservoirAdapterImpl", verify)
DeployReserveOracle(verify) == DeployImpl("ReserveOracle", "ReserveOracleImpl", verify)
DeployNFTOracle(verify) == DeployImpl("NFTOracle", "NFTOracleImpl", verify)
DeployWETHGateway(verify) == DeployImpl("WETHGateway", "WETHGatewayImpl", verify)
DeployPunkGateway(verify) == DeployImpl("PunkGateway", "PunkGatewayImpl", verify)
DeployUnlockdCollector(verify) == DeployImpl("UnlockdCollector", "UnlockdCollectorImpl", verify)

(* Both entries get the key of the implementation. *)
DeployMockYVault(verify) == DeployImpl("MockYVaultImpl", "MockYVaultImpl", verify)

-----------------------------------------------------------------------------
(* The libraries, each linked with the addresses an earlier one left.      *)

DeployReserveLogicLibrary(verify) == Deploy("ReserveLogic", "it", "none", verify)
DeployNftLogicLibrary(verify) == Deploy("NftLogic", "it", "none", verify)
DeployGenericLogic(verify) == Deploy("GenericLogic", "it", "none", verify)
DeployValidationLogic(verify) == Deploy("ValidationLogic", "it", "none", verify)

DeploySupplyLogicLibrary(verify) ==
    GetContractAddressInDb("ValidationLogic", "it") \o Deploy("SupplyLogic", "it", "none", verify)

DeployBorrowLogicLibrary(verify) ==
    GetContractAddressInDb("ValidationLogic", "it") \o Deploy("BorrowLogic", "it", "none", verify)

DeployLiquidateLogicLibrary(verify) ==
    GetContractAddressInDb("ValidationLogic", "it")
      \o Deploy("LiquidateLogic", "it", "none", verify)

DeployLendingLogicLibrary(verify) == Deploy("LendingLogic", "it", "none", verify)
DeployConfiguratorLogicLibrary(verify) == Deploy("ConfiguratorLogic", "it", "none", verify)

DeployLendPoolLibraries(verify) ==
    DeployGenericLogic(verify) \o DeployReserveLogicLibrary(verify)
      \o DeployNftLogicLibrary(verify) \o DeployValidationLogic(verify)
      \o DeploySupplyLogicLibrary(verify) \o DeployBorrowLogicLibrary(verify)
      \o DeployLiquidateLogicLibrary(verify) \o DeployLendingLogicLibrary(verify)

DeployUnlockdLibraries(verify) ==
    DeployLendPoolLibraries(verify) \o DeployConfiguratorLogicLibrary(verify)

LendPoolLibraryIds ==
    <<"ReserveLogic", "NftLogic", "ValidationLogic", "GenericLogic",
      "SupplyLogic", "BorrowLogic", "LiquidateLogic", "LendingLogic">>

GetLendPoolLibraries ==
    LET Find(id) == GetContractAddressInDb(id, "it") IN ForEach(LendPoolLibraryIds, Find)

DeployLendPool(verify) ==
    GetLendPoolLibraries \o DeployImpl("LendPool", "LendPoolImpl", verify)

-----------------------------------------------------------------------------
(* Tokens, strategies, data providers, proxies and mocks. *)

DeployUnlockdProtocolDataProvider(verify) ==
    Deploy("UnlockdProtocolDataProvider", "it", "provider", verify)
DeployUiPoolDataProvider(verify) == Deploy("UIPoolDataProvider", "it", "oracle", verify)
DeployWalletBalancerProvider(verify) == Deploy("WalletBalanceProvider", "it", "none", verify)

DeployInterestRate(verify) == Deploy("InterestRate", "strategy", "provider", verify)
DeployRateStrategy(verify) == DeployInterestRate(verify)

DeployGenericDebtToken(verify) == Deploy("DebtToken", "debtToken", "none", verify)
DeployGenericUTokenImpl(verify) == Deploy("UToken", "uToken", "none", verify)
DeployGenericUNFTImpl(verify) == Deploy("UNFT", "it", "none", verify)

DeployUTokenImplementations(verify) ==
    GetParamPerNetwork("UToken", "found")
      \o IfUnset("found", DeployGenericUTokenImpl(verify))
      \o GetParamPerNetwork("DebtTokenImplementation", "found")
      \o IfUnset("found", DeployGenericDebtToken(verify))

DeployUnlockdUpgradeableProxy(id, of, verify) ==
    Step("sendProxy", id, "proxy", of) \o WithSaveAndVerify(id, "proxy", verify)
DeployUnlockdProxyAdmin(id, verify) == Deploy(id, "it", "none", verify)

DeployMockIncentivesController(verify) ==
    Deploy("MockIncentivesController", "it", "none", verify)
DeployMockReserveOracle(verify) == Deploy("MockReserveOracle", "it", "none", verify)
DeployMockChainlinkOracle(verify) == Deploy("MockChainlinkOracle", "it", "none", verify)
DeployMockNFTOracle(verify) == Deploy("MockNFTOracle", "it", "none", verify)
DeployCryptoPunksMarket(verify) == Deploy("CryptoPunksMarket", "punk", "none", verify)
DeployWrappedPunk(verify) == Deploy("WrappedPunk", "wpunk", "punk", verify)
DeployWETH9(verify) == Deploy("WETH", "weth", "none", verify)

(* External contracts: as configured, or deployed off the mainnet.  The    *)
(* address of the punk market falls back on the punk gateway's.            *)
GetWrappedNativeTokenAddress ==
    GetParamPerNetwork("WrappedNativeToken", "given")
      \o GetParamPerNetwork("WrappedNativeToken", "weth")
      \o IF OnMain THEN NotFalsyOrZeroAddress("given") ELSE IfUnset("given", DeployWETH9(FALSE))

GetCryptoPunksMarketAddress ==
    GetParamPerNetwork("CryptoPunksMarket", "punk") \o IfUnset("punk", GetContract("PunkGateway", "punk"))

GetWrappedPunkTokenAddress ==
    GetParamPerNetwork("WrappedPunkToken", "given")
      \o GetParamPerNetwork("WrappedPunkToken", "wpunk")
      \o IF OnMain THEN NotFalsyOrZeroAddress("given")
         ELSE IfUnset("given", NotFalsyOrZeroAddress("punk") \o DeployWrappedPunk(FALSE))

-----------------------------------------------------------------------------
(* Transactions: waited for, or sent and forgotten. *)

WaitForTx(what, c, arg) == Step("call", what, c, arg)
SendTx(what, c, arg) == Step("post", what, c, arg)

SetAddress(slot, r) == Step("set", slot, r, "none")
GetAddress(slot, r) == Step("get", slot, r, "none")
SetAddressAsProxy(slot) == Step("setProxy", slot, "impl", "none")

(* What every task does after it has set an implementation: read back the  *)
(* proxy the provider created or upgraded.                                 *)
SetImpl(slot, proxy) == SetAddressAsProxy(slot) \o GetAddress(slot, proxy)

UpgradeProxy(r) == Step("upgrade", "upgrade", r, "admin")

-----------------------------------------------------------------------------
(* Filling the pool (init-helpers.ts).  `tokens` is what leaves the address *)
(* of each asset in register "token"; an asset without one is skipped.     *)

EachAddress(tokens, code) == FlattenSeq([i \in DOMAIN tokens |-> tokens[i] \o code])

ForEachListed(tokens, code) == EachAddress(tokens, IfSet("token", code))

InitReservesByHelper(reserves, verify) ==
    GetLendPoolAddressesProvider
      \o ForEachListed(reserves,
           DeployRateStrategy(verify)
             \o RawInsertContractAddressInDb("rateStrategyWETH", "strategy")
             \o GetContractAddressWithJsonFallback("UToken", "uToken")
             \o GetContractAddressWithJsonFallback("DebtToken", "debtToken"))
      \o GetLendPoolConfiguratorProxy
      \o ForEachListed(reserves, WaitForTx("reserve", "configurator", "token"))

ConfigureReservesByHelper(reserves) ==
    GetLendPoolAddressesProvider \o GetLendPoolConfiguratorProxy
      \o ForEachListed(reserves, WaitForTx("configured", "configurator", "token"))
      \o ForEachListed(reserves, WaitForTx("borrowing", "configurator", "token"))

InitNftsByHelper(nfts) ==
    GetLendPoolAddressesProvider \o GetAddress("UNFTRegistry", "it")
      \o GetLendPoolConfiguratorProxy
      \o ForEachListed(nfts, WaitForTx("nft", "configurator", "token"))

(* The 40 token ids of a collection are two transactions of 20.            *)
ConfigureNftsByHelper(nfts) ==
    GetLendPoolAddressesProvider \o GetLendPoolConfiguratorProxy
      \o ForEachListed(nfts, WaitForTx("nftConfigured", "configurator", "token")
                                      \o WaitForTx("nftConfigured", "configurator", "token"))
=============================================================================
