---------------------------- MODULE UpgradeTasks ----------------------------
(***************************************************************************)
(* What an operator runs on a market that is live: the tasks of            *)
(* tasks/misc/new-implementation.ts, one operator per contract name.  With *)
(* `upgrade` the new implementation goes behind the proxy the provider     *)
(* names, without it the implementation is only deployed.                  *)
(***************************************************************************)
EXTENDS ForkTasks

OnUpgrade(upgrade, code) == IF upgrade THEN code ELSE <<>>

\* Mutant: the entry keeps the implementation.
NewUnrecorded(slot, id, upgrade) ==
    OnUpgrade(upgrade, SetAddressAsProxy(slot)) \o GetAddress(slot, "proxy")

(* Proxies the provider administers.  The deployment has just entered the  *)
(* implementation under the key of the proxy; this puts the proxy back.    *)
NewBehindProvider(slot, id, upgrade) ==
    OnUpgrade(upgrade, SetAddressAsProxy(slot)) \o GetAddress(slot, "proxy")
      \o InsertContractAddressInDb(id, "proxy")

NewLendPool(upgrade, verify) ==
    GetLendPoolAddressesProvider \o DeployLendPoolLibraries(verify) \o DeployLendPool(verify)
      \o NewBehindProvider("LendPool", "LendPool", upgrade)

NewLendPoolConfigurator(upgrade, verify) ==
    GetLendPoolAddressesProvider \o DeployConfiguratorLogicLibrary(verify)
      \o DeployLendPoolConfigurator(verify)
      \o NewBehindProvider("LendPoolConfigurator", "LendPoolConfigurator", upgrade)

NewLendPoolLoan(upgrade, verify) ==
    GetLendPoolAddressesProvider \o DeployLendPoolLoan(verify)
      \o NewBehindProvider("LendPoolLoan", "LendPoolLoan", upgrade)

(* Proxies the pool's proxy administrator upgrades.                        *)
UpgradeImplementation(id) ==
    GetProxyAdminPool \o NotFalsyOrZeroAddress("admin") \o UpgradeProxy("proxy")
      \o InsertContractAddressInDb(id, "proxy")

NewBehindAdmin(slot, id, upgrade) ==
    GetAddress(slot, "proxy") \o InsertContractAddressInDb(id, "proxy")
      \o OnUpgrade(upgrade, UpgradeImplementation(id))

NewReserveOracle(upgrade, verify) ==
    GetLendPoolAddressesProvider \o DeployReserveOracle(verify)
      \o NewBehindAdmin("ReserveOracle", "ReserveOracle", upgrade)

NewNFTOracle(upgrade, verify) ==
    GetLendPoolAddressesProvider \o DeployNFTOracle(verify)
      \o NewBehindAdmin("NFTOracle", "NFTOracle", upgrade)

NewWETHGateway(upgrade, verify) ==
    GetLendPoolAddressesProvider \o GetWrappedNativeTokenAddress \o DeployWETHGateway(verify)
      \o NewBehindAdmin("WETH_GATEWAY", "WETHGateway", upgrade)

NewPunkGateway(upgrade, verify) ==
    GetLendPoolAddressesProvider \o GetContract("WETHGateway", "it")
      \o GetCryptoPunksMarketAddress \o GetWrappedPunkTokenAddress
      \o DeployPunkGateway(verify) \o NewBehindAdmin("PUNK_GATEWAY", "PunkGateway", upgrade)

(* Contracts without a proxy: the provider names the new one.              *)
NewDataProviders(upgrade, verify) ==
    GetLendPoolAddressesProvider
      \o DeployUnlockdProtocolDataProvider(verify)
      \o OnUpgrade(upgrade, SetAddress("UnlockdDataProvider", "it"))
      \o GetAddress("ReserveOracle", "found") \o GetAddress("NFTOracle", "oracle")
      \o DeployUiPoolDataProvider(verify) \o OnUpgrade(upgrade, SetAddress("UIDataProvider", "it"))
      \o DeployWalletBalancerProvider(verify)
      \o OnUpgrade(upgrade, SetAddress("WalletBalanceProvider", "it"))

DeployRepayAndTransferHelper(verify) == Deploy("RepayAndTransferHelper", "it", "provider", verify)

(* Neither is ever put behind the proxy that exists or set in the provider. *)
NewCollectorAndHelper(verify) ==
    GetLendPoolAddressesProvider \o DeployUnlockdCollector(verify) \o DeployRepayAndTransferHelper(verify)

NewInterestRate(verify) == GetLendPoolAddressesProvider \o DeployInterestRate(verify)
=============================================================================
