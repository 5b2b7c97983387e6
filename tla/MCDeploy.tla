------------------------------ MODULE MCDeploy ------------------------------
(***************************************************************************)
(* DeployScript for TLC: the migrations of five networks, with the pool    *)
(* configuration of markets/unlockd cut down to one reserve and two        *)
(* collections.                                                            *)
(***************************************************************************)
EXTENDS DeployScript, SequencesExt, TLC

CONSTANT Deployed           \* the migrations of a run

(* The columns of the configuration.  On the mainnet one collection has an *)
(* address and no parameters.                                              *)
Main == INSTANCE UpgradeTasks WITH
    OnMain <- TRUE, OnFork <- FALSE, ReserveAssets <- <<"WETH">>, ReservesConfig <- <<"WETH">>,
    NftsAssets <- <<"WPUNKS", "DOODLE">>, NftsConfig <- <<"WPUNKS">>
Forked == INSTANCE ForkTasks WITH
    OnMain <- FALSE, OnFork <- TRUE, ReserveAssets <- <<"WETH">>, ReservesConfig <- <<"WETH">>,
    NftsAssets <- <<"WPUNKS", "BAYC">>, NftsConfig <- <<"WPUNKS", "BAYC">>
Local == INSTANCE DevTasks WITH
    OnMain <- FALSE, OnFork <- FALSE, ReserveAssets <- <<"WETH">>, ReservesConfig <- <<"WETH">>,
    NftsAssets <- <<"WPUNKS", "BAYC">>, NftsConfig <- <<"WPUNKS">>,
    MockTokens <- <<"WETH">>, MockNfts <- <<"WPUNKS", "BAYC">>

-----------------------------------------------------------------------------
(* The migrations.  TLC evaluates a definition without parameters once,    *)
(* and what replaces a constant every time: a replacement only names       *)
(* another definition.  It does so under a LET, where TLC's coverage does  *)
(* not follow it: expanded, the tasks would not fit in its memory.         *)

(* The mainnet, and then what an operator runs on a market that is live:   *)
(* new implementations behind the same proxies, and what the migration     *)
(* leaves out.                                                             *)
UpgradedMarket ==
  Main!Mainnet(FALSE)
    \o Main!Task("upgrade-debttoken", TRUE, Main!UpgradeDebtToken)
    \o Main!Task("new-lend-pool", FALSE, Main!NewLendPool(TRUE, FALSE))
    \o Main!Task("new-configurator", FALSE, Main!NewLendPoolConfigurator(TRUE, FALSE))
    \o Main!Task("new-loan-book", FALSE, Main!NewLendPoolLoan(TRUE, FALSE))
    \o Main!Task("new-reserve-oracle", FALSE, Main!NewReserveOracle(TRUE, FALSE))
    \o Main!Task("new-nft-oracle", FALSE, Main!NewNFTOracle(FALSE, FALSE))
    \o Main!Task("debt-market", FALSE, Main!DeployDebtMarketTask(FALSE))
    \o Main!Task("upgrade-debt-market", FALSE, Main!ForkDebtMarket)
    \o Main!Task("upgrade-lockey-holders", FALSE, Main!ForkLockeyHolders)
    \o Main!Task("upgrade-weth-gateway", FALSE, Main!DeployWethGateway(FALSE))
    \o Main!Task("new-weth-gateway", FALSE, Main!NewWETHGateway(TRUE, FALSE))
    \o Main!Task("new-punk-gateway", FALSE, Main!NewPunkGateway(TRUE, FALSE))
    \o Main!Task("new-data-providers", FALSE, Main!NewDataProviders(TRUE, FALSE))
    \o Main!Task("new-helper", FALSE, Main!NewCollectorAndHelper(FALSE))
    \o Main!Task("new-interest-rate", FALSE, Main!NewInterestRate(FALSE))
    \o Main!Task("whitelist", FALSE, Main!AuthorizeCallerWhitelist("WETHGateway"))
    \o Main!Task("interest-rate", FALSE, Main!ForkInterestRate)
    \o Main!Task("reservoir-adapter", FALSE, Main!ForkReservoirAdapter)
    \o Main!Task("mock-yvault", FALSE, Main!ForkMockYVault)
    \o Main!Task("collector", FALSE, Main!DeployUnlockdCollectorTask(FALSE))
    \o Main!Task("upgrade-collector", FALSE, Main!UpgradeUnlockdCollector(FALSE))
    \o Main!Task("approve", FALSE, Main!ApproveERC20)

AllMigrations ==
  [main |-> Main!Mainnet(FALSE), fresh |-> Main!Mainnet(FALSE), live |-> UpgradedMarket,
   fork |-> Forked!Fork, dev |-> Local!Dev(FALSE)]
MigrationsUsed == [n \in Deployed |-> AllMigrations[n]]
MCMigrations == LET used == MigrationsUsed IN used

(* The names the migrations use, and those DeployScript uses itself. *)
StepsUsed == UNION {UNION {ToSet(MigrationsUsed[n][t].code) : t \in DOMAIN MigrationsUsed[n]} : n \in Deployed}
UsedBy(ops) == {s \in StepsUsed : s.op \in ops}

IdsUsed == {s.x : s \in UsedBy({"load", "put", "save"})} \union {"LendPoolAddressesProvider"}
SlotsUsed == {s.x : s \in UsedBy({"set", "get", "setProxy"})} \union
           {"LendPool", "LendPoolLoan", "LendPoolConfigurator", "PoolAdmin",
            "EmergencyAdmin", "UNFTRegistry"}
RegsUsed == UNION {{s.r, s.a} \union {g[1] : g \in s.when} : s \in StepsUsed} \union
          {"none", "provider", "impl", "admin", "emergency", "uToken", "debtToken", "strategy"}

MCIds == LET used == IdsUsed IN used
MCSlots == LET used == SlotsUsed IN used
MCRegs == LET used == RegsUsed IN used

-----------------------------------------------------------------------------
(* What is on the chain: the accounts first, then contracts of others and  *)
(* of earlier deployments.                                                 *)

External(kind) == [kind |-> kind, impl |-> 0, admin |-> 0, of |-> 0]

MCExisting ==
  <<External("Account"), External("Account"), External("Account"),
    External("UnlockdProxyAdminPool"), External("UnlockdProxyAdminFund"),
    External("LendPoolAddressesProviderRegistry"), External("NFTOracle"),
    [kind |-> "NFTOracle", impl |-> 7, admin |-> 4, of |-> 0],
    External("WETH"), External("CryptoPunksMarket"), External("WrappedPunk"),
    External("YVaultWETH"), External("Lockey"), External("DOODLE"),
    External("DebtToken"), External("MockYVault"),
    [kind |-> "MockYVault", impl |-> 16, admin |-> 4, of |-> 0],
    External("BAYC"), External("UnlockdCollector"),
    [kind |-> "UnlockdCollector", impl |-> 19, admin |-> 5, of |-> 0]>>

Accounts == [PoolAdmin |-> 1, EmergencyAdmin |-> 2, LendPoolLiquidator |-> 3]
External20 == [WrappedNativeToken |-> 9, CryptoPunksMarket |-> 10, WrappedPunkToken |-> 11,
               YVaultWETH |-> 12, LockeyCollection |-> 13, WETH |-> 9, WPUNKS |-> 11,
               DOODLE |-> 14, BAYC |-> 18]

(* The mainnet configuration: administrators, registry and NFT oracle are  *)
(* reused; the signer is the pool admin and owns the registry.             *)
MainConfig ==
  Accounts @@ External20 @@
  [UnlockdProxyAdminPool |-> 4, UnlockdProxyAdminFund |-> 5,
   ProviderRegistry |-> 6, ProviderRegistryOwner |-> 1, NFTOracle |-> 8, collector |-> 20]

(* A fork of the mainnet (the `hardhat` column): nothing is reused. *)
ForkConfig == Accounts @@ External20

(* A development node (the `localhost` column): the pool admin is one of   *)
(* the node's accounts, the assets are mocks.                              *)
DevConfig ==
  [PoolAdminIndex |-> 1, EmergencyAdminIndex |-> 2, LendPoolLiquidator |-> 3,
   deploySigner |-> 1, proxyAdminSigner |-> 3, ReserveFactorTreasuryAddress |-> 3,
   WrappedNativeToken |-> 9, CryptoPunksMarket |-> 10, WrappedPunkToken |-> 11]

AllConfigs == [main |-> MainConfig, fresh |-> MainConfig, live |-> MainConfig,
               fork |-> ForkConfig, dev |-> DevConfig]
ConfigsUsed == [n \in Deployed |-> AllConfigs[n]]
MCConfigs == LET used == ConfigsUsed IN used

(* The database: empty, or with the debt token that full:deploy-lend-pool  *)
(* used to leave there and the vault of an earlier deployment.             *)
Known(entries) == [id \in IdsUsed |-> IF id \in DOMAIN entries THEN entries[id] ELSE 0]
AllKnown ==
  [main |-> [DebtToken |-> 15], fresh |-> <<>>, live |-> [DebtToken |-> 15, MockYVault |-> 17],
   fork |-> <<>>, dev |-> <<>>]
KnownUsed == [n \in Deployed |-> Known(AllKnown[n])]
MCKnownDbs == LET used == KnownUsed IN used
=============================================================================
