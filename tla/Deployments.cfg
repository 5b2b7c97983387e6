SPECIFICATION FairSpec
CONSTANTS
  Deployed = {"main", "fork", "dev", "live"}
  Migrations <- MCMigrations
  Configs <- MCConfigs
  KnownDbs <- MCKnownDbs
  Existing <- MCExisting
  Ids <- MCIds
  Slots <- MCSlots
  Regs <- MCRegs
  Deployer = 1
  EtherscanReady = TRUE
  Attempts = 2
  MaxRuns = 2
  MaxFaults = 1
CHECK_DEADLOCK FALSE
INVARIANTS
  DeployTypeOK
  FinishedIsComplete
  OneMarket
  DbEntriesMined
  PoolUnpaused
  ProxySlotsOwned
PROPERTIES
  SupersededUntouched
  FinishesEventually
  MarketsImplemented
