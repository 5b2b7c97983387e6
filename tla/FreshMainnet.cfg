SPECIFICATION FairSpec
CONSTANTS
  Deployed = {"fresh"}
  Migrations <- MCMigrations
  Configs <- MCConfigs
  KnownDbs <- MCKnownDbs
  Existing <- MCExisting
  Ids <- MCIds
  Slots <- MCSlots
  Regs <- MCRegs
  Deployer = 1
  EtherscanReady = TRUE
  Attempts = 2
  MaxRuns = 2
  MaxFaults = 0
CHECK_DEADLOCK FALSE
PROPERTY
  FinishesEventually
