SPECIFICATION Spec
CONSTANTS
  RAY = 10000
  WAD = 5000
  PERCENTAGE_FACTOR = 100
  ONE_PERCENT = 1
  Lenders = {alice}
  Treasury = treasurer
  Loans = {loan}
  SECONDS_PER_YEAR = 4
  Strategies <- TwoStrategies
  Factors = {0, 30}
  Amounts = {300, 401}
  Prices = {5000, 5250}
  Pauses = {1, 4}
  Proceeds = {200, 3000}
  Endowment = 1000
  MaxTime = 5
  MaxSteps = 6
CHECK_DEADLOCK FALSE
INVARIANTS
  ReserveTypeOK
  LendersBacked
PROPERTIES
  OperationsKeepValue
  DepositsOnlyAccrue
  DebtsOnlyAccrue
  RatesFollowLiquidity
