\* Two instances: what eventually happens to deposits, refunds and requests.
SPECIFICATION FairSpec
CONSTANTS
  K0 = K0  K1 = K1  K2 = K2  R1 = R1  R2 = R2
  ValidKey <- MCValidKey
  AccountKeys <- MCKeys
  HashRank <- MCHashRank
  NativeToken = 0
  Reserve = 2
  MaxAmount = 30
  MaxNonce = 1
  CabooseValue = 1
  MinerFee = 1
  Destinations = {D1}
  CoinbaseCount = 10
  CoinbaseValue = 12
  Plan <- ProgressPlan
  Terms <- CustodyTerms
  MaxRequests = 2
  MaxRefunds = 1
  GenesisReserves = {2}
  Counterfeits = FALSE
  Tampers = {"none"}
  Coinbases <- MCCoinbases
  Payments <- MCPayments
  Collections <- MCCollections
  Settlements <- MCSettlements
  Refunds <- MCRefunds
PROPERTIES
  RefundsLeave
  RequestsLeave
  PairsLeave
CHECK_DEADLOCK FALSE
