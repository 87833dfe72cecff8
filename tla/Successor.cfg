\* A request whose payout destination is the bridge program itself.
SPECIFICATION Spec
CONSTANTS
  K0 = K0  K1 = K1  K2 = K2  R1 = R1  R2 = R2
  ValidKey <- MCValidKey
  AccountKeys <- MCKeys
  HashRank <- MCHashRank
  NativeToken = 0
  Reserve = 2
  MaxAmount = 30
  MaxNonce = 3
  CabooseValue = 1
  MinerFee = 1
  Destinations = {D1}
  CoinbaseCount = 8
  CoinbaseValue = 12
  Plan <- CustodyPlan
  Terms <- SelfTerms
  MaxRequests = 1
  MaxRefunds = 0
  GenesisReserves = {2}
  Counterfeits = FALSE
  Tampers = {"none"}
  Coinbases <- MCCoinbases
  Payments <- MCPayments
  Collections <- MCCollections
  Settlements <- MCSettlements
  Refunds <- MCRefunds
INVARIANTS
  SoleSuccessor
CHECK_DEADLOCK FALSE
