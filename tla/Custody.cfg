\* One instance: four deposits, two requests, three transitions, reorganizations.
SPECIFICATION Spec
CONSTANTS
  K0 = K0  K1 = K1  K2 = K2  R1 = R1  R2 = R2
  ValidKey <- MCValidKey
  AccountKeys <- MCKeys
  HashRank <- MCHashRank
  NativeToken = 0
  Reserve = 2
  MaxAmount = 30
  MaxNonce = 3
  CabooseValue = 1
  MinerFee = 1
  Destinations = {D1}
  CoinbaseCount = 8
  CoinbaseValue = 12
  Plan <- CustodyPlan
  Terms <- CustodyTerms
  MaxRequests = 2
  MaxRefunds = 4
  GenesisReserves = {2}
  Counterfeits = FALSE
  Tampers = {"none", "recipient", "values", "accounts", "backing", "root", "skim", "fee", "payee", "prevout"}
  Coinbases <- MCCoinbases
  Payments <- MCPayments
  Collections <- MCCollections
  Settlements <- MCSettlements
  Refunds <- MCRefunds
INVARIANTS
  TypeOK
  MoneyInvariant
  DepositsRefundedOrCredited
  RequestsSettleOnce
  FeesStay
  ExactFee
  DepositsStaySpendable
  SignedRequestsSettle
CHECK_DEADLOCK FALSE
