\* Two instances of one program: signatures, proofs and deposits of one used at the other.
SPECIFICATION Spec
CONSTANTS
  K0 = K0  K1 = K1  K2 = K2  R1 = R1  R2 = R2
  ValidKey <- MCValidKey
  AccountKeys <- MCKeys
  HashRank <- MCHashRank
  NativeToken = 0
  Reserve = 2
  MaxAmount = 30
  MaxNonce = 3
  CabooseValue = 1
  MinerFee = 1
  Destinations = {D1}
  CoinbaseCount = 10
  CoinbaseValue = 12
  Plan <- InstancesPlan
  Terms <- InstancesTerms
  MaxRequests = 2
  MaxRefunds = 0
  GenesisReserves = {2}
  Counterfeits = FALSE
  Tampers = {"none", "identity"}
  Coinbases <- MCCoinbases
  Payments <- MCPayments
  Collections <- MCCollections
  Settlements <- MCSettlements
  Refunds <- MCRefunds
INVARIANTS
  OneHead
  SettlementsAuthorized
PROPERTIES
  KeepsCustody
CHECK_DEADLOCK FALSE
