\* Copies of a head's program and caboose, and instances opened without the reserve,
\* with amounts and nonces at the end of their widths.
SPECIFICATION Spec
CONSTANTS
  K0 = K0  K1 = K1  K2 = K2  R1 = R1  R2 = R2
  ValidKey <- MCValidKey
  AccountKeys <- MCKeys
  HashRank <- MCHashRank
  NativeToken = 0
  Reserve = 2
  MaxAmount = 12
  MaxNonce = 1
  CabooseValue = 1
  MinerFee = 1
  Destinations = {D1}
  CoinbaseCount = 8
  CoinbaseValue = 12
  Plan <- CounterfeitsPlan
  Terms <- CounterfeitsTerms
  MaxRequests = 2
  MaxRefunds = 0
  GenesisReserves = {1, 2}
  Counterfeits = TRUE
  Tampers = {"none", "identity", "wrap"}
  Coinbases <- MCCoinbases
  Payments <- MCPayments
  Collections <- MCCollections
  Settlements <- MCSettlements
  Refunds <- MCRefunds
INVARIANTS
  LineagesAuthentic
  MoneyInvariant
  AccountsInWidth
CHECK_DEADLOCK FALSE
