\* Every string a node, OP_TX or the guest may hand to a program.
SPECIFICATION Spec
CONSTANT MaxCount = 6
INVARIANTS
  SlicesAreFields
  TransactionsHaveForm
  HonestNeverRefused
CHECK_DEADLOCK FALSE
