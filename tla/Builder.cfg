\* Every program of two items and two nested branches.
SPECIFICATION Spec
CONSTANTS
  Names = {"a", "b"}
  NoName = ""
  Base <- MCBase
  Inputs <- MCInputs
  Opcodes <- MCOpcodes
  MaxItems = 2
  MaxDepth = 2
INVARIANTS
  GetsNamed
  BaseKept
