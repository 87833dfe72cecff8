\* Every program key, exit code, key root and statement digest of small groups.
SPECIFICATION CaseSpec
CONSTANTS
  Order = 11
  HashToG2 <- MCHashToG2
  Base = 4
  Width = 2
  DigestRange = 8
  Sha256 <- MCSha256
  Vk <- MCVk
  VkRoot = 9
INVARIANTS
  FoldingAgrees
  ChainAgrees
  SignaturesUnique
CHECK_DEADLOCK FALSE
