\* Two of every file, three guests, wrong circuits, and commands killed where they write.
SPECIFICATION Spec
SYMMETRY MCSymmetry
CONSTANTS
  Order = 11
  HashToG2 <- MCHashToG2
  Base = 4
  Width = 2
  DigestRange = 8
  Sha256 <- MCSha256
  Vk <- MCVk
  VkRoot = 9
  Inputs = {i1, i2}
  Directories = {d1, d2}
  Manifests = {m1, m2}
  Scripts = {s1, s2}
  Requests = {2, 9, 12}
  Accepted = {2, 9}
  Guests = {"frozen", "rebuilt", "broken"}
  KeyOf <- MCKeyOf
  Commits <- MCCommits
  Nonces = {0}
  WrongValues <- MCWrongValues
  Absent = Absent  Torn = Torn
INVARIANTS
  VerifiedProofs
  VerifierNamesGuest
  LoadedProofsWork
PROPERTIES
  RecordsStand
CHECK_DEADLOCK FALSE
