----------------------------- MODULE MCArtifacts -----------------------------
(***************************************************************************)
(* Artifacts in groups of order 11: the frozen guest, a rebuilt one with   *)
(* another key and one that commits to something else; two requests the    *)
(* relation accepts and one it refuses.                                    *)
(***************************************************************************)
EXTENDS Artifacts, TLC

MCSha256(values) == values
MCHashToG2(message) == message
MCVk == [alpha |-> 3, beta |-> 5, gamma |-> 2, delta |-> 7,
         ic |-> <<4, 1, 6, 10, 3, 8>>]
MCKeyOf(guest) ==
  CASE guest = "frozen" -> 5 [] guest = "rebuilt" -> 10 [] guest = "broken" -> 2
MCCommits(guest, values) == IF guest = "broken" THEN values + 1 ELSE values
MCWrongValues(values) == values + 1

\* No command tells one path from another.
MCSymmetry ==
  Permutations(Inputs) \cup Permutations(Directories)
    \cup Permutations(Manifests) \cup Permutations(Scripts)

=============================================================================
