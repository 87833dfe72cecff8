-------------------------------- MODULE Curve --------------------------------
(***************************************************************************)
(* The BN254 groups in the exponent: a point of either group is its        *)
(* discrete logarithm, 0 is infinity, and a product of pairings is one     *)
(* when the sum of the products of the logarithms is a multiple of the     *)
(* order.  Nobody computes logarithms: the model uses them only to say     *)
(* which equations hold.  On top of that, the signature check of           *)
(* crates/protocol (src/lib.rs and src/crypto.rs).                         *)
(***************************************************************************)
EXTENDS Integers, Sequences

CONSTANTS
  Order,           \* FR_MODULUS_BE: the order of the groups
  HashToG2(_)      \* the point a message hashes to, never infinity

\* A prime, as far as its products go.
ASSUME OrderAssumption ==
  /\ Order \in Nat \ {0, 1}
  /\ \A x, y \in 1 .. Order - 1 : (x * y) % Order # 0

Point == 0 .. Order - 1

Infinity == 0

\* Coordinates or bytes that no point of the group has.
NoPoint == Order

Negated(p) == (Order - p) % Order

\* An encoded point: what it decodes to, and whether it is the one encoding
\* from_affine gives that point.
EncodedPoint == [point : Point \cup {NoPoint}, canonical : BOOLEAN]

ToAffineFails(encoded) == encoded.point = NoPoint

\* pairing_batch of two pairs, compared with Gt::one().
PairingBatchIsOne(a, b, c, d) == (a * b + c * d) % Order = 0

VerifyDecodedSignature(pk, message, signature) ==
  /\ ~ ToAffineFails(pk)
  /\ PairingBatchIsOne(1, signature, Negated(pk.point), HashToG2(message))

\* valid_signature, with the guest's pairing.
AcceleratedSignatureValid_AnyEncoding(key, message, signature) ==
  /\ ~ ToAffineFails(signature)
  /\ signature.point # Infinity
  /\ VerifyDecodedSignature(key, message, signature.point)

AcceleratedSignatureValid(key, message, signature) ==
  /\ ~ ToAffineFails(signature)
  /\ signature.point # Infinity
  /\ signature.canonical
  /\ VerifyDecodedSignature(key, message, signature.point)

\* sign, with the secret key whose public key is pk.
Signed(pk, message) ==
  [point |-> (pk * HashToG2(message)) % Order, canonical |-> TRUE]

=============================================================================
