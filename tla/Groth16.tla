------------------------------- MODULE Groth16 -------------------------------
(***************************************************************************)
(* How a proof of the SP1 wrapper circuit is checked: by SP1's verifier on *)
(* the 356-byte envelope (crates/prover-host/src/wrapper.rs), with two of  *)
(* the five public inputs folded into the key (ark_adapter.rs), and by the *)
(* Script program made of the folded key (script/coins_gsr_adapter.rs),    *)
(* which the bridge leaves give the digest of the statement.               *)
(***************************************************************************)
EXTENDS Curve

CONSTANTS
  Base, Width,     \* a scalar is Width bytes, each below Base
  DigestRange,     \* a digest with its top three bits cleared is below this
  Sha256(_),       \* the digest of public values, as a big-endian number
  Vk,              \* GROTH16_VK_BYTES: alpha, beta, gamma, delta, ic[1..6]
  VkRoot           \* VK_ROOT_BYTES

\* Base ^ count
Power(count) ==
  LET power[k \in 0 .. count] == IF k = 0 THEN 1 ELSE Base * power[k - 1]
  IN  power[count]

ScalarRange == Power(Width)

\* Scalars fit their bytes, and the key's points are not infinity, which
\* export checks before it accepts anything.
ASSUME Groth16Assumption ==
  /\ Base \in Nat \ {0, 1} /\ Width \in Nat
  /\ Order <= ScalarRange
  /\ DigestRange \in 1 .. Order
  /\ Len(Vk.ic) = 6
  /\ \A k \in 1 .. 6 : Vk.ic[k] \in Point \ {Infinity}
  /\ {Vk.alpha, Vk.beta, Vk.gamma, Vk.delta} \subseteq Point \ {Infinity}
  /\ VkRoot \in Point

\* hash_public_inputs, and & 0x1f: a digest always fits the scalar field.
HashPublicInputs(values) == Sha256(values) % DigestRange

\* The first four bytes of the key's hash.
VkPrefix == "vk"

-----------------------------------------------------------------------------
(* The envelope: length, key prefix, exit code, key root, nonce, proof     *)

EnvelopeLength == 4 + 96 + 256

PublicInputs(proof, values, key) ==
  <<key, HashPublicInputs(values), 0, VkRoot, proof.nonce>>

\* The points are unmarshalled without their subgroup here.
Decodes(proof, values, key) ==
  /\ proof.length = EnvelopeLength
  /\ proof.prefix = VkPrefix
  /\ proof.exit_code = 0
  /\ proof.root = VkRoot
  /\ \A k \in 1 .. 5 : PublicInputs(proof, values, key)[k] < Order

\* prepare_inputs, for the key's five inputs or for two.
Prepared5(ic, inputs) ==
  ic[1] + ic[2] * inputs[1] + ic[3] * inputs[2] + ic[4] * inputs[3]
        + ic[5] * inputs[4] + ic[6] * inputs[5]

Prepared2(ic, inputs) == ic[1] + ic[2] * inputs[1] + ic[3] * inputs[2]

\* e(a, b) = e(alpha, beta) e(inputs, gamma) e(c, delta)
Equation(raw, key, prepared) ==
  (raw.a * raw.b - key.alpha * key.beta - prepared * key.gamma
     - raw.c * key.delta) % Order = 0

IsProof(raw) == {raw.a, raw.b, raw.c} \subseteq Point

\* verify: what SP1 accepts.
WrapperVerifies(proof, values, key) ==
  /\ Decodes(proof, values, key)
  /\ IsProof(proof.raw)
  /\ Equation(proof.raw, Vk, Prepared5(Vk.ic, PublicInputs(proof, values, key)))

-----------------------------------------------------------------------------
(* Folding the program key, the exit code and the key root                 *)

FoldedIc_Exit(key, root) ==
  (Vk.ic[1] + Vk.ic[2] * key + Vk.ic[4] * root) % Order

FoldedIc(key, root) ==
  (Vk.ic[1] + Vk.ic[2] * key + Vk.ic[5] * root) % Order

Folded(key, root) ==
  [ic |-> <<FoldedIc(key, root), Vk.ic[3], Vk.ic[6]>>,
   alpha |-> Vk.alpha, beta |-> Vk.beta, gamma |-> Vk.gamma, delta |-> Vk.delta]

\* deployment_key
HasDeploymentKey(key) == key < Order /\ FoldedIc(key, VkRoot) # Infinity

DeploymentKey_NoProgram(key) == Folded(0, VkRoot)

DeploymentKey(key) == Folded(key, VkRoot)

\* export: every point finite, the full check again, and the folded one.
Exports(proof, values, key) ==
  /\ Decodes(proof, values, key)
  /\ IsProof(proof.raw)
  /\ Infinity \notin {Vk.ic[k] : k \in 1 .. 6}
  /\ Infinity \notin {Vk.alpha, Vk.beta, Vk.gamma, Vk.delta}
  /\ Infinity \notin {proof.raw.a, proof.raw.b, proof.raw.c}
  /\ Equation(proof.raw, Vk, Prepared5(Vk.ic, PublicInputs(proof, values, key)))
  /\ FoldedIc(key, VkRoot) # Infinity
  /\ Equation(proof.raw, Folded(key, VkRoot),
              Prepared2(Folded(key, VkRoot).ic,
                        <<HashPublicInputs(values), proof.nonce>>))

\* Bytes of a number, least first: Width of them, and without high zeros, as
\* field() writes them.
Digits(n) ==
  LET rest[k \in 0 .. Width] == IF k = 0 THEN n ELSE rest[k - 1] \div Base
  IN  [k \in 1 .. Width |-> rest[k - 1] % Base]

Minimal(digits) ==
  SubSeq(digits, 1, CHOOSE n \in 0 .. Width :
                      /\ n = 0 \/ digits[n] # 0
                      /\ \A k \in n + 1 .. Width : digits[k] = 0)

Field(n) == Minimal(Digits(n))

Exported(proof, values, key) ==
  [key |-> Folded(key, VkRoot),
   input0 |-> Field(HashPublicInputs(values)),
   input1 |-> Field(proof.nonce),
   proof |-> proof.raw]

-----------------------------------------------------------------------------
(* The verifier program and the digest the bridge leaves compute           *)

\* int.from_bytes: value[k] is that of the last k digits.
ValueOf(digits) ==
  LET value[k \in 0 .. Len(digits)] ==
        IF k = 0 THEN 0
        ELSE digits[Len(digits) - k + 1] + Base * value[k - 1]
  IN  value[Len(digits)]

\* The compiled program accepts the stack that holds the inputs and a proof.
ScriptVerifies(key, stack) ==
  /\ IsProof(stack.proof)
  /\ Equation(stack.proof, key,
              Prepared2(key.ic, <<ValueOf(stack.input0), ValueOf(stack.input1)>>))

\* _bind_statement_digest: the stack's first input, padded, is the digest
\* of the public values, masked and turned around.
DigestBound_Unpadded(stack, values) ==
  stack.input0 = Digits(Sha256(values) % DigestRange)

DigestBound(stack, values) ==
  /\ Len(stack.input0) <= Width
  /\ stack.input0 \o [k \in 1 .. Width - Len(stack.input0) |-> 0]
       = Digits(Sha256(values) % DigestRange)

ChainAccepts(key, stack, values) ==
  DigestBound(stack, values) /\ ScriptVerifies(key, stack)

=============================================================================
