------------------------------ MODULE MCGroth16 ------------------------------
(***************************************************************************)
(* Groth16 in groups of order 11 with two-byte scalars, compared case by   *)
(* case: one step picks a case, an envelope or a signature.                *)
(***************************************************************************)
EXTENDS Groth16

VARIABLE case

\* Statements, by the digest they have.
Statements == {2, 8, 9, 15}

Messages == 1 .. Order - 1

ASSUME CasesAssumption ==
  /\ \A s \in Statements : Sha256(s) \in Nat
  /\ \A m \in Messages : HashToG2(m) \in Point \ {Infinity}

MCSha256(values) == values

MCHashToG2(message) == message

MCVk == [alpha |-> 3, beta |-> 5, gamma |-> 2, delta |-> 7,
         ic |-> <<4, 1, 6, 10, 3, 8>>]

Envelope(exit_code, root, nonce, a, c) ==
  [length |-> EnvelopeLength, prefix |-> VkPrefix, exit_code |-> exit_code,
   root |-> root, nonce |-> nonce, raw |-> [a |-> a, b |-> 6, c |-> c]]

\* An exit code and a root only differ from what decode wants one at a time.
Headers == {<<0, VkRoot>>, <<1, VkRoot>>, <<0, VkRoot + 1>>}

EnvelopeCases ==
  {[kind |-> "envelope", key |-> key, values |-> values,
    proof |-> Envelope(header[1], header[2], nonce, a, c)] :
     key \in 0 .. ScalarRange - 1, values \in Statements, header \in Headers,
     nonce \in {0, 1, 7, 10, 11, 15}, a \in {0, 4, NoPoint}, c \in 0 .. NoPoint}

Keys == [point : Point \ {Infinity}, canonical : {TRUE}]

SignatureCases ==
  {[kind |-> "signature", key |-> key, message |-> message, signature |-> s] :
     key \in Keys, message \in Messages, s \in EncodedPoint}

CaseInit == case = [kind |-> "none"]

CaseNext ==
  /\ case.kind = "none"
  /\ \/ case' \in EnvelopeCases
     \/ case' \in SignatureCases

CaseSpec == CaseInit /\ [][CaseNext]_case

-----------------------------------------------------------------------------

Finite(raw) == Infinity \notin {raw.a, raw.b, raw.c}

\* ark_adapter.rs, "Independent Arkworks verification and constant folding":
\* the key folded over the program key and the key root accepts a proof and
\* its two remaining inputs exactly when SP1's verifier accepts the envelope.
FoldingAgrees ==
  case.kind = "envelope" =>
    (Exports(case.proof, case.values, case.key)
       <=> /\ WrapperVerifies(case.proof, case.values, case.key)
           /\ HasDeploymentKey(case.key)
           /\ Finite(case.proof.raw))

\* The stacks a spender may give the leaf for an envelope's proof: the digest
\* of any statement, with and without its high zeros, and one byte too many.
Stacks(proof) ==
  {[input0 |-> digits, input1 |-> Field(proof.nonce), proof |-> proof.raw] :
     digits \in UNION {LET n == HashPublicInputs(s)
                       IN  {Field(n), Digits(n), Digits(n) \o <<0>>}
                         : s \in Statements}}

\* script/bridge.py, "Bind SHA256(public values) to SP1's second Groth16
\* public input": beside a statement the leaf accepts exactly the stacks with
\* that statement's digest whose envelope SP1's verifier accepts for it, and
\* so no statement of another guest, and every one the host exports.
ChainAgrees ==
  /\ case.kind = "envelope"
  /\ HasDeploymentKey(case.key)
  /\ case.proof.exit_code = 0 /\ case.proof.root = VkRoot
  /\ case.proof.nonce < Order
  => \A stack \in Stacks(case.proof) :
       ChainAccepts(DeploymentKey(case.key), stack, case.values)
         <=> /\ ValueOf(stack.input0) = HashPublicInputs(case.values)
             /\ Len(stack.input0) <= Width
             /\ WrapperVerifies(case.proof, case.values, case.key)

\* lib.rs, valid_signature: of all byte strings exactly one is a valid
\* signature of a message under a key, the one its holder makes, so that a
\* signature cannot be altered into another valid one.
SignaturesUnique ==
  case.kind = "signature" =>
    (AcceleratedSignatureValid(case.key, case.message, case.signature)
       <=> case.signature = Signed(case.key.point, case.message))

=============================================================================
