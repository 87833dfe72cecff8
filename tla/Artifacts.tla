------------------------------ MODULE Artifacts ------------------------------
(***************************************************************************)
(* The artifacts that lead from a request to a proof the chain accepts:    *)
(* the prover host (crates/prover-host/src/main.rs) derives an input,      *)
(* proves it and verifies the proof; build-verifier-artifact.sh makes a    *)
(* Script artifact of a verified proof and a deployment manifest; and the  *)
(* bridge test loads an input, a verified proof and a Script artifact.     *)
(* Every command is given its paths, so files of different inputs, guests  *)
(* and deployments may be put together.                                    *)
(*                                                                         *)
(* A command here is one step, which may be cut short where it writes;     *)
(* Lifecycle has the file accesses of commands that overlap.               *)
(* A request, its proof input and its statement are one value: the         *)
(* relation of Coins is a function and tells any two requests apart.       *)
(***************************************************************************)
EXTENDS Groth16

CONSTANTS
  Inputs, Directories, Manifests, Scripts,   \* the paths files are made at
  Requests,        \* the requests, and
  Accepted,        \*   those the relation accepts
  Guests,          \* the guest programs an ELF path may hold
  KeyOf(_),        \* the program key of a guest
  Commits(_, _),   \* what a guest commits to when run on an input
  Nonces,          \* the nonces the prover may use
  WrongValues(_),  \* public values with one bit changed
  Absent,          \* no file
  Torn             \* a file, or a new directory, that was left unfinished

\* A guest is told by its key, as a program by its hash.
ASSUME ArtifactsAssumption ==
  /\ Accepted \subseteq Requests /\ Absent \notin Requests /\ Torn # Absent
  /\ \A guest \in Guests : KeyOf(guest) \in Nat
  /\ \A g, h \in Guests : KeyOf(g) = KeyOf(h) => g = h
  /\ \A request \in Requests : Sha256(request) \in Nat
  /\ Nonces \subseteq Nat

VARIABLES
  installed,       \* which circuit artifacts the prover finds
  inputs,          \* input.json: a scenario bundle or a bare proof input
  proofs,          \* directory -> proof.bin and verified.json
  manifests,       \* deployment.json
  scripts          \* the Script artifacts

vars == <<installed, inputs, proofs, manifests, scripts>>

Bundle(request) == [request |-> request, proof_input |-> request]

Bare(request) == [request |-> Absent, proof_input |-> request]

Readable(file) == file \notin {Absent, Torn}

\* std::fs::write empties the file and then fills it; a command killed in
\* between leaves neither what was there nor what it meant to write.
Written(file) == {file, Torn}

-----------------------------------------------------------------------------
(* Proofs                                                                  *)

InverseOf(n) == CHOOSE m \in Point : (m * n) % Order = 1 % Order

\* A proof from the circuit: the point c that solves the equation.
Solved(inputs_be) ==
  LET rest == 2 * 3 - Vk.alpha * Vk.beta - Prepared5(Vk.ic, inputs_be) * Vk.gamma
  IN  [a |-> 2, b |-> 3, c |-> (rest * InverseOf(Vk.delta)) % Order]

EnvelopeOf(values, key, nonce) ==
  [length |-> EnvelopeLength, prefix |-> VkPrefix, exit_code |-> 0,
   root |-> VkRoot, nonce |-> nonce,
   raw |-> Solved(<<key, HashPublicInputs(values), 0, VkRoot, nonce>>)]

\* What client.prove saves; another proving key makes a proof of nothing.
ProofBin(values, key, nonce) ==
  LET envelope == EnvelopeOf(values, key, nonce)
  IN  [public_values |-> values,
       envelope |-> IF installed = "release" THEN envelope
                    ELSE [envelope EXCEPT !.raw.c = (@ + 1) % Order]]

\* The key with its last bit changed, and the proof with its last byte: one
\* bit off, a coordinate is not that of a point.
WrongKey(key) == IF key % 2 = 0 THEN key + 1 ELSE key - 1

Corrupted(envelope) == [envelope EXCEPT !.raw.c = NoPoint]

\* client.verify: the SDK's own check of a proof it loaded.
ClientVerifies(proof, values, key) == WrapperVerifies(proof.envelope, values, key)

\* Everything main checks of a proof before it writes verified.json.
Checked(proof, expected, key) ==
  /\ ClientVerifies(proof, proof.public_values, key)
  /\ proof.public_values = expected
  /\ WrapperVerifies(proof.envelope, expected, key)
  /\ ~ ClientVerifies(proof, WrongValues(expected), key)
  /\ ~ WrapperVerifies(proof.envelope, WrongValues(expected), key)
  /\ ~ WrapperVerifies(Corrupted(proof.envelope), expected, key)
  /\ ~ WrapperVerifies(proof.envelope, expected, WrongKey(key))
  /\ Exports(proof.envelope, expected, key)

VerifiedJson(guest, proof, expected, timed) ==
  [elf |-> guest,
   program_key |-> KeyOf(guest),
   public_values |-> expected,
   proving_seconds |-> timed,
   folded |-> Exported(proof.envelope, expected, KeyOf(guest))]

-----------------------------------------------------------------------------
(* Commands.  One that refuses changes nothing.                            *)

Init ==
  /\ installed \in {"release", "other proving key", "other verifying key"}
  /\ inputs = [i \in Inputs |-> Absent]
  /\ proofs = [d \in Directories |-> Absent]
  /\ manifests = [m \in Manifests |-> Absent]
  /\ scripts = [s \in Scripts |-> Absent]

Install(circuits) ==
  /\ installed' = circuits
  /\ UNCHANGED <<inputs, proofs, manifests, scripts>>

\* derive REQUEST_JSON NEW_BUNDLE_JSON, or a bare proof input from elsewhere.
Derive(request, i) ==
  /\ inputs[i] = Absent
  /\ request \in Accepted
  /\ \E file \in Written(Bundle(request)) : inputs' = [inputs EXCEPT ![i] = file]
  /\ UNCHANGED <<installed, proofs, manifests, scripts>>

Supply(request, i) ==
  /\ inputs[i] = Absent
  /\ inputs' = [inputs EXCEPT ![i] = Bare(request)]
  /\ UNCHANGED <<installed, proofs, manifests, scripts>>

\* prepare PROGRAM_ELF NEW_ARTIFACT_DIR: the directory is made before the
\* folded key is, so a key that does not fit leaves it empty.
Prepare(guest, m) ==
  /\ manifests[m] = Absent
  /\ LET key == KeyOf(guest)
         manifest == [program_key |-> key, folded |-> DeploymentKey(key)]
     IN  \E file \in IF HasDeploymentKey(key) THEN Written(manifest) ELSE {Torn} :
           manifests' = [manifests EXCEPT ![m] = file]
  /\ UNCHANGED <<installed, inputs, proofs, scripts>>

\* load_input, validate_proof_input and the guest's execution.
Executes(i, guest, expected) ==
  /\ Readable(inputs[i])
  /\ expected = inputs[i].proof_input
  /\ expected \in Accepted
  /\ Commits(guest, expected) = expected

\* What prove may leave: a directory without a whole proof.bin, one without
\* a record, or with one if every check passed.
ProofFiles_RecordFirst(guest, proof, expected) ==
  {[bin |-> proof, verified |-> VerifiedJson(guest, proof, expected, TRUE)]}

ProofFiles(guest, proof, expected) ==
  {[bin |-> Torn, verified |-> Absent], [bin |-> proof, verified |-> Absent]}
    \cup (IF Checked(proof, expected, KeyOf(guest))
          THEN {[bin |-> proof, verified |-> record] :
                  record \in Written(VerifiedJson(guest, proof, expected, TRUE))}
          ELSE {})

\* prove INPUT_JSON PROGRAM_ELF ARTIFACT_DIR: the proof is saved before it is
\* checked, and the command may be stopped in between.
Prove(i, guest, d) ==
  /\ installed # "other verifying key"
  /\ proofs[d] = Absent
  /\ \E expected \in Requests, nonce \in Nonces :
       /\ Executes(i, guest, expected)
       /\ \E files \in ProofFiles(guest, ProofBin(expected, KeyOf(guest), nonce),
                                 expected) :
            proofs' = [proofs EXCEPT ![d] = files]
  /\ UNCHANGED <<installed, inputs, manifests, scripts>>

RecordedSeconds_Fresh(d) == FALSE

\* or_else: the time an earlier verified.json recorded, if it can be read.
RecordedSeconds(d) ==
  Readable(proofs[d].verified) /\ proofs[d].verified.proving_seconds

\* verify INPUT_JSON PROGRAM_ELF ARTIFACT_DIR
Verify(i, guest, d) ==
  /\ proofs[d] # Absent
  /\ Readable(proofs[d].bin)
  /\ \E expected \in Requests :
       /\ Executes(i, guest, expected)
       /\ Checked(proofs[d].bin, expected, KeyOf(guest))
       /\ \E record \in Written(VerifiedJson(guest, proofs[d].bin, expected,
                                            RecordedSeconds(d))) :
            proofs' = [proofs EXCEPT ![d].verified = record]
  /\ UNCHANGED <<installed, inputs, manifests, scripts>>

\* coins_gsr_proof_accepts_gsr_script: the manifest's constants, the proof's
\* points and inputs.
StackOf(data) ==
  [input0 |-> data.folded.input0, input1 |-> data.folded.input1,
   proof |-> data.folded.proof]

Compiles(data, manifest) ==
  /\ manifest.program_key = data.program_key
  /\ data.folded.key = manifest.folded
  /\ ValueOf(data.folded.input0) = HashPublicInputs(data.public_values)
  /\ ScriptVerifies(manifest.folded, StackOf(data))

Build(d, m, s) ==
  /\ scripts[s] = Absent
  /\ proofs[d] # Absent
  /\ Readable(proofs[d].verified)
  /\ Readable(manifests[m])
  /\ LET data == proofs[d].verified
     IN  /\ Compiles(data, manifests[m])
         /\ \E file \in Written([script |-> manifests[m].folded,
                                 stack |-> StackOf(data),
                                 public_values |-> data.public_values]) :
              scripts' = [scripts EXCEPT ![s] = file]
  /\ UNCHANGED <<installed, inputs, proofs, manifests>>

Next ==
  \/ \E circuits \in {"release", "other proving key"} : Install(circuits)
  \/ \E request \in Requests, i \in Inputs : Derive(request, i)
  \/ \E request \in Requests, i \in Inputs : Supply(request, i)
  \/ \E guest \in Guests, m \in Manifests : Prepare(guest, m)
  \/ \E i \in Inputs, guest \in Guests, d \in Directories : Prove(i, guest, d)
  \/ \E i \in Inputs, guest \in Guests, d \in Directories : Verify(i, guest, d)
  \/ \E d \in Directories, m \in Manifests, s \in Scripts : Build(d, m, s)

Spec == Init /\ [][Next]_vars

-----------------------------------------------------------------------------
(* load_proof of the bridge test, for the verifier in its programs         *)

LoadProof_AnyStatement(i, d, s, request, verifier) ==
  /\ Readable(inputs[i]) /\ Readable(scripts[s])
  /\ proofs[d] # Absent /\ Readable(proofs[d].verified)
  /\ inputs[i].request = request
  /\ scripts[s].script = verifier
  /\ proofs[d].verified.public_values = scripts[s].public_values

LoadProof(i, d, s, request, verifier) ==
  /\ Readable(inputs[i]) /\ Readable(scripts[s])
  /\ proofs[d] # Absent /\ Readable(proofs[d].verified)
  /\ inputs[i].request = request
  /\ scripts[s].script = verifier
  /\ scripts[s].public_values = inputs[i].proof_input
  /\ proofs[d].verified.public_values = scripts[s].public_values

-----------------------------------------------------------------------------
(* Properties                                                              *)

VerifiedIn(d) == proofs[d] # Absent /\ Readable(proofs[d].verified)

\* main.rs writes verified.json after every check: whatever inputs, guests
\* and circuits a directory met, what its verified.json says is true of the
\* proof.bin beside it, and its statement is one the relation accepts.
VerifiedProofs ==
  \A d \in Directories : VerifiedIn(d) =>
    LET data == proofs[d].verified
    IN  /\ WrapperVerifies(proofs[d].bin.envelope, data.public_values,
                           data.program_key)
        /\ data.public_values \in Accepted

\* ark_adapter.rs, "fixed before accepting any proof artifact": a deployed
\* verifier accepts, beside its statement, a verified proof of the guest the
\* deployment names and of no other guest.
VerifierNamesGuest ==
  \A d \in Directories, m \in Manifests :
    VerifiedIn(d) /\ Readable(manifests[m]) =>
      LET data == proofs[d].verified
      IN  ChainAccepts(manifests[m].folded, StackOf(data), data.public_values)
            <=> data.program_key = manifests[m].program_key

\* feature_bridge.py, load_proof: files that load together for a request,
\* from whatever runs they come, give the leaf a stack that it accepts for
\* the statement of that request.
LoadedProofsWork ==
  \A i \in Inputs, d \in Directories, s \in Scripts, t \in Scripts :
    \A request \in Requests :
      Readable(scripts[t]) /\ LoadProof(i, d, s, request, scripts[t].script) =>
        ChainAccepts(scripts[t].script, scripts[s].stack, request)

\* verify may be repeated: one that completes leaves a verified.json that
\* could be read as it was, its proving time included, whatever it is given;
\* one that is killed can only tear it, and the time is then gone.
RecordsStand ==
  [][\A d \in Directories : VerifiedIn(d) =>
       proofs'[d] \in {proofs[d], [proofs[d] EXCEPT !.verified = Torn]}]_vars

=============================================================================
