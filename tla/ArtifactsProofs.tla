--------------------------- MODULE ArtifactsProofs ---------------------------
(***************************************************************************)
(* What the files of the prover host say is so, for any inputs, guests,    *)
(* deployments, proofs and circuits, whatever is put together and wherever *)
(* a command is killed: a verified.json that can be read describes its     *)
(* proof and is never given other contents, a deployed verifier accepts    *)
(* one guest's proofs, and files that load together work.                  *)
(***************************************************************************)
EXTENDS Artifacts, Groth16Proofs

-----------------------------------------------------------------------------
(* The inductive invariant                                                 *)

InputsMade ==
  \A i \in Inputs : Readable(inputs[i]) =>
    \E request \in Requests :
      inputs[i] = Bundle(request) \/ inputs[i] = Bare(request)

\* What verified.json says of a guest's proof of an accepted request.
Genuine(bin, data) ==
  \E guest \in Guests, timed \in BOOLEAN :
    /\ data = VerifiedJson(guest, bin, bin.public_values, timed)
    /\ bin.public_values \in Accepted
    /\ WrapperVerifies(bin.envelope, bin.public_values, KeyOf(guest))
    /\ HasDeploymentKey(KeyOf(guest))

ProofMade(file) ==
  /\ file = [bin |-> file.bin, verified |-> file.verified]
  /\ Readable(file.bin) \/ Readable(file.verified)
       => file.bin.envelope.nonce \in Nat
  /\ Readable(file.verified) => Genuine(file.bin, file.verified)

ProofsMade == \A d \in Directories : proofs[d] # Absent => ProofMade(proofs[d])

ManifestsMade ==
  \A m \in Manifests : Readable(manifests[m]) =>
    \E guest \in Guests :
      /\ HasDeploymentKey(KeyOf(guest))
      /\ manifests[m] = [program_key |-> KeyOf(guest),
                         folded |-> DeploymentKey(KeyOf(guest))]

\* A Script artifact holds a stack that its own verifier accepts.
ScriptsWork ==
  \A s \in Scripts : Readable(scripts[s]) =>
    ChainAccepts(scripts[s].script, scripts[s].stack, scripts[s].public_values)

Files ==
  /\ DOMAIN inputs = Inputs /\ DOMAIN proofs = Directories
  /\ DOMAIN manifests = Manifests /\ DOMAIN scripts = Scripts

ArtifactsInv == Files /\ InputsMade /\ ProofsMade /\ ManifestsMade /\ ScriptsWork

-----------------------------------------------------------------------------
(* Verified proofs and deployed verifiers                                  *)

\* The stack made of a verified proof is accepted by a deployment's verifier
\* exactly when the deployment has the proof's program key.
LEMMA StackAccepted ==
  ASSUME NEW bin, bin.envelope.nonce \in Nat, NEW data, NEW guest \in Guests,
         NEW timed, data = VerifiedJson(guest, bin, bin.public_values, timed),
         bin.public_values \in Requests,
         WrapperVerifies(bin.envelope, bin.public_values, KeyOf(guest)),
         NEW key \in Nat, HasDeploymentKey(key)
  PROVE  ChainAccepts(DeploymentKey(key), StackOf(data), data.public_values)
           <=> key = KeyOf(guest)
<1> DEFINE values == bin.public_values
           proof == bin.envelope
           stack == StackOf(data)
           digest == HashPublicInputs(values)
<1>1. /\ data.public_values = values
      /\ stack.input0 = Field(digest) /\ stack.input1 = Field(proof.nonce)
      /\ stack.proof = proof.raw
  BY DEF VerifiedJson, StackOf, Exported
<1>2. Sha256(values) \in Nat /\ KeyOf(guest) \in Nat
  BY ArtifactsAssumption
<1>3. digest \in Nat /\ digest < ScalarRange
  BY <1>2, ScalarsFit DEF HashPublicInputs
<1>4. /\ proof.length = EnvelopeLength /\ proof.prefix = VkPrefix
      /\ proof.exit_code = 0 /\ proof.root = VkRoot
  BY DEF WrapperVerifies, Decodes
<1>5. proof.nonce \in Nat /\ proof.nonce < Order
  BY DEF WrapperVerifies, Decodes, PublicInputs
<1> HIDE DEF digest, stack
<1>6. /\ stack.input0 \in Seq(Digit) /\ Len(stack.input0) <= Width
      /\ ValueOf(stack.input0) = digest
  BY <1>1, <1>3, FieldIs
<1>7. ChainAccepts(DeploymentKey(key), stack, values)
        <=> /\ ValueOf(stack.input0) = digest /\ Len(stack.input0) <= Width
            /\ WrapperVerifies(proof, values, key)
  BY <1>1, <1>2, <1>4, <1>5, <1>6, ChainAcceptsWhatVerifies DEF digest
<1>8. WrapperVerifies(proof, values, key) <=> key = KeyOf(guest)
  BY <1>2, <1>5, KeysAgree
<1> QED
  BY <1>1, <1>6, <1>7, <1>8 DEF stack

\* Every check passed, so what is written is genuine.
LEMMA CheckedIsGenuine ==
  ASSUME NEW bin, NEW expected \in Accepted, NEW guest \in Guests,
         NEW timed \in BOOLEAN, Checked(bin, expected, KeyOf(guest))
  PROVE  Genuine(bin, VerifiedJson(guest, bin, expected, timed))
<1>1. bin.public_values = expected
  BY DEF Checked
<1>2. WrapperVerifies(bin.envelope, expected, KeyOf(guest))
  BY DEF Checked
<1>3. HasDeploymentKey(KeyOf(guest))
  <2>1. Exports(bin.envelope, expected, KeyOf(guest))
    BY DEF Checked
  <2> QED
    BY <2>1 DEF Exports, Decodes, PublicInputs, HasDeploymentKey
<1> QED
  BY <1>1, <1>2, <1>3 DEF Genuine

-----------------------------------------------------------------------------
(* Every command keeps the invariant                                       *)

\* There are no files at the start.
LEMMA InitMakes == Init => ArtifactsInv
BY DEF Init, ArtifactsInv, Files, InputsMade, ProofsMade, ManifestsMade,
       ScriptsWork, Readable

\* An input of a request, alone or bundled, is such an input, and a torn one
\* is read by nobody.
LEMMA InputMade ==
  ASSUME ArtifactsInv, NEW i \in Inputs, NEW request \in Requests, NEW input,
         input \in {Bundle(request), Bare(request), Torn},
         inputs' = [inputs EXCEPT ![i] = input],
         UNCHANGED <<installed, proofs, manifests, scripts>>
  PROVE  ArtifactsInv'
<1>1. Files'
  BY DEF ArtifactsInv, Files
<1>2. InputsMade'
  BY DEF ArtifactsInv, Files, InputsMade, Readable
<1>3. ProofsMade' /\ ManifestsMade' /\ ScriptsWork'
  BY DEF ArtifactsInv, ProofsMade, ManifestsMade, ScriptsWork
<1> QED
  BY <1>1, <1>2, <1>3 DEF ArtifactsInv

\* A proof directory whose proof was made is such a directory.
LEMMA ProofFileMade ==
  ASSUME ArtifactsInv, NEW d \in Directories, NEW file, ProofMade(file),
         proofs' = [proofs EXCEPT ![d] = file],
         UNCHANGED <<installed, inputs, manifests, scripts>>
  PROVE  ArtifactsInv'
<1>1. Files'
  BY DEF ArtifactsInv, Files
<1>2. ProofsMade'
  BY DEF ArtifactsInv, Files, ProofsMade
<1>3. InputsMade' /\ ManifestsMade' /\ ScriptsWork'
  BY DEF ArtifactsInv, InputsMade, ManifestsMade, ScriptsWork
<1> QED
  BY <1>1, <1>2, <1>3 DEF ArtifactsInv

\* prove writes a proof of the input it read, with or without its record.
LEMMA ProveMakes ==
  ASSUME ArtifactsInv, NEW i \in Inputs, NEW guest \in Guests,
         NEW d \in Directories, Prove(i, guest, d)
  PROVE  ArtifactsInv'
<1>1. PICK expected \in Requests, nonce \in Nonces :
        /\ Executes(i, guest, expected)
        /\ \E files \in ProofFiles(guest, ProofBin(expected, KeyOf(guest), nonce),
                                  expected) :
             proofs' = [proofs EXCEPT ![d] = files]
  BY DEF Prove
<1> DEFINE proof == ProofBin(expected, KeyOf(guest), nonce)
<1>2. PICK file \in ProofFiles(guest, proof, expected) :
        proofs' = [proofs EXCEPT ![d] = file]
  BY <1>1
<1>3. expected \in Accepted
  BY <1>1 DEF Executes
<1>4. proof.envelope.nonce \in Nat
  BY <1>1, ArtifactsAssumption DEF ProofBin, EnvelopeOf
<1> HIDE DEF proof
<1>5. CASE file = [bin |-> Torn, verified |-> Absent]
  <2>1. ProofMade(file)
    BY <1>5 DEF ProofMade, Readable
  <2> QED
    BY <1>2, <2>1, ProofFileMade DEF Prove
<1>6. ASSUME NEW record \in {Absent, Torn},
             file = [bin |-> proof, verified |-> record]
      PROVE  ArtifactsInv'
  <2>1. ProofMade(file)
    BY <1>4, <1>6 DEF ProofMade, Readable
  <2> QED
    BY <1>2, <2>1, ProofFileMade DEF Prove
<1>7. CASE /\ Checked(proof, expected, KeyOf(guest))
           /\ file = [bin |-> proof,
                      verified |-> VerifiedJson(guest, proof, expected, TRUE)]
  <2>1. Genuine(proof, VerifiedJson(guest, proof, expected, TRUE))
    BY <1>3, <1>7, CheckedIsGenuine
  <2>2. ProofMade(file)
    BY <1>4, <1>7, <2>1 DEF ProofMade
  <2> QED
    BY <1>2, <2>2, ProofFileMade DEF Prove
<1>8. \/ file = [bin |-> Torn, verified |-> Absent]
      \/ file = [bin |-> proof, verified |-> Absent]
      \/ /\ Checked(proof, expected, KeyOf(guest))
         /\ \/ file = [bin |-> proof, verified |-> Torn]
            \/ file = [bin |-> proof,
                       verified |-> VerifiedJson(guest, proof, expected, TRUE)]
  BY <1>2, Zenon DEF ProofFiles, Written
<1> QED
  BY <1>5, <1>6, <1>7, <1>8

\* A recorded time is a time or none.
LEMMA SecondsRecorded ==
  ASSUME NEW d \in Directories, ProofMade(proofs[d])
  PROVE  RecordedSeconds(d) \in BOOLEAN
<1>1. CASE ~ Readable(proofs[d].verified)
  BY <1>1 DEF RecordedSeconds
<1>2. CASE Readable(proofs[d].verified)
  <2> DEFINE bin == proofs[d].bin
  <2>1. Genuine(bin, proofs[d].verified)
    BY <1>2 DEF ProofMade
  <2>2. PICK g \in Guests, timed \in BOOLEAN :
          proofs[d].verified = VerifiedJson(g, bin, bin.public_values, timed)
    BY <2>1 DEF Genuine
  <2>3. proofs[d].verified.proving_seconds = timed
    BY <2>2 DEF VerifiedJson
  <2> QED
    BY <1>2, <2>2, <2>3 DEF RecordedSeconds
<1> QED
  BY <1>1, <1>2

\* verify writes the record of a proof that passed, or tears what was there.
LEMMA VerifyMakes ==
  ASSUME ArtifactsInv, NEW i \in Inputs, NEW guest \in Guests,
         NEW d \in Directories, Verify(i, guest, d)
  PROVE  ArtifactsInv'
<1>1. PICK expected \in Requests :
        /\ Executes(i, guest, expected)
        /\ Checked(proofs[d].bin, expected, KeyOf(guest))
        /\ \E record \in Written(VerifiedJson(guest, proofs[d].bin, expected,
                                             RecordedSeconds(d))) :
             proofs' = [proofs EXCEPT ![d].verified = record]
  BY DEF Verify
<1> DEFINE bin == proofs[d].bin
           data == VerifiedJson(guest, bin, expected, RecordedSeconds(d))
<1>2. PICK record \in {data, Torn} : proofs' = [proofs EXCEPT ![d].verified = record]
  BY <1>1 DEF Written
<1> DEFINE file == [bin |-> bin, verified |-> record]
<1>3. expected \in Accepted
  BY <1>1 DEF Executes
<1>4. proofs[d] # Absent /\ ProofMade(proofs[d]) /\ Readable(bin)
  BY DEF Verify, ArtifactsInv, ProofsMade
<1>5. Genuine(bin, data)
  BY <1>1, <1>3, <1>4, SecondsRecorded, CheckedIsGenuine
<1>6. proofs' = [proofs EXCEPT ![d] = file]
  <2>1. proofs[d] = [bin |-> bin, verified |-> proofs[d].verified]
    BY <1>4 DEF ProofMade
  <2> HIDE DEF bin, data
  <2>2. [proofs[d] EXCEPT !.verified = record] = file
    BY <2>1
  <2>3. proofs' = [proofs EXCEPT ![d] = [proofs[d] EXCEPT !.verified = record]]
    BY <1>2
  <2> QED
    BY <2>2, <2>3
<1>7. ProofMade(file)
  <2>1. bin.envelope.nonce \in Nat
    BY <1>4 DEF ProofMade
  <2> HIDE DEF bin, data
  <2> QED
    BY <1>2, <1>5, <2>1 DEF ProofMade, Readable
<1>8. UNCHANGED <<installed, inputs, manifests, scripts>>
  BY DEF Verify
<1> HIDE DEF file
<1> QED
  BY <1>6, <1>7, <1>8, ProofFileMade

\* The adapter's script works, as it was run on the stack it is for.
LEMMA BuildMakes ==
  ASSUME ArtifactsInv, NEW d \in Directories, NEW m \in Manifests,
         NEW s \in Scripts, Build(d, m, s)
  PROVE  ArtifactsInv'
<1> DEFINE data == proofs[d].verified
           bin == proofs[d].bin
           file == [script |-> manifests[m].folded, stack |-> StackOf(data),
                    public_values |-> data.public_values]
<1>1. /\ proofs[d] # Absent /\ Readable(data) /\ Readable(manifests[m])
      /\ Compiles(data, manifests[m])
      /\ UNCHANGED <<installed, inputs, proofs, manifests>>
  BY DEF Build
<1> HIDE DEF file
<1>2. PICK written \in {file, Torn} : scripts' = [scripts EXCEPT ![s] = written]
  BY DEF Build, Written, file
<1> USE DEF file
<1>3. bin.envelope.nonce \in Nat /\ Genuine(bin, data)
  BY <1>1 DEF ArtifactsInv, ProofsMade, ProofMade
<1>4. PICK guest \in Guests, timed \in BOOLEAN :
        /\ data = VerifiedJson(guest, bin, bin.public_values, timed)
        /\ bin.public_values \in Accepted
        /\ WrapperVerifies(bin.envelope, bin.public_values, KeyOf(guest))
        /\ HasDeploymentKey(KeyOf(guest))
  BY <1>3 DEF Genuine
<1>5. PICK g \in Guests :
        manifests[m] = [program_key |-> KeyOf(g), folded |-> DeploymentKey(KeyOf(g))]
  BY <1>1 DEF ArtifactsInv, ManifestsMade
<1>6. KeyOf(g) = KeyOf(guest)
  <2>1. manifests[m].program_key = data.program_key
    BY <1>1 DEF Compiles
  <2>2. data.program_key = KeyOf(guest)
    BY <1>4 DEF VerifiedJson
  <2> QED
    BY <1>5, <2>1, <2>2
<1>7. file.script = DeploymentKey(KeyOf(guest))
  BY <1>5, <1>6
<1>8. ChainAccepts(DeploymentKey(KeyOf(guest)), StackOf(data), data.public_values)
  BY <1>3, <1>4, ArtifactsAssumption, StackAccepted
<1>9. ChainAccepts(file.script, file.stack, file.public_values)
  BY <1>7, <1>8
<1> HIDE DEF file, data
<1>10. Files'
  BY <1>1, <1>2 DEF ArtifactsInv, Files
<1>11. ScriptsWork'
  BY <1>2, <1>9 DEF ArtifactsInv, Files, ScriptsWork, Readable
<1>12. InputsMade' /\ ProofsMade' /\ ManifestsMade'
  BY <1>1 DEF ArtifactsInv, InputsMade, ProofsMade, ManifestsMade
<1> QED
  BY <1>10, <1>11, <1>12 DEF ArtifactsInv

\* prepare writes the manifest of the guest it was given, or a torn one.
LEMMA PrepareMakes ==
  ASSUME ArtifactsInv, NEW guest \in Guests, NEW m \in Manifests, Prepare(guest, m)
  PROVE  ArtifactsInv'
<1> DEFINE key == KeyOf(guest)
           manifest == [program_key |-> key, folded |-> DeploymentKey(key)]
<1>1. PICK file \in IF HasDeploymentKey(key) THEN Written(manifest) ELSE {Torn} :
        manifests' = [manifests EXCEPT ![m] = file]
  BY Zenon DEF Prepare
<1>2. file = Torn \/ (HasDeploymentKey(key) /\ file = manifest)
  BY <1>1 DEF Written
<1>3. Files'
  BY <1>1 DEF ArtifactsInv, Files, Prepare
<1>4. Readable(file) => HasDeploymentKey(key) /\ file = manifest
  BY <1>2 DEF Readable
<1> HIDE DEF manifest
<1>5. ManifestsMade'
  <2> SUFFICES ASSUME NEW n \in Manifests, Readable(manifests'[n])
               PROVE  \E g \in Guests :
                        /\ HasDeploymentKey(KeyOf(g))
                        /\ manifests'[n] = [program_key |-> KeyOf(g),
                                            folded |-> DeploymentKey(KeyOf(g))]
    BY DEF ManifestsMade
  <2>1. CASE n = m
    BY <1>1, <1>4, <2>1 DEF ArtifactsInv, Files, manifest
  <2>2. CASE n # m
    BY <1>1, <2>2 DEF ArtifactsInv, Files, ManifestsMade
  <2> QED
    BY <2>1, <2>2
<1>6. InputsMade' /\ ProofsMade' /\ ScriptsWork'
  BY DEF ArtifactsInv, InputsMade, ProofsMade, ScriptsWork, Prepare
<1> QED
  BY <1>3, <1>5, <1>6 DEF ArtifactsInv

\* Every command keeps the invariant.
LEMMA NextMakes ==
  ASSUME ArtifactsInv, [Next]_vars
  PROVE  ArtifactsInv'
<1>1. ASSUME NEW circuits, Install(circuits)
      PROVE  ArtifactsInv'
  BY <1>1 DEF Install, ArtifactsInv, Files, InputsMade, ProofsMade,
       ManifestsMade, ScriptsWork
<1>2. ASSUME NEW request \in Requests, NEW i \in Inputs, Derive(request, i)
      PROVE  ArtifactsInv'
  BY <1>2, InputMade DEF Derive, Written
<1>3. ASSUME NEW request \in Requests, NEW i \in Inputs, Supply(request, i)
      PROVE  ArtifactsInv'
  BY <1>3, InputMade DEF Supply
<1>4. ASSUME UNCHANGED vars
      PROVE  ArtifactsInv'
  BY <1>4 DEF vars, ArtifactsInv, Files, InputsMade, ProofsMade,
       ManifestsMade, ScriptsWork
<1> QED
  BY <1>1, <1>2, <1>3, <1>4, PrepareMakes, ProveMakes, VerifyMakes, BuildMakes
     DEF Next

\* Whatever commands are run on whatever files.
THEOREM Made == Spec => []ArtifactsInv
<1>1. ArtifactsInv /\ [Next]_vars => ArtifactsInv'
  BY NextMakes
<1> QED
  BY <1>1, InitMakes, PTL DEF Spec

-----------------------------------------------------------------------------
(* What follows                                                            *)

\* main.rs: what verified.json says is true of the proof.bin beside it.
THEOREM Verified_Proofs == Spec => []VerifiedProofs
<1>1. ArtifactsInv => VerifiedProofs
  <2> SUFFICES ASSUME ArtifactsInv, NEW d \in Directories, VerifiedIn(d)
               PROVE  LET data == proofs[d].verified
                      IN  /\ WrapperVerifies(proofs[d].bin.envelope,
                                             data.public_values, data.program_key)
                          /\ data.public_values \in Accepted
    BY DEF VerifiedProofs
  <2> DEFINE data == proofs[d].verified
             bin == proofs[d].bin
  <2>1. Genuine(bin, data)
    BY DEF VerifiedIn, ArtifactsInv, ProofsMade, ProofMade
  <2>2. PICK guest \in Guests, timed \in BOOLEAN :
          /\ data = VerifiedJson(guest, bin, bin.public_values, timed)
          /\ bin.public_values \in Accepted
          /\ WrapperVerifies(bin.envelope, bin.public_values, KeyOf(guest))
    BY <2>1 DEF Genuine
  <2>3. data.public_values = bin.public_values /\ data.program_key = KeyOf(guest)
    BY <2>2 DEF VerifiedJson
  <2> QED
    BY <2>2, <2>3
<1> QED
  BY <1>1, Made, PTL

\* ark_adapter.rs, deployment_key: a deployed verifier accepts a verified proof
\* beside its statement exactly when it is of the guest the deployment names.
THEOREM Verifier_Names_Guest == Spec => []VerifierNamesGuest
<1>1. ArtifactsInv => VerifierNamesGuest
  <2> SUFFICES ASSUME ArtifactsInv, NEW d \in Directories, NEW m \in Manifests,
                      VerifiedIn(d), Readable(manifests[m])
               PROVE  LET data == proofs[d].verified
                      IN  ChainAccepts(manifests[m].folded, StackOf(data),
                                       data.public_values)
                            <=> data.program_key = manifests[m].program_key
    BY DEF VerifierNamesGuest
  <2> DEFINE data == proofs[d].verified
             bin == proofs[d].bin
  <2>1. Genuine(bin, data) /\ bin.envelope.nonce \in Nat
    BY DEF VerifiedIn, ArtifactsInv, ProofsMade, ProofMade
  <2>2. PICK guest \in Guests, timed \in BOOLEAN :
          /\ data = VerifiedJson(guest, bin, bin.public_values, timed)
          /\ bin.public_values \in Accepted
          /\ WrapperVerifies(bin.envelope, bin.public_values, KeyOf(guest))
    BY <2>1 DEF Genuine
  <2>3. PICK g \in Guests :
          /\ HasDeploymentKey(KeyOf(g))
          /\ manifests[m] = [program_key |-> KeyOf(g),
                             folded |-> DeploymentKey(KeyOf(g))]
    BY DEF ArtifactsInv, ManifestsMade
  <2>4. data.program_key = KeyOf(guest)
    BY <2>2 DEF VerifiedJson
  <2>5. bin.public_values \in Requests /\ KeyOf(g) \in Nat
    BY <2>2, ArtifactsAssumption
  <2> HIDE DEF data, bin
  <2>6. ChainAccepts(DeploymentKey(KeyOf(g)), StackOf(data), data.public_values)
          <=> KeyOf(g) = KeyOf(guest)
    BY <2>1, <2>2, <2>3, <2>5, StackAccepted, ZenonT(30)
  <2> QED
    BY <2>3, <2>4, <2>6 DEF data
<1> QED
  BY <1>1, Made, PTL

\* feature_bridge.py, load_proof: files that load together for a request give
\* the leaf a stack it accepts for that request's statement.
THEOREM Loaded_Proofs_Work == Spec => []LoadedProofsWork
<1>1. ArtifactsInv => LoadedProofsWork
  <2> SUFFICES ASSUME ArtifactsInv, NEW i \in Inputs, NEW d \in Directories,
                      NEW s \in Scripts, NEW t \in Scripts, NEW request \in Requests,
                      LoadProof(i, d, s, request, scripts[t].script)
               PROVE  ChainAccepts(scripts[t].script, scripts[s].stack, request)
    BY DEF LoadedProofsWork
  <2>1. /\ Readable(inputs[i]) /\ inputs[i].request = request
        /\ Readable(scripts[s]) /\ scripts[s].script = scripts[t].script
        /\ scripts[s].public_values = inputs[i].proof_input
    BY DEF LoadProof
  <2>2. PICK r \in Requests : inputs[i] = Bundle(r) \/ inputs[i] = Bare(r)
    BY <2>1 DEF ArtifactsInv, InputsMade
  <2>3. inputs[i] = Bundle(r)
    <3>1. inputs[i].request # Absent
      BY <2>1, ArtifactsAssumption
    <3>2. Bare(r).request = Absent
      BY DEF Bare
    <3> QED
      BY <2>2, <3>1, <3>2
  <2>4. inputs[i].proof_input = request
    BY <2>1, <2>3 DEF Bundle
  <2>5. ChainAccepts(scripts[s].script, scripts[s].stack, scripts[s].public_values)
    BY <2>1 DEF ArtifactsInv, ScriptsWork
  <2> QED
    BY <2>1, <2>4, <2>5
<1> QED
  BY <1>1, Made, PTL

\* main.rs, verify: a verified.json that can be read is left as it is by
\* every command that completes, and at worst torn by one that is killed.
THEOREM Records_Stand == Spec => RecordsStand
<1> DEFINE stands(d) ==
             proofs'[d] \in {proofs[d], [proofs[d] EXCEPT !.verified = Torn]}
<1>1. ASSUME ArtifactsInv, [Next]_vars, NEW d \in Directories, VerifiedIn(d)
      PROVE  stands(d)
  <2>1. CASE UNCHANGED proofs
    BY <1>1, <2>1 DEF VerifiedIn
  <2>2. ASSUME NEW i \in Inputs, NEW guest \in Guests, NEW e \in Directories,
               Prove(i, guest, e)
        PROVE  stands(d)
    <3>1. d # e /\ proofs'[d] = proofs[d]
      BY <1>1, <2>2 DEF Prove, VerifiedIn, ArtifactsInv, Files
    <3> QED
      BY <1>1, <3>1 DEF VerifiedIn
  <2>3. ASSUME NEW i \in Inputs, NEW guest \in Guests, NEW e \in Directories,
               Verify(i, guest, e)
        PROVE  stands(d)
    <3>1. CASE d # e
      <4>1. proofs'[d] = proofs[d]
        BY <2>3, <3>1 DEF Verify, ArtifactsInv, Files
      <4> QED
        BY <1>1, <4>1 DEF VerifiedIn
    <3>2. CASE d = e
      <4> DEFINE bin == proofs[d].bin
                 data == proofs[d].verified
      <4>1. ProofMade(proofs[d]) /\ Readable(data)
        BY <1>1 DEF VerifiedIn, ArtifactsInv, ProofsMade
      <4>2. bin.envelope.nonce \in Nat /\ Genuine(bin, data)
        BY <4>1 DEF ProofMade
      <4>3. PICK g \in Guests, timed \in BOOLEAN :
              /\ data = VerifiedJson(g, bin, bin.public_values, timed)
              /\ bin.public_values \in Accepted
              /\ WrapperVerifies(bin.envelope, bin.public_values, KeyOf(g))
        BY <4>2 DEF Genuine
      <4>4. PICK expected \in Requests :
              /\ Checked(bin, expected, KeyOf(guest))
              /\ \E record \in Written(VerifiedJson(guest, bin, expected,
                                                  RecordedSeconds(d))) :
                   proofs' = [proofs EXCEPT ![d].verified = record]
        BY <2>3, <3>2 DEF Verify
      <4>5. expected = bin.public_values
            /\ WrapperVerifies(bin.envelope, expected, KeyOf(guest))
        BY <4>4 DEF Checked
      <4>6. KeyOf(guest) = KeyOf(g)
        BY <4>2, <4>3, <4>5, ArtifactsAssumption, KeysAgree
      <4>7. guest = g
        BY <4>6, ArtifactsAssumption
      <4>8. RecordedSeconds(d) = timed
        <5>1. data.proving_seconds = timed
          BY <4>3 DEF VerifiedJson
        <5> QED
          BY <4>1, <4>3, <5>1 DEF RecordedSeconds
      <4>9. VerifiedJson(guest, bin, expected, RecordedSeconds(d)) = data
        BY <4>3, <4>5, <4>7, <4>8
      <4>10. PICK record \in {data, Torn} :
               proofs' = [proofs EXCEPT ![d] = [proofs[d] EXCEPT !.verified = record]]
        BY <4>4, <4>9 DEF Written
      <4>11. proofs'[d] = [proofs[d] EXCEPT !.verified = record]
        BY <4>10, <1>1 DEF ArtifactsInv, Files
      <4>12. CASE record = Torn
        BY <4>11, <4>12
      <4>13. CASE record = data
        <5>1. [proofs[d] EXCEPT !.verified = data] = proofs[d]
          BY <4>1 DEF ProofMade
        <5> QED
          BY <4>11, <4>13, <5>1
      <4> QED
        BY <4>12, <4>13
    <3> QED
      BY <3>1, <3>2
  <2>4. \/ UNCHANGED proofs
        \/ \E i \in Inputs, guest \in Guests, e \in Directories :
             Prove(i, guest, e) \/ Verify(i, guest, e)
    BY <1>1 DEF Next, vars, Install, Derive, Supply, Prepare, Build
  <2> QED
    BY <2>1, <2>2, <2>3, <2>4
<1>2. ArtifactsInv /\ [Next]_vars =>
        [\A d \in Directories : VerifiedIn(d) =>
           proofs'[d] \in {proofs[d], [proofs[d] EXCEPT !.verified = Torn]}]_vars
  BY <1>1
<1> QED
  BY <1>2, Made, PTL DEF Spec, RecordsStand

=============================================================================
