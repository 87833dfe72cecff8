# A TLA+ model of the Coins + GSR v1 bridge

The repository is a bounded Bitcoin bridge: Bitcoin Script programs hold
deposits and bridge funds, a zero-knowledge proof attests every change of a
three-account ledger, and a chain of "head" outputs carries the ledger's root.
This directory models what makes that safe: the proved relation, the Script
programs with the bytes they slice and the compiler that emits them, the
transactions they guard on a chain with forks and reorganizations, the proof
system's verifiers and the artifacts that lead to a proof, and the command line
that drives the expensive proofs.

TLC checks small instances of the modules, and TLAPS proves every safety property
and action property that these runs find to hold, and that the chain implements an
abstract account book, for every value of the constants.

## The system

| Part | Source | State | Operations |
| --- | --- | --- | --- |
| Account relation | `crates/protocol/src/lib.rs` | none (a pure function of a proof input) | `apply_collection`, `apply_settlement`, wrapped by `validate_proof_input` and run by `guest/` |
| Bridge covenant | `script/bridge.py` | none; it reads the spending transaction, the parent and the grandparent | the collection and the settlement leaf |
| Deposit program | `script/deposit.py` | none | collect path, refund path |
| Encodings | `script/linearization.py` | none | GENESIS and ACTIVE states, the caboose, transaction shapes, the `Builder` |
| Chain | regtest node, driven by `tests/feature_bridge.py` | transactions, unspent outputs | publish, invalidate and reconsider blocks |
| Prover host | `crates/prover-host` | artifact files | `derive`, `prepare`, `execute`, `prove`, `verify` |
| Verifier wrappers | `crates/protocol/src/crypto.rs`, `crates/prover-host/src/wrapper.rs`, `ark_adapter.rs`, `script/coins_gsr_adapter.rs` | none | verify a signature, an envelope; fold the key, export a stack; build a Script artifact |
| Lifecycle | `scripts/lifecycle.py` and shell scripts | one work directory | `genesis`, `prove`, `submit`; `deposit`, `refund`, `inspect` only read |

How they interact.  A genesis transaction holds the reserve in output 0 under
the bridge program `P`, with the root of the zero accounts in its last output,
the caboose; its txid names the instance.  Anyone pays deposits whose script
commits to `P`, the instance, a recipient account and a refund key.  A host
builds a proof input from the head and either two deposits (collection) or a
signed transfer and a signed withdrawal (settlement), proves it, and publishes a
transaction that spends the head, recreates `P` in output 0 and the new root in
the caboose.  The leaf that runs authenticates the head by the parent and the
grandparent transaction in the witness, rebuilds the statement from the
transaction, and verifies the proof.  A sponsor coin pays the fee and the new
caboose.

What is hard.  Nothing stops anybody from paying to `P` beside a copied caboose,
from opening an underfunded instance, from using one instance's signatures at
another that has the same keys, from presenting an old proof or a request that
was used, from altering any field of a package, or from racing a refund against
a collection; blocks may be disconnected at any point; sums are cut to eight
bytes.  The programs read whole transactions and statements at fixed offsets and
find items at depths a compiler counts.  Three of the verifier's five inputs are
folded into its key, and the digest that ties a proof to a transaction travels as
a number without its high zero bytes.  Files of different requests, guests and
deployments may be put together.  The lifecycle commands check files, compute for hours, and write files,
may be killed between any two writes, and share one directory without a lock.

What makes each part correct: the relation conserves backing and keeps widths;
the covenant ties every head to one genesis and every credit and payout to the
transaction; the deposit program lets a deposit leave in exactly two ways;
together they give one head per instance that holds the reserve plus all
balances.  The lifecycle never claims more than its artifacts show.

## Modules

`Coins` → `Covenant` → `Host` → `Bridge` extend one another in that order.

* **Coins** is the relation.  `Accepts(input)` is "every check of
  `validate_proof_input` passes" and `Statement(input)` what the guest commits
  to.  A digest, an encoded message and a statement are records of what they
  encode, so hashing is collision free and encodings are injective; both hold
  because every field has a fixed width or a length prefix.  `Before` is the byte
  order of outpoints: a constant `HashRank` orders transaction ids, and output
  numbers go lowest byte first.  The runs' `HashRank` tells apart only what deposits
  come from; no modelled chain has two deposits of one rank.
* **Covenant** is the Script programs, as predicates of a transaction, the input
  index and the witness.  `form = 0` stands for version 2, locktime 0, sequence
  0xfffffffd, empty scriptSigs and no annex.  The fixed offsets the programs read
  are fields of records.  A proof is represented by the input its prover knew:
  `VerifyProof` says that input is accepted and its statement is the public values
  in the witness (knowledge soundness of the proof system).
* **Host** builds packages: a transaction and its witnesses, proof inputs and
  the three signatures of a request.
* **Bridge** is the state machine.  `confirmed` is the set of transactions of the
  chain, `agreed` the requests account holders signed, `refunding` the refunds
  depositors signed, `lineage` a history variable: for every instance the
  sequence of transactions that held its head.  `Pay`, `Collect`, `Settle` and
  `Refund` confirm a broadcast package that `Acceptable` admits; what is broadcast
  is a constant operator, so every theorem holds for whatever anybody broadcasts,
  except a signature its key holder did not make (`Unforged`).  `Disconnect`
  removes a transaction nothing confirmed spends from: any reorganization is a
  sequence of these.
* **MCBridge** instantiates it: `Plan` says what every coinbase may fund, and
  `Tampers` lists the ways a package is altered besides the honest one.
* **Lifecycle** is `scripts/lifecycle.py`: every command is a list of accesses to
  the work directory (`GenesisSteps`, `ProveSteps`, `SubmitSteps`, with the host
  and shell scripts they run), and one action performs the next access of a
  running command.  An open file is `Torn` until it is filled; a rename takes open
  descriptors along, so that a command may fill a file another has renamed.  `Kill` ends a command between any two accesses.
  **MCLifecycle** gives it two of the three actions and a history variable, `alone`:
  no two commands have run at the same time so far.
* **Custody** is what the bridge promises account holders, with no transactions in
  it: `book` maps an instance to its entries (balances, nonces, value kept, payout),
  and entries are opened, credited, settled and undone.  `Bridge!KeepsCustody` says
  that `Bridge` implements it: `Book` maps every lineage to the entries of its
  transactions (`EntryOf`), and `agreed` is `agreed`.
* **MCProgress** adds fairness to `MCBridge`, deposit by deposit and instance by
  instance.
* **Layout** justifies the records of `Covenant`.  A behaviour writes one byte
  string field by field, with any counts and lengths its format allows, while one
  program's reading of it (size, expected bytes, slices) looks on.  `fields` is the
  set of fields written so far, the k-th of a name with ordinal k; a vector's count
  is written as a field of its own and puts that many elements before the `rest`.
* **Builder** is the compiler of `linearization.py`: `names` is what it believes is
  on the stack, `stack` what a run of the emitted code has there, over a base stack
  that is not the program's.  An action is a call of a method; `branch` is three
  (`If`, `Else`, `EndIf`), and every `OP_IF` is run both ways.  **MCBuilder** gives
  it the verifier's stack and the opcodes in use.
* **Curve** has the groups of BN254 as discrete logarithms and on them the
  signature check of `lib.rs` and `crypto.rs`.  **Groth16** has, on the same
  points, SP1's verifier on the envelope, the folded key and its export, the
  Script verifier and the digest binding of the bridge.  **MCGroth16** compares
  them over all envelopes and signatures of small groups.
* **Artifacts** is the prover host and `coins_gsr_adapter.rs` as commands on files
  at several paths: the circuit that is installed, inputs, proof directories,
  manifests and Script artifacts, of which any combination may meet.  A file is
  emptied and then filled, so every command that writes one may be killed with the
  file `Torn`: `Prove` at either of its two, `Verify` at the `verified.json` it writes
  again in place.  A `Torn` manifest or proof also stands for a directory that was made
  and holds no such file, which the same later commands refuse.  **MCArtifacts** has
  three guests and three requests, of which the relation refuses one.
* **CustodyProofs** and **LineageProofs** hold the proofs about `Bridge`, the
  latter its refinement of `Custody` too, with **SpendProofs** on top of them;
  **Groth16Proofs** those about `Groth16` and `MCGroth16`, **ArtifactsProofs** those
  about `Artifacts`, **BuilderProofs** those about `Builder`, **LayoutProofs** those
  about `Layout`, and **LifecycleProofs** those about `Lifecycle` and `MCLifecycle`.

Definitions whose name has a suffix after an underscore (`AuthenticAncestor_Unchecked`)
are the code with a plausible bug.  Each replaces the definition it is named after
in one run, which then fails: they show that the properties depend on the code.

## Runs

| Run | Question | Result |
| --- | --- | --- |
| `Custody` | One instance, four deposits, two requests, refunds, reorganizations, ten alterations | types, the money invariant, each deposit refunded or credited once, each request settled once, exact fees, and honest collections, refunds and settlements accepted in every state; account 2 never loses |
| `Instances` | Two instances of one program with the same keys | one head each; settlements only as signed for that instance; the chain is a behaviour of `Custody` |
| `Progress` | What happens in the end to four deposits, a refund and two requests of two instances, when what each of them waits for is mined if it stays acceptable | a deposit whose owner signed its refund leaves, none waits for ever beside another, and a payable request is paid or stops being payable |
| `Layout` | Any transaction, script list, state or statement under each of eleven readings | slices of accepted strings are the fields meant; accepted transactions have one form; honest strings pass |
| `Builder` | Every program of two items and two nested branches, each branch taken both ways | what is got by name has that name; the base stack and the verifier's digest are untouched |
| `Arithmetic` | Every envelope, program key, digest and signature in groups of order 11 | folded key, Script verifier and digest binding accept exactly what SP1's verifier accepts; one valid signature per key and message |
| `Artifacts` | Files of several inputs, guests, circuits and deployments, put together freely | `verified.json` tells the truth, and keeps it unless a `verify` is killed while it writes; a deployed verifier accepts its guest's proofs only, and what `load_proof` loads works on chain |
| `Counterfeits` | Copies of heads in transactions shaped like a genesis and like a settlement; instances with reserve 1 instead of 2; amounts and nonces at the end of their widths | no copy ever advances; the money invariant holds; no committed balance or nonce leaves its width, although the covenant itself truncates |
| `Successor` | A withdrawal to the bridge program | violates `SoleSuccessor` (below) |
| `Lifecycle` | One command at a time and two at a time, killed anywhere | always: proofs are never overwritten, a prepared directory is complete, a result follows all fixtures, a readable `state.json` claims no fixtures or digests that are not there; as long as commands ran one at a time: `state.json` is whole, behind `mined` is a whole result, the recorded one, and the status never goes back |
| `Resubmit` | Two submits at a time | violates `ResultStands` (below) |
| `Resume` | A prover is killed | violates `ProvingCanResume` (below) |

Deadlock is checked only in `Builder`, where every call sequence can go on.
Elsewhere the modelled system may stop: when every deposit, sponsor coin and
request, or every invocation, is used up, or when a string is written or a case
compared.

Fairness.  Only `Progress` assumes any (`FairSpec`), and nothing in the code makes
anybody act, so it is the environment's: weak fairness of the refund of each deposit,
of the collection of each deposit with some other, and of the settlements of each
instance.  A package that somebody wants, that the node accepts and that stays
acceptable is mined in the end; that is what `feature_bridge.py` relies on when it
publishes a transaction and mines a block.  It is asked for each deposit because its
depositor is who wants it: with fairness of collections in general, two deposits may be
collected and taken back for ever while two others wait, and with fairness of
settlements in general one instance may settle and be taken back for ever while a
request at another waits.  The bounds are large enough for both: under either weaker
fairness TLC finds the behaviour as a counterexample.  Nothing is assumed of funding,
signing, or reorganizations, which may go on for ever, and a collection that is possible
again and again but never for good (because its head keeps being taken back) need not
happen.  The three properties are stated so that they hold all the same: each says that
again and again nothing of its kind is waiting, so nothing waits for ever.  `FairSpec`
writes weak fairness out with `Confirmable` in place of `ENABLED`, which TLC would have
to evaluate by building every package anew at every step; the two agree because
`Confirm` is possible, and changes the chain, exactly when `Confirmable` holds.

Bounds, and why they suffice.  Four deposits give two collections, so a
collection follows a genesis, a collection and a settlement; with
`MaxRequests = 2` a settlement follows each too, which is every combination of
parent and grandparent the leaves tell apart.  Eight coinbases of value 12 make
every balance a settlement or an off-by-one can reach distinct.  `MaxAmount = 30`
is never reached; in `Counterfeits` it is 12, and of the three pairs of deposits one
is worth one too much and one exactly the maximum, while `MaxNonce = 1` allows the
first settlement and not the second.
`MaxRefunds = 4` lets every deposit be refunded.  Two instances are enough for
one to misuse the other's deposits, proofs and signatures.  `Lifecycle`
invokes four commands: genesis, prove, submit and one more, and has two of the three
actions: no step involves more than two.  `Progress` (36 175 states) has two
instances and four deposits, two for the first and two that may be for either: the
fewest with which one pair can wait while another, of the same instance or of the
other, is collected and taken back, and with which both instances can pay a request.
It has two request signatures and one refund signature, and a sponsor coin for each
collection and each settlement, so that what waits is never short of one.
`Layout` needs `MaxCount` above the largest count a program
asks for (four inputs or outputs, so six) and lets lengths run up to the size the
reading wants: a longer string is refused for its size.  `Builder` keeps two items
and nests two branches, the depth `bridge.py` nests two of its three at; what an
opcode or a `get` does depends on the items it takes, on the names below them only
in that they stay; any number of items and branches is covered by the proof.
`Arithmetic` uses order 11, digests below 8 and scalars below 16 in two bytes of
base 4: there are scalars above the order, digests with and without high zeros,
and every point.  `Artifacts` has two directories, so that a file of one run can
stand beside files of another; paths of a kind are interchangeable, which its
symmetry set uses.

### Disagreements found

* `Successor`: `docs/protocol.md:70` says the sole successor is output 0 with
  script `P`.  `withdrawal_message` (`lib.rs:296`) accepts any P2TR destination,
  `P` included, so a settlement may have two outputs with script `P`.  The second
  can never be spent, since leaves require `vout` 0: the payout is lost, custody
  is not.
* `Resubmit`: `README.md:69` says the commands refuse to overwrite result
  artifacts.  The check (`lifecycle.py:150`, `feature_bridge.py:708`) and the
  write (`feature_bridge.py:709`) are separate, so two submits may both pass, and
  the digest in `state.json` is then of a result that was replaced.
* `Resume`: `IMPLEMENTATION_PLAN.md:367` asks for resumable artifact directories.
  `prove` makes `proofs/` and `scripts/` first and refuses when they exist, so a
  killed prover's finished proofs have to be deleted before the rest can be made.

Also seen, and contradicting no document: with two commands at a time
`StateFileWhole` and `StatusNotBack` fail, and behind a `mined` status the result may be
torn or another than the recorded one (the commands share
`state.json.new` and replace the whole file, and two submits may both write the
result), which is why the run asks for these
only while `alone`, and of overlapping commands `StatusBacked`; a submit killed between
the test's result and its own write leaves a status that no later command can move; a
`prove` killed after packaging lets `submit` record `mined` with every proof
`missing`; a `verify` killed while it writes `verified.json` loses the proving time,
which the next one stores as null.

## Proofs

The theorems hold for every value of the constants that satisfies the named
assumptions, which TLC evaluates in the runs.  These ask that

* the reserve, the widths of amounts and nonces, the caboose value and the fee are
  naturals, the state of no account but the deployment's three validates, coinbases
  have no inputs and hold amounts, and so do requests (`CoinsAssumption`,
  `CovenantAssumption`, `AccountKeysAssumption`, `CoinbasesAssumption`,
  `TermsAssumption`);
* the groups have an order above 1 without zero divisors, that is a prime
  (`OrderAssumption`); digits have a base above 1, scalars cover the order, digests
  stay below it, the verification key has six finite `ic` points and four more
  (`Groth16Assumption`), and statements hash to naturals, messages to finite points
  (`CasesAssumption`);
* guests have program keys of their own, a torn file is no absent one, and the relation accepts some of the
  requests (`ArtifactsAssumption`);
* a compiled program starts above at least two items, with inputs that have names
  (`BuilderAssumption`);
* the lifecycle has a sequence of at least one action (`LifecycleAssumption`);
* no vector of a byte string is longer than some natural (`LayoutAssumption`).

| Theorem | States |
| --- | --- |
| `CustodyProofs!Money` | `Spec => []MoneyInvariant` |
| `CustodyProofs!Widths` | `Spec => []AccountsInWidth` |
| `CustodyProofs!Deposits` | `Spec => []DepositsRefundedOrCredited` |
| `CustodyProofs!Settlements_Authorized` | `Spec => []SettlementsAuthorized` |
| `LineageProofs!TypeCorrect` | `Spec => []TypeOK` |
| `LineageProofs!Lineages` | `Spec => []LineageInv` |
| `LineageProofs!Authentic` | `Spec => []LineagesAuthentic` |
| `LineageProofs!UniqueHead` | `Spec => []OneHead` |
| `LineageProofs!SettleOnce` | `Spec => []RequestsSettleOnce` |
| `LineageProofs!Fees_Stay` | `Spec => []FeesStay` |
| `SpendProofs!FeeExact` | `Spec => []ExactFee` |
| `SpendProofs!HeadsHaveForm` | `Spec => []HeadForms` |
| `SpendProofs!DepositsSpendable` | `Spec => []DepositsStaySpendable` |
| `SpendProofs!RequestsSettle` | `Spec => []SignedRequestsSettle` |
| `LineageProofs!Keeps_Custody` | `Spec => KeepsCustody` |
| `Groth16Proofs!FoldingKeepsVerdicts` | the equation holds for the folded key and two inputs iff it holds for the whole key and five |
| `Groth16Proofs!ExportsWhatVerifies` | the host exports an envelope iff SP1's verifier accepts it, its points are finite and the key has a deployment key |
| `Groth16Proofs!ChainAcceptsWhatVerifies` | the Script verifier accepts what is exported, under the deployed key, iff SP1's verifier accepts the envelope |
| `Groth16Proofs!Folding_Agrees` | `CaseSpec => []FoldingAgrees` |
| `Groth16Proofs!Chain_Agrees` | `CaseSpec => []ChainAgrees` |
| `Groth16Proofs!Signatures_Unique` | `CaseSpec => []SignaturesUnique` |
| `ArtifactsProofs!Made` | `Spec => []ArtifactsInv` |
| `ArtifactsProofs!Verified_Proofs` | `Spec => []VerifiedProofs` |
| `ArtifactsProofs!Verifier_Names_Guest` | `Spec => []VerifierNamesGuest` |
| `ArtifactsProofs!Loaded_Proofs_Work` | `Spec => []LoadedProofsWork` |
| `ArtifactsProofs!Records_Stand` | `Spec => RecordsStand` |
| `BuilderProofs!Describes` | `Spec => []BuilderInv` |
| `BuilderProofs!Gets_Named` | `Spec => []GetsNamed` |
| `BuilderProofs!Base_Kept` | `Spec => []BaseKept` |
| `LayoutProofs!Stays_In_Form` | `Spec => []LayoutInv` |
| `LayoutProofs!Slices_Are_Fields` | `Spec => []SlicesAreFields` |
| `LayoutProofs!Transactions_Have_Form` | `Spec => []TransactionsHaveForm` |
| `LayoutProofs!Honest_Never_Refused` | `Spec => []HonestNeverRefused` |
| `LifecycleProofs!Lifecycle_Invariant` | `Spec => []LifecycleInv` |
| `LifecycleProofs!Prepared_Complete` | `Spec => []PreparedComplete` |
| `LifecycleProofs!Results_Have_Fixtures` | `Spec => []ResultHasFixtures` |
| `LifecycleProofs!Proofs_Stand` | `Spec => ProofsStand` |
| `LifecycleProofs!Status_Backed` | `Spec => []StatusBacked` |
| `LifecycleProofs!Alone_Invariant` | `MCSpec => []AloneInv` |
| `LifecycleProofs!State_File_Whole` | `MCSpec => []StateFileStaysWhole` |
| `LifecycleProofs!Status_Earned` | `MCSpec => []StatusStaysEarned` |
| `LifecycleProofs!Result_Recorded` | `MCSpec => []ResultStaysRecorded` |
| `LifecycleProofs!Status_Advances` | `MCSpec => StatusAdvances` |

*CustodyProofs* begins with one transaction: a txid determines its transaction
(`TxIdInjective`), a spend of the program ran one of the leaves
(`ProgramRuns`), the statement's states are those of the cabooses, and the
relation conserves backing and widths (`CollectionCredits`, `SettlementMoves`).
A step confirms an accepted package or removes transactions (`StepConfirms`), and
what the four properties say of a transaction follows from what a leaf and the
relation check of it: each is inductive, because a txid contains its transaction,
so that a parent can be spoken of after a reorganization.  Authorization uses that
`agreed` and `refunding` only grow: a signature that existed when a package was
confirmed still has its request.

*LineageProofs* needs an inductive strengthening, because authenticity and
uniqueness relate the history to the chain:
`LineageInv == TypeOK /\ HeadInputs /\ Rooted /\ Linked /\ Distinct /\ Complete`.
`HeadInputs` says a spend of the program recreates it in output 0 and spends it at
input 0 only; `Rooted` that a lineage starts at the genesis that names it;
`Linked` that each member spends output 0 of the one before and carries the
identity; `Distinct` that a lineage repeats no transaction; `Complete` that every
genesis and every program spend is in a lineage.  A step appends to one lineage at
its last element: the parent authenticates to the identity (`HeadAdvances`),
`Complete` puts the parent in that identity's lineage, and `Linked` shows that
only its last member is unspent.  `Disconnect` removes a last element for the
same reason.  `OneHead` and `LineagesAuthentic` are consequences.  `NonceInv` adds
that along a lineage nonces never fall, each settlement raises both signers' nonces,
and the balance of account 2 never falls.

*SpendProofs* shows that what the host builds is accepted.  Fees are sums, and the
community modules' fold cannot be inducted over with a library theorem; instead the
set of sequence lengths at which a sum is wrong is shown to have no least member.
That an honest package can always be confirmed needs to know the form of the head it
spends, which `HeadForms` gives for every confirmed genesis and transition; it is
inductive by itself, because the parent of a transition is in its txid.
`SpendInv == LineageInv /\ MoneyInvariant /\ AccountsInWidth /\ HeadForms` then lets
the package be followed through `Acceptable` part by part: outpoints, values, leaf,
statement, relation and signatures.

The last part of *LineageProofs* maps each action to one of `Custody`: a genesis opens a book (`Open`), a collection
credits it (`CollectionCreditsBook`), a settlement settles it
(`SettlementSettlesBook`), disconnecting a head undoes its last entry
(`DisconnectUndoes`), a signature is `Agree`, and every other transaction leaves
`Book` as it was (`SameLineagesSameBook`).  It rests on `LineageInv`, which puts the
parent of a transition at the end of its own lineage, and on the transition lemmas.

*Groth16Proofs* is arithmetic modulo a prime order: the folded point differs from the
sum it stands for by a multiple of the order (`SameRemainder`).  What the Script
verifier sees is written in digits; the recursions that write and read them are
solved and inducted over in the same way as the sums, so that reading what was
written gives the number back.  An order without zero divisors is what makes one
signature per key and message (`OneSignature`) and one key per point (`OneKey`).

*ArtifactsProofs*: `ArtifactsInv` says what every file is: an input is of some request,
a `verified.json` is what its own `proof.bin` and one guest make of an accepted
request, a manifest has one guest's key and its folded key, a Script artifact holds a
stack its own verifier accepts, and any of them may be torn.  `RecordsStand` is that a
readable `verified.json` keeps its contents or becomes torn, which only a `verify` killed
in its write does.  Files may meet in any combination; each property
is about two or three that do, and rests on the theorems of `Groth16Proofs`.

*BuilderProofs* covers programs of any length and nesting.  That names describe the
stack is not inductive alone: inside a side of a branch that a run does not take,
they describe a stack this run never has, and `Else` or `EndIf` brings them back.
`BuilderInv == Typed /\ Described /\ Waiting /\ OnBase /\ GetsNamed` adds what
holds meanwhile: at the outermost branch whose side is not taken, `Waiting` says the
stack is the base and what the names were before the branch (while its first side is
compiled) or after that side (while its second is).  `OnBase` keeps the base under
everything, and `EndIf`'s check that both sides end with the same names is what
makes either of them describe the run.

*LifecycleProofs* is for any number of actions and of commands running at a time, each
of which may be killed anywhere.  A command is a sequence of accesses, so the
argument is about positions in it: `Since` says that one of some steps came before a
position and none of some others after it, and every command's steps are `Fitting`,
that is each file's check comes before its opening with nothing between that spoils
it, and what was opened is filled next.
`LifecycleInv` relates where the jobs are to what the files are:

* `Tree`, `Fds`: directories hold their files, a descriptor is of the file a job
  opened last, under the name a rename gave it;
* `Built`: only one running command made a directory, since a second `mkdir` fails,
  and this is what protects the files below that are checked first;
* `Fresh`, `Filling`, `Kept`: where its maker has checked, such a file does not exist,
  where he has opened it, it is empty, and where he has filled it, it is whole and
  stays (`VerifiedFirst`, `VerifiedKept` for the record that is written twice);
* `Requesting`, `Loaded`, `ScriptsHaveProofs`: a request, the state and a packaged
  proof are there once a job has made, read or copied them.

`PreparedComplete` and `ResultHasFixtures` are conjuncts, and `ProofsStand` follows.
`StatusBacked` needs `StateBacked` beside it: the states at `state.json` and
`state.json.new`, and those that jobs are about to write, are `Backed` by fixtures that
are whole.  Any job may fill or replace either file, whoever opened it, but only with
what was backed (`StatePathsTouched`), and fixtures stay (`BackedStands`).
What holds only while commands run one at a time is proved on top of it.  `AloneInv`
adds that, as long as `alone`, `SoloState`: the status in `state.json`, and the one
about to be written, is `Earned`: backed, with a whole result whose digest it has; `SoloResult`: the result is absent where it was checked, torn
where it was opened, whole where it was filled; `SoloStage`: a genesis meets no
`state.json` and a prove none that is already proved.

*LayoutProofs* is about strings whose counts and lengths anybody chose.  Its
invariant is `LayoutInv == TransactionInv /\ FlatInv(Plans)`.

* The readings of transactions insist on one form of n inputs and m outputs.  The
  argument is made once, for all n and m below 253: `TxExpects(n, m)` is what is
  insisted on, and each of the four readings is shown to be an instance of it.
  `TxStage` says how far the writer is and that `fields` is exactly what the form has
  up to there; one lemma for each field takes a stage to the next.  Where a count or
  a length is written, the reading insists on its first byte, and a byte below 253
  settles a CompactSize (`SizePinned`), so that any other choice disagrees and stops
  the writer.  Only at the end are there as many bytes as the size asks for.
* The other formats have no vectors.  Each follows a plan, the list of fields it must
  have if the reading agrees (`Planned`), and `Along` says that what is written is
  the first part of that plan.  `FlatNext` shows for any plan that a step keeps it.
  `DepositScripts` insists on the first of four lengths only, and takes no other
  script, so that what follows may leave the plan (`FirstAlone`); a state or a statement of the other kind disagrees at its header
  (`Crossed`), whose bytes after the magic and the domain tell the kinds apart.

The ordinal of a field is a cardinality; `OrdinalsCount` shows by a bijection that the
k-th field of a name has ordinal k.

Only model-checked: the three liveness properties of `MCProgress`.  They, and
ENABLED in their fairness, are out of the prover's reach.

## What is not modelled

* Hashes, signatures and proofs are taken as collision free, unforgeable and knowledge
  sound.  `Curve` and `Groth16` have the equations over the groups, not the field
  arithmetic below them, the pairing or the subgroup checks; `crypto.rs`'s conversion
  of coordinates is the identity on points.
* The patches (`src/patches`) change repositories that are not here.
* The two binding-only test programs (`deposit.py` 145-244 and 448-481, and
  `linearization.py` 207-391) and the tests that drive them: they replace the proof
  by a Boolean in the witness and are never deployed.  `Layout` has their
  transaction shapes, and `Builder` what compiles them.
* Fixed vectors, source hashes and builds (`check_vectors.py`, `check_deployment.py`,
  `vectors.rs`, `generate_vectors.rs`, the build scripts): comparisons of constants,
  with no state.
* Resource limits (weight, varops, stack size), block structure and mempool policy,
  hexadecimal and JSON.
* Power failures in the lifecycle, a child process that outlives a killed command,
  and the environment outside the work directory.

## Plan

1. (done) Relation, covenant, host, chain; lifecycle; custody and lineage theorems.
2. (done) `Custody`, its refinement checked and proved; progress under fairness;
   verifier arithmetic; artifacts; byte layouts; the `Builder`.
3. (done) Theorems: fees and honest packages; digits and signatures; artifacts; the
   lifecycle, for commands at the same time and for one at a time.
4. (done) Theorems about `Layout`.
5. The two test programs as covenants of their own on the same chain, should they
   ever be used for more than tests.
