------------------------------ MODULE Covenant ------------------------------
(***************************************************************************)
(* The Script programs that guard the bridge (script/bridge.py) and the    *)
(* deposits (script/deposit.py), as predicates of a transaction, the index *)
(* of the input they run at, and that input's witness.                     *)
(*                                                                         *)
(* A transaction is the record of its inputs (outpoints), its outputs and  *)
(* its form.  Form 0 is the one form the programs accept: version 2,       *)
(* locktime 0, every sequence 0xfffffffd, every scriptSig empty, no annex. *)
(* A scriptPubKey is a record that shows what a 34-byte program commits    *)
(* to; the record kind "bare" stands for every script of another length.   *)
(* The byte offsets the programs read transactions and statements at are   *)
(* the fields of these records.                                            *)
(***************************************************************************)
EXTENDS Coins

CONSTANTS
  AccountKeys,     \* the deployment's account keys, by account id
  CabooseValue,    \* CABOOSE_VALUE: the value of the state-carrying output
  MinerFee         \* MINER_FEE: the exact fee of a bridge transition

ASSUME CovenantAssumption ==
  /\ CabooseValue \in Nat
  /\ MinerFee \in Nat

\* AccountState::zero makes a state of no other keys; the programs take the
\* root of the one it made.
ASSUME AccountKeysAssumption == Validate(ZeroState(AccountKeys))

-----------------------------------------------------------------------------
(* Transactions                                                            *)

TxId(tx) == [tx |-> tx]

OutPoint(tx, vout) == [txid |-> TxId(tx), vout |-> vout]

\* An outpoint names its transaction by hash, so it determines the output.
SpentOutput(outpoint) == outpoint.txid.tx.outs[outpoint.vout + 1]

Output(value, spk) == [value |-> value, spk |-> spk]

SpentValue(tx, i) == SpentOutput(tx.ins[i]).value

SpentSpk(tx, i) == SpentOutput(tx.ins[i]).spk

LastOutput(tx) == tx.outs[Len(tx.outs)]

\* bridge_taproot: one program for every instance; it commits to the two
\* leaves, and so to the verifier, the sponsor script, the account keys and
\* the root of their zero state, but to no bridge identity.
Program == [kind |-> "program"]

Sponsor == [kind |-> "sponsor"]

\* caboose_script_pubkey: an unspendable output that commits to a state.
Caboose(state) == [kind |-> "caboose", state |-> state]

\* deposit_leaf and deposit_taproot.
DepositSpk(program, bridge_id, recipient_id, account_key, refund_key) ==
  [kind |-> "deposit", program |-> program, bridge_id |-> bridge_id,
   recipient_id |-> recipient_id, account_key |-> account_key,
   refund_key |-> refund_key]

Is34Bytes(spk) == spk.kind # "bare"

GenesisRoot == Root(ZeroState(AccountKeys))

GenesisState(root) == [phase |-> "genesis", root |-> root]

ActiveState(bridge_id, root) ==
  [phase |-> "active", bridge_id |-> bridge_id, root |-> root]

-----------------------------------------------------------------------------
(* Shapes of whole transactions, as the programs read them back            *)

HasShape(tx, inputs, outputs) ==
  /\ tx.form = 0
  /\ Len(tx.ins) = inputs
  /\ Len(tx.outs) = outputs
  /\ \A j \in 1 .. outputs : Is34Bytes(tx.outs[j].spk)

OneInputTwoOutputs(tx) == HasShape(tx, 1, 2)

CollectionShape(tx) == HasShape(tx, 4, 3)

SettlementShape(tx) == HasShape(tx, 2, 4)

\* What OP_TX reports of the running transaction.
Running(tx, inputs, outputs) ==
  /\ tx.form = 0
  /\ Len(tx.ins) = inputs
  /\ Len(tx.outs) = outputs
  /\ tx.ins[1].vout = 0

\* And of the outputs it spends.
Context(tx, inputs, outputs) ==
  /\ Running(tx, inputs, outputs)
  /\ \A i \in 1 .. inputs : Is34Bytes(SpentSpk(tx, i))

-----------------------------------------------------------------------------
(* The deposit program (_deposit_collection_body and the refund branch).   *)
(* Of the spent scripts it checks the first, and the length of all of them *)
(* together, which is left out: the leaf in input 0 checks each length.    *)

\* Output 0 and the caboose of the head's transaction.
CarriesState(parent, program, amount, state) ==
  /\ parent.outs[1] = Output(amount, program)
  /\ LastOutput(parent) = Output(CabooseValue, Caboose(state))

DepositCollectPath_NoSettlement(spk, tx, i, w) ==
  /\ Running(tx, 4, 3)
  /\ SpentSpk(tx, 1) = spk.program
  /\ i \in 2 .. 3
  /\ TxId(w.parent) = tx.ins[1].txid
  /\ OneInputTwoOutputs(w.parent) \/ CollectionShape(w.parent)
  /\ CarriesState(w.parent, spk.program, SpentValue(tx, 1), w.old_state)
  /\ IF OneInputTwoOutputs(w.parent)
     THEN TxId(w.parent) = spk.bridge_id
     ELSE w.old_state.bridge_id = spk.bridge_id

DepositCollectPath_ActiveOnly(spk, tx, i, w) ==
  /\ Running(tx, 4, 3)
  /\ SpentSpk(tx, 1) = spk.program
  /\ i \in 2 .. 3
  /\ TxId(w.parent) = tx.ins[1].txid
  /\ CollectionShape(w.parent) \/ SettlementShape(w.parent)
  /\ CarriesState(w.parent, spk.program, SpentValue(tx, 1), w.old_state)
  /\ w.old_state.phase = "active"
  /\ w.old_state.bridge_id = spk.bridge_id

DepositCollectPath(spk, tx, i, w) ==
  /\ Running(tx, 4, 3)
  /\ SpentSpk(tx, 1) = spk.program
  /\ i \in 2 .. 3
  /\ TxId(w.parent) = tx.ins[1].txid
  /\ \/ OneInputTwoOutputs(w.parent)
     \/ CollectionShape(w.parent)
     \/ SettlementShape(w.parent)
  /\ CarriesState(w.parent, spk.program, SpentValue(tx, 1), w.old_state)
  /\ IF OneInputTwoOutputs(w.parent)
     THEN /\ w.old_state.phase = "genesis"
          /\ TxId(w.parent) = spk.bridge_id
     ELSE /\ w.old_state.phase = "active"
          /\ w.old_state.bridge_id = spk.bridge_id

DepositRefundPath_AccountKey(spk, tx, w) ==
  ValidSignature(spk.account_key, TxId(tx), w.signature)

\* CHECKSIG by the committed key over the whole spending transaction.  No
\* timeout and no bridge are involved.
DepositRefundPath(spk, tx, w) ==
  ValidSignature(spk.refund_key, TxId(tx), w.signature)

DepositScript(spk, tx, i, w) ==
  \/ w.path = "collect" /\ DepositCollectPath(spk, tx, i, w)
  \/ w.path = "refund" /\ DepositRefundPath(spk, tx, w)

-----------------------------------------------------------------------------
(* What both bridge leaves check of the head they spend                    *)

\* The transaction that created the head itself spent an output 0 of this
\* program, so this program ran in it.
AuthenticAncestor_Unchecked(parent, ancestor) ==
  TxId(ancestor) = parent.ins[1].txid

AuthenticAncestor_AfterGenesisOnly(parent, ancestor) ==
  /\ TxId(ancestor) = parent.ins[1].txid
  /\ parent.ins[1].vout = 0
  /\ OneInputTwoOutputs(ancestor)
  /\ ancestor.outs[1].spk = Program

AuthenticAncestor(parent, ancestor) ==
  /\ TxId(ancestor) = parent.ins[1].txid
  /\ parent.ins[1].vout = 0
  /\ \/ CollectionShape(ancestor)
     \/ SettlementShape(ancestor)
     \/ OneInputTwoOutputs(ancestor)
  /\ ancestor.outs[1].spk = Program

GenesisParent(tx, w) ==
  /\ OneInputTwoOutputs(w.parent)
  /\ CarriesState(w.parent, Program, SpentValue(tx, 1), w.old_state)
  /\ TxId(w.ancestor) = w.parent.ins[1].txid
  /\ w.parent.ins[1].vout = 0
  /\ OneInputTwoOutputs(w.ancestor)
  /\ w.ancestor.outs[1].spk = Sponsor
  /\ w.old_state = GenesisState(GenesisRoot)
  /\ TxId(w.parent) = w.bridge_id

TransitionParent_AnyIdentity(tx, w) ==
  /\ CollectionShape(w.parent) \/ SettlementShape(w.parent)
  /\ CarriesState(w.parent, Program, SpentValue(tx, 1), w.old_state)
  /\ w.parent.outs[Len(w.parent.outs) - 1].spk = Sponsor
  /\ AuthenticAncestor(w.parent, w.ancestor)
  /\ w.old_state.phase = "active"

TransitionParent(tx, w) ==
  /\ CollectionShape(w.parent) \/ SettlementShape(w.parent)
  /\ CarriesState(w.parent, Program, SpentValue(tx, 1), w.old_state)
  /\ w.parent.outs[Len(w.parent.outs) - 1].spk = Sponsor
  /\ AuthenticAncestor(w.parent, w.ancestor)
  /\ w.old_state.phase = "active"
  /\ w.old_state.bridge_id = w.bridge_id

AuthenticateParent(tx, w) ==
  /\ TxId(w.parent) = tx.ins[1].txid
  /\ tx.ins[1].vout = 0
  /\ GenesisParent(tx, w) \/ TransitionParent(tx, w)
  /\ w.new_state.phase = "active"
  /\ w.new_state.bridge_id = w.bridge_id

StatementHeader(tx, w, action) ==
  /\ w.public_values.action = action
  /\ w.public_values.bridge_id = w.bridge_id
  /\ w.public_values.bridge_prevout = tx.ins[1]
  /\ w.public_values.old_root = w.old_state.root
  /\ w.public_values.new_root = w.new_state.root
  /\ w.public_values.old_backing = SpentValue(tx, 1)

\* The SP1 Groth16 verifier appended to each leaf.  A proof is represented
\* by the input its prover knew: the proof is valid for the one statement
\* the guest program commits to when run on that input, if it accepts it.
\* The digest of the statement is the second public input of the circuit.
VerifyProof(proof, public_values) ==
  Accepts(proof) /\ Statement(proof) = public_values

\* The sponsor pays the fee and the next caboose (OP_SUB cannot go below 0).
SponsorChange(sponsored) == sponsored - (MinerFee + CabooseValue)

-----------------------------------------------------------------------------
(* The collection leaf                                                     *)

AuthenticateDeposit(tx, w, k) ==
  /\ w.recipients[k] \in AccountId
  /\ SpentSpk(tx, k + 1) =
       DepositSpk(Program, w.bridge_id, w.recipients[k],
                  AccountKeys[w.recipients[k]], w.refund_keys[k])

\* The sum cut to the 8 bytes of an amount: fixed_width keeps the low bytes.
CollectedAmount(tx) ==
  (SpentValue(tx, 1) + SpentValue(tx, 2) + SpentValue(tx, 3)) % (MaxAmount + 1)

CollectionOutputs_AnyValue(tx, w) ==
  /\ MinerFee + CabooseValue <= SpentValue(tx, 4)
  /\ Len(tx.outs) = 3
  /\ tx.outs[1].spk = Program
  /\ tx.outs[2].spk = Sponsor
  /\ tx.outs[3] = Output(CabooseValue, Caboose(w.new_state))

CollectionOutputs(tx, w) ==
  /\ MinerFee + CabooseValue <= SpentValue(tx, 4)
  /\ tx.outs = <<Output(CollectedAmount(tx), Program),
                 Output(SponsorChange(SpentValue(tx, 4)), Sponsor),
                 Output(CabooseValue, Caboose(w.new_state))>>

CollectionStatementBound_AnyRecord(tx, w) ==
  /\ StatementHeader(tx, w, "collect")
  /\ w.public_values.new_backing = CollectedAmount(tx)

CollectionStatementBound(tx, w) ==
  /\ StatementHeader(tx, w, "collect")
  /\ w.public_values.new_backing = CollectedAmount(tx)
  /\ \A k \in 1 .. 2 :
       w.public_values.deposits[k] =
         [outpoint |-> tx.ins[k + 1],
          value |-> SpentValue(tx, k + 1),
          recipient_id |-> w.recipients[k],
          key |-> AccountKeys[w.recipients[k]]]

CollectionLeaf(tx, i, w) ==
  /\ Context(tx, 4, 3)
  /\ SpentSpk(tx, 4) = Sponsor
  /\ i = 1
  /\ CollectionOutputs(tx, w)
  /\ AuthenticateDeposit(tx, w, 1)
  /\ AuthenticateDeposit(tx, w, 2)
  /\ AuthenticateParent(tx, w)
  /\ CollectionStatementBound(tx, w)
  /\ VerifyProof(w.proof, w.public_values)

-----------------------------------------------------------------------------
(* The settlement leaf                                                     *)

SettlementOutputs_AnyChange(tx, w) ==
  LET payout == w.public_values.withdrawal_amount
  IN  /\ payout <= SpentValue(tx, 1)
      /\ Len(tx.outs) = 4
      /\ tx.outs[1] = Output(SpentValue(tx, 1) - payout, Program)
      /\ tx.outs[2] = Output(payout, w.public_values.withdrawal_destination)
      /\ tx.outs[3].spk = Sponsor
      /\ tx.outs[4] = Output(CabooseValue, Caboose(w.new_state))

SettlementOutputs(tx, w) ==
  LET payout == w.public_values.withdrawal_amount
  IN  /\ payout <= SpentValue(tx, 1)
      /\ MinerFee + CabooseValue <= SpentValue(tx, 2)
      /\ tx.outs = <<Output(SpentValue(tx, 1) - payout, Program),
                     Output(payout, w.public_values.withdrawal_destination),
                     Output(SponsorChange(SpentValue(tx, 2)), Sponsor),
                     Output(CabooseValue, Caboose(w.new_state))>>

SettlementStatementBound(tx, w) ==
  /\ StatementHeader(tx, w, "transfer_withdraw")
  /\ w.public_values.withdrawal_amount <= SpentValue(tx, 1)
  /\ w.public_values.new_backing =
       SpentValue(tx, 1) - w.public_values.withdrawal_amount
  /\ Is34Bytes(w.public_values.withdrawal_destination)

SettlementLeaf(tx, i, w) ==
  /\ Context(tx, 2, 4)
  /\ SpentSpk(tx, 2) = Sponsor
  /\ i = 1
  /\ SettlementOutputs(tx, w)
  /\ AuthenticateParent(tx, w)
  /\ SettlementStatementBound(tx, w)
  /\ VerifyProof(w.proof, w.public_values)

-----------------------------------------------------------------------------
(* Spending an output                                                      *)

\* bridge_taproot has the two leaves and no usable key path.
BridgeScript(tx, i, w) ==
  \/ w.path = "collection" /\ CollectionLeaf(tx, i, w)
  \/ w.path = "settlement" /\ SettlementLeaf(tx, i, w)

\* The sponsor script of the regtest deployment is OP_TRUE; a caboose is an
\* OP_RETURN; a payout's key belongs to its receiver and is not spent here.
ScriptAccepts(tx, i, w) ==
  LET spk == SpentSpk(tx, i)
  IN  \/ spk.kind = "sponsor"
      \/ spk.kind = "program" /\ BridgeScript(tx, i, w)
      \/ spk.kind = "deposit" /\ DepositScript(spk, tx, i, w)

=============================================================================
