-------------------------------- MODULE Host --------------------------------
(***************************************************************************)
(* The off-chain side: the transactions and witnesses that tests/          *)
(* feature_bridge.py builds, and the proof inputs and signatures that      *)
(* crates/prover-host/src/main.rs derives from a request.                  *)
(*                                                                         *)
(* A package is a transaction and one witness per input.                   *)
(***************************************************************************)
EXTENDS Covenant

Package(tx, wit) == [tx |-> tx, wit |-> wit]

SponsorWitness == [path |-> "sponsor"]

-----------------------------------------------------------------------------
(* Funding, genesis, deposits and refunds                                  *)

FundingTx(coinbase, amount, spk) ==
  [form |-> 0,
   ins |-> <<OutPoint(coinbase, 0)>>,
   outs |-> <<Output(amount, spk),
              Output(coinbase.outs[1].value - amount - MinerFee, Sponsor)>>]

GenesisTx(funding, state, reserve) ==
  [form |-> 0,
   ins |-> <<OutPoint(funding, 0)>>,
   outs |-> <<Output(reserve, Program), Output(CabooseValue, Caboose(state))>>]

DepositFor(bridge_id, recipient_id, refund_key) ==
  DepositSpk(Program, bridge_id, recipient_id, AccountKeys[recipient_id],
             refund_key)

\* refund_tx, for the deposit an outpoint holds.
RefundTx(outpoint) ==
  [form |-> 0,
   ins |-> <<outpoint>>,
   outs |-> <<Output(SpentOutput(outpoint).value - MinerFee, Sponsor)>>]

RefundPackage(outpoint, signature) ==
  Package(RefundTx(outpoint), <<[path |-> "refund", signature |-> signature]>>)

-----------------------------------------------------------------------------
(* Bridge transitions; deposits and sponsor are outpoints                  *)

CollectTx(parent, deposits, sponsor, new_state) ==
  [form |-> 0,
   ins |-> <<OutPoint(parent, 0), deposits[1], deposits[2], sponsor>>,
   outs |-> <<Output(parent.outs[1].value + SpentOutput(deposits[1]).value
                       + SpentOutput(deposits[2]).value, Program),
              Output(SpentOutput(sponsor).value - MinerFee - CabooseValue,
                     Sponsor),
              Output(CabooseValue, Caboose(new_state))>>]

SettlementTx(parent, sponsor, new_state, payout, destination) ==
  [form |-> 0,
   ins |-> <<OutPoint(parent, 0), sponsor>>,
   outs |-> <<Output(parent.outs[1].value - payout, Program),
              Output(payout, destination),
              Output(SpentOutput(sponsor).value - MinerFee - CabooseValue,
                     Sponsor),
              Output(CabooseValue, Caboose(new_state))>>]

CollectionPackage(tx, parent, ancestor, bridge_id, old_state, new_state, proof) ==
  LET deposit(k) == SpentSpk(tx, k + 1)
      collect == [path |-> "collect", parent |-> parent, old_state |-> old_state]
  IN  Package(tx, <<[path |-> "collection",
                     parent |-> parent,
                     ancestor |-> ancestor,
                     old_state |-> old_state,
                     new_state |-> new_state,
                     bridge_id |-> bridge_id,
                     recipients |-> <<deposit(1).recipient_id,
                                      deposit(2).recipient_id>>,
                     refund_keys |-> <<deposit(1).refund_key,
                                       deposit(2).refund_key>>,
                     public_values |-> Statement(proof),
                     proof |-> proof],
                    collect, collect, SponsorWitness>>)

SettlementPackage(tx, parent, ancestor, bridge_id, old_state, new_state, proof) ==
  Package(tx, <<[path |-> "settlement",
                 parent |-> parent,
                 ancestor |-> ancestor,
                 old_state |-> old_state,
                 new_state |-> new_state,
                 bridge_id |-> bridge_id,
                 public_values |-> Statement(proof),
                 proof |-> proof],
                SponsorWitness>>)

-----------------------------------------------------------------------------
(* Proof inputs                                                            *)

DepositRecord(outpoint) ==
  [outpoint |-> outpoint,
   value |-> SpentOutput(outpoint).value,
   recipient_id |-> SpentOutput(outpoint).spk.recipient_id]

CollectionInput(bridge_id, bridge_prevout, old_state, old_backing, deposits) ==
  [action |-> "collect",
   bridge_id |-> bridge_id,
   bridge_prevout |-> bridge_prevout,
   old_state |-> old_state,
   old_backing |-> old_backing,
   deposits |-> deposits]

\* The transfer of the request, from account 0 to account 1.
TransferOf(terms) ==
  [sender_id |-> TransferSenderId,
   recipient_pk |-> AccountKeys[WithdrawalAccountId],
   token_id |-> NativeToken,
   amount |-> terms.transfer_amount,
   fee |-> terms.transfer_fee]

\* The three signatures signed_settlement makes for one request, at the
\* nonces of the state it is given and of the request.
NativeSignature(nonce, terms) ==
  Signature(AccountKeys[TransferSenderId],
            NativeMessage(TransferOf(terms), nonce))

ScopedSignature(bridge_id, nonce, terms) ==
  Signature(AccountKeys[TransferSenderId],
            ScopedTransferMessage(bridge_id,
                                  NativeMessage(TransferOf(terms), nonce)))

WithdrawalSignature(bridge_id, nonce, terms) ==
  Signature(AccountKeys[WithdrawalAccountId],
            WithdrawalMessage(bridge_id, nonce, terms.withdrawal_amount,
                              terms.withdrawal_destination))

\* From the three signatures, in that order.
SettlementInput(bridge_id, bridge_prevout, old_state, old_backing, terms, signed) ==
  [action |-> "transfer_withdraw",
   bridge_id |-> bridge_id,
   bridge_prevout |-> bridge_prevout,
   old_state |-> old_state,
   old_backing |-> old_backing,
   transfer |-> TransferOf(terms),
   transfer_signature |-> signed[1],
   scoped_transfer_signature |-> signed[2],
   withdrawal_nonce |-> old_state[WithdrawalAccountId].nonce,
   withdrawal_amount |-> terms.withdrawal_amount,
   withdrawal_destination |-> terms.withdrawal_destination,
   withdrawal_signature |-> signed[3]]

=============================================================================
