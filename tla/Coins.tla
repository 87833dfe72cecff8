------------------------------- MODULE Coins -------------------------------
(***************************************************************************)
(* The relation the zero-knowledge proof attests: crates/protocol/src/     *)
(* lib.rs.  It is a pure function from a proof input to a statement, or an *)
(* error.  An input is accepted when every check of the code passes; which *)
(* error a refused input is given is left out, since nothing is computed   *)
(* from it.                                                                *)
(*                                                                         *)
(* A SHA-256 digest, an encoded message and an encoded statement are       *)
(* records of what was hashed or encoded: every encoding involved has      *)
(* fixed-width or length-prefixed fields, so it is injective, and the hash *)
(* is taken to be collision free.  A signature is the record of its key    *)
(* and its message.                                                        *)
(***************************************************************************)
EXTENDS Integers, Sequences

CONSTANTS
  ValidKey,        \* the points G1 decodes to other than infinity
  Reserve,         \* RESERVE: the unissued value every bridge head carries
  MaxAmount,       \* u64::MAX
  MaxNonce,        \* u32::MAX
  NativeToken,     \* NATIVE_TOKEN_ID
  HashRank(_)      \* a transaction id's position in the byte order of ids

ASSUME CoinsAssumption ==
  /\ Reserve \in Nat
  /\ MaxAmount \in Nat
  /\ MaxNonce \in Nat

-----------------------------------------------------------------------------
(* Account state                                                           *)

AccountId == 0 .. 2
TransferSenderId == 0
WithdrawalAccountId == 1
FeeAccountId == 2

Amount == 0 .. MaxAmount
Nonce == 0 .. MaxNonce

\* The values the Rust type AccountState ranges over, for a set of keys.
AccountState(Key) ==
  [AccountId -> [key : Key, balance : Amount, nonce : Nonce]]

ZeroState(keys) ==
  [id \in AccountId |-> [key |-> keys[id], balance |-> 0, nonce |-> 0]]

\* Every key decodes, and no account repeats the key of an earlier one.
Validate(state) ==
  \A id \in AccountId :
    /\ state[id].key \in ValidKey
    /\ \A earlier \in 0 .. id - 1 : state[earlier].key # state[id].key

Root(state) == [root |-> state]

Backing(state) ==
  Reserve + state[0].balance + state[1].balance + state[2].balance

\* checked_add never wraps: the partial sums are no larger than the last.
RequireBacking_Unchecked(state, supplied) == Backing(state) <= MaxAmount

RequireBacking(state, supplied) ==
  Backing(state) <= MaxAmount /\ Backing(state) = supplied

-----------------------------------------------------------------------------
(* Outpoints, in the order of their 36-byte encodings                      *)

\* The i-th byte of an output's number, which goes out with the lowest first.
VoutByte(vout, i) == (vout \div 256 ^ (i - 1)) % 256

Before(a, b) ==
  \/ HashRank(a.txid) < HashRank(b.txid)
  \/ /\ HashRank(a.txid) = HashRank(b.txid)
     /\ \E i \in 1 .. 4 :
          /\ VoutByte(a.vout, i) < VoutByte(b.vout, i)
          /\ \A j \in 1 .. i - 1 : VoutByte(a.vout, j) = VoutByte(b.vout, j)

-----------------------------------------------------------------------------
(* Collection of two deposits                                              *)

CreditAccount(state, deposit) ==
  [state EXCEPT ![deposit.recipient_id].balance = @ + deposit.value]

CollectedState(input) ==
  CreditAccount(CreditAccount(input.old_state, input.deposits[1]),
                input.deposits[2])

CollectedBacking(input) ==
  input.old_backing + (input.deposits[1].value + input.deposits[2].value)

\* checked_add on the account, for the deposits in their order.
Creditable(state, deposit) ==
  /\ deposit.value # 0
  /\ deposit.recipient_id \in AccountId
  /\ state[deposit.recipient_id].balance + deposit.value <= MaxAmount

CollectionAccepted(input) ==
  /\ Validate(input.old_state)
  /\ RequireBacking(input.old_state, input.old_backing)
  /\ Before(input.deposits[1].outpoint, input.deposits[2].outpoint)
  /\ Creditable(input.old_state, input.deposits[1])
  /\ Creditable(CreditAccount(input.old_state, input.deposits[1]),
                input.deposits[2])
  /\ input.deposits[1].value + input.deposits[2].value <= MaxAmount
  /\ CollectedBacking(input) <= MaxAmount
  /\ RequireBacking(CollectedState(input), CollectedBacking(input))

CollectionStatement(input) ==
  [action |-> "collect",
   bridge_id |-> input.bridge_id,
   bridge_prevout |-> input.bridge_prevout,
   old_root |-> Root(input.old_state),
   new_root |-> Root(CollectedState(input)),
   old_backing |-> input.old_backing,
   new_backing |-> CollectedBacking(input),
   deposits |->
     [k \in 1 .. 2 |->
        [outpoint |-> input.deposits[k].outpoint,
         value |-> input.deposits[k].value,
         recipient_id |-> input.deposits[k].recipient_id,
         key |-> input.old_state[input.deposits[k].recipient_id].key]]]

-----------------------------------------------------------------------------
(* Messages and signatures                                                 *)

Signature(key, message) == [key |-> key, message |-> message]

ValidSignature(key, message, signature) == signature = Signature(key, message)

\* Transaction::message_to_sign of the pinned Coins crate: the transfer's
\* fields and the sender's nonce, with no mention of any bridge.
NativeMessage(transfer, nonce) ==
  [domain |-> "native", transfer |-> transfer, nonce |-> nonce]

ScopedTransferMessage_Unscoped(bridge_id, native) ==
  [domain |-> "transfer-auth", native |-> native]

ScopedTransferMessage(bridge_id, native) ==
  [domain |-> "transfer-auth", bridge_id |-> bridge_id, native |-> native]

WithdrawalMessage(bridge_id, nonce, amount, destination) ==
  [domain |-> "withdrawal", bridge_id |-> bridge_id,
   account |-> WithdrawalAccountId, nonce |-> nonce, amount |-> amount,
   destination |-> destination]

-----------------------------------------------------------------------------
(* Settlement: one transfer and one withdrawal                             *)

\* A destination is 34 bytes that begin OP_1 PUSH32.
IsP2TR(spk) == spk.kind \in {"program", "deposit", "key"}

\* An account whose balance changes by delta as it signs that many requests.
Moved(account, delta, requests) ==
  [key |-> account.key,
   balance |-> account.balance + delta,
   nonce |-> account.nonce + requests]

TransferApplied_SameNonce(state, transfer) ==
  [state EXCEPT
     ![TransferSenderId] = Moved(@, -(transfer.amount + transfer.fee), 0),
     ![WithdrawalAccountId] = Moved(@, transfer.amount, 0),
     ![FeeAccountId] = Moved(@, transfer.fee, 0)]

TransferApplied_CountsBoth(state, transfer) ==
  [state EXCEPT
     ![TransferSenderId] = Moved(@, -(transfer.amount + transfer.fee), 1),
     ![WithdrawalAccountId] = Moved(@, transfer.amount, 1),
     ![FeeAccountId] = Moved(@, transfer.fee, 0)]

TransferApplied(state, transfer) ==
  [state EXCEPT
     ![TransferSenderId] = Moved(@, -(transfer.amount + transfer.fee), 1),
     ![WithdrawalAccountId] = Moved(@, transfer.amount, 0),
     ![FeeAccountId] = Moved(@, transfer.fee, 0)]

SettledState_FromFees(input) ==
  [TransferApplied(input.old_state, input.transfer) EXCEPT
     ![WithdrawalAccountId] = Moved(@, 0, 1),
     ![FeeAccountId] = Moved(@, -input.withdrawal_amount, 0)]

SettledState(input) ==
  [TransferApplied(input.old_state, input.transfer) EXCEPT
     ![WithdrawalAccountId] = Moved(@, -input.withdrawal_amount, 1)]

SettledBacking(input) == input.old_backing - input.withdrawal_amount

TransferSupported(input) ==
  /\ input.transfer.sender_id = TransferSenderId
  /\ input.transfer.recipient_pk = input.old_state[WithdrawalAccountId].key
  /\ input.transfer.token_id = NativeToken

\* Both of account 0's signatures: the native one, which any ledger of the
\* Coins system would take, and the one scoped to this bridge.
TransferAuthorized(input) ==
  LET sender == input.old_state[TransferSenderId]
      native == NativeMessage(input.transfer, sender.nonce)
  IN  /\ ValidSignature(sender.key, native, input.transfer_signature)
      /\ ValidSignature(sender.key,
                        ScopedTransferMessage(input.bridge_id, native),
                        input.scoped_transfer_signature)

\* checked_sub and checked_add of the three balances and the sender's nonce.
TransferFits_Unfunded(input) ==
  /\ input.old_state[TransferSenderId].nonce < MaxNonce
  /\ input.old_state[WithdrawalAccountId].balance + input.transfer.amount
       <= MaxAmount
  /\ input.old_state[FeeAccountId].balance + input.transfer.fee <= MaxAmount

TransferFits(input) ==
  LET sender == input.old_state[TransferSenderId]
      debit == input.transfer.amount + input.transfer.fee
  IN  /\ debit <= MaxAmount
      /\ debit <= sender.balance
      /\ sender.nonce < MaxNonce
      /\ input.old_state[WithdrawalAccountId].balance + input.transfer.amount
           <= MaxAmount
      /\ input.old_state[FeeAccountId].balance + input.transfer.fee
           <= MaxAmount

WithdrawalAuthorized_AnyMessage(input) ==
  LET withdrawing ==
        TransferApplied(input.old_state, input.transfer)[WithdrawalAccountId]
  IN  /\ input.withdrawal_nonce = withdrawing.nonce
      /\ input.withdrawal_amount # 0
      /\ IsP2TR(input.withdrawal_destination)
      /\ input.withdrawal_signature.key = withdrawing.key

WithdrawalAuthorized(input) ==
  LET withdrawing ==
        TransferApplied(input.old_state, input.transfer)[WithdrawalAccountId]
  IN  /\ input.withdrawal_nonce = withdrawing.nonce
      /\ input.withdrawal_amount # 0
      /\ IsP2TR(input.withdrawal_destination)
      /\ ValidSignature(withdrawing.key,
                        WithdrawalMessage(input.bridge_id,
                                          input.withdrawal_nonce,
                                          input.withdrawal_amount,
                                          input.withdrawal_destination),
                        input.withdrawal_signature)

WithdrawalFits(input) ==
  LET withdrawing ==
        TransferApplied(input.old_state, input.transfer)[WithdrawalAccountId]
  IN  /\ input.withdrawal_amount <= withdrawing.balance
      /\ withdrawing.nonce < MaxNonce
      /\ input.withdrawal_amount <= input.old_backing

SettlementAccepted(input) ==
  /\ Validate(input.old_state)
  /\ RequireBacking(input.old_state, input.old_backing)
  /\ TransferSupported(input)
  /\ TransferAuthorized(input)
  /\ TransferFits(input)
  /\ WithdrawalAuthorized(input)
  /\ WithdrawalFits(input)
  /\ RequireBacking(SettledState(input), SettledBacking(input))

SettlementStatement(input) ==
  LET native == NativeMessage(input.transfer,
                              input.old_state[TransferSenderId].nonce)
  IN  [action |-> "transfer_withdraw",
       bridge_id |-> input.bridge_id,
       bridge_prevout |-> input.bridge_prevout,
       old_root |-> Root(input.old_state),
       new_root |-> Root(SettledState(input)),
       old_backing |-> input.old_backing,
       new_backing |-> SettledBacking(input),
       native_hash |-> native,
       scoped_hash |-> ScopedTransferMessage(input.bridge_id, native),
       withdrawal_hash |-> WithdrawalMessage(input.bridge_id,
                                             input.withdrawal_nonce,
                                             input.withdrawal_amount,
                                             input.withdrawal_destination),
       withdrawal_amount |-> input.withdrawal_amount,
       withdrawal_destination |-> input.withdrawal_destination]

-----------------------------------------------------------------------------
(* ProofInput: every number is unsigned and has its width.  A transfer's   *)
(* amount and fee are narrower (u32 and u8), which no check refers to.     *)

HasWidths(input) ==
  /\ input.old_state \in AccountState(ValidKey)
  /\ input.old_backing \in Amount
  /\ input.action = "collect" =>
       \A k \in 1 .. 2 : input.deposits[k].value \in Amount
  /\ input.action = "transfer_withdraw" =>
       {input.transfer.amount, input.transfer.fee, input.withdrawal_amount}
         \subseteq Amount

-----------------------------------------------------------------------------
(* validate_proof_input, the whole of the guest program: the statement an  *)
(* accepted input commits to.                                              *)

Accepts(input) ==
  /\ HasWidths(input)
  /\ \/ input.action = "collect" /\ CollectionAccepted(input)
     \/ input.action = "transfer_withdraw" /\ SettlementAccepted(input)

Statement(input) ==
  IF input.action = "collect"
  THEN CollectionStatement(input)
  ELSE SettlementStatement(input)

=============================================================================
