------------------------------- MODULE Bridge -------------------------------
(***************************************************************************)
(* Bridge instances on a chain.  The chain is the set of its transactions: *)
(* a transaction is confirmed when its inputs are unspent outputs of       *)
(* confirmed transactions and every input's script accepts, and a          *)
(* reorganization disconnects transactions no confirmed one spends from.   *)
(* Anything anybody broadcasts may be confirmed: what is broadcast is a    *)
(* parameter, and the programs have to refuse what they should.            *)
(***************************************************************************)
EXTENDS Host, FiniteSets

CONSTANTS
  Coinbases,            \* the mined transactions everything is funded from
  Terms,                \* the settlements account holders may agree to
  MaxRequests,          \* bound: the settlement requests that are signed
  MaxRefunds,           \* bound: the deposits whose refund is signed
  Payments(_),          \* the packages broadcast, by what they do, given the
  Collections(_),       \*   chain and the signatures that exist
  Settlements(_, _),
  Refunds(_, _)

ASSUME CoinbasesAssumption ==
  \A tx \in Coinbases :
    /\ tx.ins = <<>>
    /\ Len(tx.outs) \in Nat
    /\ \A j \in 1 .. Len(tx.outs) : tx.outs[j].value \in Amount

\* The amounts of a request are unsigned integers.
ASSUME TermsAssumption ==
  \A terms \in Terms :
    {terms.transfer_amount, terms.transfer_fee, terms.withdrawal_amount}
      \subseteq Amount

VARIABLES
  confirmed,    \* the transactions of the chain
  agreed,       \* the settlement requests the account holders have signed
  refunding,    \* the deposits whose refund their owner has signed
  lineage       \* history: for each identity, the transactions that held its head

vars == <<confirmed, agreed, refunding, lineage>>

-----------------------------------------------------------------------------
(* The chain                                                               *)

IsSpent(outpoint, chain) ==
  \E tx \in chain : \E i \in 1 .. Len(tx.ins) : tx.ins[i] = outpoint

Unspent(chain) ==
  {outpoint \in UNION {{OutPoint(tx, j - 1) : j \in 1 .. Len(tx.outs)}
                         : tx \in chain} : ~ IsSpent(outpoint, chain)}

\* The consensus rules a transaction has to meet besides its scripts.
WellFormed(tx) ==
  /\ DOMAIN tx = {"form", "ins", "outs"}
  /\ Len(tx.ins) \in Nat \ {0}
  /\ Len(tx.outs) \in Nat \ {0}
  /\ \A j \in 1 .. Len(tx.outs) :
       /\ tx.outs[j] = Output(tx.outs[j].value, tx.outs[j].spk)
       /\ tx.outs[j].value \in Amount
  /\ \A i, j \in 1 .. Len(tx.ins) : tx.ins[i] = tx.ins[j] => i = j

InputsAvailable(tx, chain) ==
  \A i \in 1 .. Len(tx.ins) :
    /\ tx.ins[i].txid.tx \in chain
    /\ tx.ins[i] = OutPoint(tx.ins[i].txid.tx, tx.ins[i].vout)
    /\ tx.ins[i].vout \in 0 .. Len(tx.ins[i].txid.tx.outs) - 1
    /\ ~ IsSpent(tx.ins[i], chain)

Total(values, count) ==
  LET sum[k \in 0 .. count] == IF k = 0 THEN 0 ELSE sum[k - 1] + values[k]
  IN  sum[count]

InputValue(tx) ==
  Total([i \in 1 .. Len(tx.ins) |-> SpentValue(tx, i)], Len(tx.ins))

OutputValue(tx) ==
  Total([j \in 1 .. Len(tx.outs) |-> tx.outs[j].value], Len(tx.outs))

Acceptable(package, chain) ==
  LET tx == package.tx
  IN  /\ tx \notin chain
      /\ WellFormed(tx)
      /\ InputsAvailable(tx, chain)
      /\ OutputValue(tx) <= InputValue(tx)
      /\ \A i \in 1 .. Len(tx.ins) : ScriptAccepts(tx, i, package.wit[i])

\* Nobody can present a signature its key holder has not made.
SignaturesIn(witness) ==
  CASE witness.path = "settlement" -> {witness.proof.transfer_signature,
                                       witness.proof.scoped_transfer_signature,
                                       witness.proof.withdrawal_signature}
    [] witness.path = "refund" -> {witness.signature}
    [] OTHER -> {}

RequestSignatures(request) ==
  {NativeSignature(request.sender_nonce, request.terms),
   ScopedSignature(request.bridge_id, request.sender_nonce, request.terms),
   WithdrawalSignature(request.bridge_id, request.withdrawal_nonce,
                       request.terms)}

RefundSignature(outpoint) ==
  Signature(SpentOutput(outpoint).spk.refund_key, TxId(RefundTx(outpoint)))

Signatures ==
  (UNION {RequestSignatures(request) : request \in agreed})
    \cup {RefundSignature(outpoint) : outpoint \in refunding}

Unforged(package, signatures) ==
  \A i \in 1 .. Len(package.tx.ins) :
    SignaturesIn(package.wit[i]) \subseteq signatures

-----------------------------------------------------------------------------
(* Heads and their lineages                                                *)

SpendsProgram(tx) ==
  \E i \in 1 .. Len(tx.ins) : SpentSpk(tx, i) = Program

\* What opens an instance: output 0 holds the program over a GENESIS caboose
\* of the zero state, and the funding it spends came from the sponsor.
IsGenesis(tx) ==
  /\ OneInputTwoOutputs(tx)
  /\ tx.outs[1].spk = Program
  /\ tx.outs[2] = Output(CabooseValue, Caboose(GenesisState(GenesisRoot)))
  /\ tx.ins[1].vout = 0
  /\ OneInputTwoOutputs(tx.ins[1].txid.tx)
  /\ SpentSpk(tx, 1) = Sponsor

Identities == DOMAIN lineage

HeadOf(b) == lineage[b][Len(lineage[b])]

StateOf(tx) == LastOutput(tx).spk.state

AccountsOf(tx) == StateOf(tx).root.root

Extended(line, tx) ==
  CASE IsGenesis(tx) ->
         [b \in DOMAIN line \cup {TxId(tx)} |->
            IF b = TxId(tx) THEN <<tx>> ELSE line[b]]
    [] SpendsProgram(tx) ->
         [line EXCEPT ![StateOf(tx).bridge_id] = Append(@, tx)]
    [] OTHER -> line

Shortened(line, tx) ==
  CASE IsGenesis(tx) -> [b \in DOMAIN line \ {TxId(tx)} |-> line[b]]
    [] SpendsProgram(tx) ->
         [line EXCEPT ![StateOf(tx).bridge_id] = SubSeq(@, 1, Len(@) - 1)]
    [] OTHER -> line

-----------------------------------------------------------------------------
(* Actions                                                                 *)

Init ==
  /\ confirmed = Coinbases
  /\ agreed = {}
  /\ refunding = {}
  /\ lineage = [b \in {} |-> <<>>]

Confirm(package) ==
  /\ Unforged(package, Signatures)
  /\ Acceptable(package, confirmed)
  /\ confirmed' = confirmed \cup {package.tx}
  /\ lineage' = Extended(lineage, package.tx)
  /\ UNCHANGED <<agreed, refunding>>

\* Funding of sponsors and deposits, the opening of an instance, and any
\* other payment, a copy of the program and a caboose included.
Pay == \E package \in Payments(confirmed) : Confirm(package)

Collect == \E package \in Collections(confirmed) : Confirm(package)

Settle == \E package \in Settlements(confirmed, Signatures) : Confirm(package)

Refund == \E package \in Refunds(confirmed, Signatures) : Confirm(package)

\* signed_settlement: the holders of accounts 0 and 1 sign a request
\* against the account state of the current head.
SignSettlement(b, terms) ==
  /\ Cardinality(agreed) < MaxRequests
  /\ agreed' = agreed \cup
       {[bridge_id |-> b,
         sender_nonce |-> AccountsOf(HeadOf(b))[TransferSenderId].nonce,
         withdrawal_nonce |-> AccountsOf(HeadOf(b))[WithdrawalAccountId].nonce,
         terms |-> terms]}
  /\ UNCHANGED <<confirmed, refunding, lineage>>

\* A depositor signs the refund of the deposit.
SignRefund(outpoint) ==
  /\ Cardinality(refunding) < MaxRefunds
  /\ SpentOutput(outpoint).spk.kind = "deposit"
  /\ refunding' = refunding \cup {outpoint}
  /\ UNCHANGED <<confirmed, agreed, lineage>>

Disconnect_Coinbase(tx) ==
  /\ \A j \in 1 .. Len(tx.outs) : ~ IsSpent(OutPoint(tx, j - 1), confirmed)
  /\ confirmed' = confirmed \ {tx}
  /\ lineage' = Shortened(lineage, tx)
  /\ UNCHANGED <<agreed, refunding>>

\* A reorganization, one transaction at a time from the tip.
Disconnect(tx) ==
  /\ tx \notin Coinbases
  /\ \A j \in 1 .. Len(tx.outs) : ~ IsSpent(OutPoint(tx, j - 1), confirmed)
  /\ confirmed' = confirmed \ {tx}
  /\ lineage' = Shortened(lineage, tx)
  /\ UNCHANGED <<agreed, refunding>>

Next ==
  \/ Pay
  \/ Collect
  \/ Settle
  \/ Refund
  \/ \E b \in Identities, terms \in Terms : SignSettlement(b, terms)
  \/ \E outpoint \in Unspent(confirmed) : SignRefund(outpoint)
  \/ \E tx \in confirmed : Disconnect(tx)

Spec == Init /\ [][Next]_vars

-----------------------------------------------------------------------------
(* Properties                                                              *)

ParentOf(tx) == tx.ins[1].txid.tx

IsCollection(tx) == SpendsProgram(tx) /\ Len(tx.ins) = 4

IsSettlement(tx) == SpendsProgram(tx) /\ Len(tx.ins) = 2

\* The identity whose head a transaction created.
IdentityOf(tx) ==
  IF IsGenesis(tx) THEN TxId(tx) ELSE StateOf(tx).bridge_id

\* Types: confirmed transactions are well formed, the coinbases stay, and a
\* lineage is a non-empty sequence of confirmed transactions.
TypeOK ==
  /\ Coinbases \subseteq confirmed
  /\ \A tx \in confirmed \ Coinbases : WellFormed(tx)
  /\ lineage \in [Identities -> Seq(confirmed)]
  /\ \A b \in Identities : lineage[b] # <<>>

\* docs/protocol.md, "Every transition authenticates": each lineage starts
\* at the genesis whose txid is its identity, every later transaction spends
\* output 0 of the one before and keeps the identity in its caboose, and no
\* transaction outside the lineages ever spends the program, so a copied
\* program and caboose never advances.
LineagesAuthentic ==
  /\ \A b \in Identities :
       /\ IsGenesis(lineage[b][1])
       /\ TxId(lineage[b][1]) = b
       /\ \A k \in 2 .. Len(lineage[b]) :
            /\ lineage[b][k].ins[1] = OutPoint(lineage[b][k - 1], 0)
            /\ StateOf(lineage[b][k]).bridge_id = b
  /\ \A tx \in confirmed :
       SpendsProgram(tx) =>
         \E b \in Identities : \E k \in 2 .. Len(lineage[b]) :
           lineage[b][k] = tx

\* An identity has one head: of all the confirmed transactions that created
\* a head for it, exactly the last of its lineage still has output 0
\* unspent, through forks and reorganizations.
OneHead ==
  \A b \in Identities : \A tx \in confirmed :
    (IsGenesis(tx) \/ SpendsProgram(tx)) /\ IdentityOf(tx) = b =>
      (IsSpent(OutPoint(tx, 0), confirmed) <=> tx # HeadOf(b))

\* docs/protocol.md, the money invariant: what a head holds is the reserve
\* plus every balance of the account state its caboose commits to.
MoneyInvariant ==
  \A tx \in confirmed :
    SpendsProgram(tx) => tx.outs[1].value = Backing(AccountsOf(tx))

\* What the deposit at input i of a collection credits to an account.
CreditTo(tx, i, id) ==
  IF SpentSpk(tx, i).recipient_id = id THEN SpentValue(tx, i) ELSE 0

\* IMPLEMENTATION_PLAN.md, "never confirm both refund and collection": a
\* deposit leaves the chain's unspent outputs by its owner's signature, or by
\* a collection of the identity it names that credits exactly its value to
\* the account it names, and nothing else changes in the account state.
DepositsRefundedOrCredited ==
  \A tx \in confirmed : \A i \in 1 .. Len(tx.ins) :
    SpentSpk(tx, i).kind = "deposit" /\ SpentSpk(tx, i).program = Program =>
      \/ tx.ins[i] \in refunding /\ tx = RefundTx(tx.ins[i])
      \/ /\ IsCollection(tx)
         /\ StateOf(tx).bridge_id = SpentSpk(tx, i).bridge_id
         /\ \A id \in AccountId :
              AccountsOf(tx)[id] =
                Moved(AccountsOf(ParentOf(tx))[id],
                      CreditTo(tx, 2, id) + CreditTo(tx, 3, id), 0)

\* docs/protocol.md, Transfer and withdrawal: a settlement moves only what
\* the holder of account 0 agreed to for this identity and its nonce, and
\* pays out only what the holder of account 1 agreed to likewise.
SettlementsAuthorized ==
  \A tx \in confirmed :
    IsSettlement(tx) =>
      LET old == AccountsOf(ParentOf(tx))
          b == StateOf(tx).bridge_id
      IN  \E moved, paid \in agreed :
            /\ moved.bridge_id = b
            /\ moved.sender_nonce = old[0].nonce
            /\ paid.bridge_id = b
            /\ paid.withdrawal_nonce = old[1].nonce
            /\ tx.outs[2] = Output(paid.terms.withdrawal_amount,
                                   paid.terms.withdrawal_destination)
            /\ AccountsOf(tx)[0] =
                 Moved(old[0], -(moved.terms.transfer_amount
                                   + moved.terms.transfer_fee), 1)
            /\ AccountsOf(tx)[1] =
                 Moved(old[1], moved.terms.transfer_amount
                                 - paid.terms.withdrawal_amount, 1)
            /\ AccountsOf(tx)[2] = Moved(old[2], moved.terms.transfer_fee, 0)

\* A signed request moves money once: no two settlements of one lineage
\* start from the same nonce of either signing account.
RequestsSettleOnce ==
  \A b \in Identities : \A j, k \in 2 .. Len(lineage[b]) :
    j < k /\ IsSettlement(lineage[b][j]) =>
      \A id \in {TransferSenderId, WithdrawalAccountId} :
        AccountsOf(lineage[b][j - 1])[id].nonce
          < AccountsOf(lineage[b][k - 1])[id].nonce

\* lib.rs, the account roles: account 2 has no debit, so what is credited to
\* it as fees or by deposits stays in the head, whatever the others agree to.
FeesStay ==
  \A b \in Identities : \A j, k \in 1 .. Len(lineage[b]) :
    j < k => AccountsOf(lineage[b][j])[FeeAccountId].balance
               <= AccountsOf(lineage[b][k])[FeeAccountId].balance

\* lib.rs, checked_add and checked_sub: no balance or nonce a head commits to
\* ever left its integer width, and the account keys are the deployment's.
AccountsInWidth ==
  \A tx \in confirmed :
    SpendsProgram(tx) =>
      \A id \in AccountId :
        /\ AccountsOf(tx)[id].key = AccountKeys[id]
        /\ AccountsOf(tx)[id].balance \in Amount
        /\ AccountsOf(tx)[id].nonce \in Nonce

\* docs/protocol.md: "The sponsor pays the exact miner fee", whatever the
\* spender put in the outputs.
ExactFee ==
  \A tx \in confirmed :
    SpendsProgram(tx) => InputValue(tx) - OutputValue(tx) = MinerFee

\* The head spends of feature_bridge.py, from a head and its own parent.
HonestCollection(b, deposits, sponsor) ==
  LET head == HeadOf(b)
      proof == CollectionInput(b, OutPoint(head, 0), AccountsOf(head),
                               head.outs[1].value,
                               [k \in 1 .. 2 |-> DepositRecord(deposits[k])])
      new_state == ActiveState(b, Statement(proof).new_root)
  IN  CollectionPackage(CollectTx(head, deposits, sponsor, new_state), head,
                        ParentOf(head), b, StateOf(head), new_state, proof)

HonestSettlement(b, terms, sponsor) ==
  LET head == HeadOf(b)
      old == AccountsOf(head)
      proof == SettlementInput(b, OutPoint(head, 0), old, head.outs[1].value,
                 terms,
                 <<NativeSignature(old[0].nonce, terms),
                   ScopedSignature(b, old[0].nonce, terms),
                   WithdrawalSignature(b, old[1].nonce, terms)>>)
      new_state == ActiveState(b, Statement(proof).new_root)
  IN  SettlementPackage(
        SettlementTx(head, sponsor, new_state, terms.withdrawal_amount,
                     terms.withdrawal_destination),
        head, ParentOf(head), b, StateOf(head), new_state, proof)

\* An instance that was opened with the reserve can advance.
Advances(b) == Len(lineage[b]) > 1 \/ HeadOf(b).outs[1].value = Reserve

SponsorCoins ==
  {o \in Unspent(confirmed) : SpentOutput(o).spk = Sponsor
                              /\ SpentOutput(o).value >= MinerFee + CabooseValue}

\* The unspent deposits that deposit.py made for an instance.
DepositsOf(b) ==
  {o \in Unspent(confirmed) :
     LET spk == SpentOutput(o).spk
     IN  /\ spk.kind = "deposit"
         /\ spk.recipient_id \in AccountId
         /\ spk = DepositFor(b, spk.recipient_id, spk.refund_key)
         /\ SpentOutput(o).value # 0}

\* A package the next block may hold.
Confirmable(package) ==
  Unforged(package, Signatures) /\ Acceptable(package, confirmed)

\* IMPLEMENTATION_PLAN.md, "Deposits remain collectible because their
\* identity is stable": any two unspent deposits of an instance can be
\* collected at its head, however the head came to be; and any unspent
\* deposit can be refunded by its owner alone.
DepositsStaySpendable ==
  /\ \A b \in Identities : Advances(b) =>
       \A d1, d2 \in DepositsOf(b) : \A sponsor \in SponsorCoins :
         LET total == HeadOf(b).outs[1].value
                        + SpentOutput(d1).value + SpentOutput(d2).value
         IN  d1 # d2 /\ Before(d1, d2) /\ total <= MaxAmount =>
               Confirmable(HonestCollection(b, <<d1, d2>>, sponsor))
  /\ \A o \in Unspent(confirmed) :
       SpentOutput(o).spk.kind = "deposit" /\ SpentOutput(o).value >= MinerFee =>
         LET package == RefundPackage(o, RefundSignature(o))
         IN  /\ Acceptable(package, confirmed)
             /\ o \in refunding => Unforged(package, Signatures)

\* What the two accounts can pay, to a destination the relation takes.
Funded(terms, old) ==
  /\ terms.transfer_amount + terms.transfer_fee <= old[0].balance
  /\ terms.withdrawal_amount <= old[1].balance + terms.transfer_amount
  /\ terms.withdrawal_amount # 0
  /\ IsP2TR(terms.withdrawal_destination)
  /\ old[0].nonce < MaxNonce /\ old[1].nonce < MaxNonce

\* A funded request signed at the current nonces settles at the head, after
\* a collection and after a settlement alike.
SignedRequestsSettle ==
  \A b \in Identities : Advances(b) =>
    \A terms \in Terms : \A sponsor \in SponsorCoins :
      LET old == AccountsOf(HeadOf(b))
      IN  /\ [bridge_id |-> b, sender_nonce |-> old[0].nonce,
              withdrawal_nonce |-> old[1].nonce, terms |-> terms] \in agreed
          /\ Funded(terms, old)
          => Confirmable(HonestSettlement(b, terms, sponsor))

\* docs/protocol.md: "the sole successor is exactly output 0 with script P".
SoleSuccessor ==
  \A tx \in confirmed :
    SpendsProgram(tx) =>
      \A j \in 1 .. Len(tx.outs) : tx.outs[j].spk = Program <=> j = 1

-----------------------------------------------------------------------------
(* The promise the bridge keeps                                            *)

\* What a head commits to and holds, and what the transaction paid out.
EntryOf(tx) ==
  [balance |-> [id \in AccountId |-> AccountsOf(tx)[id].balance],
   nonce |-> [id \in AccountId |-> AccountsOf(tx)[id].nonce],
   value |-> tx.outs[1].value,
   payout |-> IF IsSettlement(tx) THEN {tx.outs[2]} ELSE {}]

Entries(line) == [k \in 1 .. Len(line) |-> EntryOf(line[k])]

Book == [b \in Identities |-> Entries(lineage[b])]

Ledger == INSTANCE Custody WITH book <- Book, agreed <- agreed

\* docs/protocol.md, the money invariant and the authorization of transfers
\* and withdrawals, as one refinement: whatever is broadcast, signed or
\* disconnected, the heads of the chain are the books Custody promises.
KeepsCustody == Ledger!Spec

=============================================================================
